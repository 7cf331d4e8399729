---------------------------- MODULE SyntacticScan ----------------------------
(***************************************************************************)
(* MinimalScanner.scan() (minimal.py): batteries of patterns over several  *)
(* views of one text, then the same batteries over whatever its encoded    *)
(* spans decode to, each battery adding to one list of findings.  A string *)
(* is the set of the patterns that match in it; a view that normalisation  *)
(* does not produce is a string without a match.  Spans of text, messages  *)
(* and the patterns themselves are left out.                               *)
(***************************************************************************)
EXTENDS Naturals, SequencesExt

CONSTANTS
  Injections,    \* the rules of _INJECTION_PATTERNS
  Commands,      \* the rules of _COMMAND_PATTERNS
  MaxBlobs,      \* _DECODE_MAX_BLOBS
  Inputs         \* a text, how it is scanned and what the profile suppresses

Structurals  == {"oversized-payload", "binary-content", "excessive-depth"}
Encodings    == {"invisible-chars", "base64-in-text", "homoglyph-substitution", "rtl-override"}
RoleSwitches == {"role-switch-capability", "role-switch-only"}
Directives   == {"agent-directed-fetch"}

Rules == Structurals \cup Encodings \cup RoleSwitches \cup Directives \cup Injections \cup Commands
Patterns == {"trigger", "grant", "directive"} \cup Injections \cup Commands

(* A decoded text: as decoded, normalised, and its extra views.  That of   *)
(* ROT13 is not a blob: it maps one to one to the text.                    *)
Candidate == [blob : BOOLEAN, raw : SUBSET Patterns, normalized : SUBSET Patterns,
              separator : SUBSET Patterns, composed : SUBSET Patterns]

Input == [outbound : BOOLEAN, decode : BOOLEAN, suppress : SUBSET Rules,
          structural : SUBSET Structurals, encoding : SUBSET Encodings,
          normalized : SUBSET Patterns, leet : SUBSET Patterns,
          separator : SUBSET Patterns, composed : SUBSET Patterns,
          spans : Seq(Seq(Candidate)), rot13 : Candidate]

SyntacticAssumption == MaxBlobs \in Nat /\ Inputs \subseteq Input

VARIABLES
  input,
  at,         \* the step of _scan_impl() that is next
  findings,   \* what was found, at which severity, in which candidate, 0 for the text
  seen,       \* seen_rule_ids
  left,       \* the candidates that are still to be scanned
  matched     \* the steps that tell the escalation of a match

ssvars == <<input, at, findings, seen, left, matched>>

Severity(rule) ==
  CASE rule \in Structurals -> "critical"
    [] rule \in {"invisible-chars", "rtl-override"} -> "medium"
    [] rule \in {"role-switch-only", "base64-in-text", "homoglyph-substitution"} -> "low"
    [] OTHER -> "high"

Found(rules, place) ==
  findings' = findings \cup {[rule |-> r, severity |-> Severity(r), in |-> place] : r \in rules}

Matches(step, yes) == matched' = IF yes THEN matched \cup {step} ELSE matched

(* The constructor: a profile cannot suppress what detects injections.     *)
Unsuppressible == Structurals \cup Injections \cup RoleSwitches \cup Directives
Suppressed == input.suppress \ Unsuppressible

(* Mutant: the halves may come from different views.                       *)
RoleSwitchAcross(views) ==
  LET all == UNION views
  IN  IF "trigger" \notin all THEN {}
      ELSE IF "grant" \in all THEN {"role-switch-capability"} ELSE {"role-switch-only"}

(* _same_view_role_switch(): a grant counts in the view of its trigger.    *)
RoleSwitch(views) ==
  LET triggered == {v \in views : "trigger" \in v}
  IN  IF triggered = {} THEN {}
      ELSE IF \E v \in triggered : "grant" \in v THEN {"role-switch-capability"} ELSE {"role-switch-only"}

Directive(views) == IF \E v \in views : "directive" \in v THEN Directives ELSE {}

FamilyViews == {input.normalized, input.separator}

-----------------------------------------------------------------------------
CheckStructural ==
  /\ at = "structural" /\ at' = "injection"
  /\ Found(input.structural, 0)
  /\ UNCHANGED <<input, seen, left, matched>>

(* Every rule is searched in the views in turn, up to its first match.     *)
CheckInjection ==
  LET hits == Injections \cap UNION {input.normalized, input.leet, input.separator, input.composed}
  IN  /\ at = "injection" /\ at' = "role-switch"
      /\ Found(hits \ Suppressed, 0)
      /\ Matches("injection", hits \ Suppressed # {})
      /\ UNCHANGED <<input, seen, left>>

CheckRoleSwitch ==
  /\ at = "role-switch" /\ at' = "directive"
  /\ Found(RoleSwitch(FamilyViews) \ Suppressed, 0)
  /\ UNCHANGED <<input, seen, left, matched>>

CheckAgentDirective ==
  /\ at = "directive" /\ at' = "command"
  /\ Found(Directive(FamilyViews), 0)
  /\ Matches("directive", Directive(FamilyViews) # {})
  /\ UNCHANGED <<input, seen, left>>

CheckCommand ==
  /\ at = "command" /\ at' = "encoded"
  /\ Found(IF input.outbound THEN (Commands \cap UNION FamilyViews) \ Suppressed ELSE {}, 0)
  /\ UNCHANGED <<input, seen, left, matched>>

(* Both codecs of each span within the budget, then ROT13.                 *)
Attempted == SubSeq(input.spans, 1, IF Len(input.spans) < MaxBlobs THEN Len(input.spans) ELSE MaxBlobs)
Candidates == Append(FlattenSeq(Attempted), input.rot13)

(* Mutant: the rescans are kept apart from each other only.                *)
CheckEncodedUnseeded ==
  /\ at = "encoded" /\ at' = "rescan"
  /\ left' = IF input.decode THEN Candidates ELSE <<>>
  /\ seen' = {}
  /\ UNCHANGED <<input, findings, matched>>

(* The rules the text itself has matched are not reported a second time.   *)
CheckEncodedPayloads ==
  /\ at = "encoded" /\ at' = "rescan"
  /\ left' = IF input.decode THEN Candidates ELSE <<>>
  /\ seen' = {f.rule : f \in findings}
  /\ UNCHANGED <<input, findings, matched>>

(* The injection and role-switch batteries of one candidate.               *)
DecodedHits(c) ==
  (Injections \cap UNION {c.raw, c.separator, c.composed}) \cup RoleSwitch({c.raw, c.separator})

(* The directive is looked for in normalised text, if the candidate has    *)
(* a position of its own, and only until it was found once.                *)
DecodedDirective(c) ==
  IF \E f \in findings : f.rule \in Directives THEN {}
  ELSE Directive({IF c.blob THEN c.normalized ELSE c.raw, c.separator})

(* Mutant: a match that is not reported again is not counted either.       *)
RescanNewOnly ==
  LET c == Head(left)
      new == (DecodedHits(c) \ seen) \cup DecodedDirective(c)
  IN  /\ at = "rescan" /\ left # <<>>
      /\ Found(new, Len(left))
      /\ seen' = seen \cup new
      /\ Matches("rescan", new # {})
      /\ left' = Tail(left)
      /\ UNCHANGED <<input, at>>

RescanCandidate ==
  LET c == Head(left)
      hits == DecodedHits(c)
  IN  /\ at = "rescan" /\ left # <<>>
      /\ Found((hits \ seen) \cup DecodedDirective(c), Len(left))
      /\ seen' = seen \cup hits
      /\ Matches("rescan", hits \cup DecodedDirective(c) # {})
      /\ left' = Tail(left)
      /\ UNCHANGED <<input, at>>

CheckEncoding ==
  /\ at = "rescan" /\ left = <<>> /\ at' = "escalation"
  /\ Found(input.encoding \ Suppressed, 0)
  /\ UNCHANGED <<input, seen, left, matched>>

(* Invisible characters beside an injection are no accident.               *)
ApplyEscalation ==
  /\ at = "escalation" /\ at' = "scanned"
  /\ findings' = {IF f.rule = "invisible-chars" /\ matched # {} THEN [f EXCEPT !.severity = "high"]
                                                                 ELSE f : f \in findings}
  /\ UNCHANGED <<input, seen, left, matched>>

(* What raises at any step makes an error of the scan, without findings.   *)
Raises ==
  /\ at \notin {"scanned", "error"}
  /\ at' = "error" /\ findings' = {}
  /\ UNCHANGED <<input, seen, left, matched>>

Init ==
  /\ input \in Inputs
  /\ at = "structural" /\ findings = {} /\ seen = {} /\ left = <<>> /\ matched = {}

Next ==
  \/ CheckStructural \/ CheckInjection \/ CheckRoleSwitch \/ CheckAgentDirective \/ CheckCommand
  \/ CheckEncodedPayloads \/ RescanCandidate \/ CheckEncoding \/ ApplyEscalation \/ Raises

-----------------------------------------------------------------------------
(* What the views of a text, or of what was decoded, amount to.            *)
Roles(views) ==
  {r \in RoleSwitches : /\ \E v \in views : "trigger" \in v
                        /\ r = "role-switch-capability" <=> \E v \in views : {"trigger", "grant"} \subseteq v}

Told(views) == {r \in Directives : "directive" \in UNION views}

(* What alarms in the text itself.                                         *)
Plain == (Injections \cap UNION {input.normalized, input.leet, input.separator, input.composed})
           \cup Told(FamilyViews)

(* What alarms in the encodings a scan looks at.                           *)
Decoded ==
  UNION {(Injections \cap (c.raw \cup c.separator \cup c.composed)) \cup Roles({c.raw, c.separator})
           \cup Told({IF c.blob THEN c.normalized ELSE c.raw, c.separator}) :
         c \in IF input.decode THEN ToSet(Candidates) ELSE {}}

(* A finished scan reports what is in the text or in an encoding of it,    *)
(* whichever step comes upon it first: every rule once, as the weights of  *)
(* the session's score require, none of the detection of injections        *)
(* suppressed by a profile, a grant only with the trigger of its own view, *)
(* and invisible characters as severe as what stands beside them           *)
(* (minimal.py:730-785, :1106-1116, :1142-1156).                           *)
ScanIsExact ==
  at = "scanned" =>
    LET optional == input.encoding \cup (IF input.outbound THEN Commands \cap UNION FamilyViews ELSE {})
        present == Plain \cup Roles(FamilyViews) \cup Decoded \cup input.structural
    IN  /\ \A f, g \in findings : f.rule = g.rule => f = g
        /\ {f.rule : f \in findings} = present \cup (optional \ input.suppress)
        /\ \A f \in findings :
             f.severity = IF f.rule = "invisible-chars" /\ Plain \cup Decoded # {}
                          THEN "high" ELSE Severity(f.rule)
=============================================================================
