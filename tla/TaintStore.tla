------------------------------ MODULE TaintStore ------------------------------
(***************************************************************************)
(* SessionTaintStore (taint.py): the spans that tools of a declared source *)
(* namespace returned to a session, which the egress fence of the plugin   *)
(* looks for in outbound arguments.  TaintSessions are evicted least recently   *)
(* active first, the spans of a session oldest first.  capture() and the   *)
(* comparison of tainted_source() are critical sections of one lock.       *)
(*                                                                         *)
(* A text stands for a leaf in its normalised form; Within is the          *)
(* substring relation between texts.  A result is the sequence of leaves   *)
(* the walk yields; the leaf None is one over _MAX_TAINT_SPAN_LEN.         *)
(***************************************************************************)
EXTENDS Values, Subsequences, FiniteSets

CONSTANTS
  TaintSessions,
  TaintTexts, Within, LengthOf,  \* LengthOf[t]: the length of the normalised text
  Namespaces,
  SpanFloors,        \* the values of taint_min_span_length
  MaxSpans,      \* _TAINT_MAX_SPANS_PER_SESSION
  MaxSessions,   \* _TAINT_MAX_SESSIONS
  MaxLeaves,     \* _MAX_SCAN_LEAVES
  TaintResults,       \* the results that are captured
  MaxCaptures    \* bound: captures and reloads

Span == [text : TaintTexts, ns : Namespaces]

(* What is owed for a text: see below.                                     *)
Debt == [ns : Namespaces, newer : SUBSET TaintTexts, others : SUBSET TaintSessions]

ASSUME TaintAssumption ==
  /\ None \notin TaintTexts \cup TaintSessions \cup Namespaces \cup Debt
  /\ Within \subseteq TaintTexts \X TaintTexts /\ \A t \in TaintTexts : <<t, t>> \in Within
  /\ {MaxSpans, MaxSessions, MaxLeaves} \subseteq Nat \ {0}
  /\ LengthOf \in [TaintTexts -> Nat] /\ SpanFloors \subseteq Nat
  /\ TaintResults \subseteq Seq(TaintTexts \cup {None})

VARIABLES
  store,   \* [TaintSessions -> <<[text, ns], ...>>], oldest span first
  order,   \* the sessions of _store, least recently active first
  floor,   \* _min_span_len
  captures,
  owed     \* history: what was captured, what came after it, who was active since

taintVars == <<store, order, floor, captures, owed>>

Texted(spans) == {spans[i].text : i \in DOMAIN spans}

(* Mutant: the oldest span makes room before the leaf is known to be new.  *)
CaptureLeafEvictingFirst(spans, leaf, ns) ==
  IF leaf = None \/ LengthOf[leaf] < floor THEN spans
  ELSE LET room == IF Len(spans) = MaxSpans THEN Tail(spans) ELSE spans
       IN  IF leaf \in Texted(room) THEN room ELSE Append(room, [text |-> leaf, ns |-> ns])

(* One leaf: the first source wins; a new span may push out the oldest.    *)
CaptureLeaf(spans, leaf, ns) ==
  IF leaf = None \/ leaf \in Texted(spans) \/ LengthOf[leaf] < floor THEN spans
  ELSE LET all == Append(spans, [text |-> leaf, ns |-> ns])
       IN  IF Len(all) > MaxSpans THEN Tail(all) ELSE all

Walked(result) == SubSeq(result, 1, IF Len(result) < MaxLeaves THEN Len(result) ELSE MaxLeaves)

(* The walk over the leaves of a result.                                   *)
Captured(spans, leaves, ns) ==
  LET after[n \in 0 .. Len(leaves)] ==
        IF n = 0 THEN spans ELSE CaptureLeaf(after[n - 1], leaves[n], ns)
  IN  after[Len(leaves)]

(* The session becomes the most recently active one.                       *)
Touch(s) == Append(Only(order, {k \in DOMAIN order : order[k] # s}), s)

-----------------------------------------------------------------------------
(* History.  owed[s][t]: nothing, or the namespace t was captured from,    *)
(* the texts captured in s after it, and the sessions active after s.      *)
Alive(o) == o # None /\ Cardinality(o.newer) < MaxSpans /\ Cardinality(o.others) < MaxSessions

OweLeaf(owing, leaf, ns) ==
  IF leaf = None \/ LengthOf[leaf] < floor \/ Alive(owing[leaf]) THEN owing
  ELSE [t \in TaintTexts |->
          IF t = leaf THEN [ns |-> ns, newer |-> {}, others |-> {}]
          ELSE IF owing[t] = None THEN None
          ELSE [owing[t] EXCEPT !.newer = @ \cup {leaf}]]

Owing(owing, leaves, ns) ==
  LET after[n \in 0 .. Len(leaves)] ==
        IF n = 0 THEN owing ELSE OweLeaf(after[n - 1], leaves[n], ns)
  IN  after[Len(leaves)]

(* s is active: its spans are as good as new, those of the others age.     *)
Aged(s) ==
  [r \in TaintSessions |-> [t \in TaintTexts |->
     IF owed[r][t] = None \/ ~Alive(owed[r][t]) THEN None
     ELSE IF r = s THEN [owed[r][t] EXCEPT !.others = {}]
     ELSE [owed[r][t] EXCEPT !.others = @ \cup {s}]]]

-----------------------------------------------------------------------------
Capture(s, result, ns) ==
  LET spans == Captured(store[s], Walked(result), ns)
      touched == Touch(s)
      evicted == IF Len(touched) > MaxSessions THEN Head(touched) ELSE None
  IN  /\ captures < MaxCaptures
      /\ captures' = captures + 1
      /\ order' = IF evicted = None THEN touched ELSE Tail(touched)
      /\ store' = [r \in TaintSessions |-> IF r = evicted THEN <<>> ELSE IF r = s THEN spans ELSE store[r]]
      /\ owed' = [Aged(s) EXCEPT ![s] = Owing(@, Walked(result), ns)]
      /\ UNCHANGED floor

(* The first span, in the order of insertion, that an argument carries.    *)
TaintedSource(s, args) ==
  LET hits == {i \in DOMAIN store[s] : \E a \in args : <<store[s][i].text, a>> \in Within}
  IN  IF hits = {} THEN None
      ELSE store[s][CHOOSE i \in hits : \A j \in hits : i <= j].ns

(* tainted_source() keeps a session that has spans from being evicted.     *)
CheckArgs(s) ==
  /\ store[s] # <<>>
  /\ order' = Touch(s)
  /\ owed' = Aged(s)
  /\ UNCHANGED <<store, floor, captures>>

(* apply_config(): for future captures.                                    *)
ReloadFloor(f) ==
  /\ captures < MaxCaptures /\ f # floor
  /\ captures' = captures + 1
  /\ floor' = f
  /\ UNCHANGED <<store, order, owed>>

TaintInit ==
  /\ store = [s \in TaintSessions |-> <<>>]
  /\ order = <<>>
  /\ floor \in SpanFloors
  /\ captures = 0
  /\ owed = [s \in TaintSessions |-> [t \in TaintTexts |-> None]]

TaintNext ==
  \/ \E s \in TaintSessions, result \in TaintResults, ns \in Namespaces : Capture(s, result, ns)
  \/ \E s \in TaintSessions : CheckArgs(s)
  \/ \E f \in SpanFloors : ReloadFloor(f)

TaintSpec == TaintInit /\ [][TaintNext]_taintVars

-----------------------------------------------------------------------------
(* An argument is refused exactly when it carries a text that was captured *)
(* in its own session and since then neither as many other texts as a      *)
(* session may hold were captured there nor as many other sessions as the  *)
(* store may hold were active; the namespace named is one it came from     *)
(* (taint.py:147-202).                                                     *)
Carried(s, args) == {t \in TaintTexts : Alive(owed[s][t]) /\ \E a \in args : <<t, a>> \in Within}
TaintHolds ==
  \A s \in TaintSessions, args \in SUBSET TaintTexts :
    IF Carried(s, args) = {} THEN TaintedSource(s, args) = None
    ELSE TaintedSource(s, args) \in {owed[s][t].ns : t \in Carried(s, args)}
=============================================================================
