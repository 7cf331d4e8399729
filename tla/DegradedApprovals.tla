-------------------------- MODULE DegradedApprovals --------------------------
(***************************************************************************)
(* What a human's answer waives in the reference plugin: a dangerous call  *)
(* whose parameter scan was degraded asks for approval once, and later     *)
(* calls of the same Petasos session pass if the human confirmed for the   *)
(* session.  The call remembers its session under the identity the host    *)
(* has for it, the response hook comes with that identity, on another      *)
(* thread and maybe much later, or never.                                  *)
(***************************************************************************)
EXTENDS Values, Naturals, SequencesExt

CONSTANTS
  ApprovalSessions,   \* Petasos sessions
  PromptedCalls,      \* what the host calls a tool call: its session, turn and call id
  SessionOf,          \* the Petasos session of a call
  MaxPending,         \* _MAX_DEGRADED_PENDING
  MaxPrompts          \* bound: prompts altogether

Rules == {"degraded", "command"}
HostChoices == {"once", "session", "always", "deny", None}

ASSUME DegradedAssumption ==
  /\ SessionOf \in [PromptedCalls -> ApprovalSessions]
  /\ MaxPending \in Nat \ {0} /\ MaxPrompts \in Nat

VARIABLES
  approves,   \* posture "approve", a host that can ask, no yolo
  always,     \* the rules that the profile home has approved for good
  pending,    \* _degraded_approve_pending: the calls, in order of insertion
  recorded,   \* _degraded_approve_sessions
  call,       \* the directive of each call: None, "noting", "allow", "block" or "approve"
  asked,      \* the rule of the prompt that waits at the host; None
  prompts,
  waived      \* history: the sessions whose human confirmed a degraded call

approvalVars == <<approves, always, pending, recorded, call, asked, prompts, waived>>

-----------------------------------------------------------------------------
(* The tail of _dangerous_tool_directive(): the command findings that are  *)
(* left decide.                                                            *)
CommandDirective(c, command) ==
  IF ~command \/ "command" \in always
    THEN call' = [call EXCEPT ![c] = "allow"] /\ UNCHANGED <<asked, prompts>>
  ELSE IF approves
    THEN /\ call' = [call EXCEPT ![c] = "approve"] /\ asked' = [asked EXCEPT ![c] = "command"]
         /\ prompts' = prompts + 1
  ELSE call' = [call EXCEPT ![c] = "block"] /\ UNCHANGED <<asked, prompts>>

Passes(c) == "degraded" \in always \/ (approves /\ SessionOf[c] \in recorded)
MayDispatch(c) == call[c] # "noting" /\ asked[c] = None /\ prompts < MaxPrompts

(* A call whose parameters were scanned; the host may dispatch it again.   *)
Scanned(c, command) ==
  /\ MayDispatch(c)
  /\ CommandDirective(c, command)
  /\ UNCHANGED <<approves, always, pending, recorded, waived>>

(* A degraded scan that the operator or the human has waived.              *)
DegradedPasses(c, command) ==
  /\ MayDispatch(c) /\ Passes(c)
  /\ CommandDirective(c, command)
  /\ UNCHANGED <<approves, always, pending, recorded, waived>>

DegradedBlocks(c) ==
  /\ MayDispatch(c) /\ ~Passes(c) /\ ~approves
  /\ call' = [call EXCEPT ![c] = "block"]
  /\ UNCHANGED <<approves, always, pending, recorded, asked, prompts, waived>>

DegradedAsks(c) ==
  /\ MayDispatch(c) /\ ~Passes(c) /\ approves
  /\ call' = [call EXCEPT ![c] = "noting"]
  /\ prompts' = prompts + 1
  /\ UNCHANGED <<approves, always, pending, recorded, asked, waived>>

(* _note_degraded_approve_pending(), before the host has the directive.    *)
(* A key that is there keeps its place; the oldest makes room.             *)
Note(c) ==
  LET noted == IF c \in ToSet(pending) THEN pending ELSE Append(pending, c)
  IN  /\ call[c] = "noting"
      /\ pending' = IF Len(noted) > MaxPending THEN Tail(noted) ELSE noted
      /\ call' = [call EXCEPT ![c] = "approve"]
      /\ asked' = [asked EXCEPT ![c] = "degraded"]
      /\ UNCHANGED <<approves, always, recorded, prompts, waived>>

Answers(c, choice) ==
  /\ asked' = [asked EXCEPT ![c] = None]
  /\ always' = IF choice = "always" THEN always \cup {asked[c]} ELSE always
  /\ waived' = IF asked[c] = "degraded" /\ choice \in {"session", "always"}
               THEN waived \cup {SessionOf[c]} ELSE waived

(* Mutant: the answer to any prompt of the call is taken.                  *)
RespondAnyRule(c, choice) ==
  /\ asked[c] # None
  /\ Answers(c, choice)
  /\ pending' = SelectSeq(pending, LAMBDA d : d # c)
  /\ recorded' = IF c \in ToSet(pending) /\ choice \in {"session", "always"}
                 THEN recorded \cup {SessionOf[c]} ELSE recorded
  /\ UNCHANGED <<approves, call, prompts>>

(* The host's answer and _post_approval_response().  The approval is       *)
(* written to the profile home by the host.                                *)
Respond(c, choice) ==
  /\ asked[c] # None
  /\ Answers(c, choice)
  /\ IF asked[c] = "degraded"
       THEN /\ pending' = SelectSeq(pending, LAMBDA d : d # c)
            /\ recorded' = IF c \in ToSet(pending) /\ choice \in {"session", "always"}
                           THEN recorded \cup {SessionOf[c]} ELSE recorded
     ELSE UNCHANGED <<pending, recorded>>
  /\ UNCHANGED <<approves, call, prompts>>

(* The host drops the prompt, and its hook never comes.                    *)
Abandoned(c) ==
  /\ asked[c] # None
  /\ asked' = [asked EXCEPT ![c] = None]
  /\ UNCHANGED <<approves, always, pending, recorded, call, prompts, waived>>

(* A reload of the posture, or yolo; and the operator revokes approvals.   *)
PostureChanges ==
  /\ approves' = ~approves
  /\ UNCHANGED <<always, pending, recorded, call, asked, prompts, waived>>

Revoked ==
  /\ always # {} /\ always' = {}
  /\ UNCHANGED <<approves, pending, recorded, call, asked, prompts, waived>>

DegradedInit ==
  /\ approves \in BOOLEAN /\ always \in SUBSET Rules
  /\ pending = <<>> /\ recorded = {}
  /\ call = [c \in PromptedCalls |-> None] /\ asked = [c \in PromptedCalls |-> None]
  /\ prompts = 0 /\ waived = {}

DegradedNext ==
  \/ PostureChanges \/ Revoked
  \/ \E c \in PromptedCalls :
       \/ \E command \in BOOLEAN : Scanned(c, command) \/ DegradedPasses(c, command)
       \/ DegradedBlocks(c) \/ DegradedAsks(c) \/ Note(c) \/ Abandoned(c)
       \/ \E choice \in HostChoices : Respond(c, choice)

DegradedSpec == DegradedInit /\ [][DegradedNext]_approvalVars

-----------------------------------------------------------------------------
(* A degraded call passes without a prompt only if the operator has waived *)
(* the rule for good, or a human has confirmed an earlier degraded call of *)
(* the very session, for longer than that one call: not by answering a     *)
(* prompt of another rule or of another session, and not by an answer that *)
(* came to a call that was forgotten (_apply_degraded_approve_response).   *)
WaiverIsHuman ==
  \A c \in PromptedCalls : Passes(c) => "degraded" \in always \/ (approves /\ SessionOf[c] \in waived)
=============================================================================
