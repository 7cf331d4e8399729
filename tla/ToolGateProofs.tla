--------------------------- MODULE ToolGateProofs ----------------------------
(***************************************************************************)
(* Proofs about ToolGate, for any number of sessions, host threads and     *)
(* tools and every configuration, and about TaintStore, whose spans the    *)
(* plugin looks for in what a tool call sends out, for any sessions,       *)
(* texts, results and caps.                                                *)
(***************************************************************************)
EXTENDS ToolGate, TaintStore, ListTheorems

Pending == {"idle", "wait", "fallback", "decided"}

(* Before the initialisation is complete nothing is evaluated, so nothing  *)
(* is terminated.                                                          *)
ColdIsQuiet ==
  initState # "done" =>
    /\ terminated = {}
    /\ scan.by = None
    /\ ingest = None
    /\ \A c \in Calls : calls[c].phase \in Pending

(* A call that is scanning holds the mutex, for its own session.           *)
HolderIsScanning ==
  \A c \in Calls :
    /\ calls[c].phase = "scanning" <=> scan.by = c
    /\ scan.by = c => scan.sid = calls[c].sid /\ scan.tool = calls[c].tool

ScanHasSession == scan.by # None => scan.sid \in Sessions

CallHasSession == \A c \in Calls : calls[c].phase # "idle" => calls[c].sid \in Sessions

IngestHasSession == scan.by = Ingest => ingest \in Sessions

(* A sealed call is in none of the places where only a live session's call *)
(* can be.                                                                 *)
SealedIsTerminated ==
  \A c \in Calls : calls[c].sealed =>
    /\ calls[c].sid \in terminated
    /\ calls[c].phase \notin {"wait", "fallback", "ancestors"}

Undecided == \A c \in Calls : calls[c].phase # "decided" => calls[c].verdict = "none"

IInv ==
  /\ TypeOK
  /\ ColdIsQuiet
  /\ HolderIsScanning
  /\ ScanHasSession
  /\ CallHasSession
  /\ IngestHasSession
  /\ SealedIsTerminated
  /\ Undecided
  /\ EvaluatedStaysLive
  /\ SealedIsBlocked
  /\ DangerousIsScanned

-----------------------------------------------------------------------------
(* What the helpers of the actions do to the calls in progress. *)

LEMMA EnterEffect ==
  ASSUME TypeOK, NEW c \in Calls,
         NEW phase \in {"wait", "fallback", "polling", "scanning", "unavailable", "ancestors"},
         Enter(c, phase)
  PROVE  /\ calls' \in [Calls -> Call]
         /\ calls'[c].phase = phase
         /\ calls'[c].sid = calls[c].sid
         /\ calls'[c].tool = calls[c].tool
         /\ calls'[c].route = calls[c].route
         /\ calls'[c].verdict = calls[c].verdict
         /\ calls'[c].sealed = calls[c].sealed
         /\ \A d \in Calls \ {c} : calls'[d] = calls[d]
<1>1. calls \in [Calls -> Call]
  BY DEF TypeOK
<1> QED
  BY <1>1 DEF Enter, Call

LEMMA DecideEffect ==
  ASSUME TypeOK, NEW c \in Calls,
         NEW route \in {"skipped", "clean", "errored", "blocked", "evaluated", "unavailable"},
         NEW verdict \in {"allow", "block", "approve"},
         Decide(c, route, verdict)
  PROVE  /\ calls' \in [Calls -> Call]
         /\ calls'[c].phase = "decided"
         /\ calls'[c].sid = calls[c].sid
         /\ calls'[c].tool = calls[c].tool
         /\ calls'[c].route = route
         /\ calls'[c].verdict = verdict
         /\ calls'[c].sealed = calls[c].sealed
         /\ \A d \in Calls \ {c} : calls'[d] = calls[d]
<1>1. calls \in [Calls -> Call]
  BY DEF TypeOK
<1> DEFINE rec == [phase |-> "decided", sid |-> calls[c].sid, tool |-> calls[c].tool,
                   route |-> route, verdict |-> verdict, sealed |-> calls[c].sealed]
<1>2. rec \in Call
  BY <1>1 DEF Call
<1>3. /\ DOMAIN calls' = Calls
      /\ \A d \in Calls \ {c} : calls'[d] = calls[d]
  BY <1>1 DEF Decide
<1>4. calls'[c] = [calls[c] EXCEPT !.phase = "decided", !.route = route, !.verdict = verdict]
  BY <1>1 DEF Decide
<1>5. calls'[c] = rec
  BY <1>1, <1>4 DEF Call
<1>6. calls' = [calls EXCEPT ![c] = rec]
  BY <1>1, <1>5 DEF Decide
<1> QED
  BY <1>1, <1>2, <1>3, <1>5, <1>6

LEMMA RecordTypes ==
  /\ 0 \in Time
  /\ NoEdge \in Edge
  /\ AnyTool \in Tools
  /\ NoCall \in Call
  /\ NoScan \in Scan
<1>1. 0 \in Time
  BY MaxNowAssumption DEF Time
<1>2. NoEdge \in Edge
  BY <1>1 DEF NoEdge, Edge
<1>3. AnyTool \in Tools
  BY ToolsAssumption DEF AnyTool
<1>4. NoCall \in Call
  BY <1>3 DEF NoCall, Call
<1>5. NoScan \in Scan
  BY <1>3 DEF NoScan, Scan
<1> QED
  BY <1>1, <1>2, <1>3, <1>4, <1>5

-----------------------------------------------------------------------------
(* A nonempty set of tiers has a greatest one, and a session's own tier is *)
(* among the readings: evaluate() never derives less than that.            *)
LEMMA GreatestTier ==
  ASSUME NEW S \in SUBSET (0 .. 3), S # {}
  PROVE  \E n \in 0 .. 3 : n \in S /\ \A k \in S : k <= n
<1>1. CASE 3 \in S
  BY <1>1
<1>2. CASE 3 \notin S /\ 2 \in S
  BY <1>2
<1>3. CASE 3 \notin S /\ 2 \notin S /\ 1 \in S
  BY <1>3
<1>4. CASE 3 \notin S /\ 2 \notin S /\ 1 \notin S
  <2>1. \A k \in S : k = 0
    BY <1>4
  <2>2. 0 \in S
    BY <2>1
  <2> QED
    BY <2>1, <2>2
<1> QED
  BY <1>1, <1>2, <1>3, <1>4

LEMMA DeriveTierBounds ==
  ASSUME TypeOK, NEW s \in Sessions
  PROVE  /\ DeriveTier(s) \in 0 .. 3
         /\ s \in terminated => DeriveTier(s) = 3
<1>1. \A r \in Sessions : OwnTier(r) \in 0 .. 3
  BY DEF TypeOK, OwnTier
<1>2. TierReadings(s) \subseteq 0 .. 3
  BY <1>1 DEF TierReadings, Forebears
<1>3. OwnTier(s) \in TierReadings(s)
  BY DEF TierReadings
<1>4. \E n \in 0 .. 3 : n \in TierReadings(s) /\ \A k \in TierReadings(s) : k <= n
  <2> DEFINE S == TierReadings(s)
  <2>1. S \in SUBSET (0 .. 3) /\ S # {}
    BY <1>2, <1>3
  <2> HIDE DEF S
  <2>2. \E n \in 0 .. 3 : n \in S /\ \A k \in S : k <= n
    BY <2>1, GreatestTier
  <2> QED
    BY <2>2 DEF S
<1>5. /\ DeriveTier(s) \in 0 .. 3
      /\ \A k \in TierReadings(s) : k <= DeriveTier(s)
  BY <1>4 DEF DeriveTier
<1>6. OwnTier(s) <= DeriveTier(s)
  BY <1>3, <1>5
<1>7. s \in terminated => OwnTier(s) = 3
  BY DEF OwnTier
<1> QED
  BY <1>5, <1>6, <1>7

LEMMA DirectiveType ==
  ASSUME NEW t, NEW f, NEW allowed
  PROVE  Directive(t, allowed, f) \in {"allow", "block", "approve"}
BY DEF Directive

LEMMA FallbackDecisionType ==
  ASSUME NEW t, NEW outcome
  PROVE  FallbackDecision(t, outcome) \in {"allow", "block", "approve"}
BY DEF FallbackDecision

-----------------------------------------------------------------------------
(* An update() of the tracker terminates at most its own session and       *)
(* revives none.                                                           *)
LEMMA UpdateEffect ==
  ASSUME TypeOK, NEW s \in Sessions, NEW flagged, Update(s, flagged)
  PROVE  /\ LineageTypeOK'
         /\ level' \in [Sessions -> 0 .. 3]
         /\ terminated' \subseteq Sessions
         /\ terminated \subseteq terminated'
         /\ terminated' \subseteq terminated \cup {s}
<1>1. PICK gone \in SUBSET (Sessions \ {s}), new \in 0 .. 3, ends \in BOOLEAN :
        /\ level' = [r \in Sessions |-> IF r \in gone THEN 0 ELSE IF r = s THEN new ELSE level[r]]
        /\ terminated' = IF ends THEN terminated \cup {s} ELSE terminated
        /\ DropEdges(IF ends THEN gone \cup {s} ELSE gone)
  BY DEF Update
<1>2. level' \in [Sessions -> 0 .. 3]
  BY <1>1 DEF TypeOK
<1>3. edges' \in [Sessions -> Edge]
  BY <1>1, RecordTypes DEF TypeOK, LineageTypeOK, DropEdges
<1>4. LineageTypeOK'
  BY <1>3 DEF Update, TypeOK, LineageTypeOK
<1>5. terminated' \subseteq Sessions /\ terminated \subseteq terminated'
      /\ terminated' \subseteq terminated \cup {s}
  BY <1>1 DEF TypeOK
<1> QED
  BY <1>2, <1>4, <1>5

LEMMA RegisterType ==
  ASSUME TypeOK, NEW child \in Sessions, NEW parent \in Sessions,
         Register(child, parent)
  PROVE  LineageTypeOK'
<1>1. edges \in [Sessions -> Edge] /\ now \in Time
  BY DEF TypeOK, LineageTypeOK
<1>2. PruneExpired \in [Sessions -> Edge]
  BY <1>1, RecordTypes DEF PruneExpired
<1>3. [parent |-> parent, at |-> now] \in Edge
  BY <1>1 DEF Edge
<1>4. edges' \in [Sessions -> Edge]
  BY <1>2, <1>3, RecordTypes DEF Register, RegisterInto
<1> QED
  BY <1>4 DEF Register, TypeOK, LineageTypeOK

-----------------------------------------------------------------------------
(* The part of the invariant that is about one call and does not mention   *)
(* the mutex.                                                              *)
CallOK(c) ==
  /\ initState # "done" => calls[c].phase \in Pending
  /\ calls[c].phase # "idle" => calls[c].sid \in Sessions
  /\ calls[c].sealed => /\ calls[c].sid \in terminated
                        /\ calls[c].phase \notin {"wait", "fallback", "ancestors"}
  /\ calls[c].phase # "decided" => calls[c].verdict = "none"
  /\ (calls[c].phase = "decided" /\ calls[c].sealed /\ calls[c].route # "disarmed")
       => calls[c].verdict = "block"
  /\ (calls[c].verdict \in {"allow", "approve"} /\ ~calls[c].tool.readOnly) =>
       \/ calls[c].route \in {"disarmed", "evaluated"}
       \/ calls[c].route = "clean" /\ FailOpen

LEMMA EveryCallOK ==
  ASSUME IInv, NEW c \in Calls
  PROVE  CallOK(c)
BY DEF IInv, ColdIsQuiet, CallHasSession, SealedIsTerminated, Undecided, SealedIsBlocked,
       DangerousIsScanned, CallOK

(* A step of one call that leaves the tracker, the mutex and the ingestion *)
(* alone.                                                                  *)
LEMMA OneCall ==
  ASSUME IInv, NEW c \in Calls,
         TypeOK',
         UNCHANGED <<initState, terminated, scan, ingest>>,
         \A d \in Calls \ {c} : calls'[d] = calls[d],
         calls[c].phase # "scanning", calls'[c].phase # "scanning",
         CallOK(c)'
  PROVE  IInv'
<1>1. \A d \in Calls : CallOK(d)'
  <2>1. ASSUME NEW d \in Calls \ {c} PROVE CallOK(d)'
    BY <2>1, EveryCallOK DEF CallOK
  <2> QED
    BY <2>1
<1>2. HolderIsScanning'
  BY DEF IInv, HolderIsScanning
<1>3. ColdIsQuiet' /\ CallHasSession' /\ SealedIsTerminated' /\ Undecided' /\ SealedIsBlocked'
      /\ DangerousIsScanned'
  BY <1>1 DEF IInv, ColdIsQuiet, CallHasSession, SealedIsTerminated, Undecided,
              SealedIsBlocked, DangerousIsScanned, CallOK
<1>4. ScanHasSession' /\ IngestHasSession' /\ EvaluatedStaysLive'
  BY DEF IInv, ScanHasSession, IngestHasSession, EvaluatedStaysLive
<1> QED
  BY <1>2, <1>3, <1>4 DEF IInv

(* A step that updates the tracker for the session whose scan holds the    *)
(* mutex, or while the mutex is free, and leaves the mutex free.           *)
LEMMA AnUpdate ==
  ASSUME IInv, NEW s \in Sessions, NEW flagged, Update(s, flagged),
         TypeOK', initState = "done", initState' = initState,
         scan'.by = None,
         \A d \in Calls : calls'[d].phase # "scanning",
         \A d \in Calls : calls'[d] = calls[d] \/ CallOK(d)'
  PROVE  IInv'
<1>1. terminated \subseteq terminated'
  BY UpdateEffect DEF IInv
<1>2. \A d \in Calls : CallOK(d)'
  <2>1. ASSUME NEW d \in Calls, calls'[d] = calls[d] PROVE CallOK(d)'
    BY <1>1, <2>1, EveryCallOK DEF CallOK
  <2> QED
    BY <2>1
<1>3. None \notin Calls /\ Ingest # None /\ Orphan # None
  BY CallsAssumption
<1>4. HolderIsScanning' /\ ScanHasSession' /\ IngestHasSession' /\ EvaluatedStaysLive'
  BY <1>1, <1>3 DEF HolderIsScanning, ScanHasSession, IngestHasSession, EvaluatedStaysLive
<1>5. ColdIsQuiet' /\ CallHasSession' /\ SealedIsTerminated' /\ Undecided' /\ SealedIsBlocked'
      /\ DangerousIsScanned'
  BY <1>2 DEF ColdIsQuiet, CallHasSession, SealedIsTerminated, Undecided,
              SealedIsBlocked, DangerousIsScanned, CallOK
<1> QED
  BY <1>4, <1>5 DEF IInv

-----------------------------------------------------------------------------
(* One lemma per group of actions. *)

LEMMA EnvironmentStep ==
  ASSUME IInv, InitEnds \/ SetArmed \/ SubagentHook
  PROVE  IInv'
<1>1. CASE InitEnds
  BY <1>1 DEF InitEnds, IInv, TypeOK, LineageTypeOK, lineageVars, ColdIsQuiet,
              HolderIsScanning, ScanHasSession, CallHasSession, IngestHasSession,
              SealedIsTerminated, Undecided, EvaluatedStaysLive, SealedIsBlocked,
              DangerousIsScanned
<1>2. CASE SetArmed
  BY <1>2 DEF SetArmed, IInv, TypeOK, LineageTypeOK, lineageVars, ColdIsQuiet,
              HolderIsScanning, ScanHasSession, CallHasSession, IngestHasSession,
              SealedIsTerminated, Undecided, EvaluatedStaysLive, SealedIsBlocked,
              DangerousIsScanned
<1>3. CASE SubagentHook
  <2>1. LineageTypeOK'
    <3>1. ASSUME NEW child \in Sessions, NEW parent \in Sessions, Register(child, parent)
          PROVE  LineageTypeOK'
      BY <3>1, RegisterType DEF IInv
    <3>2. ASSUME NEW child \in Sessions, Unregister(child)
          PROVE  LineageTypeOK'
      BY <3>2, RecordTypes DEF IInv, TypeOK, Unregister, DropEdge, LineageTypeOK
    <3> QED
      BY <1>3, <3>1, <3>2 DEF SubagentHook
  <2> QED
    BY <1>3, <2>1 DEF SubagentHook, gateVars, IInv, TypeOK, ColdIsQuiet, HolderIsScanning,
                      ScanHasSession, CallHasSession, IngestHasSession, SealedIsTerminated,
                      Undecided, EvaluatedStaysLive, SealedIsBlocked, DangerousIsScanned
<1> QED
  BY <1>1, <1>2, <1>3

LEMMA BeginCallStep ==
  ASSUME IInv, NEW c \in Calls, NEW s \in Sessions, NEW t \in Tools, BeginCall(c, s, t)
  PROVE  IInv'
<1> DEFINE rec == [phase |-> IF ~armed THEN "decided"
                             ELSE IF initState = "done" THEN "polling"
                             ELSE IF initState = "failed" \/ waitExpired THEN "fallback"
                             ELSE "wait",
                   sid |-> s, tool |-> t,
                   route |-> IF armed THEN "none" ELSE "disarmed",
                   verdict |-> IF armed THEN "none" ELSE "allow",
                   sealed |-> s \in terminated]
<1>1. rec \in Call
  BY DEF Call
<1>2. calls' = [calls EXCEPT ![c] = rec]
  BY DEF BeginCall
<1>3. calls' \in [Calls -> Call] /\ calls'[c] = rec /\ \A d \in Calls \ {c} : calls'[d] = calls[d]
  BY <1>1, <1>2 DEF IInv, TypeOK
<1>4. TypeOK'
  BY <1>3 DEF IInv, TypeOK, BeginCall, LineageTypeOK, lineageVars
<1>5. CallOK(c)'
  <2>1. s \in terminated => initState = "done"
    BY DEF IInv, ColdIsQuiet
  <2>2. initState' = initState /\ terminated' = terminated
    BY DEF BeginCall
  <2>3. /\ calls'[c].sid = s
        /\ calls'[c].sealed => s \in terminated
        /\ ~armed => calls'[c].phase = "decided" /\ calls'[c].route = "disarmed"
        /\ armed => /\ calls'[c].verdict = "none"
                    /\ calls'[c].phase \in {"polling", "fallback", "wait"}
                    /\ calls'[c].phase = "polling" <=> initState = "done"
    <3>1. armed \in BOOLEAN /\ waitExpired \in BOOLEAN
      BY DEF IInv, TypeOK
    <3>2. calls'[c].sid = s
      BY <1>3
    <3>3. calls'[c].sealed => s \in terminated
      <4>1. rec.sealed = (s \in terminated)
        OBVIOUS
      <4>2. calls'[c].sealed = (s \in terminated)
        BY <1>3, <4>1
      <4> QED
        BY <4>2, Zenon
    <3>4. ~armed => calls'[c].phase = "decided" /\ calls'[c].route = "disarmed"
      BY <1>3, <3>1
    <3>5. armed => /\ calls'[c].verdict = "none"
                   /\ calls'[c].phase \in {"polling", "fallback", "wait"}
                   /\ calls'[c].phase = "polling" <=> initState = "done"
      BY <1>3, <3>1
    <3> QED
      BY <3>2, <3>3, <3>4, <3>5
  <2> QED
    BY <2>1, <2>2, <2>3 DEF CallOK, Pending
<1>6. calls[c].phase # "scanning" /\ calls'[c].phase # "scanning"
  BY <1>3 DEF BeginCall
<1> QED
  BY <1>3, <1>4, <1>5, <1>6, OneCall DEF BeginCall

(* The steps of a call that only the call itself notices. *)
LEMMA QuietCallStep ==
  ASSUME IInv, NEW c \in Calls,
         WaitEnds(c) \/ Fallback(c) \/ EvaluateTier3(c) \/ EvaluateRaises(c)
           \/ TerminatedFloor(c) \/ AncestorFloor(c)
  PROVE  IInv'
<1> USE DEF IInv
<1>1. CallOK(c)
  BY EveryCallOK
<1>2. ASSUME calls' \in [Calls -> Call],
             UNCHANGED <<lineageVars, initState, armed, level, terminated, scan, ingest>>,
             waitExpired' \in BOOLEAN
      PROVE  TypeOK'
  BY <1>2 DEF TypeOK, LineageTypeOK, lineageVars
<1>3. CASE WaitEnds(c)
  <2> DEFINE phase == IF initState = "done" THEN "polling" ELSE "fallback"
  <2>1. Enter(c, phase)
    BY <1>3 DEF WaitEnds
  <2>2. phase \in {"polling", "fallback"}
    OBVIOUS
  <2>3. TypeOK'
    <3>1. waitExpired' \in BOOLEAN
      BY <1>3 DEF WaitEnds
    <3> QED
      BY <1>2, <1>3, <2>1, <2>2, <3>1, EnterEffect DEF WaitEnds
  <2>4. calls[c].phase = "wait" /\ ~calls[c].sealed /\ calls[c].verdict = "none"
    BY <1>1, <1>3 DEF WaitEnds, CallOK
  <2>5. CallOK(c)'
    BY <1>1, <1>3, <2>1, <2>2, <2>4, EnterEffect DEF WaitEnds, CallOK, Pending
  <2> QED
    BY <1>3, <2>1, <2>2, <2>3, <2>4, <2>5, EnterEffect, OneCall DEF WaitEnds
<1>4. CASE Fallback(c)
  <2>1. PICK outcome \in {"skipped", "clean", "errored", "blocked"} :
          /\ outcome = "skipped" => calls[c].tool.readOnly
          /\ IF outcome = "clean" /\ initState = "done"
             THEN Enter(c, "polling")
             ELSE Decide(c, outcome, FallbackDecision(calls[c].tool, outcome))
    BY <1>4 DEF Fallback
  <2>2. calls[c].phase = "fallback" /\ ~calls[c].sealed /\ calls[c].verdict = "none"
    BY <1>1, <1>4 DEF Fallback, CallOK
  <2>3. CASE outcome = "clean" /\ initState = "done"
    <3>1. Enter(c, "polling")
      BY <2>1, <2>3
    <3>2. TypeOK'
      BY <1>2, <1>4, <3>1, EnterEffect DEF Fallback, TypeOK
    <3>3. CallOK(c)'
      BY <1>1, <1>4, <2>2, <2>3, <3>1, EnterEffect DEF Fallback, CallOK
    <3> QED
      BY <1>4, <2>2, <3>1, <3>2, <3>3, EnterEffect, OneCall DEF Fallback
  <2>4. CASE ~(outcome = "clean" /\ initState = "done")
    <3>1. Decide(c, outcome, FallbackDecision(calls[c].tool, outcome))
      BY <2>1, <2>4
    <3>2. FallbackDecision(calls[c].tool, outcome) \in {"allow", "block", "approve"}
      BY FallbackDecisionType
    <3>3. FallbackDecision(calls[c].tool, outcome) \in {"allow", "approve"}
            => calls[c].tool.readOnly \/ (outcome = "clean" /\ FailOpen)
      BY DEF FallbackDecision
    <3>4. TypeOK'
      BY <1>2, <1>4, <3>1, <3>2, DecideEffect DEF Fallback, TypeOK
    <3>5. CallOK(c)'
      BY <1>1, <1>4, <2>2, <3>1, <3>2, <3>3, DecideEffect DEF Fallback, CallOK, Pending
    <3> QED
      BY <1>4, <2>2, <3>1, <3>2, <3>4, <3>5, DecideEffect, OneCall DEF Fallback
  <2> QED
    BY <2>3, <2>4
<1>5. CASE EvaluateTier3(c)
  <2>1. TypeOK'
    BY <1>2, <1>5, DecideEffect DEF EvaluateTier3, TypeOK
  <2>2. CallOK(c)'
    BY <1>1, <1>5, DecideEffect DEF EvaluateTier3, CallOK, Pending
  <2> QED
    BY <1>5, <2>1, <2>2, DecideEffect, OneCall DEF EvaluateTier3
<1>6. CASE EvaluateRaises(c)
  <2>1. TypeOK'
    BY <1>2, <1>6, EnterEffect DEF EvaluateRaises, TypeOK
  <2>2. CallOK(c)'
    BY <1>1, <1>6, EnterEffect DEF EvaluateRaises, CallOK, Pending
  <2> QED
    BY <1>6, <2>1, <2>2, EnterEffect, OneCall DEF EvaluateRaises
<1>7. CASE TerminatedFloor(c)
  <2>1. CASE calls[c].sid \in terminated
    <3>1. Decide(c, "unavailable", "block")
      BY <1>7, <2>1 DEF TerminatedFloor
    <3>2. TypeOK'
      BY <1>2, <1>7, <3>1, DecideEffect DEF TerminatedFloor, TypeOK
    <3>3. CallOK(c)'
      BY <1>1, <1>7, <3>1, DecideEffect DEF TerminatedFloor, CallOK, Pending
    <3> QED
      BY <1>7, <3>1, <3>2, <3>3, DecideEffect, OneCall DEF TerminatedFloor
  <2>2. CASE calls[c].sid \notin terminated
    <3>1. Enter(c, "ancestors")
      BY <1>7, <2>2 DEF TerminatedFloor
    <3>2. TypeOK'
      BY <1>2, <1>7, <3>1, EnterEffect DEF TerminatedFloor, TypeOK
    <3>3. CallOK(c)'
      BY <1>1, <1>7, <2>2, <3>1, EnterEffect DEF TerminatedFloor, CallOK, Pending
    <3> QED
      BY <1>7, <3>1, <3>2, <3>3, EnterEffect, OneCall DEF TerminatedFloor
  <2> QED
    BY <2>1, <2>2
<1>8. CASE AncestorFloor(c)
  <2> DEFINE answer == IF Forebears(calls[c].sid) \cap terminated # {} THEN "block"
                       ELSE FallbackDecision(calls[c].tool, "errored")
  <2>1. Decide(c, "unavailable", answer)
    BY <1>8 DEF AncestorFloor
  <2>2. answer \in {"allow", "block", "approve"}
    BY FallbackDecisionType
  <2>3. answer \in {"allow", "approve"} => calls[c].tool.readOnly
    BY DEF FallbackDecision
  <2> HIDE DEF answer
  <2>4. TypeOK'
    BY <1>2, <1>8, <2>1, <2>2, DecideEffect DEF AncestorFloor, TypeOK
  <2>5. CallOK(c)'
    BY <1>1, <1>8, <2>1, <2>2, <2>3, DecideEffect DEF AncestorFloor, CallOK, Pending
  <2> QED
    BY <1>8, <2>1, <2>2, <2>4, <2>5, DecideEffect, OneCall DEF AncestorFloor
<1> QED
  BY <1>3, <1>4, <1>5, <1>6, <1>7, <1>8

LEMMA ReturnStep ==
  ASSUME IInv, NEW c \in Calls, Return(c)
  PROVE  IInv'
<1>1. /\ calls' \in [Calls -> Call]
      /\ calls'[c] = NoCall
      /\ \A d \in Calls \ {c} : calls'[d] = calls[d]
  BY RecordTypes DEF IInv, TypeOK, Return
<1>2. TypeOK'
  BY <1>1 DEF IInv, TypeOK, Return, LineageTypeOK, lineageVars
<1>3. CallOK(c)'
  BY <1>1 DEF NoCall, CallOK, Pending
<1>4. calls[c].phase = "decided" /\ calls'[c].phase = "idle"
  BY <1>1 DEF Return, NoCall
<1> QED
  BY <1>1, <1>2, <1>3, <1>4, OneCall DEF Return

(* The mutex is taken: the session is alive, as the tier just derived says.*)
LEMMA SuspendStep ==
  ASSUME IInv, NEW c \in Calls, EvaluateSuspends(c)
  PROVE  IInv'
<1> DEFINE s == calls[c].sid
<1>1. CallOK(c) /\ TypeOK
  BY EveryCallOK DEF IInv
<1>2. Enter(c, "scanning") /\ calls[c].phase = "polling"
  BY DEF EvaluateSuspends
<1>3. s \in Sessions /\ calls[c].tool \in Tools
  BY <1>1, <1>2 DEF CallOK, TypeOK, Call
<1>4. DeriveTier(s) \in 0 .. 2 /\ s \notin terminated
  <2>1. DeriveTier(s) \in 0 .. 3 /\ (s \in terminated => DeriveTier(s) = 3)
    BY <1>1, <1>3, DeriveTierBounds
  <2>2. DeriveTier(s) < 3
    BY DEF EvaluateSuspends
  <2> QED
    BY <2>1, <2>2
<1>5. scan' = [by |-> c, sid |-> s, tool |-> calls[c].tool, tier |-> DeriveTier(s)]
  BY DEF EvaluateSuspends
<1>6. scan' \in Scan /\ scan'.by = c /\ scan'.sid = s /\ scan'.tool = calls[c].tool
  BY <1>3, <1>4, <1>5 DEF Scan
<1>7. TypeOK'
  BY <1>1, <1>2, <1>6, EnterEffect DEF EvaluateSuspends, TypeOK, LineageTypeOK, lineageVars
<1>8. \A d \in Calls : CallOK(d)'
  <2>1. CallOK(c)'
    BY <1>1, <1>2, EnterEffect DEF EvaluateSuspends, CallOK, Pending
  <2>2. ASSUME NEW d \in Calls \ {c} PROVE CallOK(d)'
    BY <1>1, <1>2, <2>2, EnterEffect, EveryCallOK DEF EvaluateSuspends, CallOK
  <2> QED
    BY <2>1, <2>2
<1>9. HolderIsScanning'
  BY <1>1, <1>2, <1>6, EnterEffect, CallsAssumption DEF EvaluateSuspends, IInv, HolderIsScanning
<1>10. ScanHasSession' /\ IngestHasSession' /\ EvaluatedStaysLive'
  BY <1>3, <1>4, <1>6, CallsAssumption
     DEF EvaluateSuspends, ScanHasSession, IngestHasSession, EvaluatedStaysLive
<1>11. initState = "done" /\ initState' = initState
  BY <1>1, <1>2 DEF CallOK, Pending, EvaluateSuspends
<1>12. ColdIsQuiet' /\ CallHasSession' /\ SealedIsTerminated' /\ Undecided' /\ SealedIsBlocked'
       /\ DangerousIsScanned'
  BY <1>8, <1>11 DEF ColdIsQuiet, CallHasSession, SealedIsTerminated, Undecided,
              SealedIsBlocked, DangerousIsScanned, CallOK
<1> QED
  BY <1>7, <1>9, <1>10, <1>12 DEF IInv

(* A call gives up: the mutex, if it held it, is the orphan's. *)
LEMMA TimeoutStep ==
  ASSUME IInv, NEW c \in Calls, EvaluateTimesOut(c)
  PROVE  IInv'
<1>1. CallOK(c) /\ TypeOK
  BY EveryCallOK DEF IInv
<1>2. Enter(c, "unavailable") /\ calls[c].phase \in {"polling", "scanning"}
  BY DEF EvaluateTimesOut
<1>3. initState = "done" /\ initState' = initState
  BY <1>1, <1>2 DEF CallOK, Pending, EvaluateTimesOut
<1>4. /\ scan' \in Scan
      /\ scan'.sid = scan.sid /\ scan'.tool = scan.tool
      /\ scan.by = c => scan'.by = Orphan
      /\ scan.by # c => scan' = scan
  BY <1>1 DEF EvaluateTimesOut, TypeOK, Scan
<1>5. TypeOK'
  BY <1>1, <1>2, <1>4, EnterEffect DEF EvaluateTimesOut, TypeOK, LineageTypeOK, lineageVars
<1>6. \A d \in Calls : CallOK(d)'
  <2>1. CallOK(c)'
    BY <1>1, <1>2, EnterEffect DEF EvaluateTimesOut, CallOK, Pending
  <2>2. ASSUME NEW d \in Calls \ {c} PROVE CallOK(d)'
    BY <1>1, <1>2, <2>2, EnterEffect, EveryCallOK DEF EvaluateTimesOut, CallOK
  <2> QED
    BY <2>1, <2>2
<1>7. HolderIsScanning'
  BY <1>1, <1>2, <1>4, EnterEffect, CallsAssumption DEF IInv, HolderIsScanning
<1>8. ScanHasSession' /\ IngestHasSession' /\ EvaluatedStaysLive'
  BY <1>4, CallsAssumption
     DEF EvaluateTimesOut, IInv, ScanHasSession, IngestHasSession, EvaluatedStaysLive
<1>9. ColdIsQuiet' /\ CallHasSession' /\ SealedIsTerminated' /\ Undecided' /\ SealedIsBlocked'
      /\ DangerousIsScanned'
  BY <1>3, <1>6 DEF ColdIsQuiet, CallHasSession, SealedIsTerminated, Undecided,
              SealedIsBlocked, DangerousIsScanned, CallOK
<1> QED
  BY <1>5, <1>7, <1>8, <1>9 DEF IInv

(* An evaluation that ends without a scan. *)
LEMMA UnscannedStep ==
  ASSUME IInv, NEW c \in Calls, EvaluateUnscanned(c)
  PROVE  IInv'
<1> DEFINE s == calls[c].sid
           t == calls[c].tool
<1>1. CallOK(c) /\ TypeOK
  BY EveryCallOK DEF IInv
<1>2. calls[c].phase = "polling" /\ scan.by = None /\ scan' = scan
  BY DEF EvaluateUnscanned
<1>3. s \in Sessions
  BY <1>1, <1>2 DEF CallOK
<1>4. ~calls[c].sealed
  <2>1. DeriveTier(s) < 3
    BY DEF EvaluateUnscanned
  <2>2. s \notin terminated
    BY <1>1, <1>3, <2>1, DeriveTierBounds
  <2> QED
    BY <1>1, <2>2 DEF CallOK
<1>5. PICK verdict \in {"allow", "block", "approve"} : Decide(c, "evaluated", verdict)
  BY DirectiveType DEF EvaluateUnscanned
<1>6. initState = "done" /\ initState' = initState
  BY <1>1, <1>2 DEF CallOK, Pending, EvaluateUnscanned
<1>7. CallOK(c)'
  BY <1>1, <1>3, <1>4, <1>5, <1>6, DecideEffect DEF CallOK
<1>8. \A d \in Calls : calls'[d].phase # "scanning"
  BY <1>1, <1>2, <1>5, DecideEffect, CallsAssumption DEF IInv, HolderIsScanning
<1>9. CASE t.selfmod
  <2>1. Update(s, TRUE)
    BY <1>9 DEF EvaluateUnscanned
  <2>4. LineageTypeOK' /\ level' \in [Sessions -> 0 .. 3] /\ terminated' \subseteq Sessions
    BY <1>1, <1>3, <2>1, UpdateEffect
  <2>5. calls' \in [Calls -> Call]
    BY <1>1, <1>5, DecideEffect
  <2>2. TypeOK'
    BY <1>1, <2>4, <2>5 DEF EvaluateUnscanned, TypeOK
  <2>3. \A d \in Calls : calls'[d] = calls[d] \/ CallOK(d)'
    BY <1>1, <1>5, <1>7, DecideEffect
  <2> QED
    BY <1>2, <1>3, <1>6, <1>8, <2>1, <2>2, <2>3, AnUpdate
<1>10. CASE ~t.selfmod
  <2>1. NoUpdate
    BY <1>10 DEF EvaluateUnscanned
  <2>2. TypeOK'
    BY <1>1, <1>5, <2>1, DecideEffect
       DEF EvaluateUnscanned, NoUpdate, TypeOK, LineageTypeOK, lineageVars
  <2>3. ingest' = ingest /\ terminated' = terminated
    BY <2>1 DEF EvaluateUnscanned, NoUpdate
  <2> QED
    BY <1>1, <1>2, <1>5, <1>6, <1>7, <1>8, <2>2, <2>3, DecideEffect, OneCall
<1> QED
  BY <1>9, <1>10

(* The scan ends and its session, alive until now, may be terminated by it.*)
LEMMA ReturnsStep ==
  ASSUME IInv, NEW c \in Calls, EvaluateReturns(c)
  PROVE  IInv'
<1>1. CallOK(c) /\ TypeOK
  BY EveryCallOK DEF IInv
<1>2. scan.by = c /\ scan' = NoScan /\ c # None
  BY CallsAssumption DEF EvaluateReturns
<1>3. scan.sid \in Sessions /\ scan.sid \notin terminated /\ scan.sid = calls[c].sid
      /\ calls[c].phase = "scanning"
  BY <1>2 DEF IInv, ScanHasSession, EvaluatedStaysLive, HolderIsScanning
<1>4. PICK f \in Outcomes :
        /\ Update(scan.sid, Flagged(f) \/ scan.tool.selfmod)
        /\ Decide(c, "evaluated", Directive(scan.tool, scan.tier < 2 \/ scan.tool.exempt, f))
  BY DEF EvaluateReturns
<1>5. PICK verdict \in {"allow", "block", "approve"} : Decide(c, "evaluated", verdict)
  BY <1>4, DirectiveType
<1>6. initState = "done" /\ initState' = initState
  BY <1>1, <1>3 DEF CallOK, Pending, EvaluateReturns
<1>7. ~calls[c].sealed
  BY <1>1, <1>3 DEF CallOK
<1>8. CallOK(c)'
  BY <1>1, <1>3, <1>5, <1>6, <1>7, DecideEffect DEF CallOK
<1>9. scan'.by = None /\ scan' \in Scan
  BY <1>2, RecordTypes DEF NoScan
<1>10. TypeOK'
  BY <1>1, <1>3, <1>4, <1>5, <1>9, UpdateEffect, DecideEffect DEF EvaluateReturns, TypeOK
<1>11. \A d \in Calls : calls'[d].phase # "scanning"
  BY <1>1, <1>2, <1>5, DecideEffect DEF IInv, HolderIsScanning
<1>12. \A d \in Calls : calls'[d] = calls[d] \/ CallOK(d)'
  BY <1>1, <1>5, <1>8, DecideEffect
<1> QED
  BY <1>3, <1>4, <1>6, <1>9, <1>10, <1>11, <1>12, AnUpdate

(* A step that only releases the mutex, or ends an ingestion that polls.   *)
LEMMA ReleaseStep ==
  ASSUME IInv, UNCHANGED <<lineageVars, initState, waitExpired, armed, level, terminated, calls>>,
         ingest' \in {ingest, None},
         \/ scan' = NoScan /\ scan.by \notin Calls
         \/ scan' = scan /\ scan.by # Ingest
  PROVE  IInv'
<1>1. scan' \in Scan /\ (scan' = NoScan => scan'.by = None)
  BY RecordTypes DEF IInv, TypeOK, NoScan
<1>2. TypeOK'
  BY <1>1 DEF IInv, TypeOK, LineageTypeOK, lineageVars
<1>3. HolderIsScanning' /\ ScanHasSession' /\ IngestHasSession' /\ EvaluatedStaysLive'
  BY <1>1, CallsAssumption
     DEF IInv, HolderIsScanning, ScanHasSession, IngestHasSession, EvaluatedStaysLive
<1>4. ColdIsQuiet'
  BY <1>1 DEF IInv, ColdIsQuiet
<1>5. CallHasSession' /\ SealedIsTerminated' /\ Undecided' /\ SealedIsBlocked'
      /\ DangerousIsScanned'
  BY DEF IInv, CallHasSession, SealedIsTerminated, Undecided, SealedIsBlocked,
         DangerousIsScanned
<1> QED
  BY <1>2, <1>3, <1>4, <1>5 DEF IInv

LEMMA OrphanStep ==
  ASSUME IInv, OrphanEnds
  PROVE  IInv'
<1>1. scan.by = Orphan /\ scan' = NoScan /\ Orphan \notin Calls /\ Orphan # None
  BY CallsAssumption DEF OrphanEnds
<1>2. scan.sid \in Sessions /\ initState = "done" /\ initState' = initState
  BY <1>1 DEF IInv, ScanHasSession, ColdIsQuiet, OrphanEnds
<1>3. scan'.by = None /\ scan' \in Scan
  BY <1>1, RecordTypes DEF NoScan
<1>4. ASSUME NEW f \in Outcomes, Update(scan.sid, Flagged(f) \/ scan.tool.selfmod)
      PROVE  IInv'
  <2>1. TypeOK'
    BY <1>2, <1>3, <1>4, UpdateEffect DEF OrphanEnds, IInv, TypeOK
  <2>2. \A d \in Calls : calls'[d] = calls[d] /\ calls'[d].phase # "scanning"
    BY <1>1 DEF OrphanEnds, IInv, HolderIsScanning
  <2> QED
    BY <1>2, <1>3, <1>4, <2>1, <2>2, AnUpdate
<1>5. CASE NoUpdate
  BY <1>1, <1>5, ReleaseStep DEF NoUpdate, OrphanEnds
<1> QED
  BY <1>4, <1>5 DEF OrphanEnds

LEMMA IngestInvStep ==
  ASSUME IInv, IngestStep
  PROVE  IInv'
<1>1. ASSUME NEW s \in Sessions, BeginIngest(s)
      PROVE  IInv'
  <2>1. TypeOK'
    BY <1>1 DEF BeginIngest, IInv, TypeOK, LineageTypeOK, lineageVars
  <2> QED
    BY <1>1, <2>1 DEF BeginIngest, IInv, ColdIsQuiet, HolderIsScanning, ScanHasSession,
                      CallHasSession, IngestHasSession, SealedIsTerminated, Undecided,
                      EvaluatedStaysLive, SealedIsBlocked, DangerousIsScanned
<1>2. CASE IngestAcquires
  <2>1. ingest \in Sessions /\ initState = "done" /\ scan.by = None
    BY <1>2 DEF IngestAcquires, IInv, TypeOK, ColdIsQuiet
  <2>2. scan' = [by |-> Ingest, sid |-> ingest, tool |-> AnyTool, tier |-> 0]
    BY <1>2 DEF IngestAcquires, NoScan
  <2>3. scan' \in Scan /\ scan'.by = Ingest /\ scan'.sid \in Sessions
    BY <2>1, <2>2, RecordTypes DEF Scan
  <2>4. TypeOK'
    BY <1>2, <2>3 DEF IngestAcquires, IInv, TypeOK, LineageTypeOK, lineageVars
  <2>5. HolderIsScanning' /\ ScanHasSession' /\ IngestHasSession' /\ EvaluatedStaysLive'
    BY <1>2, <2>1, <2>3, CallsAssumption
       DEF IngestAcquires, IInv, HolderIsScanning, ScanHasSession, IngestHasSession,
           EvaluatedStaysLive
  <2>6. ColdIsQuiet' /\ CallHasSession' /\ SealedIsTerminated' /\ Undecided' /\ SealedIsBlocked'
        /\ DangerousIsScanned'
    BY <1>2, <2>1 DEF IngestAcquires, IInv, ColdIsQuiet, CallHasSession, SealedIsTerminated,
                      Undecided, SealedIsBlocked, DangerousIsScanned
  <2> QED
    BY <2>4, <2>5, <2>6 DEF IInv
<1>3. CASE IngestScans
  <2>1. scan.by = Ingest /\ scan' = NoScan /\ ingest \in Sessions /\ initState = "done"
        /\ initState' = initState
    BY <1>3, CallsAssumption DEF IngestScans, IInv, IngestHasSession, ColdIsQuiet
  <2>2. scan'.by = None /\ scan' \in Scan
    BY <2>1, RecordTypes DEF NoScan
  <2>3. PICK flagged \in BOOLEAN : Update(ingest, flagged)
    BY <1>3 DEF IngestScans
  <2>4. TypeOK'
    BY <1>3, <2>1, <2>2, <2>3, UpdateEffect DEF IngestScans, IInv, TypeOK
  <2>5. \A d \in Calls : calls'[d] = calls[d] /\ calls'[d].phase # "scanning"
    BY <1>3, <2>1, CallsAssumption DEF IngestScans, IInv, HolderIsScanning
  <2> QED
    BY <2>1, <2>2, <2>3, <2>4, <2>5, AnUpdate
<1>4. CASE IngestTimesOut
  <2>1. \/ scan' = NoScan /\ scan.by \notin Calls
        \/ scan' = scan /\ scan.by # Ingest
    BY <1>4, CallsAssumption DEF IngestTimesOut
  <2> QED
    BY <1>4, <2>1, ReleaseStep DEF IngestTimesOut
<1> QED
  BY <1>1, <1>2, <1>3, <1>4 DEF IngestStep

-----------------------------------------------------------------------------
LEMMA IInvInit == Init => IInv
<1> SUFFICES ASSUME Init PROVE IInv
  OBVIOUS
<1>1. calls \in [Calls -> Call] /\ \A c \in Calls : calls[c] = NoCall
  BY RecordTypes DEF Init
<1>2. TypeOK
  <2>1. LineageTypeOK
    BY RecordTypes DEF Init, LineageInit, LineageTypeOK
  <2>2. level \in [Sessions -> 0 .. 3]
    BY DEF Init
  <2>3. scan \in Scan
    BY RecordTypes DEF Init
  <2> QED
    BY <1>1, <2>1, <2>2, <2>3 DEF Init, TypeOK
<1>3. \A c \in Calls : calls[c].phase = "idle" /\ calls[c].verdict = "none" /\ ~calls[c].sealed
  BY <1>1 DEF NoCall
<1>4. scan.by = None /\ ingest = None /\ terminated = {}
  BY DEF Init, NoScan
<1> QED
  BY <1>2, <1>3, <1>4, CallsAssumption
     DEF IInv, ColdIsQuiet, Pending, HolderIsScanning, ScanHasSession, CallHasSession,
         IngestHasSession, SealedIsTerminated, Undecided, EvaluatedStaysLive,
         SealedIsBlocked, DangerousIsScanned

LEMMA IInvStep == IInv /\ [Next]_vars => IInv'
<1> SUFFICES ASSUME IInv, [Next]_vars PROVE IInv'
  OBVIOUS
<1>1. CASE UNCHANGED vars
  BY <1>1 DEF vars, gateVars, lineageVars, IInv, TypeOK, LineageTypeOK, ColdIsQuiet,
              HolderIsScanning, ScanHasSession, CallHasSession, IngestHasSession,
              SealedIsTerminated, Undecided, EvaluatedStaysLive, SealedIsBlocked,
              DangerousIsScanned
<1>2. ASSUME NEW c \in Calls, CallStep(c) PROVE IInv'
  BY <1>2, BeginCallStep, QuietCallStep, UnscannedStep, SuspendStep, ReturnsStep,
     TimeoutStep, ReturnStep DEF CallStep
<1>3. CASE InitEnds \/ SetArmed \/ SubagentHook
  BY <1>3, EnvironmentStep
<1>4. CASE OrphanEnds \/ IngestStep
  BY <1>4, OrphanStep, IngestInvStep
<1> QED
  BY <1>1, <1>2, <1>3, <1>4 DEF Next

LEMMA Invariant == Spec => []IInv
BY IInvInit, IInvStep, PTL DEF Spec

(* Type correctness of the gate's state. *)
THEOREM TypeCorrect == Spec => []TypeOK
<1>1. IInv => TypeOK
  BY DEF IInv
<1> QED
  BY <1>1, Invariant, PTL

(* For every number of threads and sessions, a call of a session that was  *)
(* terminated when the call began is blocked, whatever becomes of its      *)
(* evaluation, unless the gate is disarmed.                                *)
THEOREM TerminatedCallsAreBlocked == Spec => []SealedIsBlocked
<1>1. IInv => SealedIsBlocked
  BY DEF IInv
<1> QED
  BY <1>1, Invariant, PTL

(* The tier that evaluate() read before it suspended is not overtaken by a *)
(* termination of the session while it is suspended.                       *)
THEOREM EvaluatedSessionsLive == Spec => []EvaluatedStaysLive
<1>1. IInv => EvaluatedStaysLive
  BY DEF IInv
<1> QED
  BY <1>1, Invariant, PTL

(* No tool that can change things passes the armed gate without the full   *)
(* evaluation, except after a clean syntactic scan with fail_mode open.    *)
THEOREM DangerousCallsAreScanned == Spec => []DangerousIsScanned
<1>1. IInv => DangerousIsScanned
  BY DEF IInv
<1> QED
  BY <1>1, Invariant, PTL

-----------------------------------------------------------------------------
(* Taint: what is stored for a session is exactly what is still owed to it. *)

Debts == [TaintTexts -> Debt \cup {None}]
Leaves == TaintTexts \cup {None}

Texts(spans) == [i \in 1 .. Len(spans) |-> spans[i].text]

(* Each stored text is owed, and as much came after it as is on record.    *)
Recorded(spans, owing, later) ==
  \A i \in 1 .. Len(spans) :
    /\ owing[spans[i].text] # None
    /\ owing[spans[i].text].ns = spans[i].ns
    /\ owing[spans[i].text].newer = Following(Texts(spans), spans[i].text)
    /\ owing[spans[i].text].others = later

FinitelyNewer(owing) == \A t \in TaintTexts : owing[t] # None => IsFiniteSet(owing[t].newer)

(* What is still owed is stored.                                           *)
Paid(spans, owing) == \A t \in TaintTexts : Alive(owing[t]) => t \in ToSet(Texts(spans))

Matches(spans, owing, later) ==
  /\ Len(spans) <= MaxSpans /\ Distinct(Texts(spans))
  /\ Recorded(spans, owing, later) /\ FinitelyNewer(owing) /\ Paid(spans, owing)

TaintTypeOK ==
  /\ store \in [TaintSessions -> Seq(Span)] /\ order \in Seq(TaintSessions)
  /\ owed \in [TaintSessions -> Debts]

(* The sessions that were active after s.                                  *)
Later(s) == Following(order, s)

TaintIInv ==
  /\ TaintTypeOK
  /\ Len(order) <= MaxSessions /\ Distinct(order)
  /\ \A s \in TaintSessions : s \notin ToSet(order) => store[s] = << >>
  /\ \A s \in TaintSessions : Matches(store[s], owed[s], Later(s))

LEMMA FollowingNothing ==
  \A q, x : /\ Following(q, x) \subseteq ToSet(q)
            /\ x \notin ToSet(q) => Following(q, x) = {}
  BY DEF Following, ToSet

LEMMA TextsProperties ==
  ASSUME NEW spans \in Seq(Span)
  PROVE  /\ Texts(spans) \in Seq(TaintTexts) /\ Len(Texts(spans)) = Len(spans) /\ Len(spans) \in Nat
         /\ DOMAIN spans = 1 .. Len(spans)
         /\ \A i \in 1 .. Len(spans) : /\ spans[i] \in Span /\ spans[i].text \in TaintTexts
                                       /\ spans[i].text \in ToSet(Texts(spans))
         /\ \A t \in ToSet(Texts(spans)) : \E i \in 1 .. Len(spans) : spans[i].text = t
         /\ Texted(spans) = ToSet(Texts(spans))
  <1>1. /\ Len(spans) \in Nat /\ DOMAIN spans = 1 .. Len(spans)
        /\ \A i \in 1 .. Len(spans) : spans[i] \in Span
    BY LenProperties
  <1>2. \A i \in 1 .. Len(spans) : spans[i].text \in TaintTexts
    BY <1>1 DEF Span
  <1>3. Texts(spans) \in [1 .. Len(spans) -> TaintTexts] /\ DOMAIN Texts(spans) = 1 .. Len(spans)
    BY <1>2 DEF Texts
  <1>4. Texts(spans) \in Seq(TaintTexts) /\ Len(Texts(spans)) = Len(spans)
    BY <1>1, <1>3
  <1>5. \A i \in 1 .. Len(spans) : Texts(spans)[i] = spans[i].text
    BY DEF Texts
  <1> QED
    BY <1>1, <1>2, <1>3, <1>4, <1>5 DEF ToSet, Texted

LEMMA TextsAppend ==
  ASSUME NEW spans \in Seq(Span), NEW x \in Span
  PROVE  Texts(Append(spans, x)) = Append(Texts(spans), x.text)
  <1> DEFINE n == Len(spans)
             q == Texts(spans)
  <1>1. /\ n \in Nat /\ q \in Seq(TaintTexts) /\ Len(q) = n /\ x.text \in TaintTexts
        /\ \A i \in 1 .. n : q[i] = spans[i].text
    BY TextsProperties DEF Span, Texts
  <1>2. /\ Append(spans, x) \in Seq(Span) /\ Len(Append(spans, x)) = n + 1
        /\ \A i \in 1 .. n : Append(spans, x)[i] = spans[i]
        /\ Append(spans, x)[n + 1] = x
    BY AppendProperties
  <1>3. /\ Append(q, x.text) \in Seq(TaintTexts) /\ Len(Append(q, x.text)) = n + 1
        /\ \A i \in 1 .. n : Append(q, x.text)[i] = q[i]
        /\ Append(q, x.text)[n + 1] = x.text
    BY <1>1, AppendProperties
  <1> HIDE DEF n, q
  <1>4. \A i \in 1 .. (n + 1) : i \in 1 .. n \/ i = n + 1
    BY <1>1
  <1>5. DOMAIN Append(q, x.text) = 1 .. (n + 1) /\ DOMAIN Texts(Append(spans, x)) = 1 .. (n + 1)
    BY <1>2, <1>3, LenProperties DEF Texts
  <1>6. ASSUME NEW i \in 1 .. (n + 1)
        PROVE  Texts(Append(spans, x))[i] = Append(q, x.text)[i]
    <2>1. Texts(Append(spans, x))[i] = Append(spans, x)[i].text
      BY <1>2 DEF Texts
    <2> QED
      BY <1>1, <1>2, <1>3, <1>4, <2>1
  <1>7. Texts(Append(spans, x)) = [i \in 1 .. (n + 1) |-> Texts(Append(spans, x))[i]]
    BY <1>5 DEF Texts
  <1>8. Append(q, x.text) = [i \in 1 .. (n + 1) |-> Append(q, x.text)[i]]
    BY <1>3, <1>5, LenProperties
  <1> QED
    BY <1>6, <1>7, <1>8 DEF q

LEMMA TextsTail ==
  ASSUME NEW spans \in Seq(Span), spans # << >>
  PROVE  /\ Texts(Tail(spans)) = Tail(Texts(spans)) /\ Texts(spans) # << >>
         /\ Tail(spans) \in Seq(Span) /\ Len(Tail(spans)) = Len(spans) - 1
         /\ \A i \in 1 .. Len(Tail(spans)) : i + 1 \in 1 .. Len(spans) /\ Tail(spans)[i] = spans[i + 1]
  <1> DEFINE m == Len(Tail(spans))
             q == Texts(spans)
  <1>1. /\ Tail(spans) \in Seq(Span) /\ m \in Nat /\ Len(spans) = m + 1
        /\ \A i \in 1 .. m : Tail(spans)[i] = spans[i + 1]
    BY HeadTailProperties, LenProperties
  <1>2. q \in Seq(TaintTexts) /\ Len(q) = m + 1 /\ \A i \in 1 .. (m + 1) : q[i] = spans[i].text
    BY <1>1, TextsProperties DEF Texts
  <1>3. q # << >>
    BY <1>1, <1>2
  <1>4. Tail(q) \in Seq(TaintTexts) /\ Len(Tail(q)) = m /\ \A i \in 1 .. m : Tail(q)[i] = q[i + 1]
    BY <1>1, <1>2, <1>3, HeadTailProperties
  <1> HIDE DEF m, q
  <1>5. \A i \in 1 .. m : i + 1 \in 1 .. (m + 1)
    BY <1>1
  <1>6. \A i \in 1 .. m : Texts(Tail(spans))[i] = Tail(q)[i]
    BY <1>1, <1>2, <1>4, <1>5 DEF Texts, m
  <1>7. DOMAIN Tail(q) = 1 .. m /\ DOMAIN Texts(Tail(spans)) = 1 .. m
    BY <1>4, LenProperties DEF Texts, m
  <1>8. Texts(Tail(spans)) = [i \in 1 .. m |-> Texts(Tail(spans))[i]]
    BY DEF Texts, m
  <1>9. Tail(q) = [i \in 1 .. m |-> Tail(q)[i]]
    BY <1>4, <1>7, LenProperties
  <1>10. Texts(Tail(spans)) = Tail(q)
    BY <1>6, <1>8, <1>9
  <1>11. m = Len(spans) - 1
    BY <1>1
  <1> QED
    BY <1>1, <1>3, <1>5, <1>10, <1>11 DEF m, q

(* A text that is stored is still owed: too little came after it.          *)
LEMMA StoredIsAlive ==
  ASSUME NEW spans \in Seq(Span), NEW owing \in Debts, NEW later, Matches(spans, owing, later),
         Cardinality(later) < MaxSessions
  PROVE  \A t \in ToSet(Texts(spans)) : Alive(owing[t])
  <1> DEFINE q == Texts(spans)
  <1>1. q \in Seq(TaintTexts) /\ Len(q) = Len(spans) /\ Distinct(q) /\ Len(spans) <= MaxSpans
        /\ Len(spans) \in Nat
    BY TextsProperties DEF Matches
  <1>2. IsFiniteSet(ToSet(q)) /\ Cardinality(ToSet(q)) = Len(spans)
    BY <1>1, DistinctLength
  <1> SUFFICES ASSUME NEW t \in ToSet(q) PROVE Alive(owing[t])
    OBVIOUS
  <1>3. PICK i \in 1 .. Len(spans) : spans[i].text = t
    BY TextsProperties
  <1>4. owing[t] # None /\ owing[t].newer = Following(q, t) /\ owing[t].others = later
    BY <1>3 DEF Matches, Recorded
  <1> HIDE DEF q
  <1>5. Following(q, t) \subseteq ToSet(q) \ {t}
    BY <1>1, FollowingNothing DEF Distinct
  <1>6. IsFiniteSet(ToSet(q) \ {t}) /\ Cardinality(ToSet(q) \ {t}) = Len(spans) - 1
    BY <1>2, FS_RemoveElement
  <1>7. Cardinality(Following(q, t)) <= Len(spans) - 1 /\ Cardinality(Following(q, t)) \in Nat
    BY <1>5, <1>6, FS_Subset, FS_CardinalityType
  <1>8. Cardinality(Following(q, t)) < MaxSpans
    BY <1>1, <1>7, TaintAssumption
  <1> QED
    BY <1>4, <1>8 DEF Alive

LEMMA DebtTypes ==
  ASSUME NEW owing \in Debts, NEW t \in TaintTexts
  PROVE  /\ owing[t] = None \/ owing[t] \in Debt
         /\ None \notin Debt
         /\ \A ns \in Namespaces : [ns |-> ns, newer |-> {}, others |-> {}] \in Debt
         /\ \A leaf \in TaintTexts, o \in Debt :
              /\ [o EXCEPT !.newer = @ \cup {leaf}] \in Debt
              /\ [o EXCEPT !.newer = @ \cup {leaf}].ns = o.ns
              /\ [o EXCEPT !.newer = @ \cup {leaf}].newer = o.newer \cup {leaf}
              /\ [o EXCEPT !.newer = @ \cup {leaf}].others = o.others
         /\ \A s \in TaintSessions, o \in Debt :
              /\ [o EXCEPT !.others = @ \cup {s}] \in Debt
              /\ [o EXCEPT !.others = @ \cup {s}].ns = o.ns
              /\ [o EXCEPT !.others = @ \cup {s}].newer = o.newer
              /\ [o EXCEPT !.others = @ \cup {s}].others = o.others \cup {s}
         /\ \A o \in Debt :
              /\ [o EXCEPT !.others = {}] \in Debt
              /\ [o EXCEPT !.others = {}].ns = o.ns
              /\ [o EXCEPT !.others = {}].newer = o.newer
              /\ [o EXCEPT !.others = {}].others = {}
         /\ \A o \in Debt : o.newer \in SUBSET TaintTexts
  <1>1. owing[t] = None \/ owing[t] \in Debt
    BY DEF Debts
  <1>2. None \notin Debt
    BY TaintAssumption
  <1> QED
    BY <1>1, <1>2 DEF Debt

(* What a new text does to the debts of the others.                        *)
Newer(owing, leaf, ns) ==
  [t \in TaintTexts |->
     IF t = leaf THEN [ns |-> ns, newer |-> {}, others |-> {}]
     ELSE IF owing[t] = None THEN None
     ELSE [owing[t] EXCEPT !.newer = @ \cup {leaf}]]

LEMMA NewerProperties ==
  ASSUME NEW owing \in Debts, NEW leaf \in TaintTexts, NEW ns \in Namespaces, FinitelyNewer(owing)
  PROVE  LET after == Newer(owing, leaf, ns) IN
         /\ after \in Debts /\ FinitelyNewer(after)
         /\ after[leaf] = [ns |-> ns, newer |-> {}, others |-> {}] /\ after[leaf] # None
         /\ \A t \in TaintTexts \ {leaf} :
              /\ after[t] = None <=> owing[t] = None
              /\ owing[t] # None => /\ after[t].ns = owing[t].ns
                                    /\ after[t].newer = owing[t].newer \cup {leaf}
                                    /\ after[t].others = owing[t].others
              /\ Alive(after[t]) => Alive(owing[t])
  <1> DEFINE after == Newer(owing, leaf, ns)
  <1>1. after[leaf] = [ns |-> ns, newer |-> {}, others |-> {}]
    BY DEF Newer
  <1>2. after[leaf] \in Debt /\ after[leaf] # None
    BY <1>1, DebtTypes
  <1>3. ASSUME NEW t \in TaintTexts \ {leaf}
        PROVE  /\ after[t] \in Debt \cup {None}
               /\ after[t] = None <=> owing[t] = None
               /\ owing[t] # None => /\ after[t].ns = owing[t].ns
                                     /\ after[t].newer = owing[t].newer \cup {leaf}
                                     /\ after[t].others = owing[t].others
    <2>1. CASE owing[t] = None
      BY <2>1 DEF Newer
    <2>2. CASE owing[t] # None
      <3>1. owing[t] \in Debt
        BY <2>2, DebtTypes
      <3>2. after[t] = [owing[t] EXCEPT !.newer = @ \cup {leaf}]
        BY <2>2 DEF Newer
      <3> HIDE DEF after
      <3> QED
        BY <2>2, <3>1, <3>2, DebtTypes
    <2> QED
      BY <2>1, <2>2
  <1>4. after \in Debts
    <2>1. \A t \in TaintTexts : after[t] \in Debt \cup {None}
      BY <1>2, <1>3
    <2>2. after = [t \in TaintTexts |-> after[t]]
      BY DEF Newer
    <2> HIDE DEF after
    <2> QED
      BY <2>1, <2>2 DEF Debts
  <1> HIDE DEF after
  <1>5. ASSUME NEW t \in TaintTexts, after[t] # None
        PROVE  IsFiniteSet(after[t].newer)
    <2>1. CASE t = leaf
      BY <1>1, <2>1, FS_EmptySet
    <2>2. CASE t # leaf
      <3>1. owing[t] # None /\ after[t].newer = owing[t].newer \cup {leaf}
        BY <1>3, <1>5, <2>2
      <3>2. IsFiniteSet(owing[t].newer)
        BY <3>1 DEF FinitelyNewer
      <3>3. IsFiniteSet(owing[t].newer \cup {leaf})
        BY <3>2, FS_AddElement
      <3> QED
        BY <3>1, <3>3
    <2> QED
      BY <2>1, <2>2
  <1>6. ASSUME NEW t \in TaintTexts \ {leaf}, Alive(after[t])
        PROVE  Alive(owing[t])
    <2>1. owing[t] # None /\ after[t].newer = owing[t].newer \cup {leaf} /\ after[t].others = owing[t].others
      BY <1>3, <1>6 DEF Alive
    <2>2. IsFiniteSet(owing[t].newer)
      BY <2>1 DEF FinitelyNewer
    <2>3. /\ Cardinality(owing[t].newer \cup {leaf}) < MaxSpans /\ Cardinality(owing[t].others) < MaxSessions
      BY <1>6, <2>1 DEF Alive
    <2>4. /\ Cardinality(owing[t].newer) <= Cardinality(owing[t].newer \cup {leaf})
          /\ Cardinality(owing[t].newer) \in Nat /\ Cardinality(owing[t].newer \cup {leaf}) \in Nat
      BY <2>2, FS_AddElement, FS_Subset, FS_CardinalityType
    <2>5. Cardinality(owing[t].newer) < MaxSpans
      BY <2>3, <2>4, TaintAssumption
    <2> QED
      BY <2>1, <2>3, <2>5 DEF Alive
  <1> QED
    BY <1>1, <1>2, <1>3, <1>4, <1>5, <1>6 DEF after, FinitelyNewer

(* A new text at the end.                                                  *)
LEMMA LeafAppended ==
  ASSUME NEW spans \in Seq(Span), NEW owing \in Debts, NEW leaf \in TaintTexts, NEW ns \in Namespaces,
         Matches(spans, owing, {}), leaf \notin ToSet(Texts(spans))
  PROVE  LET all == Append(spans, [text |-> leaf, ns |-> ns])
             after == Newer(owing, leaf, ns)
         IN  /\ all \in Seq(Span) /\ Len(all) = Len(spans) + 1
             /\ Distinct(Texts(all)) /\ Recorded(all, after, {}) /\ FinitelyNewer(after) /\ Paid(all, after)
  <1> DEFINE x == [text |-> leaf, ns |-> ns]
             all == Append(spans, x)
             after == Newer(owing, leaf, ns)
             q == Texts(spans)
             n == Len(spans)
  <1>1. x \in Span /\ x.text = leaf /\ x.ns = ns
    BY DEF Span
  <1> HIDE DEF x
  <1>2. /\ all \in Seq(Span) /\ Len(all) = n + 1 /\ n \in Nat
        /\ \A i \in 1 .. n : all[i] = spans[i]
        /\ all[n + 1] = x
    BY <1>1, AppendProperties, LenProperties
  <1>3. Texts(all) = Append(q, leaf)
    BY <1>1, TextsAppend
  <1>4. /\ q \in Seq(TaintTexts) /\ Distinct(q)
        /\ \A i \in 1 .. n : spans[i].text \in ToSet(q) /\ spans[i].text \in TaintTexts
    BY TextsProperties DEF Matches
  <1>5. /\ \A i \in 1 .. n : /\ owing[spans[i].text] # None
                            /\ owing[spans[i].text].ns = spans[i].ns
                            /\ owing[spans[i].text].newer = Following(q, spans[i].text)
                            /\ owing[spans[i].text].others = {}
        /\ FinitelyNewer(owing) /\ \A t \in TaintTexts : Alive(owing[t]) => t \in ToSet(q)
    BY DEF Matches, Recorded, Paid
  <1>6. /\ FinitelyNewer(after)
        /\ after[leaf] = [ns |-> ns, newer |-> {}, others |-> {}] /\ after[leaf] # None
        /\ \A t \in TaintTexts \ {leaf} :
              /\ after[t] = None <=> owing[t] = None
              /\ owing[t] # None => /\ after[t].ns = owing[t].ns
                                    /\ after[t].newer = owing[t].newer \cup {leaf}
                                    /\ after[t].others = owing[t].others
              /\ Alive(after[t]) => Alive(owing[t])
    BY <1>5, NewerProperties
  <1>7. leaf \notin ToSet(q)
    OBVIOUS
  <1> HIDE DEF all, after, q, n
  <1>8. \A y : Following(Append(q, leaf), y) =
                IF y \in ToSet(q) THEN Following(q, y) \cup {leaf} ELSE Following(q, y)
    BY <1>4, AppendFollowing DEF EndsWith
  <1>9. ToSet(Append(q, leaf)) = ToSet(q) \cup {leaf}
    BY <1>4, AppendElements
  <1>10. Following(Append(q, leaf), leaf) = {}
    BY <1>7, <1>8, FollowingNothing
  <1>11. Distinct(Texts(all))
    BY <1>3, <1>4, <1>7, <1>8, <1>9, <1>10 DEF Distinct
  <1>12. ASSUME NEW i \in 1 .. (n + 1)
         PROVE  /\ after[all[i].text] # None
                /\ after[all[i].text].ns = all[i].ns
                /\ after[all[i].text].newer = Following(Texts(all), all[i].text)
                /\ after[all[i].text].others = {}
    <2>1. CASE i = n + 1
      <3>1. all[i].text = leaf /\ all[i].ns = ns
        BY <1>1, <1>2, <2>1
      <3>2. after[leaf].ns = ns /\ after[leaf].newer = {} /\ after[leaf].others = {}
        BY <1>6
      <3> QED
        BY <1>3, <1>6, <1>10, <3>1, <3>2
    <2>2. CASE i # n + 1
      <3>1. i \in 1 .. n
        BY <1>2, <2>2
      <3> DEFINE t == spans[i].text
      <3>2. t \in TaintTexts \ {leaf} /\ t \in ToSet(q) /\ all[i] = spans[i]
        BY <1>2, <1>4, <1>7, <3>1
      <3>3. /\ owing[t] # None /\ owing[t].ns = spans[i].ns
            /\ owing[t].newer = Following(q, t) /\ owing[t].others = {}
        BY <1>5, <3>1
      <3> HIDE DEF t
      <3>4. /\ after[t] # None /\ after[t].ns = spans[i].ns
            /\ after[t].newer = Following(q, t) \cup {leaf} /\ after[t].others = {}
        BY <1>6, <3>2, <3>3
      <3>5. Following(Texts(all), t) = Following(q, t) \cup {leaf}
        BY <1>3, <1>8, <3>2
      <3> QED
        BY <3>2, <3>4, <3>5 DEF t
    <2> QED
      BY <2>1, <2>2
  <1>13. Recorded(all, after, {})
    BY <1>2, <1>12 DEF Recorded
  <1>14. Paid(all, after)
    BY <1>3, <1>5, <1>6, <1>9 DEF Paid
  <1> QED
    BY <1>2, <1>6, <1>11, <1>13, <1>14 DEF all, after, x, n

(* One more than fit: the oldest goes, and as many came after it as fit.   *)
LEMMA OldestDropped ==
  ASSUME NEW spans \in Seq(Span), NEW owing \in Debts, Len(spans) = MaxSpans + 1,
         Distinct(Texts(spans)), Recorded(spans, owing, {}), FinitelyNewer(owing), Paid(spans, owing)
  PROVE  Tail(spans) \in Seq(Span) /\ Matches(Tail(spans), owing, {})
  <1> DEFINE q == Texts(spans)
             r == Tail(q)
             h == Head(q)
             m == Len(Tail(spans))
  <1>1. spans # << >> /\ MaxSpans \in Nat
    BY TaintAssumption
  <1>2. /\ Texts(Tail(spans)) = r /\ q # << >> /\ Tail(spans) \in Seq(Span) /\ m = MaxSpans
        /\ \A i \in 1 .. m : i + 1 \in 1 .. Len(spans) /\ Tail(spans)[i] = spans[i + 1]
    BY <1>1, TextsTail
  <1>3. /\ q \in Seq(TaintTexts) /\ Len(q) = MaxSpans + 1 /\ Distinct(q)
        /\ \A t \in ToSet(q) : \E i \in 1 .. Len(spans) : spans[i].text = t
    BY TextsProperties
  <1>11. \A i \in 1 .. m : Tail(spans)[i].text \in ToSet(r)
    BY <1>2, TextsProperties
  <1>4. /\ r \in Seq(TaintTexts) /\ Len(r) = MaxSpans /\ h \in TaintTexts
        /\ ToSet(q) = {h} \cup ToSet(r)
        /\ Following(q, h) = ToSet(r)
        /\ \A x : x # h => Following(q, x) = Following(r, x)
    BY <1>1, <1>2, <1>3, TailFollowing
  <1>5. \A i \in 1 .. Len(spans) :
          /\ owing[spans[i].text] # None
          /\ owing[spans[i].text].ns = spans[i].ns
          /\ owing[spans[i].text].newer = Following(q, spans[i].text)
          /\ owing[spans[i].text].others = {}
    BY DEF Recorded
  <1>12. \A t \in TaintTexts : Alive(owing[t]) => t \in ToSet(q)
    BY DEF Paid
  <1> HIDE DEF q, r, h, m
  <1>6. h \notin ToSet(r)
    BY <1>3, <1>4 DEF Distinct
  <1>7. Distinct(r)
    BY <1>3, <1>4, <1>6 DEF Distinct
  <1>8. Recorded(Tail(spans), owing, {})
    <2> SUFFICES ASSUME NEW i \in 1 .. m
                 PROVE  /\ owing[Tail(spans)[i].text] # None
                        /\ owing[Tail(spans)[i].text].ns = Tail(spans)[i].ns
                        /\ owing[Tail(spans)[i].text].newer = Following(r, Tail(spans)[i].text)
                        /\ owing[Tail(spans)[i].text].others = {}
      BY <1>2 DEF Recorded, m
    <2>1. Tail(spans)[i].text # h
      BY <1>6, <1>11
    <2>2. Following(q, Tail(spans)[i].text) = Following(r, Tail(spans)[i].text)
      BY <1>4, <2>1
    <2>3. i + 1 \in 1 .. Len(spans) /\ Tail(spans)[i] = spans[i + 1]
      BY <1>2
    <2> QED
      BY <1>5, <2>2, <2>3
  <1>9. ~Alive(owing[h])
    <2>1. PICK i \in 1 .. Len(spans) : spans[i].text = h
      BY <1>3, <1>4
    <2>2. owing[h].newer = ToSet(r)
      BY <1>4, <1>5, <2>1
    <2>3. Cardinality(ToSet(r)) = MaxSpans
      BY <1>4, <1>7, DistinctLength
    <2> QED
      BY <1>1, <2>2, <2>3 DEF Alive
  <1>10. Paid(Tail(spans), owing)
    BY <1>2, <1>4, <1>9, <1>12 DEF Paid
  <1> QED
    BY <1>1, <1>2, <1>7, <1>8, <1>10 DEF Matches, m

LEMMA LeafKeeps ==
  ASSUME NEW spans \in Seq(Span), NEW owing \in Debts, NEW leaf \in Leaves, NEW ns \in Namespaces,
         Matches(spans, owing, {})
  PROVE  /\ CaptureLeaf(spans, leaf, ns) \in Seq(Span) /\ OweLeaf(owing, leaf, ns) \in Debts
         /\ Matches(CaptureLeaf(spans, leaf, ns), OweLeaf(owing, leaf, ns), {})
  <1>1. Texted(spans) = ToSet(Texts(spans)) /\ Len(spans) \in Nat
    BY TextsProperties
  <1>2. Cardinality({}) < MaxSessions
    BY FS_EmptySet, TaintAssumption
  <1>3. \A t \in ToSet(Texts(spans)) : Alive(owing[t])
    BY <1>2, StoredIsAlive
  <1>4. \A t \in TaintTexts : Alive(owing[t]) <=> t \in ToSet(Texts(spans))
    BY <1>3 DEF Matches, Paid
  <1>5. CASE leaf = None \/ LengthOf[leaf] < floor
    BY <1>5 DEF CaptureLeaf, OweLeaf
  <1>6. CASE leaf # None /\ ~(LengthOf[leaf] < floor) /\ leaf \in ToSet(Texts(spans))
    <2>1. CaptureLeaf(spans, leaf, ns) = spans
      BY <1>1, <1>6 DEF CaptureLeaf
    <2>2. OweLeaf(owing, leaf, ns) = owing
      BY <1>3, <1>6 DEF OweLeaf
    <2> QED
      BY <2>1, <2>2
  <1>7. CASE leaf # None /\ ~(LengthOf[leaf] < floor) /\ leaf \notin ToSet(Texts(spans))
    <2> DEFINE all == Append(spans, [text |-> leaf, ns |-> ns])
               after == Newer(owing, leaf, ns)
    <2>1. leaf \in TaintTexts
      BY <1>7 DEF Leaves
    <2>2. /\ all \in Seq(Span) /\ Len(all) = Len(spans) + 1
          /\ Distinct(Texts(all)) /\ Recorded(all, after, {}) /\ FinitelyNewer(after) /\ Paid(all, after)
      BY <1>7, <2>1, LeafAppended
    <2>3. OweLeaf(owing, leaf, ns) = after /\ after \in Debts
      <3>1. OweLeaf(owing, leaf, ns) = after
        BY <1>4, <1>7, <2>1 DEF OweLeaf, Newer
      <3>2. after \in Debts
        BY <2>1, NewerProperties DEF Matches
      <3> QED
        BY <3>1, <3>2
    <2>4. CaptureLeaf(spans, leaf, ns) = IF Len(all) > MaxSpans THEN Tail(all) ELSE all
      BY <1>1, <1>7 DEF CaptureLeaf
    <2> HIDE DEF all, after
    <2>5. MaxSpans \in Nat /\ Len(spans) <= MaxSpans
      BY TaintAssumption DEF Matches
    <2>6. CASE Len(all) > MaxSpans
      <3>1. Len(all) = MaxSpans + 1
        BY <1>1, <2>2, <2>5, <2>6
      <3>2. Tail(all) \in Seq(Span) /\ Matches(Tail(all), after, {})
        BY <2>2, <2>3, <3>1, OldestDropped
      <3> QED
        BY <2>3, <2>4, <2>6, <3>2
    <2>7. CASE ~(Len(all) > MaxSpans)
      <3>1. Len(all) <= MaxSpans
        BY <1>1, <2>2, <2>5, <2>7
      <3>2. Matches(all, after, {})
        BY <2>2, <3>1 DEF Matches
      <3> QED
        BY <2>2, <2>3, <2>4, <2>7, <3>2
    <2> QED
      BY <2>6, <2>7
  <1> QED
    BY <1>5, <1>6, <1>7

LEMMA LeafTyped ==
  ASSUME NEW spans \in Seq(Span), NEW leaf \in Leaves, NEW ns \in Namespaces
  PROVE  CaptureLeaf(spans, leaf, ns) \in Seq(Span)
  <1> DEFINE x == [text |-> leaf, ns |-> ns]
  <1>1. CASE leaf = None
    BY <1>1 DEF CaptureLeaf
  <1>2. CASE leaf # None
    <2>1. x \in Span
      BY <1>2 DEF Leaves, Span
    <2>2. Append(spans, x) \in Seq(Span) /\ Append(spans, x) # << >>
      BY <2>1, AppendProperties
    <2>3. Tail(Append(spans, x)) \in Seq(Span)
      BY <2>2, HeadTailProperties
    <2> QED
      BY <2>2, <2>3 DEF CaptureLeaf
  <1> QED
    BY <1>1, <1>2

Counted == {owing \in Debts : FinitelyNewer(owing)}

LEMMA OweTyped ==
  ASSUME NEW owing \in Counted, NEW leaf \in Leaves, NEW ns \in Namespaces
  PROVE  OweLeaf(owing, leaf, ns) \in Counted
  <1>1. owing \in Debts /\ FinitelyNewer(owing)
    BY DEF Counted
  <1>2. CASE leaf = None
    BY <1>2 DEF OweLeaf
  <1>3. CASE leaf # None
    <2>1. leaf \in TaintTexts
      BY <1>3 DEF Leaves
    <2>2. Newer(owing, leaf, ns) \in Counted
      BY <1>1, <2>1, NewerProperties DEF Counted
    <2>3. OweLeaf(owing, leaf, ns) \in {owing, Newer(owing, leaf, ns)}
      BY DEF OweLeaf, Newer
    <2> QED
      BY <2>2, <2>3
  <1> QED
    BY <1>2, <1>3

(* The loops behind Captured and Owing, turn by turn.                      *)
CapturesAll(after, spans, leaves, ns) ==
  after = [n \in 0 .. Len(leaves) |->
             IF n = 0 THEN spans ELSE CaptureLeaf(after[n - 1], leaves[n], ns)]

LEMMA CapturedRuns ==
  ASSUME NEW spans \in Seq(Span), NEW leaves \in Seq(Leaves), NEW ns \in Namespaces
  PROVE  \E after : /\ Captured(spans, leaves, ns) = after[Len(leaves)]
                    /\ after \in [0 .. Len(leaves) -> Seq(Span)] /\ after[0] = spans
                    /\ \A n \in 1 .. Len(leaves) : after[n] = CaptureLeaf(after[n - 1], leaves[n], ns)
  <1> DEFINE N == Len(leaves)
             step == [p \in (1 .. N) \X Seq(Span) |-> CaptureLeaf(p[2], leaves[p[1]], ns)]
             after == CHOOSE g : CapturesAll(g, spans, leaves, ns)
  <1>1. N \in Nat /\ \A n \in 1 .. N : leaves[n] \in Leaves
    BY LenProperties
  <1>2. \A n \in 1 .. N, v \in Seq(Span) : step[<<n, v>>] = CaptureLeaf(v, leaves[n], ns)
    OBVIOUS
  <1> HIDE DEF step, N
  <1>3. ASSUME NEW n \in 1 .. N, NEW v \in Seq(Span)
        PROVE  step[<<n, v>>] \in Seq(Span)
    <2>1. leaves[n] \in Leaves /\ step[<<n, v>>] = CaptureLeaf(v, leaves[n], ns)
      BY <1>1, <1>2
    <2> QED
      BY <2>1, LeafTyped
  <1>4. PICK g \in [0 .. N -> Seq(Span)] : g[0] = spans /\ \A n \in 1 .. N : g[n] = step[<<n, g[n - 1]>>]
    <2>1. Turns(step, N, Seq(Span))
      BY <1>3 DEF Turns
    <2>2. spans \in Seq(Span)
      OBVIOUS
    <2>3. PICK g \in [0 .. N -> Seq(Span)] : Ran(g, step, N, spans)
      BY <1>1, <2>1, <2>2, LoopExists
    <2> QED
      BY <2>3 DEF Ran
  <1>5. ASSUME NEW n \in 1 .. N
        PROVE  n # 0 /\ n - 1 \in 0 .. N /\ n \in 0 .. N
    BY <1>1
  <1>6. ASSUME NEW n \in 1 .. N
        PROVE  g[n] = CaptureLeaf(g[n - 1], leaves[n], ns)
    BY <1>2, <1>4, <1>5
  <1>7. \A n \in 0 .. N : n = 0 \/ n \in 1 .. N
    BY <1>1
  <1>8. CapturesAll(g, spans, leaves, ns)
    <2> DEFINE h == [n \in 0 .. N |->
                       IF n = 0 THEN spans ELSE CaptureLeaf(g[n - 1], leaves[n], ns)]
    <2>1. \A n \in 0 .. N : g[n] = h[n]
      BY <1>4, <1>5, <1>6, <1>7
    <2>2. g = h
      BY <1>4, <2>1
    <2> QED
      BY <2>2 DEF CapturesAll, N
  <1>9. CapturesAll(after, spans, leaves, ns)
    BY <1>8
  <1>10. Captured(spans, leaves, ns) = after[N]
    BY DEF Captured, CapturesAll, N
  <1> HIDE DEF after
  <1>11. \A n \in 0 .. N : after[n] = IF n = 0 THEN spans ELSE CaptureLeaf(after[n - 1], leaves[n], ns)
    BY <1>9, Zenon DEF CapturesAll, N
  <1>12. /\ after[0] = spans
         /\ \A n \in 1 .. N : after[n] = CaptureLeaf(after[n - 1], leaves[n], ns)
    <2>1. 0 \in 0 .. N
      BY <1>1
    <2> QED
      BY <1>5, <1>11, <2>1
  <1>13. \A n \in 0 .. N : after[n] = g[n]
    <2> DEFINE same == {n \in 0 .. N : after[n] = g[n]}
    <2>1. 0 \in same
      BY <1>1, <1>4, <1>12
    <2>2. \A n \in 1 .. N : n - 1 \in same => n \in same
      BY <1>5, <1>6, <1>12
    <2> HIDE DEF same
    <2>3. \A n \in 0 .. N : n \in same
      BY <1>1, <2>1, <2>2, Inductively
    <2> QED
      BY <2>3 DEF same
  <1>14. after \in [0 .. N -> Seq(Span)]
    <2>1. after = [n \in 0 .. N |-> after[n]]
      BY <1>9, Zenon DEF CapturesAll, N
    <2> QED
      BY <1>4, <1>13, <2>1
  <1> QED
    BY <1>10, <1>12, <1>14 DEF N

OwesAll(after, owing, leaves, ns) ==
  after = [n \in 0 .. Len(leaves) |->
             IF n = 0 THEN owing ELSE OweLeaf(after[n - 1], leaves[n], ns)]

LEMMA OwingRuns ==
  ASSUME NEW owing \in Counted, NEW leaves \in Seq(Leaves), NEW ns \in Namespaces
  PROVE  \E after : /\ Owing(owing, leaves, ns) = after[Len(leaves)]
                    /\ after \in [0 .. Len(leaves) -> Counted] /\ after[0] = owing
                    /\ \A n \in 1 .. Len(leaves) : after[n] = OweLeaf(after[n - 1], leaves[n], ns)
  <1> DEFINE N == Len(leaves)
             step == [p \in (1 .. N) \X Counted |-> OweLeaf(p[2], leaves[p[1]], ns)]
             after == CHOOSE g : OwesAll(g, owing, leaves, ns)
  <1>1. N \in Nat /\ \A n \in 1 .. N : leaves[n] \in Leaves
    BY LenProperties
  <1>2. \A n \in 1 .. N, v \in Counted : step[<<n, v>>] = OweLeaf(v, leaves[n], ns)
    OBVIOUS
  <1> HIDE DEF step, N
  <1>3. ASSUME NEW n \in 1 .. N, NEW v \in Counted
        PROVE  step[<<n, v>>] \in Counted
    <2>1. leaves[n] \in Leaves /\ step[<<n, v>>] = OweLeaf(v, leaves[n], ns)
      BY <1>1, <1>2
    <2> QED
      BY <2>1, OweTyped
  <1>4. PICK g \in [0 .. N -> Counted] : g[0] = owing /\ \A n \in 1 .. N : g[n] = step[<<n, g[n - 1]>>]
    <2>1. Turns(step, N, Counted)
      BY <1>3 DEF Turns
    <2>2. owing \in Counted
      OBVIOUS
    <2>3. PICK g \in [0 .. N -> Counted] : Ran(g, step, N, owing)
      BY <1>1, <2>1, <2>2, LoopExists
    <2> QED
      BY <2>3 DEF Ran
  <1>5. ASSUME NEW n \in 1 .. N
        PROVE  n # 0 /\ n - 1 \in 0 .. N /\ n \in 0 .. N
    BY <1>1
  <1>6. ASSUME NEW n \in 1 .. N
        PROVE  g[n] = OweLeaf(g[n - 1], leaves[n], ns)
    BY <1>2, <1>4, <1>5
  <1>7. \A n \in 0 .. N : n = 0 \/ n \in 1 .. N
    BY <1>1
  <1>8. OwesAll(g, owing, leaves, ns)
    <2> DEFINE h == [n \in 0 .. N |->
                       IF n = 0 THEN owing ELSE OweLeaf(g[n - 1], leaves[n], ns)]
    <2>1. \A n \in 0 .. N : g[n] = h[n]
      BY <1>4, <1>5, <1>6, <1>7
    <2>2. g = h
      BY <1>4, <2>1
    <2> QED
      BY <2>2 DEF OwesAll, N
  <1>9. OwesAll(after, owing, leaves, ns)
    BY <1>8
  <1>10. Owing(owing, leaves, ns) = after[N]
    BY DEF Owing, OwesAll, N
  <1> HIDE DEF after
  <1>11. \A n \in 0 .. N : after[n] = IF n = 0 THEN owing ELSE OweLeaf(after[n - 1], leaves[n], ns)
    BY <1>9, Zenon DEF OwesAll, N
  <1>12. /\ after[0] = owing
         /\ \A n \in 1 .. N : after[n] = OweLeaf(after[n - 1], leaves[n], ns)
    <2>1. 0 \in 0 .. N
      BY <1>1
    <2> QED
      BY <1>5, <1>11, <2>1
  <1>13. \A n \in 0 .. N : after[n] = g[n]
    <2> DEFINE same == {n \in 0 .. N : after[n] = g[n]}
    <2>1. 0 \in same
      BY <1>1, <1>4, <1>12
    <2>2. \A n \in 1 .. N : n - 1 \in same => n \in same
      BY <1>5, <1>6, <1>12
    <2> HIDE DEF same
    <2>3. \A n \in 0 .. N : n \in same
      BY <1>1, <2>1, <2>2, Inductively
    <2> QED
      BY <2>3 DEF same
  <1>14. after \in [0 .. N -> Counted]
    <2>1. after = [n \in 0 .. N |-> after[n]]
      BY <1>9, Zenon DEF OwesAll, N
    <2> QED
      BY <1>4, <1>13, <2>1
  <1> QED
    BY <1>10, <1>12, <1>14 DEF N

(* The walk over a result, leaf by leaf.                                   *)
LEMMA WalkKeeps ==
  ASSUME NEW spans \in Seq(Span), NEW owing \in Debts, NEW leaves \in Seq(Leaves), NEW ns \in Namespaces,
         Matches(spans, owing, {})
  PROVE  /\ Captured(spans, leaves, ns) \in Seq(Span) /\ Owing(owing, leaves, ns) \in Debts
         /\ Matches(Captured(spans, leaves, ns), Owing(owing, leaves, ns), {})
  <1> DEFINE N == Len(leaves)
  <1>1. N \in Nat /\ \A n \in 1 .. N : leaves[n] \in Leaves
    BY LenProperties
  <1>2. owing \in Counted
    BY DEF Matches, Counted
  <1>3. PICK f : /\ Captured(spans, leaves, ns) = f[N]
                 /\ f \in [0 .. N -> Seq(Span)] /\ f[0] = spans
                 /\ \A n \in 1 .. N : f[n] = CaptureLeaf(f[n - 1], leaves[n], ns)
    BY CapturedRuns
  <1>4. PICK g : /\ Owing(owing, leaves, ns) = g[N]
                 /\ g \in [0 .. N -> Counted] /\ g[0] = owing
                 /\ \A n \in 1 .. N : g[n] = OweLeaf(g[n - 1], leaves[n], ns)
    BY <1>2, OwingRuns
  <1> HIDE DEF N
  <1> DEFINE good == {n \in 0 .. N : Matches(f[n], g[n], {})}
  <1>5. 0 \in good
    BY <1>1, <1>3, <1>4
  <1>6. ASSUME NEW n \in 1 .. N, n - 1 \in good
        PROVE  n \in good
    <2>1. n \in 0 .. N /\ n - 1 \in 0 .. N
      BY <1>1
    <2>2. f[n - 1] \in Seq(Span) /\ g[n - 1] \in Debts /\ Matches(f[n - 1], g[n - 1], {})
      BY <1>3, <1>4, <1>6, <2>1 DEF Counted
    <2>3. leaves[n] \in Leaves
      BY <1>1
    <2>4. Matches(CaptureLeaf(f[n - 1], leaves[n], ns), OweLeaf(g[n - 1], leaves[n], ns), {})
      BY <2>2, <2>3, LeafKeeps
    <2> QED
      BY <1>3, <1>4, <2>1, <2>4
  <1> HIDE DEF good
  <1>7. \A n \in 0 .. N : n \in good
    BY <1>1, <1>5, <1>6, Inductively
  <1>8. N \in good /\ N \in 0 .. N
    BY <1>1, <1>7
  <1>9. Matches(f[N], g[N], {}) /\ f[N] \in Seq(Span) /\ g[N] \in Debts
    BY <1>3, <1>4, <1>8 DEF good, Counted
  <1> QED
    BY <1>3, <1>4, <1>9

LEMMA WalkedTyped ==
  ASSUME NEW result \in TaintResults
  PROVE  Walked(result) \in Seq(Leaves)
  <1>1. result \in Seq(Leaves) /\ Len(result) \in Nat /\ MaxLeaves \in Nat
    BY TaintAssumption, LenProperties DEF Leaves
  <1> DEFINE n == IF Len(result) < MaxLeaves THEN Len(result) ELSE MaxLeaves
  <1>2. n \in 0 .. Len(result)
    BY <1>1
  <1>3. \A i \in 1 .. n : i \in 1 .. Len(result) /\ result[i] \in Leaves
    BY <1>1, <1>2, LenProperties
  <1> HIDE DEF n
  <1>4. SubSeq(result, 1, n) \in Seq(Leaves)
    BY <1>1, <1>2, <1>3
  <1> QED
    BY <1>4 DEF Walked, n

(* The session that is active goes behind the others.                      *)
LEMMA TouchProperties ==
  ASSUME order \in Seq(TaintSessions), Distinct(order), NEW s \in TaintSessions
  PROVE  /\ Touch(s) \in Seq(TaintSessions) /\ Distinct(Touch(s)) /\ Touch(s) # << >>
         /\ ToSet(Touch(s)) = ToSet(order) \cup {s}
         /\ Following(Touch(s), s) = {}
         /\ \A r \in ToSet(order) \ {s} : Following(Touch(s), r) = Following(order, r) \cup {s}
         /\ Len(Touch(s)) <= Len(order) + 1 /\ Len(Touch(s)) \in Nat /\ Len(order) \in Nat
         /\ s \in ToSet(order) => Len(Touch(s)) = Len(order)
  <1> DEFINE A == TaintSessions \ {s}
             q == Only(order, {k \in DOMAIN order : order[k] \in A})
             touched == Append(q, s)
  <1>1. {k \in DOMAIN order : order[k] \in A} = {k \in DOMAIN order : order[k] # s}
    BY ElementOfSeq, LenProperties
  <1>2. Touch(s) = touched
    BY <1>1 DEF Touch
  <1>3. /\ q \in Seq(TaintSessions) /\ ToSet(q) = ToSet(order) \cap A
        /\ \A x \in A : Following(q, x) = Following(order, x) \cap A
    <2> HIDE DEF A
    <2> QED
      BY OnlyOrder
  <1>4. ToSet(order) \subseteq TaintSessions
    BY LenProperties DEF ToSet
  <1> HIDE DEF q
  <1>5. touched \in Seq(TaintSessions) /\ ToSet(touched) = ToSet(q) \cup {s}
    BY <1>3, AppendElements
  <1>6. \A x : Following(touched, x) = IF x \in ToSet(q) THEN Following(q, x) \cup {s} ELSE Following(q, x)
    BY <1>3, AppendFollowing DEF EndsWith
  <1>7. touched # << >>
    BY <1>3, AppendProperties
  <1> HIDE DEF touched
  <1>8. ToSet(touched) = ToSet(order) \cup {s}
    BY <1>3, <1>4, <1>5
  <1>9. Following(touched, s) = {}
    BY <1>3, <1>6, FollowingNothing
  <1>10. ASSUME NEW r \in ToSet(order) \ {s}
         PROVE  Following(touched, r) = Following(order, r) \cup {s}
    <2>1. r \in A /\ r \in ToSet(q)
      BY <1>3, <1>4
    <2>2. Following(order, r) \subseteq TaintSessions
      BY <1>4, FollowingNothing
    <2> QED
      BY <1>3, <1>6, <2>1, <2>2
  <1>11. Distinct(touched)
    <2>1. \A r \in ToSet(order) \ {s} : r \notin Following(touched, r)
      BY <1>10 DEF Distinct
    <2> QED
      BY <1>8, <1>9, <2>1 DEF Distinct
  <1>12. /\ IsFiniteSet(ToSet(order)) /\ Cardinality(ToSet(order)) = Len(order)
         /\ IsFiniteSet(ToSet(touched)) /\ Cardinality(ToSet(touched)) = Len(touched)
         /\ Len(order) \in Nat /\ Len(touched) \in Nat
    BY <1>5, <1>11, DistinctLength, LenProperties
  <1>13. Len(touched) = IF s \in ToSet(order) THEN Len(order) ELSE Len(order) + 1
    BY <1>8, <1>12, FS_AddElement
  <1> QED
    BY <1>2, <1>5, <1>7, <1>8, <1>9, <1>10, <1>11, <1>12, <1>13

LEMMA LaterIsFew ==
  ASSUME TaintIInv, NEW s \in TaintSessions
  PROVE  Cardinality(Later(s)) < MaxSessions
  <1>1. order \in Seq(TaintSessions) /\ Distinct(order) /\ Len(order) <= MaxSessions
    BY DEF TaintIInv, TaintTypeOK
  <1>2. IsFiniteSet(ToSet(order)) /\ Cardinality(ToSet(order)) = Len(order) /\ Len(order) \in Nat
    BY <1>1, DistinctLength, LenProperties
  <1>3. MaxSessions \in Nat \ {0}
    BY TaintAssumption
  <1>4. CASE s \notin ToSet(order)
    BY <1>3, <1>4, FS_EmptySet, FollowingNothing DEF Later
  <1>5. CASE s \in ToSet(order)
    <2>1. Later(s) \subseteq ToSet(order) \ {s}
      BY <1>1, <1>5, FollowingNothing DEF Later, Distinct
    <2>2. IsFiniteSet(ToSet(order) \ {s}) /\ Cardinality(ToSet(order) \ {s}) = Len(order) - 1
      BY <1>2, <1>5, FS_RemoveElement
    <2>3. Cardinality(Later(s)) <= Len(order) - 1 /\ Cardinality(Later(s)) \in Nat
      BY <2>1, <2>2, FS_Subset, FS_CardinalityType
    <2> QED
      BY <1>1, <1>2, <1>3, <2>3
  <1> QED
    BY <1>4, <1>5

LEMMA StoredIsOwed ==
  ASSUME TaintIInv, NEW s \in TaintSessions
  PROVE  /\ store[s] \in Seq(Span) /\ owed[s] \in Debts /\ Matches(store[s], owed[s], Later(s))
         /\ \A t \in TaintTexts : Alive(owed[s][t]) <=> t \in ToSet(Texts(store[s]))
  <1>1. store[s] \in Seq(Span) /\ owed[s] \in Debts /\ Matches(store[s], owed[s], Later(s))
    BY DEF TaintIInv, TaintTypeOK
  <1>2. Cardinality(Later(s)) < MaxSessions
    BY LaterIsFew
  <1>3. \A t \in ToSet(Texts(store[s])) : Alive(owed[s][t])
    BY <1>1, <1>2, StoredIsAlive
  <1>4. \A t \in TaintTexts : Alive(owed[s][t]) => t \in ToSet(Texts(store[s]))
    BY <1>1 DEF Matches, Paid
  <1> QED
    BY <1>1, <1>3, <1>4

(* What the activity of s makes of the debts.                              *)
LEMMA AgedProperties ==
  ASSUME TaintIInv, NEW s \in TaintSessions
  PROVE  /\ Aged(s) \in [TaintSessions -> Debts]
         /\ \A r \in TaintSessions, t \in TaintTexts :
              /\ ~Alive(owed[r][t]) => Aged(s)[r][t] = None
              /\ Alive(owed[r][t]) =>
                   /\ Aged(s)[r][t] \in Debt /\ Aged(s)[r][t] # None
                   /\ Aged(s)[r][t].ns = owed[r][t].ns /\ Aged(s)[r][t].newer = owed[r][t].newer
                   /\ Aged(s)[r][t].others = IF r = s THEN {} ELSE owed[r][t].others \cup {s}
  <1>1. \A r \in TaintSessions : owed[r] \in Debts
    BY StoredIsOwed
  <1>2. ASSUME NEW r \in TaintSessions, NEW t \in TaintTexts
        PROVE  /\ Aged(s)[r][t] \in Debt \cup {None}
               /\ ~Alive(owed[r][t]) => Aged(s)[r][t] = None
               /\ Alive(owed[r][t]) =>
                    /\ Aged(s)[r][t] \in Debt /\ Aged(s)[r][t] # None
                    /\ Aged(s)[r][t].ns = owed[r][t].ns /\ Aged(s)[r][t].newer = owed[r][t].newer
                    /\ Aged(s)[r][t].others = IF r = s THEN {} ELSE owed[r][t].others \cup {s}
    <2> DEFINE o == owed[r][t]
    <2>1. Aged(s)[r][t] = IF o = None \/ ~Alive(o) THEN None
                          ELSE IF r = s THEN [o EXCEPT !.others = {}]
                          ELSE [o EXCEPT !.others = @ \cup {s}]
      BY DEF Aged
    <2>2. (o = None \/ o \in Debt) /\ None \notin Debt
      BY <1>1, DebtTypes
    <2> HIDE DEF o
    <2>3. CASE ~Alive(o)
      BY <2>1, <2>3 DEF o
    <2>4. CASE Alive(o)
      <3>1. o # None /\ o \in Debt
        BY <2>2, <2>4 DEF Alive
      <3>2. CASE r = s
        <4>1. Aged(s)[r][t] = [o EXCEPT !.others = {}]
          BY <2>1, <2>4, <3>1, <3>2
        <4>2. /\ [o EXCEPT !.others = {}] \in Debt
              /\ [o EXCEPT !.others = {}].ns = o.ns
              /\ [o EXCEPT !.others = {}].newer = o.newer
              /\ [o EXCEPT !.others = {}].others = {}
          BY <3>1 DEF Debt
        <4> QED
          BY <2>2, <2>4, <3>2, <4>1, <4>2 DEF o
      <3>3. CASE r # s
        <4>1. Aged(s)[r][t] = [o EXCEPT !.others = @ \cup {s}]
          BY <2>1, <2>4, <3>1, <3>3
        <4>2. /\ [o EXCEPT !.others = @ \cup {s}] \in Debt
              /\ [o EXCEPT !.others = @ \cup {s}].ns = o.ns
              /\ [o EXCEPT !.others = @ \cup {s}].newer = o.newer
              /\ [o EXCEPT !.others = @ \cup {s}].others = o.others \cup {s}
          BY <3>1 DEF Debt
        <4> QED
          BY <2>2, <2>4, <3>3, <4>1, <4>2 DEF o
      <3> QED
        BY <3>2, <3>3
    <2> QED
      BY <2>3, <2>4
  <1>3. Aged(s) \in [TaintSessions -> Debts]
    <2> DEFINE aged == Aged(s)
    <2>1. /\ aged = [r \in TaintSessions |-> aged[r]]
          /\ \A r \in TaintSessions : aged[r] = [t \in TaintTexts |-> aged[r][t]]
      BY DEF Aged
    <2>2. \A r \in TaintSessions, t \in TaintTexts : aged[r][t] \in Debt \cup {None}
      BY <1>2
    <2> HIDE DEF aged
    <2>3. \A r \in TaintSessions : aged[r] \in Debts
      BY <2>1, <2>2 DEF Debts
    <2>4. aged \in [TaintSessions -> Debts]
      BY <2>1, <2>3
    <2> QED
      BY <2>4 DEF aged
  <1> QED
    BY <1>2, <1>3

LEMMA AgedMatches ==
  ASSUME TaintIInv, NEW s \in TaintSessions, NEW r \in TaintSessions
  PROVE  Matches(store[r], Aged(s)[r], IF r = s THEN {} ELSE Later(r) \cup {s})
  <1> DEFINE spans == store[r]
             aged == Aged(s)[r]
             later == IF r = s THEN {} ELSE Later(r) \cup {s}
  <1>1. /\ spans \in Seq(Span) /\ Matches(spans, owed[r], Later(r))
        /\ \A t \in TaintTexts : Alive(owed[r][t]) <=> t \in ToSet(Texts(spans))
    BY StoredIsOwed
  <1>2. \A t \in TaintTexts :
          /\ ~Alive(owed[r][t]) => aged[t] = None
          /\ Alive(owed[r][t]) =>
               /\ aged[t] \in Debt /\ aged[t] # None
               /\ aged[t].ns = owed[r][t].ns /\ aged[t].newer = owed[r][t].newer
               /\ aged[t].others = IF r = s THEN {} ELSE owed[r][t].others \cup {s}
    BY AgedProperties
  <1>3. \A i \in 1 .. Len(spans) : spans[i].text \in TaintTexts /\ spans[i].text \in ToSet(Texts(spans))
    BY <1>1, TextsProperties
  <1>4. /\ Len(spans) <= MaxSpans /\ Distinct(Texts(spans)) /\ FinitelyNewer(owed[r])
        /\ \A i \in 1 .. Len(spans) :
              /\ owed[r][spans[i].text].ns = spans[i].ns
              /\ owed[r][spans[i].text].newer = Following(Texts(spans), spans[i].text)
              /\ owed[r][spans[i].text].others = Later(r)
    BY <1>1 DEF Matches, Recorded
  <1> HIDE DEF spans, aged
  <1>5. Recorded(spans, aged, later)
    <2> SUFFICES ASSUME NEW i \in 1 .. Len(spans)
                 PROVE  /\ aged[spans[i].text] # None
                        /\ aged[spans[i].text].ns = spans[i].ns
                        /\ aged[spans[i].text].newer = Following(Texts(spans), spans[i].text)
                        /\ aged[spans[i].text].others = later
      BY DEF Recorded
    <2> DEFINE t == spans[i].text
    <2>1. t \in TaintTexts /\ Alive(owed[r][t])
      BY <1>1, <1>3
    <2>2. /\ owed[r][t].ns = spans[i].ns /\ owed[r][t].newer = Following(Texts(spans), t)
          /\ owed[r][t].others = Later(r)
      BY <1>4
    <2> HIDE DEF t
    <2>3. /\ aged[t] # None /\ aged[t].ns = spans[i].ns
          /\ aged[t].newer = Following(Texts(spans), t) /\ aged[t].others = later
      BY <1>2, <2>1, <2>2
    <2> QED
      BY <2>3 DEF t
  <1>6. FinitelyNewer(aged)
    <2> SUFFICES ASSUME NEW t \in TaintTexts, aged[t] # None PROVE IsFiniteSet(aged[t].newer)
      BY DEF FinitelyNewer
    <2>1. Alive(owed[r][t]) /\ aged[t].newer = owed[r][t].newer
      BY <1>2
    <2>2. IsFiniteSet(owed[r][t].newer)
      BY <1>4, <2>1 DEF FinitelyNewer, Alive
    <2> QED
      BY <2>1, <2>2
  <1>7. Paid(spans, aged)
    BY <1>1, <1>2 DEF Paid, Alive
  <1> QED
    BY <1>4, <1>5, <1>6, <1>7 DEF Matches, spans, aged

LEMMA NothingStored ==
  ASSUME NEW owing, NEW later, FinitelyNewer(owing), \A t \in TaintTexts : ~Alive(owing[t])
  PROVE  Matches(<< >>, owing, later)
  <1>1. Len(<< >>) = 0 /\ 1 .. 0 = {} /\ Texts(<< >>) = << >> /\ ToSet(<< >>) = {}
    BY DEF Texts, ToSet
  <1>2. 0 <= MaxSpans
    BY TaintAssumption
  <1> QED
    BY <1>1, <1>2 DEF Matches, Recorded, Distinct, Paid

(* With nothing stored for r, the order says nothing about it.             *)
LEMMA AgedNothing ==
  ASSUME TaintIInv, NEW s \in TaintSessions, NEW r \in TaintSessions, store[r] = << >>, NEW later
  PROVE  Matches(<< >>, Aged(s)[r], later)
  <1>1. FinitelyNewer(Aged(s)[r]) /\ Paid(store[r], Aged(s)[r])
    BY AgedMatches DEF Matches
  <1>2. ToSet(Texts(<< >>)) = {}
    BY DEF Texts, ToSet
  <1> QED
    BY <1>1, <1>2, NothingStored DEF Paid

LEMMA CheckKeeps ==
  ASSUME TaintIInv, NEW s \in TaintSessions, CheckArgs(s)
  PROVE  TaintIInv'
  <1>1. /\ store \in [TaintSessions -> Seq(Span)] /\ order \in Seq(TaintSessions)
        /\ Distinct(order) /\ Len(order) <= MaxSessions
        /\ \A r \in TaintSessions : r \notin ToSet(order) => store[r] = << >>
    BY DEF TaintIInv, TaintTypeOK
  <1>2. store[s] # << >> /\ order' = Touch(s) /\ owed' = Aged(s) /\ store' = store
    BY DEF CheckArgs
  <1>3. s \in ToSet(order)
    BY <1>1, <1>2
  <1>4. /\ order' \in Seq(TaintSessions) /\ Distinct(order')
        /\ ToSet(order') = ToSet(order) /\ Len(order') = Len(order)
        /\ Following(order', s) = {}
        /\ \A r \in ToSet(order) \ {s} : Following(order', r) = Following(order, r) \cup {s}
    <2>1. ToSet(order) \cup {s} = ToSet(order)
      BY <1>3
    <2>2. /\ Touch(s) \in Seq(TaintSessions) /\ Distinct(Touch(s))
          /\ ToSet(Touch(s)) = ToSet(order) \cup {s} /\ Len(Touch(s)) = Len(order)
          /\ Following(Touch(s), s) = {}
          /\ \A r \in ToSet(order) \ {s} : Following(Touch(s), r) = Following(order, r) \cup {s}
      BY <1>1, <1>3, TouchProperties
    <2> QED
      BY <1>2, <2>1, <2>2
  <1>5. owed' \in [TaintSessions -> Debts]
    BY <1>2, AgedProperties
  <1>6. ASSUME NEW r \in TaintSessions
        PROVE  Matches(store'[r], owed'[r], Following(order', r))
    <2>1. Matches(store[r], Aged(s)[r], IF r = s THEN {} ELSE Later(r) \cup {s})
      BY AgedMatches
    <2>2. CASE r = s
      BY <1>2, <1>4, <2>1, <2>2
    <2>3. CASE r # s /\ r \in ToSet(order)
      BY <1>2, <1>4, <2>1, <2>3 DEF Later
    <2>4. CASE r \notin ToSet(order)
      BY <1>1, <1>2, <2>4, AgedNothing
    <2> QED
      BY <2>2, <2>3, <2>4
  <1>7. TaintTypeOK'
    BY <1>1, <1>2, <1>4, <1>5 DEF TaintTypeOK
  <1>8. \A r \in TaintSessions : r \notin ToSet(order') => store'[r] = << >>
    BY <1>1, <1>2, <1>4
  <1> QED
    BY <1>1, <1>4, <1>6, <1>7, <1>8 DEF TaintIInv, Later

(* One session more than fit: the least recently active one goes, and as   *)
(* many were active after it as fit.                                       *)
LEMMA OldestEvicted ==
  ASSUME TaintIInv, NEW s \in TaintSessions, Len(Touch(s)) > MaxSessions
  PROVE  LET h == Head(Touch(s))
             rest == Tail(Touch(s))
         IN  /\ h \in TaintSessions /\ h # s /\ h \in ToSet(order)
             /\ rest \in Seq(TaintSessions) /\ Distinct(rest) /\ Len(rest) = MaxSessions
             /\ ToSet(rest) = (ToSet(order) \cup {s}) \ {h}
             /\ \A x : x # h => Following(rest, x) = Following(Touch(s), x)
             /\ Cardinality(Following(Touch(s), h)) = MaxSessions
  <1> DEFINE q == Touch(s)
             h == Head(q)
             rest == Tail(q)
  <1>1. /\ order \in Seq(TaintSessions) /\ Distinct(order) /\ Len(order) <= MaxSessions
        /\ MaxSessions \in Nat \ {0}
    BY TaintAssumption DEF TaintIInv, TaintTypeOK
  <1>2. /\ q \in Seq(TaintSessions) /\ Distinct(q) /\ q # << >>
        /\ ToSet(q) = ToSet(order) \cup {s}
        /\ Following(q, s) = {}
        /\ Len(q) <= Len(order) + 1 /\ Len(q) \in Nat /\ Len(order) \in Nat
    BY <1>1, TouchProperties
  <1>3. Len(q) = MaxSessions + 1
    BY <1>1, <1>2
  <1> HIDE DEF q
  <1>4. /\ rest \in Seq(TaintSessions) /\ Len(rest) = Len(q) - 1 /\ h \in TaintSessions
        /\ ToSet(q) = {h} \cup ToSet(rest)
        /\ Following(q, h) = ToSet(rest)
        /\ \A x : x # h => Following(q, x) = Following(rest, x)
    BY <1>2, TailFollowing
  <1> HIDE DEF h, rest
  <1>5. Len(rest) = MaxSessions
    BY <1>1, <1>3, <1>4
  <1>6. h \notin ToSet(rest)
    BY <1>2, <1>4 DEF Distinct
  <1>7. Distinct(rest)
    BY <1>2, <1>4, <1>6 DEF Distinct
  <1>8. Cardinality(ToSet(rest)) = MaxSessions
    BY <1>4, <1>5, <1>7, DistinctLength
  <1>9. h # s
    <2>1. ToSet(rest) # {}
      BY <1>1, <1>8, FS_EmptySet
    <2> QED
      BY <1>2, <1>4, <2>1
  <1>10. h \in ToSet(order)
    BY <1>2, <1>4, <1>9
  <1>11. ToSet(rest) = (ToSet(order) \cup {s}) \ {h}
    BY <1>2, <1>4, <1>6
  <1> QED
    BY <1>4, <1>5, <1>7, <1>8, <1>9, <1>10, <1>11 DEF q, h, rest

(* What capture() leaves of the others: the evicted one is owed nothing.   *)
LEMMA EvictedIsUnowed ==
  ASSUME TaintIInv, NEW s \in TaintSessions, NEW r \in TaintSessions, r # s, r \in ToSet(order),
         Cardinality(Following(Touch(s), r)) = MaxSessions, NEW later
  PROVE  Matches(<< >>, Aged(s)[r], later)
  <1>1. Following(Touch(s), r) = Following(order, r) \cup {s}
    BY TouchProperties DEF TaintIInv, TaintTypeOK
  <1>2. Matches(store[r], Aged(s)[r], Later(r) \cup {s})
    BY AgedMatches
  <1>3. store[r] \in Seq(Span)
    BY DEF TaintIInv, TaintTypeOK
  <1>4. \A t \in TaintTexts : ~Alive(Aged(s)[r][t])
    <2> SUFFICES ASSUME NEW t \in TaintTexts, Alive(Aged(s)[r][t]) PROVE FALSE
      OBVIOUS
    <2>1. t \in ToSet(Texts(store[r]))
      BY <1>2 DEF Matches, Paid
    <2>2. PICK i \in 1 .. Len(store[r]) : store[r][i].text = t
      BY <1>3, <2>1, TextsProperties
    <2>3. Aged(s)[r][t].others = Following(Touch(s), r)
      BY <1>1, <1>2, <2>2 DEF Matches, Recorded, Later
    <2>4. MaxSessions \in Nat
      BY TaintAssumption
    <2> QED
      BY <2>3, <2>4 DEF Alive
  <1>5. FinitelyNewer(Aged(s)[r])
    BY <1>2 DEF Matches
  <1> QED
    BY <1>4, <1>5, NothingStored

LEMMA CaptureKeeps ==
  ASSUME TaintIInv, NEW s \in TaintSessions, NEW result \in TaintResults, NEW ns \in Namespaces,
         Capture(s, result, ns)
  PROVE  TaintIInv'
  <1> DEFINE spans == Captured(store[s], Walked(result), ns)
             owing == Owing(Aged(s)[s], Walked(result), ns)
             touched == Touch(s)
             full == Len(touched) > MaxSessions
             evicted == IF full THEN Head(touched) ELSE None
  <1>1. /\ store \in [TaintSessions -> Seq(Span)] /\ order \in Seq(TaintSessions)
        /\ Distinct(order) /\ Len(order) <= MaxSessions
        /\ \A r \in TaintSessions : r \notin ToSet(order) => store[r] = << >>
    BY DEF TaintIInv, TaintTypeOK
  <1>2. /\ order' = IF evicted = None THEN touched ELSE Tail(touched)
        /\ store' = [r \in TaintSessions |->
                       IF r = evicted THEN << >> ELSE IF r = s THEN spans ELSE store[r]]
        /\ owed' = [Aged(s) EXCEPT ![s] = owing]
    BY DEF Capture
  <1>3. /\ touched \in Seq(TaintSessions) /\ Distinct(touched)
        /\ ToSet(touched) = ToSet(order) \cup {s}
        /\ Following(touched, s) = {}
        /\ \A r \in ToSet(order) \ {s} : Following(touched, r) = Following(order, r) \cup {s}
        /\ Len(touched) \in Nat
    BY <1>1, TouchProperties
  <1>4. spans \in Seq(Span) /\ owing \in Debts /\ Matches(spans, owing, {})
    <2>1. Matches(store[s], Aged(s)[s], {})
      BY AgedMatches
    <2>2. store[s] \in Seq(Span) /\ Aged(s)[s] \in Debts
      BY <1>1, AgedProperties
    <2>3. Walked(result) \in Seq(Leaves)
      BY WalkedTyped
    <2> QED
      BY <2>1, <2>2, <2>3, WalkKeeps
  <1>5. Aged(s) \in [TaintSessions -> Debts]
    BY AgedProperties
  <1>6. full => LET h == Head(touched)
                    rest == Tail(touched)
                IN  /\ h \in TaintSessions /\ h # s /\ h \in ToSet(order)
                    /\ rest \in Seq(TaintSessions) /\ Distinct(rest) /\ Len(rest) = MaxSessions
                    /\ ToSet(rest) = (ToSet(order) \cup {s}) \ {h}
                    /\ \A x : x # h => Following(rest, x) = Following(touched, x)
                    /\ Cardinality(Following(touched, h)) = MaxSessions
    BY OldestEvicted
  <1>7. None \notin TaintSessions /\ MaxSessions \in Nat
    BY TaintAssumption
  <1> HIDE DEF spans, owing, touched
  <1>8. full => evicted \in TaintSessions /\ evicted # None /\ evicted = Head(touched)
    BY <1>6, <1>7
  <1>9. ~full => evicted = None
    OBVIOUS
  <1> HIDE DEF full, evicted
  <1>10. evicted # s
    BY <1>6, <1>7, <1>8, <1>9
  <1>11. /\ order' \in Seq(TaintSessions) /\ Distinct(order') /\ Len(order') <= MaxSessions
         /\ ToSet(order') = (ToSet(order) \cup {s}) \ {evicted}
         /\ \A x : x # evicted => Following(order', x) = Following(touched, x)
    <2>1. CASE full
      <3>1. order' = Tail(touched) /\ evicted = Head(touched)
        BY <1>2, <1>8, <2>1
      <3> QED
        BY <1>6, <1>7, <2>1, <3>1
    <2>2. CASE ~full
      <3>1. order' = touched /\ evicted = None
        BY <1>2, <1>9, <2>2
      <3>2. None \notin ToSet(order) \cup {s}
        <4>1. \A k \in DOMAIN order : order[k] \in TaintSessions
          BY <1>1, ElementOfSeq, LenProperties
        <4>2. ToSet(order) \subseteq TaintSessions
          BY <4>1 DEF ToSet
        <4> QED
          BY <1>7, <4>2
      <3>3. Len(touched) <= MaxSessions
        BY <1>3, <1>7, <2>2 DEF full
      <3>5. (ToSet(order) \cup {s}) \ {None} = ToSet(order) \cup {s}
        BY <3>2
      <3>4. ToSet(order') = (ToSet(order) \cup {s}) \ {evicted}
        BY <1>3, <3>1, <3>5
      <3> QED
        BY <1>3, <3>1, <3>3, <3>4
    <2> QED
      BY <2>1, <2>2
  <1>12. store' \in [TaintSessions -> Seq(Span)] /\ owed' \in [TaintSessions -> Debts]
    BY <1>1, <1>2, <1>4, <1>5
  <1>13. /\ store'[s] = spans /\ owed'[s] = owing
         /\ \A r \in TaintSessions \ {s} : /\ owed'[r] = Aged(s)[r]
                                          /\ store'[r] = IF r = evicted THEN << >> ELSE store[r]
    BY <1>2, <1>5, <1>10
  <1>14. ASSUME NEW r \in TaintSessions
         PROVE  Matches(store'[r], owed'[r], Following(order', r))
    <2>1. CASE r = s
      BY <1>3, <1>4, <1>10, <1>11, <1>13, <2>1
    <2>2. CASE r # s /\ r = evicted
      <3>1. full
        BY <1>7, <1>9, <2>2
      <3>2. r \in ToSet(order) /\ Cardinality(Following(touched, r)) = MaxSessions
        BY <1>6, <1>8, <2>2, <3>1
      <3>3. Matches(<< >>, Aged(s)[r], Following(order', r))
        BY <2>2, <3>2, EvictedIsUnowed DEF touched
      <3> QED
        BY <1>13, <2>2, <3>3
    <2>3. CASE r # s /\ r # evicted /\ r \in ToSet(order)
      <3>1. Matches(store[r], Aged(s)[r], Later(r) \cup {s})
        BY <2>3, AgedMatches
      <3>2. Following(order', r) = Later(r) \cup {s}
        BY <1>3, <1>11, <2>3 DEF Later
      <3> QED
        BY <1>13, <2>3, <3>1, <3>2
    <2>4. CASE r # s /\ r # evicted /\ r \notin ToSet(order)
      <3>1. store[r] = << >>
        BY <1>1, <2>4
      <3>2. Matches(<< >>, Aged(s)[r], Following(order', r))
        BY <3>1, AgedNothing
      <3> QED
        BY <1>13, <2>4, <3>1, <3>2
    <2> QED
      BY <2>1, <2>2, <2>3, <2>4
  <1>15. ASSUME NEW r \in TaintSessions, r \notin ToSet(order')
         PROVE  store'[r] = << >>
    <2>1. r # s
      BY <1>10, <1>11, <1>15
    <2>2. r = evicted \/ r \notin ToSet(order)
      BY <1>11, <1>15
    <2> QED
      BY <1>1, <1>13, <2>1, <2>2
  <1>16. TaintTypeOK'
    BY <1>11, <1>12 DEF TaintTypeOK
  <1> QED
    BY <1>11, <1>14, <1>15, <1>16 DEF TaintIInv, Later

LEMMA ReloadKeeps ==
  ASSUME TaintIInv, NEW f \in SpanFloors, ReloadFloor(f)
  PROVE  TaintIInv'
  BY DEF ReloadFloor, TaintIInv, TaintTypeOK, Later

LEMMA TaintInitIInv == TaintInit => TaintIInv
  <1> SUFFICES ASSUME TaintInit PROVE TaintIInv
    OBVIOUS
  <1> DEFINE nothing == [t \in TaintTexts |-> None]
  <1>1. /\ store = [s \in TaintSessions |-> << >>] /\ order = << >>
        /\ owed = [s \in TaintSessions |-> nothing]
    BY DEF TaintInit
  <1>2. nothing \in Debts /\ FinitelyNewer(nothing) /\ \A t \in TaintTexts : ~Alive(nothing[t])
    BY DEF Debts, FinitelyNewer, Alive
  <1> HIDE DEF nothing
  <1>3. Len(order) = 0 /\ ToSet(order) = {} /\ order \in Seq(TaintSessions) /\ 0 <= MaxSessions
    BY <1>1, TaintAssumption DEF ToSet
  <1>4. TaintTypeOK
    BY <1>1, <1>2, <1>3 DEF TaintTypeOK
  <1>5. \A s \in TaintSessions : Matches(store[s], owed[s], Later(s))
    <2> TAKE s \in TaintSessions
    <2>1. Matches(<< >>, nothing, Later(s))
      BY <1>2, NothingStored
    <2> QED
      BY <1>1, <2>1
  <1> QED
    BY <1>1, <1>3, <1>4, <1>5 DEF TaintIInv, Distinct

LEMMA TaintIInvStep == TaintIInv /\ [TaintNext]_taintVars => TaintIInv'
  <1> SUFFICES ASSUME TaintIInv, [TaintNext]_taintVars PROVE TaintIInv'
    OBVIOUS
  <1>1. ASSUME NEW s \in TaintSessions, NEW result \in TaintResults, NEW ns \in Namespaces,
               Capture(s, result, ns)
        PROVE  TaintIInv'
    BY <1>1, CaptureKeeps
  <1>2. ASSUME NEW s \in TaintSessions, CheckArgs(s)
        PROVE  TaintIInv'
    BY <1>2, CheckKeeps
  <1>3. ASSUME NEW f \in SpanFloors, ReloadFloor(f)
        PROVE  TaintIInv'
    BY <1>3, ReloadKeeps
  <1>4. CASE UNCHANGED taintVars
    BY <1>4 DEF taintVars, TaintIInv, TaintTypeOK, Later
  <1> QED
    BY <1>1, <1>2, <1>3, <1>4 DEF TaintNext

LEMMA TaintIInvHolds == TaintIInv => TaintHolds
  <1> SUFFICES ASSUME TaintIInv, NEW s \in TaintSessions, NEW args \in SUBSET TaintTexts
               PROVE  IF Carried(s, args) = {} THEN TaintedSource(s, args) = None
                      ELSE TaintedSource(s, args) \in {owed[s][t].ns : t \in Carried(s, args)}
    BY DEF TaintHolds
  <1> DEFINE spans == store[s]
             hits == {i \in DOMAIN spans : \E a \in args : <<spans[i].text, a>> \in Within}
             first == CHOOSE i \in hits : \A j \in hits : i <= j
  <1>1. /\ spans \in Seq(Span) /\ Matches(spans, owed[s], Later(s))
        /\ \A t \in TaintTexts : Alive(owed[s][t]) <=> t \in ToSet(Texts(spans))
    BY StoredIsOwed
  <1>2. /\ DOMAIN spans = 1 .. Len(spans) /\ Len(spans) \in Nat
        /\ \A i \in 1 .. Len(spans) : spans[i].text \in TaintTexts /\ spans[i].text \in ToSet(Texts(spans))
        /\ \A t \in ToSet(Texts(spans)) : \E i \in 1 .. Len(spans) : spans[i].text = t
    BY <1>1, TextsProperties
  <1>3. TaintedSource(s, args) = IF hits = {} THEN None ELSE spans[first].ns
    BY DEF TaintedSource
  <1> HIDE DEF spans
  <1>4. \A i \in hits : spans[i].text \in Carried(s, args) /\ owed[s][spans[i].text].ns = spans[i].ns
    BY <1>1, <1>2 DEF Carried, Matches, Recorded
  <1>5. \A t \in Carried(s, args) : \E i \in hits : spans[i].text = t
    BY <1>1, <1>2 DEF Carried
  <1>6. hits \in SUBSET Nat
    BY <1>2
  <1> HIDE DEF hits
  <1>7. CASE hits = {}
    BY <1>3, <1>5, <1>7
  <1>8. CASE hits # {}
    <2>1. \E i \in hits : \A j \in hits : i <= j
      BY <1>6, <1>8, LeastElement
    <2>2. first \in hits
      BY <2>1
    <2> HIDE DEF first
    <2> QED
      BY <1>3, <1>4, <1>8, <2>2
  <1> QED
    BY <1>7, <1>8

(* For any sessions, texts, results and caps, whatever is captured,        *)
(* compared or reloaded: an outbound argument is refused exactly when it   *)
(* carries a text its own session still owes, and under a namespace the    *)
(* text came from (taint.py:147-202).                                      *)
THEOREM TaintIsHeld == TaintSpec => []TaintHolds
  <1>1. TaintInit => TaintIInv
    BY TaintInitIInv
  <1>2. TaintIInv /\ [TaintNext]_taintVars => TaintIInv'
    BY TaintIInvStep
  <1>3. TaintIInv => TaintHolds
    BY TaintIInvHolds
  <1> QED
    BY <1>1, <1>2, <1>3, PTL DEF TaintSpec
===============================================================================
