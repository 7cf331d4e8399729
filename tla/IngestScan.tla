------------------------------ MODULE IngestScan ------------------------------
(***************************************************************************)
(* What a tool returned, on its way to the model: scan_ingestion_result()  *)
(* (ingest.py) inspects the head of a result under the inspect mutex and   *)
(* sweeps the rest in overlapping chunks; _transform_tool_result() of the  *)
(* reference plugin puts a notice in front of it, or leaves it alone.  The *)
(* ingest loop scans one result at a time, within a budget that cancels it *)
(* at any await.                                                           *)
(*                                                                         *)
(* A result is its size and one piece of content that the syntactic rules  *)
(* recognise in a window that holds all of it.                             *)
(***************************************************************************)
EXTENDS Values, Integers, Sequences, FiniteSets

CONSTANTS
  HeadChars, ChunkChars, ChunkOverlap,
  Ceiling,   \* _MAX_PARAM_TEXT_LEN
  MaxSize,   \* bound: size of a result
  MaxLen     \* bound: length of the content in it

ASSUME IngestAssumption ==
  /\ {HeadChars, ChunkChars, ChunkOverlap, Ceiling, MaxSize, MaxLen} \subseteq Nat \ {0}
  /\ ChunkOverlap < ChunkChars /\ HeadChars <= ChunkChars
  /\ None \notin {"silent", "ceiling", "findings"}

VARIABLES
  result,       \* the result and what is in it
  gate,         \* what _transform_tool_result() knows: armed, initialised, pipeline, ingesting tool
  mutexFree,    \* nobody else holds _inspect_lock
  ingestScan,   \* the coroutine
  outcome       \* what the host is given

ingestVars == <<result, gate, mutexFree, ingestScan, outcome>>

Contents ==
  {c \in [kind : {"blocking", "pii"}, at : 0 .. MaxSize - 1, len : 1 .. MaxLen] :
     c.at + c.len <= MaxSize}
Stride == ChunkChars - ChunkOverlap
Least(a, b) == IF a < b THEN a ELSE b
Covered == Least(result.size, Ceiling)

(* Mutant: consecutive windows do not overlap.                             *)
OriginsUnlapped == {o \in 0 .. Covered - 1 : o % ChunkChars = 0}

(* _chunk_origins(): every Stride, up to the covered prefix.               *)
Origins == {o \in 0 .. Covered - 1 : o % Stride = 0}

(* The content is found in the window [from, to) if all of it is there.    *)
FoundIn(from, to) ==
  LET c == result.content IN
  IF c # None /\ from <= c.at /\ c.at + c.len <= Least(to, Covered)
  THEN {[kind |-> c.kind, start |-> c.at - from]} ELSE {}

MapFinding(f, origin) == [f EXCEPT !.start = @ + origin]

NoIngest == [phase |-> "idle", head |-> None, inspectFailed |-> FALSE, errors |-> FALSE,
           left |-> {}, findings |-> {}, cancelling |-> FALSE]

DecideIngest(o) == outcome' = o /\ ingestScan' = NoIngest

-----------------------------------------------------------------------------
(* _transform_tool_result() up to the coroutine.                           *)
BeginSkipped ==
  /\ ingestScan.phase = "idle" /\ outcome = None
  /\ ~gate.armed \/ ~gate.ingests \/ ~gate.initialized \/ result.size = 0
  /\ outcome' = "skipped"
  /\ UNCHANGED <<result, gate, mutexFree, ingestScan>>

BeginUnscannable ==
  /\ ingestScan.phase = "idle" /\ outcome = None
  /\ gate.armed /\ gate.ingests /\ gate.initialized /\ result.size > 0
  /\ ~gate.pipeline
  /\ outcome' = "scan_unavailable"
  /\ UNCHANGED <<result, gate, mutexFree, ingestScan>>

BeginScan ==
  /\ ingestScan.phase = "idle" /\ outcome = None
  /\ gate.armed /\ gate.ingests /\ gate.initialized /\ gate.pipeline /\ result.size > 0
  /\ \E configUnreadable \in BOOLEAN :
       ingestScan' = [NoIngest EXCEPT !.phase = "polling", !.errors = configUnreadable]
  /\ UNCHANGED <<result, gate, mutexFree, outcome>>

MutexMoves ==
  /\ ingestScan.phase = "polling"
  /\ mutexFree' = ~mutexFree
  /\ UNCHANGED <<result, gate, ingestScan, outcome>>

Acquire ==
  /\ ingestScan.phase = "polling" /\ mutexFree
  /\ ingestScan' = [ingestScan EXCEPT !.phase = "head"]
  /\ UNCHANGED <<result, gate, mutexFree, outcome>>

Sweeping(head, errors, failed, found) ==
  ingestScan' = [ingestScan EXCEPT !.phase = "sweep", !.head = head,
                                   !.errors = ingestScan.errors \/ errors,
                                   !.inspectFailed = failed, !.findings = found, !.left = Origins]

(* The head is inspected.  Its model scanners may find more than the rules *)
(* do, or fail, which is no error of the scan; its floor may fail.         *)
HeadReturns ==
  LET found == FoundIn(0, HeadChars) IN
  /\ ingestScan.phase = "head" /\ ~ingestScan.cancelling
  /\ \/ Sweeping("inspected", FALSE, FALSE, found)
     \/ Sweeping("floorFailed", TRUE, FALSE, {})
     \/ Sweeping("unscanned", FALSE, FALSE, {})
     \/ Sweeping(None, TRUE, TRUE, {})
  /\ UNCHANGED <<result, gate, mutexFree, outcome>>

(* The budget expires while inspect() runs: inspect() absorbs the          *)
(* cancellation into a result.                                             *)
CancelHead ==
  /\ ingestScan.phase = "head"
  /\ ingestScan' = [ingestScan EXCEPT !.cancelling = TRUE]
  /\ UNCHANGED <<result, gate, mutexFree, outcome>>

(* ... and the cancellation is raised again once the mutex is released.    *)
HeadAbsorbs ==
  /\ ingestScan.phase = "head" /\ ingestScan.cancelling
  /\ DecideIngest("scan_unavailable")
  /\ UNCHANGED <<result, gate, mutexFree>>

(* The budget expires at another await.                                    *)
BudgetExpires ==
  /\ ingestScan.phase \in {"polling", "sweep"}
  /\ ingestScan.phase = "sweep" => ingestScan.left # {}
  /\ DecideIngest("scan_unavailable")
  /\ UNCHANGED <<result, gate, mutexFree>>

(* One chunk.  One that raises is left behind with an error.               *)
SweepChunk ==
  LET origin == CHOOSE o \in ingestScan.left : \A p \in ingestScan.left : o <= p
      found == {MapFinding(f, origin) : f \in FoundIn(origin, origin + ChunkChars)}
  IN  /\ ingestScan.phase = "sweep" /\ ingestScan.left # {}
      /\ \/ ingestScan' = [ingestScan EXCEPT !.left = @ \ {origin}, !.findings = @ \cup found]
         \/ ingestScan' = [ingestScan EXCEPT !.left = @ \ {origin}, !.errors = TRUE]
      /\ UNCHANGED <<result, gate, mutexFree, outcome>>

(* The notice: a failure of the floor, of the head or of a chunk takes     *)
(* precedence over what the rest has found; personal data alone is silent. *)
NoticeVerdict ==
  IF \/ ingestScan.inspectFailed \/ ingestScan.errors
     \/ ingestScan.head \in {None, "unscanned", "floorFailed"}
    THEN "scan_unavailable"
  ELSE IF \E f \in ingestScan.findings : f.kind # "pii" THEN "findings"
  ELSE IF result.size > Ceiling THEN "ceiling" ELSE "silent"

Transform ==
  /\ ingestScan.phase = "sweep" /\ ingestScan.left = {}
  /\ outcome' = NoticeVerdict
  /\ ingestScan' = [ingestScan EXCEPT !.phase = "done"]
  /\ UNCHANGED <<result, gate, mutexFree>>

IngestInit ==
  /\ \E size \in 0 .. MaxSize, content \in Contents \cup {None} :
       /\ content # None => content.at + content.len <= size
       /\ result = [size |-> size, content |-> content]
  /\ gate \in [armed : BOOLEAN, ingests : BOOLEAN, initialized : BOOLEAN, pipeline : BOOLEAN]
  /\ mutexFree \in BOOLEAN
  /\ ingestScan = NoIngest
  /\ outcome = None

IngestNext ==
  \/ BeginSkipped \/ BeginUnscannable \/ BeginScan
  \/ MutexMoves \/ Acquire \/ HeadReturns \/ CancelHead \/ HeadAbsorbs
  \/ BudgetExpires \/ SweepChunk \/ Transform

IngestSpec == IngestInit /\ [][IngestNext]_ingestVars
-----------------------------------------------------------------------------
(* The notice tells the truth.  A result reaches the model without one     *)
(* only if it was scanned from end to end: what the rules recognise is     *)
(* announced wherever it stands, up to the ceiling and in a piece no       *)
(* longer than the overlap, personal data excepted (ingest.py:27-30).  A   *)
(* scan that could not be completed never claims to have been, whatever    *)
(* its completed windows found, and positions are those of the result      *)
(* (ingest.py:43-48, PET-209).                                             *)
NoticeIsHonest ==
  LET c == result.content IN
  /\ (outcome \in {"silent", "ceiling"} /\ c # None) =>
       c.kind = "pii" \/ c.at + c.len > Ceiling \/ c.len > ChunkOverlap + 1
  /\ outcome \in {"silent", "ceiling", "findings"} =>
       /\ ingestScan.phase = "done" /\ ingestScan.head = "inspected"
       /\ ~ingestScan.errors /\ ~ingestScan.cancelling
  /\ \A f \in ingestScan.findings : f.start = c.at
=============================================================================
