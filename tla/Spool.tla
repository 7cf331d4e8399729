-------------------------------- MODULE Spool --------------------------------
(***************************************************************************)
(* The enforcement spool between the gateway, which appends rows, and the  *)
(* console, which drains, rotates and removes the file                     *)
(* (console/_events.py, ConsoleHandlers._drain_enforcement_into_history).  *)
(* The writers and the reader are different processes: every file system   *)
(* call is a step of its own.  A drain holds _enforcement_lock, so drains  *)
(* do not overlap.  A segment is a file that keeps its identity when it is *)
(* renamed or removed while a writer holds it open.                        *)
(***************************************************************************)
EXTENDS Values, Integers, Sequences, FiniteSets

CONSTANTS
  Rows,       \* the records ever emitted, each with a scan_id of its own
  Writers,    \* gateway threads
  Paths,      \* spool files, one per profile home
  Home,       \* [Writers -> Paths]: the file of a writer's resolution
  Segments,   \* the files a run may create
  Cap,        \* SPOOL_CAP_BYTES, in pieces of lines
  MaxUpsets   \* bound on console restarts and binding changes

ASSUME SpoolAssumption ==
  /\ None \notin Segments \cup Paths
  /\ Home \in [Writers -> Paths]
  /\ Cap \in Nat /\ MaxUpsets \in Nat

VARIABLES
  content,   \* what each segment holds, in order
  live, rot,   \* [Paths -> segment or None]: <spool> and <spool>.rot
  unsent,    \* rows not yet emitted
  handle,    \* the open file of each writer
  tardy,     \* rows whose line ended in a segment that was no longer live
  binding,   \* the profile the process resolves to
  bound,     \* _enforcement_spool_path
  offset, rotOffset,
  step,      \* where the drain is
  unread,    \* the last read of the rotated segment failed
  shown,     \* how often each row was surfaced since the ring was cleared
  tally,     \* how often each row was counted by this process
  upsets

fileVars   == <<content, live, rot>>
writerVars == <<unsent, handle, tardy>>
readerVars == <<bound, offset, rotOffset, step, unread, shown, tally>>
envVars    == <<binding, upsets>>
spoolVars       == <<fileVars, writerVars, readerVars, envVars>>

(* A line is written whole, or in two pieces of which the second ends it.  *)
Piece   == [row : Rows, part : {"whole", "head", "tail"}]
NoHandle    == [row |-> None, seg |-> None, half |-> FALSE]
EndsLine(p) == p.part # "head"

Max0(S) == IF S = {} THEN 0 ELSE CHOOSE n \in S : \A k \in S : k <= n

(* The last newline: a trailing partial line is not consumed.              *)
LastLine(s) == Max0({i \in 1..Len(s) : EndsLine(s[i])})

(* Position i ends a line that parses: it starts after a newline, and its  *)
(* two pieces, if it has two, follow one another.                          *)
Starts(s, i) == i = 1 \/ EndsLine(s[i - 1])
Parses(s, i) ==
  \/ s[i].part = "whole" /\ Starts(s, i)
  \/ /\ s[i].part = "tail"
     /\ i > 1
     /\ s[i - 1] = [row |-> s[i].row, part |-> "head"]
     /\ Starts(s, i - 1)

(* The records a read from off returns; a malformed line is skipped.       *)
Drained(s, off) ==
  LET read == SubSeq(s, off + 1, Len(s))
  IN  {read[i].row : i \in {j \in 1..LastLine(read) : Parses(read, j)}}
NewOffset(s, off) == IF LastLine(s) > off THEN LastLine(s) ELSE off

Linked == {live[p] : p \in Paths} \cup {rot[p] : p \in Paths}
Used   == Linked \cup {handle[w].seg : w \in Writers} \cup
          {g \in Segments : content[g] # <<>>}

SpoolInit ==
  /\ content = [g \in Segments |-> <<>>]
  /\ live = [p \in Paths |-> None]
  /\ rot = [p \in Paths |-> None]
  /\ unsent = Rows
  /\ handle = [w \in Writers |-> NoHandle]
  /\ tardy = {}
  /\ binding \in Paths
  /\ bound = None
  /\ offset = 0 /\ rotOffset = 0
  /\ step = "idle"
  /\ unread = FALSE
  /\ shown = [r \in Rows |-> 0]
  /\ tally = [r \in Rows |-> 0]
  /\ upsets = 0

-----------------------------------------------------------------------------
(* The writer: open for appending, write, close.                           *)

Open(w, r) ==
  LET p == Home[w] IN
  /\ handle[w] = NoHandle
  /\ r \in unsent
  /\ unsent' = unsent \ {r}
  /\ IF live[p] # None
       THEN /\ handle' = [handle EXCEPT ![w] = [row |-> r, seg |-> live[p], half |-> FALSE]]
            /\ UNCHANGED live
       ELSE \E g \in Segments \ Used :
              /\ live' = [live EXCEPT ![p] = g]
              /\ handle' = [handle EXCEPT ![w] = [row |-> r, seg |-> g, half |-> FALSE]]
  /\ UNCHANGED <<content, rot, tardy, readerVars, envVars>>

Put(w, part) ==
  LET h == handle[w] IN
  content' = [content EXCEPT ![h.seg] = Append(@, [row |-> h.row, part |-> part])]

EndLine(w) ==
  LET h == handle[w] IN
  /\ handle' = [handle EXCEPT ![w] = NoHandle]
  /\ tardy' = IF h.seg = live[Home[w]] THEN tardy ELSE tardy \cup {h.row}

WriteLine(w) ==
  /\ handle[w] # NoHandle /\ ~handle[w].half
  /\ Put(w, "whole")
  /\ EndLine(w)
  /\ UNCHANGED <<live, rot, unsent, readerVars, envVars>>

WriteHead(w) ==
  /\ handle[w] # NoHandle /\ ~handle[w].half
  /\ Put(w, "head")
  /\ handle' = [handle EXCEPT ![w].half = TRUE]
  /\ UNCHANGED <<live, rot, unsent, tardy, readerVars, envVars>>

WriteTail(w) ==
  /\ handle[w].half
  /\ Put(w, "tail")
  /\ EndLine(w)
  /\ UNCHANGED <<live, rot, unsent, readerVars, envVars>>

(* The write fails or the gateway dies: emit returns False or not at all.  *)
AbandonLine(w) ==
  /\ handle[w] # NoHandle
  /\ handle' = [handle EXCEPT ![w] = NoHandle]
  /\ UNCHANGED <<fileVars, unsent, tardy, readerVars, envVars>>

-----------------------------------------------------------------------------
(* The reader.                                                             *)

Surfaced(S) ==
  /\ shown' = [r \in Rows |-> shown[r] + (IF r \in S THEN 1 ELSE 0)]
  /\ tally' = [r \in Rows |-> tally[r] + (IF r \in S THEN 1 ELSE 0)]

(* The lock is taken and the path resolved.  A moved binding resets both   *)
(* offsets and, unless it is the first drain, replaces the ring.           *)
BeginDrain ==
  /\ step = "idle"
  /\ step' = "orphan"
  /\ bound' = binding
  /\ unread' = FALSE
  /\ IF binding = bound
       THEN UNCHANGED <<offset, rotOffset, shown>>
       ELSE /\ offset' = 0 /\ rotOffset' = 0
            /\ shown' = IF bound = None THEN shown ELSE [r \in Rows |-> 0]
  /\ UNCHANGED <<fileVars, writerVars, envVars, tally>>

(* drain_enforcement_events on the rotated segment, before the live one if *)
(* it is an orphan and after a rotation otherwise.  The read may fail.     *)
ReadRot(from, to, ok) ==
  LET g == rot[bound] IN
  /\ step = from
  /\ g # None
  /\ step' = to
  /\ unread' = ~ok
  /\ rotOffset' = IF ok THEN NewOffset(content[g], rotOffset) ELSE rotOffset
  /\ IF ok THEN Surfaced(Drained(content[g], rotOffset)) ELSE UNCHANGED <<shown, tally>>
  /\ UNCHANGED <<fileVars, writerVars, envVars, bound, offset>>

UnlinkForgetting(ok) ==
  rot' = [rot EXCEPT ![bound] = IF ok THEN None ELSE @] /\ rotOffset' = 0

(* os.remove, which the system may refuse.                                 *)
Unlink(ok) ==
  IF ok THEN rot' = [rot EXCEPT ![bound] = None] /\ rotOffset' = 0
        ELSE UNCHANGED <<rot, rotOffset>>

ReadOrphan(ok) == ReadRot("orphan", "clear", ok)

NoOrphan ==
  /\ step = "orphan"
  /\ rot[bound] = None
  /\ step' = "live"
  /\ UNCHANGED <<fileVars, writerVars, envVars, bound, offset, rotOffset, unread, shown, tally>>

ClearOrphanOrStop(ok) ==
  /\ step = "clear"
  /\ step' = IF ok THEN "live" ELSE "idle"
  /\ Unlink(ok)
  /\ UNCHANGED <<content, live, writerVars, envVars, bound, offset, unread, shown, tally>>

ClearOrphan(ok) ==
  /\ step = "clear"
  /\ step' = "live"
  /\ Unlink(ok)
  /\ UNCHANGED <<content, live, writerVars, envVars, bound, offset, unread, shown, tally>>

ReadLiveCommitting(ok) ==
  LET s == IF live[bound] = None THEN <<>> ELSE content[live[bound]] IN
  /\ step = "live"
  /\ step' = "bounding"
  /\ IF ok THEN Surfaced(Drained(s, offset)) ELSE UNCHANGED <<shown, tally>>
  /\ offset' = NewOffset(s, offset)
  /\ UNCHANGED <<fileVars, writerVars, envVars, bound, rotOffset, unread>>

ReadLive(ok) ==
  LET s == IF live[bound] = None THEN <<>> ELSE content[live[bound]] IN
  /\ step = "live"
  /\ step' = "bounding"
  /\ IF ok THEN Surfaced(Drained(s, offset)) /\ offset' = NewOffset(s, offset)
           ELSE UNCHANGED <<shown, tally, offset>>
  /\ UNCHANGED <<fileVars, writerVars, envVars, bound, rotOffset, unread>>

OverCap == live[bound] # None /\ Len(content[live[bound]]) > Cap

WithinCap ==
  /\ step = "bounding"
  /\ ~OverCap
  /\ step' = "idle"
  /\ UNCHANGED <<fileVars, writerVars, envVars, bound, offset, rotOffset, unread, shown, tally>>

(* rotate_spool refuses while a rotated segment exists; the system may     *)
(* refuse the rename.                                                      *)
Rotate ==
  /\ step = "bounding"
  /\ OverCap
  /\ rot[bound] = None
  /\ rot' = [rot EXCEPT ![bound] = live[bound]]
  /\ live' = [live EXCEPT ![bound] = None]
  /\ rotOffset' = offset
  /\ step' = "rotated"
  /\ UNCHANGED <<content, writerVars, envVars, bound, offset, unread, shown, tally>>

RotationRefused ==
  /\ step = "bounding"
  /\ OverCap
  /\ step' = "idle"
  /\ UNCHANGED <<fileVars, writerVars, envVars, bound, offset, rotOffset, unread, shown, tally>>

ReadRotated(ok) == ReadRot("rotated", "finish", ok)

FinishRotation(ok) ==
  /\ step = "finish"
  /\ step' = "idle"
  /\ Unlink(ok)
  /\ offset' = 0
  /\ UNCHANGED <<content, live, writerVars, envVars, bound, unread, shown, tally>>

-----------------------------------------------------------------------------
(* The console stops anywhere in a drain; a new process starts from byte 0 *)
(* with an empty ring and empty tallies.                                   *)
Restart ==
  /\ upsets < MaxUpsets
  /\ upsets' = upsets + 1
  /\ bound' = None
  /\ offset' = 0 /\ rotOffset' = 0
  /\ step' = "idle"
  /\ unread' = FALSE
  /\ shown' = [r \in Rows |-> 0]
  /\ tally' = [r \in Rows |-> 0]
  /\ UNCHANGED <<fileVars, writerVars, binding>>

(* The active profile changes under the running console.                   *)
Rebind ==
  /\ upsets < MaxUpsets
  /\ upsets' = upsets + 1
  /\ \E p \in Paths \ {binding} : binding' = p
  /\ UNCHANGED <<fileVars, writerVars, readerVars>>

WriterNext ==
  \E w \in Writers :
    \/ \E r \in Rows : Open(w, r)
    \/ WriteLine(w)
    \/ WriteHead(w)
    \/ WriteTail(w)
    \/ AbandonLine(w)

ReaderNext ==
  \/ BeginDrain
  \/ NoOrphan
  \/ WithinCap
  \/ Rotate
  \/ RotationRefused
  \/ \E ok \in BOOLEAN :
       \/ ReadOrphan(ok)
       \/ ClearOrphan(ok)
       \/ ReadLive(ok)
       \/ ReadRotated(ok)
       \/ FinishRotation(ok)

SpoolNext == WriterNext \/ ReaderNext \/ Restart \/ Rebind

SpoolSpec == SpoolInit /\ [][SpoolNext]_spoolVars

(* The tailer drains every second and its file system calls do not fail    *)
(* for ever.  Nothing is assumed of the gateway.                           *)
FairSpoolSpec ==
  /\ SpoolSpec
  /\ WF_spoolVars(ReaderNext)
  /\ SF_spoolVars(ReadLive(TRUE))
  /\ SF_spoolVars(ReadOrphan(TRUE) \/ ReadRotated(TRUE))

-----------------------------------------------------------------------------
(* The rows a drain bound to their path would still surface: everything in *)
(* the files of the other paths, and what lies past the offsets in the     *)
(* files of the bound one.                                                 *)
RotFrom(p)  == IF p = bound THEN rotOffset ELSE 0
LiveFrom(p) == IF p = bound /\ step \notin {"rotated", "finish"} THEN offset ELSE 0
Beyond(g, off) == IF g = None THEN {} ELSE Drained(content[g], off)
PendingAt(p) == Beyond(rot[p], RotFrom(p)) \cup Beyond(live[p], LiveFrom(p))
Pending == UNION {PendingAt(p) : p \in Paths}

Log == INSTANCE EnforcementLog
         WITH pending <- Pending, surfaced <- {r \in Rows : shown[r] > 0}

-----------------------------------------------------------------------------
(* A row that a drain would have surfaced is lost only if its line ended   *)
(* in a file that had already been rotated away, or the read before the    *)
(* removal failed (server.py:1257-1268).                                   *)
LossIsExcused ==
  [][\A r \in Pending \ Pending' : shown'[r] > shown[r] \/ r \in tardy \/ unread]_spoolVars

(* The drain implements the log: rows wait, are surfaced at most once and  *)
(* are never invented.                                                     *)
ImplementsLog == Log!LogSpec

(* A row waiting in the bound spool is surfaced or lost, unless the        *)
(* binding moves first: no refused rename or removal stops the drain       *)
(* (server.py:1274, build_app's tailer).                                   *)
Delivered ==
  \A r \in Rows, p \in {Home[w] : w \in Writers} :
    (r \in PendingAt(p) /\ binding = p) ~> (r \notin PendingAt(p) \/ binding # p)
=============================================================================
