------------------------------ MODULE ColdStart ------------------------------
(***************************************************************************)
(* The cold-start markers of the reference plugin: a session whose tool    *)
(* calls run before the scanners are up, or after their initialisation has *)
(* failed, leaves one row of each kind in the enforcement spool.  A call   *)
(* claims the key of its marker under a lock, emits the row without it,    *)
(* and gives the key back if the spool refused the row.                    *)
(***************************************************************************)
EXTENDS Naturals, SequencesExt

CONSTANTS
  ColdThreads,   \* host threads that dispatch _pre_tool_call()
  ColdSessions,
  Anon,          \* a call without task_id and _agent: one key for the process
  MaxKeys,       \* _MAX_COLD_START_KEYS
  MaxColdCalls   \* bound: calls altogether

Types == {"cold_start_degraded", "init_failed"}
Keys == {[sid |-> s, type |-> y] : s \in ColdSessions \cup {Anon}, y \in Types}

ASSUME ColdStartAssumption ==
  Anon \notin ColdSessions /\ MaxKeys \in Nat \ {0} /\ MaxColdCalls \in Nat

VARIABLES
  coldInit,    \* _initialized and _init_error
  records,     \* _cold_start_records, in order of insertion
  anonymous,   \* the types whose _cold_start_anon_ boolean is set
  marker,      \* _emit_cold_start_marker() in each thread: where it is, its key
  dispatched,
  rows,        \* history: how many rows of a key are in the spool
  excused      \* history: keys that were evicted, or whose row landed although the write failed

coldVars == <<coldInit, records, anonymous, marker, dispatched, rows, excused>>

NoMarker == [at |-> "idle", key |-> [sid |-> Anon, type |-> "init_failed"]]
Goto(t, place) == marker' = [marker EXCEPT ![t].at = place]
(* dict.pop(key, None).                                                   *)
Pop(q, key) == IF key \in ToSet(q) THEN RemoveAt(q, CHOOSE i \in DOMAIN q : q[i] = key) ELSE q

Claimed == ToSet(records) \cup {[sid |-> Anon, type |-> y] : y \in anonymous}

-----------------------------------------------------------------------------
ColdInitEnds ==
  /\ coldInit = "pending" /\ coldInit' \in {"done", "failed"}
  /\ UNCHANGED <<records, anonymous, marker, dispatched, rows, excused>>

(* _ensure_initialized() answers False.                                    *)
ColdEnter(t, sid) ==
  /\ marker[t].at = "idle" /\ coldInit # "done" /\ dispatched < MaxColdCalls
  /\ dispatched' = dispatched + 1
  /\ marker' = [marker EXCEPT ![t] = [at |-> "branch",
                                      key |-> [sid |-> sid, type |-> "cold_start_degraded"]]]
  /\ UNCHANGED <<coldInit, records, anonymous, rows, excused>>

(* Which marker; none if the initialisation has completed meanwhile.       *)
Branch(t) ==
  /\ marker[t].at = "branch"
  /\ CASE coldInit = "failed"  -> marker' = [marker EXCEPT ![t].at = "note",
                                                          ![t].key.type = "init_failed"]
       [] coldInit = "pending" -> Goto(t, "note")
       [] OTHER                -> Goto(t, "idle")
  /\ UNCHANGED <<coldInit, records, anonymous, dispatched, rows, excused>>

(* _note_cold_start_session(), whose key is not claimed yet.  The oldest   *)
(* key makes room.                                                         *)
Reserve(t) ==
  LET key == marker[t].key
      full == Len(records) >= MaxKeys
  IN  /\ marker[t].at = "note" /\ key \notin Claimed
      /\ Goto(t, "emitting")
      /\ IF key.sid = Anon
           THEN anonymous' = anonymous \cup {key.type} /\ UNCHANGED <<records, excused>>
         ELSE /\ records' = Append(IF full THEN Tail(records) ELSE records, key)
              /\ excused' = IF full THEN excused \cup {Head(records)} ELSE excused
              /\ UNCHANGED anonymous
      /\ UNCHANGED <<coldInit, dispatched, rows>>

AlreadyNoted(t) ==
  /\ marker[t].at = "note" /\ marker[t].key \in Claimed
  /\ Goto(t, "idle")
  /\ UNCHANGED <<coldInit, records, anonymous, dispatched, rows, excused>>

Landed(t) == rows' = [rows EXCEPT ![marker[t].key] = @ + 1]

(* _emit_enforcement_event(): the writer answers True.                     *)
Emits(t) ==
  /\ marker[t].at = "emitting"
  /\ Landed(t)
  /\ Goto(t, "idle")
  /\ UNCHANGED <<coldInit, records, anonymous, dispatched, excused>>

(* It answers False, as it does when only the closing of the file failed.  *)
EmitFails(t, landed) ==
  /\ marker[t].at = "emitting"
  /\ IF landed THEN Landed(t) /\ excused' = excused \cup {marker[t].key}
     ELSE UNCHANGED <<rows, excused>>
  /\ Goto(t, "releasing")
  /\ UNCHANGED <<coldInit, records, anonymous, dispatched>>

(* Mutant: the boolean of anonymous calls stays set.                       *)
ReleaseCorrelated(t) ==
  /\ marker[t].at = "releasing"
  /\ Goto(t, "idle")
  /\ records' = Pop(records, marker[t].key)
  /\ UNCHANGED <<coldInit, anonymous, dispatched, rows, excused>>

(* _release_cold_start_claim(): whoever has claimed the key by now.        *)
Release(t) ==
  LET key == marker[t].key IN
  /\ marker[t].at = "releasing"
  /\ Goto(t, "idle")
  /\ IF key.sid = Anon THEN anonymous' = anonymous \ {key.type} /\ UNCHANGED records
     ELSE records' = Pop(records, key) /\ UNCHANGED anonymous
  /\ UNCHANGED <<coldInit, dispatched, rows, excused>>

ColdStartInit ==
  /\ coldInit = "pending" /\ records = <<>> /\ anonymous = {}
  /\ marker = [t \in ColdThreads |-> NoMarker]
  /\ dispatched = 0
  /\ rows = [k \in Keys |-> 0] /\ excused = {}

ColdStartNext ==
  \/ ColdInitEnds
  \/ \E t \in ColdThreads :
       \/ \E sid \in ColdSessions \cup {Anon} : ColdEnter(t, sid)
       \/ Branch(t) \/ Reserve(t) \/ AlreadyNoted(t) \/ Emits(t) \/ Release(t)
       \/ \E landed \in BOOLEAN : EmitFails(t, landed)

ColdStartSpec == ColdStartInit /\ [][ColdStartNext]_coldVars

-----------------------------------------------------------------------------
(* The latch never silences a session: a key that is claimed, and that no  *)
(* call is emitting or giving back, has its row in the spool, whichever    *)
(* writes failed and whichever claims were evicted under their calls.  And *)
(* a key has one row, unless its claim was evicted or a row landed that    *)
(* its writer took for lost (_note_cold_start_session and its release).    *)
MarkersAccounted ==
  LET busy == {marker[t].key : t \in {u \in ColdThreads : marker[u].at \in {"emitting", "releasing"}}}
  IN  /\ \A k \in Claimed \ busy : rows[k] > 0
      /\ \A k \in Keys \ excused : rows[k] <= 1
=============================================================================
