---------------------------- MODULE ConsoleProofs ----------------------------
(***************************************************************************)
(* Proofs about a console: the marks of Approvals, its queue and the pages *)
(* of its history, for any rows, caps and histories, and any number of     *)
(* failed saves, restarts and disturbances of the file; the arm switch,    *)
(* the writers of config.yaml and the event streams, for any consoles,     *)
(* profiles, tabs, caps and clocks.                                        *)
(***************************************************************************)
EXTENDS Approvals, ConfigFile, ListTheorems

States == {"absent", "good", "locked", "bad", "newer"}

(* The file is a record whose ids outlive its state; a mark under way has  *)
(* the ids that it is going to save.                                       *)
FileTypeOK ==
  /\ reviewed \in [state : States, ids : SUBSET audited]
  /\ marking = None \/ (marking \in [ids : SUBSET audited] /\ marking # None)

(* Whatever the file lists and the history shows is in the mark that is    *)
(* about to replace the file, or the mark will not replace it: one begins  *)
(* only on a file that is not locked, and nothing drains the history until *)
(* it is saved.                                                            *)
MarkKeepsShown ==
  marking # None /\ reviewed.state \in {"good", "locked"} =>
    \A id \in reviewed.ids : id \in marking.ids \/ id \notin ItemIds(CurrentRows)

IInv == FileTypeOK /\ MarkKeepsShown

-----------------------------------------------------------------------------
LEMMA InitIInv == Init => IInv
  BY DEF Init, IInv, FileTypeOK, MarkKeepsShown, States

(* The history moves under no mark.                                        *)
LEMMA HistoryKeeps == ASSUME IInv, History PROVE IInv'
  <1>1. UNCHANGED <<reviewed, marking, audited>>
    BY DEF History
  <1>2. marking # None => UNCHANGED <<console, sink>>
    BY DEF History, GatewayEmit
  <1>3. FileTypeOK'
    BY <1>1 DEF IInv, FileTypeOK
  <1>4. ASSUME marking # None PROVE CurrentRows' = CurrentRows
    BY <1>2, <1>4 DEF CurrentRows
  <1>5. MarkKeepsShown'
    BY <1>1, <1>4 DEF IInv, MarkKeepsShown
  <1> QED
    BY <1>3, <1>5 DEF IInv

LEMMA BeginMarkKeeps ==
  ASSUME IInv, NEW id, NEW writable \in BOOLEAN, NEW rotation \in Rotations, NEW readable \in BOOLEAN,
         BeginMark(id, writable, rotation, readable)
  PROVE  IInv'
  <1> DEFINE st == Drained(writable, rotation)
             rows == EquippedRows(st.mem.ring, st.sink, readable)
             kept == IF ~readable \/ st.mem.sinkWarned THEN ReadReviewed ELSE ReadReviewed \cap ItemIds(rows)
  <1>1. /\ ~MarkRefused /\ console' = st.mem /\ sink' = st.sink
        /\ audited' = audited \cup {id} /\ marking' = [ids |-> kept \cup {id}]
        /\ reviewed' = reviewed
    BY DEF BeginMark
  <1>2. ReadReviewed \subseteq reviewed.ids /\ reviewed.ids \subseteq audited
    BY DEF ReadReviewed, IInv, FileTypeOK
  <1>3. kept \subseteq ReadReviewed
    OBVIOUS
  <1> HIDE DEF kept, st, rows
  <1>4. marking'.ids = kept \cup {id} /\ marking' \in [ids : SUBSET audited']
    BY <1>1, <1>2, <1>3
  <1>5. FileTypeOK'
    BY <1>1, <1>4 DEF IInv, FileTypeOK
  <1>6. ASSUME reviewed'.state \in {"good", "locked"}, NEW i \in reviewed'.ids, i \notin marking'.ids
        PROVE  i \notin ItemIds(CurrentRows)'
    <2>1. reviewed.state = "good" /\ ReadReviewed = reviewed.ids
      BY <1>1, <1>6 DEF MarkRefused, ReadReviewed
    <2>2. i \in ReadReviewed /\ i \notin kept
      BY <1>1, <1>4, <1>6, <2>1
    <2>3. readable /\ i \notin ItemIds(rows)
      BY <2>2 DEF kept
    <2>4. CurrentRows' = rows
      BY <1>1, <2>3 DEF CurrentRows, rows
    <2>5. ItemIds(CurrentRows)' = ItemIds(CurrentRows')
      BY DEF ItemIds, Items, Trusted, Refusal, Overruled, Overrules, Group, Approval
    <2> QED
      BY <2>3, <2>4, <2>5
  <1>7. MarkKeepsShown'
    BY <1>6 DEF MarkKeepsShown
  <1> QED
    BY <1>5, <1>7 DEF IInv

LEMMA FileKeeps ==
  ASSUME IInv, Restart \/ (\E ok \in BOOLEAN : SaveMark(ok))
               \/ (\E state \in {"good", "locked", "bad", "newer"} : Disturb(state))
  PROVE  IInv'
  <1>1. CASE Restart
    BY <1>1 DEF Restart, IInv, FileTypeOK, MarkKeepsShown
  <1>2. ASSUME NEW ok \in BOOLEAN, SaveMark(ok) PROVE IInv'
    BY <1>2 DEF SaveMark, IInv, FileTypeOK, MarkKeepsShown, States
  <1>3. ASSUME NEW state \in {"good", "locked", "bad", "newer"}, Disturb(state) PROVE IInv'
    <2>1. /\ reviewed.state \in {"good", "locked"} /\ reviewed' = [reviewed EXCEPT !.state = state]
          /\ UNCHANGED <<console, sink, marking, audited>>
      BY <1>3 DEF Disturb
    <2>2. FileTypeOK' /\ reviewed'.ids = reviewed.ids
      BY <2>1 DEF IInv, FileTypeOK, States
    <2>3. CurrentRows' = CurrentRows
      BY <2>1 DEF CurrentRows
    <2>4. MarkKeepsShown'
      BY <2>1, <2>2, <2>3 DEF IInv, MarkKeepsShown
    <2> QED
      BY <2>2, <2>4 DEF IInv
  <1> QED
    BY <1>1, <1>2, <1>3

LEMMA NextKeeps == ASSUME IInv, [Next]_vars PROVE IInv'
  <1>1. CASE UNCHANGED vars
    BY <1>1 DEF vars, historyVars, IInv, FileTypeOK, MarkKeepsShown, CurrentRows
  <1>2. ASSUME NEW id \in {r.id : r \in GatewayRows}, NEW rotation \in Rotations,
               NEW writable \in BOOLEAN, NEW readable \in BOOLEAN,
               BeginMark(id, writable, rotation, readable)
        PROVE  IInv'
    BY <1>2, BeginMarkKeeps
  <1> QED
    BY <1>1, <1>2, HistoryKeeps, FileKeeps DEF Next

LEMMA Inductive == Spec => []IInv
  <1>1. IInv /\ [Next]_vars => IInv'
    BY NextKeeps
  <1> QED
    BY <1>1, InitIInv, PTL DEF Spec

(* An item is recorded as reviewed only after its audit row was appended,  *)
(* whatever saves fail and wherever the console stops                      *)
(* (server.py:2160-2216).                                                  *)
THEOREM ReviewsAreAudited == Spec => []ReviewedIsAudited
  <1>1. IInv => ReviewedIsAudited
    BY DEF IInv, FileTypeOK, ReviewedIsAudited
  <1> QED
    BY <1>1, Inductive, PTL

(* A mark on an item that the history shows outlives every later mark      *)
(* (server.py:2209).                                                       *)
THEOREM ReviewsStick == Spec => ReviewSticks
  <1> DEFINE Sticks == \A id \in ReadReviewed \ ReadReviewed' :
                         reviewed'.state # "good" \/ id \notin ItemIds(CurrentRows)
  <1>1. ASSUME IInv, Next PROVE Sticks
    <2> SUFFICES ASSUME NEW id \in ReadReviewed \ ReadReviewed', reviewed'.state = "good"
                 PROVE  id \notin ItemIds(CurrentRows)
      OBVIOUS
    <2>1. reviewed.state = "good" /\ id \in reviewed.ids /\ id \notin reviewed'.ids
      BY DEF ReadReviewed
    <2>2. reviewed' # reviewed
      BY <2>1
    <2>3. ~History /\ ~Restart
      BY <2>2 DEF History, Restart
    <2>4. ASSUME NEW i \in {r.id : r \in GatewayRows}, NEW rotation \in Rotations,
                 NEW writable \in BOOLEAN, NEW readable \in BOOLEAN
          PROVE  ~BeginMark(i, writable, rotation, readable)
      BY <2>2 DEF BeginMark
    <2>5. ASSUME NEW state \in {"good", "locked", "bad", "newer"} PROVE ~Disturb(state)
      <3>1. [reviewed EXCEPT !.state = state].ids = reviewed.ids
        BY <1>1 DEF IInv, FileTypeOK
      <3> QED
        BY <2>1, <3>1 DEF Disturb
    <2>6. PICK ok \in BOOLEAN : SaveMark(ok)
      BY <1>1, <2>3, <2>4, <2>5 DEF Next
    <2>7. marking # None /\ id \notin marking.ids
      BY <2>1, <2>6 DEF SaveMark
    <2> QED
      BY <1>1, <2>1, <2>7 DEF IInv, MarkKeepsShown
  <1>2. IInv /\ [Next]_vars => [Sticks]_vars
    BY <1>1
  <1> QED
    BY <1>2, Inductive, PTL DEF Spec, ReviewSticks

-----------------------------------------------------------------------------
(* The history: its rows, what the ring and the sink hold of them, and     *)
(* what keeps that so.                                                     *)

(* A row that the console shows: of a playground scan, or of a gateway     *)
(* record.                                                                 *)
PlayRow(scan) == [scan EXCEPT !.kept = Details[scan].kept, !.text = Details[scan].text, !.safe = scan.safe]

Copy(ev) == Summary(ev, Provenance(ev))

(* Whatever a console shows is a gateway record that was written or a row  *)
(* of the playground, and is stored without its text.                      *)
Shown == {Copy(ev) : ev \in written} \cup {PlayRow(p) : p \in PlayRows}

OnDisk(r) == [r EXCEPT !.text = 0]

Stored == {OnDisk(r) : r \in Shown}

MemFields == {"ring", "total", "blocks", "bypasses", "selfmods", "sinkWarned"}

(* What was written can be ordered and matched by its keys. *)
WrittenOK ==
  /\ IsFiniteSet(written)
  /\ \A r \in written : Keyed(r) /\ (r \in GatewayRows \cup PlayRows \/ r.event = "approval_reviewed")

(* Every row shown has its keys; an approval is shown as the copy of one   *)
(* gateway record.                                                         *)
LEMMA ShownKeyed ==
  ASSUME WrittenOK, NEW r \in Shown
  PROVE  /\ Keyed(r)
         /\ r.event = "approval" => \E ev \in GatewayRows : r = Copy(ev) /\ r.id = ev.id
  <1>1. ASSUME NEW ev \in written, r = Copy(ev)
        PROVE  Keyed(r) /\ r.id = ev.id /\ r.event = ev.event
    <2>1. Keyed(ev)
      BY DEF WrittenOK
    <2> QED
      BY <1>1, <2>1 DEF Copy, Summary, Keyed, RowFields
  <1>2. ASSUME NEW p \in PlayRows, r = PlayRow(p)
        PROVE  Keyed(r) /\ r.event = p.event
    <2>1. Keyed(p)
      BY HistoryAssumption
    <2> QED
      BY <1>2, <2>1 DEF PlayRow, Keyed, RowFields
  <1> QED
    BY <1>1, <1>2, HistoryAssumption DEF Shown, WrittenOK

(* Storing a row keeps its keys. *)
LEMMA StoredKeyed ==
  ASSUME WrittenOK, NEW r \in Shown
  PROVE  /\ Keyed(OnDisk(r)) /\ OnDisk(r).id = r.id /\ OnDisk(r).at = r.at /\ OnDisk(r).event = r.event
         /\ OnDisk(r).provenance = r.provenance
  BY ShownKeyed DEF OnDisk, Keyed, RowFields

(* The memory and the sink of a console hold only such rows. *)
StateOK(st) ==
  /\ {"mem", "sink"} \subseteq DOMAIN st
  /\ MemFields \subseteq DOMAIN st.mem /\ st.mem.ring \in Seq(Shown) /\ st.mem.sinkWarned \in BOOLEAN
  /\ st.sink \in [live : Seq(Stored), rot : Seq(Stored)]

(* What record() changes (_history.py). *)
LEMMA Recorded ==
  ASSUME NEW st, StateOK(st), NEW row \in Shown, NEW writable \in BOOLEAN
  PROVE  LET t == RecordScan(st, row, writable) IN
         /\ {"mem", "sink"} \subseteq DOMAIN t /\ MemFields \subseteq DOMAIN t.mem
         /\ t.mem.ring = LastN(Append(st.mem.ring, row), RingCap)
         /\ t.mem.sinkWarned = (st.mem.sinkWarned \/ ~writable)
         /\ t.sink = [live |-> IF writable THEN Append(st.sink.live, OnDisk(row)) ELSE st.sink.live,
                      rot |-> st.sink.rot]
  BY DEF StateOK, RecordScan, OnDisk, MemFields

(* The last n of a list, as a deque of n keeps them.                       *)
LEMMA LastNIs ==
  ASSUME NEW T, NEW q \in Seq(T), NEW n \in Nat
  PROVE  LET r == LastN(q, n) IN
         /\ r \in Seq(T) /\ Len(r) = (IF Len(q) <= n THEN Len(q) ELSE n)
         /\ \A k \in Nat : k < Len(r) => r[Len(r) - k] = q[Len(q) - k]
<1> DEFINE N == Len(q)
<1>1. N \in Nat /\ \A k \in 1 .. N : q[k] \in T
  BY LenProperties
<1>2. CASE N <= n
  BY <1>1, <1>2 DEF LastN
<1>3. CASE ~(N <= n)
  <2> DEFINE r == SubSeq(q, N - n + 1, N)
  <2>1. LastN(q, n) = r
    BY <1>3 DEF LastN
  <2>2. /\ r \in Seq(T) /\ Len(r) = n
        /\ \A k \in 1 .. n : r[k] = q[N - n + k]
    <3> HIDE DEF N
    <3>1. N - n + 1 \in 1 .. N + 1 /\ N - (N - n + 1) + 1 = n
      BY <1>1, <1>3
    <3>2. \A k \in (N - n + 1) .. N : q[k] \in T
      BY <1>1, <1>3
    <3>3. r \in Seq(T) /\ Len(r) = n
      BY <1>1, <1>3, <3>1, <3>2, SubSeqProperties DEF N
    <3>4. ASSUME NEW k \in 1 .. n PROVE r[k] = q[N - n + k]
      <4>1. r[k] = q[(N - n + 1) + k - 1]
        BY <1>1, <1>3, <3>1, SubSeqProperties DEF N
      <4>2. (N - n + 1) + k - 1 = N - n + k
        BY <1>1
      <4> QED
        BY <4>1, <4>2
    <3> QED
      BY <3>3, <3>4
  <2> HIDE DEF r
  <2>3. ASSUME NEW k \in Nat, k < Len(r) PROVE r[Len(r) - k] = q[N - k]
    <3>1. n - k \in 1 .. n /\ N - n + (n - k) = N - k
      BY <1>1, <2>2, <2>3
    <3> HIDE DEF N
    <3> QED
      BY <2>2, <3>1
  <2> HIDE DEF N
  <2> QED
    BY <1>3, <2>1, <2>2, <2>3 DEF N
<1> QED
  BY <1>2, <1>3

(* The newest rows of the ring, as many as a full segment has room for,    *)
(* are the newest of the sink.                                             *)
Held(ring, q) ==
  \A k \in Nat : k < Len(ring) /\ k <= SinkCap =>
    k < Len(q) /\ q[Len(q) - k].id = ring[Len(ring) - k].id

(* The console says when the sink refused a row. *)
HeldOK(mem, s) == mem.sinkWarned \/ Held(mem.ring, Retained(s))

(* A row that goes to both stays the newest of both. *)
LEMMA HeldGrows ==
  ASSUME NEW A, NEW B, NEW ring \in Seq(A), NEW q \in Seq(B), NEW row \in A, NEW cell \in B,
         cell.id = row.id, Held(ring, q)
  PROVE  Held(LastN(Append(ring, row), RingCap), Append(q, cell))
<1> DEFINE longer == Append(ring, row)
           more == Append(q, cell)
           new == LastN(longer, RingCap)
           m == Len(ring)
           n == Len(q)
<1>1. RingCap \in Nat /\ SinkCap \in Nat
  BY HistoryAssumption
<1>2. /\ longer \in Seq(A) /\ Len(longer) = m + 1 /\ m \in Nat
      /\ longer[m + 1] = row /\ \A k \in 1 .. m : longer[k] = ring[k]
  BY AppendProperties, LenProperties
<1>3. /\ more \in Seq(B) /\ Len(more) = n + 1 /\ n \in Nat
      /\ more[n + 1] = cell /\ \A k \in 1 .. n : more[k] = q[k]
  BY AppendProperties, LenProperties
<1> HIDE DEF longer, more
<1>4. /\ new \in Seq(A) /\ Len(new) <= Len(longer)
      /\ \A k \in Nat : k < Len(new) => new[Len(new) - k] = longer[Len(longer) - k]
  <2> HIDE DEF m
  <2> QED
    BY <1>1, <1>2, LastNIs
<1>5. Len(new) \in Nat
  BY <1>4, LenProperties
<1> HIDE DEF new
<1>6. ASSUME NEW k \in Nat, k < Len(new), k <= SinkCap
      PROVE  k < Len(more) /\ more[Len(more) - k].id = new[Len(new) - k].id
  <2>1. new[Len(new) - k] = longer[(m + 1) - k] /\ k < m + 1
    BY <1>2, <1>4, <1>5, <1>6
  <2>2. CASE k = 0
    <3>1. (m + 1) - k = m + 1 /\ (n + 1) - k = n + 1 /\ k < n + 1
      BY <1>2, <1>3, <2>2
    <3> QED
      BY <1>2, <1>3, <2>1, <3>1
  <2>3. CASE k # 0
    <3> DEFINE j == k - 1
    <3>1. j \in Nat /\ j < m /\ j <= SinkCap /\ k = j + 1
      BY <1>1, <1>2, <1>6, <2>1, <2>3
    <3> HIDE DEF j
    <3>2. j < n /\ q[n - j].id = ring[m - j].id
      BY <3>1 DEF Held
    <3> HIDE DEF m, n
    <3>3. n - j \in 1 .. n /\ m - j \in 1 .. m /\ (n + 1) - k = n - j /\ (m + 1) - k = m - j /\ k < n + 1
      BY <1>2, <1>3, <3>1, <3>2
    <3> QED
      BY <1>2, <1>3, <2>1, <3>2, <3>3
  <2> QED
    BY <2>2, <2>3
<1> QED
  BY <1>6 DEF Held, new, more, longer

(* Recording a row keeps the ring in step with the sink, if the sink takes *)
(* it.                                                                     *)
LEMMA RecordKeeps ==
  ASSUME WrittenOK, NEW st, StateOK(st), HeldOK(st.mem, st.sink),
         NEW row \in Shown, NEW writable \in BOOLEAN
  PROVE  LET t == RecordScan(st, row, writable) IN StateOK(t) /\ HeldOK(t.mem, t.sink)
<1> DEFINE t == RecordScan(st, row, writable)
<1> SUFFICES StateOK(t) /\ HeldOK(t.mem, t.sink)
  OBVIOUS
<1> HIDE DEF t
<1>1. PICK ring, live, rot, cell, tring, tlive :
        /\ ring = st.mem.ring /\ live = st.sink.live /\ rot = st.sink.rot
        /\ cell = OnDisk(row) /\ tring = t.mem.ring /\ tlive = t.sink.live
  OBVIOUS
<1>2. /\ {"mem", "sink"} \subseteq DOMAIN t /\ MemFields \subseteq DOMAIN t.mem
      /\ tring = LastN(Append(ring, row), RingCap)
      /\ t.mem.sinkWarned = (st.mem.sinkWarned \/ ~writable)
      /\ tlive = (IF writable THEN Append(live, cell) ELSE live)
      /\ t.sink = [live |-> tlive, rot |-> rot]
  <2>1. /\ {"mem", "sink"} \subseteq DOMAIN t /\ MemFields \subseteq DOMAIN t.mem
        /\ t.mem.ring = LastN(Append(st.mem.ring, row), RingCap)
        /\ t.mem.sinkWarned = (st.mem.sinkWarned \/ ~writable)
        /\ t.sink = [live |-> IF writable THEN Append(st.sink.live, OnDisk(row)) ELSE st.sink.live,
                     rot |-> st.sink.rot]
    BY Recorded DEF t
  <2>2. t.sink.live = IF writable THEN Append(live, cell) ELSE live
    BY <1>1, <2>1
  <2> QED
    BY <1>1, <2>1, <2>2
<1>3. /\ ring \in Seq(Shown) /\ live \in Seq(Stored) /\ rot \in Seq(Stored) /\ cell \in Stored
      /\ st.mem.sinkWarned \in BOOLEAN
  BY <1>1 DEF StateOK, Stored
<1>4. tring \in Seq(Shown)
  <2>1. Append(ring, row) \in Seq(Shown)
    BY <1>3, AppendProperties
  <2> QED
    BY <1>2, <2>1, LastNIs, HistoryAssumption
<1>5. tlive \in Seq(Stored)
  BY <1>2, <1>3, AppendProperties
<1>6. StateOK(t)
  BY <1>1, <1>2, <1>3, <1>4, <1>5 DEF StateOK
<1>7. ASSUME ~t.mem.sinkWarned PROVE Held(tring, rot \o tlive)
  <2>1. writable /\ ~st.mem.sinkWarned
    BY <1>2, <1>3, <1>7
  <2>2. Held(ring, rot \o live)
    BY <1>1, <2>1 DEF HeldOK, Retained
  <2>3. rot \o tlive = Append(rot \o live, cell) /\ rot \o live \in Seq(Stored)
    <3>1. tlive = Append(live, cell)
      BY <1>2, <2>1
    <3> QED
      BY <1>3, <3>1, ConcatAppend, ConcatProperties
  <2>4. cell.id = row.id
    BY <1>1, StoredKeyed
  <2> QED
    BY <1>2, <1>3, <2>2, <2>3, <2>4, HeldGrows
<1>8. t.mem.ring = tring /\ Retained(t.sink) = rot \o tlive
  <2>1. t.mem.ring = tring /\ t.sink.rot = rot /\ t.sink.live = tlive
    BY <1>1, <1>2
  <2> QED
    BY <2>1, Zenon DEF Retained
<1> QED
  BY <1>6, <1>7, <1>8 DEF HeldOK

(* So does surfacing a gateway record, which adds its tally. *)
LEMMA SurfaceKeeps ==
  ASSUME WrittenOK, NEW st, StateOK(st), HeldOK(st.mem, st.sink),
         NEW ev \in written, NEW writable \in BOOLEAN
  PROVE  LET t == Surface(st, ev, writable) IN StateOK(t) /\ HeldOK(t.mem, t.sink)
<1> DEFINE kept == RecordScan(st, Copy(ev), writable)
           t == Surface(st, ev, writable)
<1>1. Copy(ev) \in Shown
  BY DEF Shown
<1>2. StateOK(kept) /\ HeldOK(kept.mem, kept.sink)
  BY <1>1, RecordKeeps
<1> HIDE DEF kept
<1>3. t = [kept EXCEPT !.mem = BumpTally(@, ev, Provenance(ev))]
  BY DEF Surface, kept, Copy
<1>4. {"mem", "sink"} \subseteq DOMAIN t /\ t.sink = kept.sink /\ t.mem = BumpTally(kept.mem, ev, Provenance(ev))
  BY <1>2, <1>3 DEF StateOK
<1> HIDE DEF t
<1>5. /\ MemFields \subseteq DOMAIN t.mem
      /\ t.mem.ring = kept.mem.ring /\ t.mem.sinkWarned = kept.mem.sinkWarned
  BY <1>2, <1>4 DEF StateOK, BumpTally, MemFields
<1> QED
  BY <1>2, <1>4, <1>5 DEF StateOK, HeldOK, t

(* A drain surfaces its records one after another.                         *)
LEMMA SurfaceRuns ==
  ASSUME NEW st, NEW events, Len(events) \in Nat, NEW writable
  PROVE  \E after :
           /\ SurfaceAll(st, events, writable) = after[Len(events)]
           /\ after[0] = st
           /\ \A n \in 1 .. Len(events) : after[n] = Surface(after[n - 1], events[n], writable)
<1> DEFINE N == Len(events)
           Body(f, m) == [n \in 0 .. m |-> IF n = 0 THEN st ELSE Surface(f[n - 1], events[n], writable)]
           reached == {m \in 0 .. N : \E f : f = Body(f, m)}
<1>1. 0 \in reached
  <2> DEFINE f == [n \in 0 .. 0 |-> st]
  <2>1. f = Body(f, 0)
    OBVIOUS
  <2> HIDE DEF f, Body
  <2>2. \E g : g = Body(g, 0)
    BY <2>1
  <2> QED
    BY <2>2
<1>2. ASSUME NEW m \in 1 .. N, m - 1 \in reached PROVE m \in reached
  <2>1. PICK f : f = Body(f, m - 1)
    BY <1>2
  <2> DEFINE h == [k \in 0 .. m |-> IF k = m THEN Surface(f[m - 1], events[m], writable) ELSE f[k]]
  <2>2. m \in Nat /\ m # 0 /\ \A k \in 0 .. m : k # m => k \in 0 .. (m - 1)
    BY <1>2
  <2>3. ASSUME NEW k \in 0 .. m
        PROVE  h[k] = IF k = 0 THEN st ELSE Surface(h[k - 1], events[k], writable)
    <3>1. CASE k = 0
      <4>1. h[k] = f[k] /\ k \in 0 .. (m - 1)
        BY <2>2, <3>1
      <4> QED
        BY <2>1, <3>1, <4>1
    <3>2. CASE k # 0
      <4>1. k - 1 \in 0 .. m /\ k - 1 # m
        BY <2>2, <3>2
      <4>2. h[k - 1] = f[k - 1]
        BY <4>1
      <4>3. CASE k = m
        BY <3>2, <4>2, <4>3
      <4>4. CASE k # m
        <5>1. k \in 0 .. (m - 1) /\ h[k] = f[k]
          BY <2>2, <4>4
        <5>2. Body(f, m - 1)[k] = Surface(f[k - 1], events[k], writable)
          BY <3>2, <5>1
        <5>3. f[k] = Body(f, m - 1)[k]
          BY <2>1, Zenon
        <5> HIDE DEF h, Body
        <5> QED
          BY <3>2, <4>2, <5>1, <5>2, <5>3
      <4> QED
        BY <4>3, <4>4
    <3> QED
      BY <3>1, <3>2
  <2>4. h = [k \in 0 .. m |-> h[k]]
    OBVIOUS
  <2> HIDE DEF h
  <2>5. h = Body(h, m)
    BY <2>3, <2>4
  <2>6. \E g : g = Body(g, m)
    BY <2>5
  <2> QED
    BY <2>6
<1>3. \A m \in 0 .. N : m \in reached
  <2> HIDE DEF reached
  <2> QED
    BY <1>1, <1>2, Inductively
<1>4. N \in 0 .. N
  OBVIOUS
<1> DEFINE after == CHOOSE f : f = Body(f, N)
<1>5. after = Body(after, N)
  <2>1. \E f : f = Body(f, N)
    BY <1>3, <1>4
  <2> HIDE DEF Body
  <2> QED
    BY <2>1
<1>6. SurfaceAll(st, events, writable) = after[N]
  BY DEF SurfaceAll
<1> HIDE DEF after
<1>7. after[0] = st
  <2>1. 0 \in 0 .. N
    OBVIOUS
  <2>2. Body(after, N)[0] = st
    BY <2>1
  <2> HIDE DEF Body
  <2> QED
    BY <1>5, <2>2
<1>8. ASSUME NEW n \in 1 .. N PROVE after[n] = Surface(after[n - 1], events[n], writable)
  <2>1. n \in 0 .. N /\ n # 0
    OBVIOUS
  <2>2. Body(after, N)[n] = Surface(after[n - 1], events[n], writable)
    BY <2>1
  <2>3. after[n] = Body(after, N)[n]
    BY <1>5, Zenon
  <2> HIDE DEF Body
  <2> QED
    BY <2>2, <2>3
<1> QED
  BY <1>6, <1>7, <1>8

(* A rotation drops the older segment; the live one that it keeps is       *)
(* longer than the cap.                                                    *)
LEMMA RotateHeld ==
  ASSUME NEW B, NEW ring, Len(ring) \in Nat, NEW rot \in Seq(B), NEW live \in Seq(B), Len(live) > SinkCap,
         Held(ring, rot \o live)
  PROVE  Held(ring, live)
<1> DEFINE q == rot \o live
           m == Len(rot)
           n == Len(live)
<1>1. m \in Nat /\ n \in Nat /\ SinkCap \in Nat /\ n > SinkCap
  BY LenProperties, HistoryAssumption
<1>2. Len(q) = m + n /\ \A k \in 1 .. m + n : q[k] = IF k <= m THEN rot[k] ELSE live[k - m]
  BY ConcatProperties
<1> HIDE DEF q, m, n
<1>3. ASSUME NEW k \in Nat, k < Len(ring), k <= SinkCap
      PROVE  k < n /\ live[n - k].id = ring[Len(ring) - k].id
  <2>1. k < n /\ (m + n) - k \in 1 .. m + n /\ ~((m + n) - k <= m) /\ ((m + n) - k) - m = n - k
    BY <1>1, <1>3
  <2>2. q[(m + n) - k].id = ring[Len(ring) - k].id
    BY <1>2, <1>3 DEF Held, q
  <2> QED
    BY <1>2, <2>1, <2>2
<1> QED
  BY <1>3 DEF Held, n

(* So the sink still holds what it held of the ring. *)
LEMMA RotateKeeps ==
  ASSUME WrittenOK, NEW st, StateOK(st), HeldOK(st.mem, st.sink), NEW rotation
  PROVE  LET s == RotateHistory(st.sink, rotation) IN
         s \in [live : Seq(Stored), rot : Seq(Stored)] /\ HeldOK(st.mem, s)
<1> DEFINE s == RotateHistory(st.sink, rotation)
<1>1. PICK ring, live, rot : ring = st.mem.ring /\ live = st.sink.live /\ rot = st.sink.rot
  OBVIOUS
<1>2. /\ ring \in Seq(Shown) /\ live \in Seq(Stored) /\ rot \in Seq(Stored) /\ Len(ring) \in Nat
      /\ st.sink = [live |-> live, rot |-> rot] /\ <<>> \in Seq(Stored)
  BY <1>1, LenProperties, EmptySeq DEF StateOK
<1>3. CASE Len(live) <= SinkCap \/ rotation = "refused"
  <2>1. s = st.sink
    BY <1>1, <1>3 DEF RotateHistory
  <2> QED
    BY <2>1 DEF StateOK
<1>4. CASE ~(Len(live) <= SinkCap \/ rotation = "refused")
  <2>1. Len(live) > SinkCap
    BY <1>2, <1>4, LenProperties, HistoryAssumption
  <2>2. s = [live |-> live, rot |-> <<>>] \/ s = [live |-> <<>>, rot |-> live]
    BY <1>1, <1>2, <1>4 DEF RotateHistory
  <2>3. Retained(s) = live
    <3>1. live \o <<>> = live /\ <<>> \o live = live
      BY <1>2, ConcatEmptySeq
    <3>2. CASE s = [live |-> live, rot |-> <<>>]
      <4>1. s.rot = <<>> /\ s.live = live
        BY <3>2
      <4> HIDE DEF s
      <4> QED
        BY <3>1, <4>1, Zenon DEF Retained
    <3>3. CASE s = [live |-> <<>>, rot |-> live]
      <4>1. s.rot = live /\ s.live = <<>>
        BY <3>3
      <4> HIDE DEF s
      <4> QED
        BY <3>1, <4>1, Zenon DEF Retained
    <3> QED
      BY <2>2, <3>2, <3>3
  <2> HIDE DEF s
  <2>4. s \in [live : Seq(Stored), rot : Seq(Stored)]
    <3>1. [live |-> live, rot |-> <<>>] \in [live : Seq(Stored), rot : Seq(Stored)]
      BY <1>2
    <3>2. [live |-> <<>>, rot |-> live] \in [live : Seq(Stored), rot : Seq(Stored)]
      BY <1>2
    <3> QED
      BY <2>2, <3>1, <3>2
  <2>5. ASSUME ~st.mem.sinkWarned PROVE Held(ring, live)
    <3>1. Held(ring, rot \o live)
      BY <1>1, <2>5, Zenon DEF HeldOK, Retained
    <3> QED
      BY <1>2, <2>1, <3>1, RotateHeld
  <2> QED
    BY <1>1, <2>3, <2>4, <2>5 DEF HeldOK, s
<1> QED
  BY <1>3, <1>4

SpoolOK == spool \in [lines : Seq(written), drained : Nat]

(* The invariant of the history: what was written, the memory, the sink    *)
(* and the spool.                                                          *)
HistoryOK ==
  /\ WrittenOK
  /\ StateOK([mem |-> console, sink |-> sink])
  /\ HeldOK(console, sink)
  /\ SpoolOK

(* A drain keeps all of it, record by record and through both rotations. *)
LEMMA DrainedKeeps ==
  ASSUME HistoryOK, NEW writable \in BOOLEAN, NEW rotation
  PROVE  LET st == Drained(writable, rotation) IN
         /\ StateOK([mem |-> st.mem, sink |-> st.sink]) /\ HeldOK(st.mem, st.sink)
         /\ st.spool \in [lines : Seq(written), drained : Nat]
<1> DEFINE new == SubSeq(spool.lines, spool.drained + 1, Len(spool.lines))
           base == [mem |-> console, sink |-> sink]
           N == Len(new)
           all == SurfaceAll(base, new, writable)
           st == Drained(writable, rotation)
<1>0. WrittenOK /\ StateOK(base) /\ HeldOK(base.mem, base.sink) /\ SpoolOK
  BY DEF HistoryOK
<1>1. new \in Seq(written) /\ N \in Nat /\ \A n \in 1 .. N : new[n] \in written
  <2>1. PICK lines \in Seq(written), d \in Nat : lines = spool.lines /\ d = spool.drained
    BY <1>0 DEF SpoolOK
  <2>2. \A i \in d + 1 .. Len(lines) : lines[i] \in written
    BY LenProperties
  <2>3. SubSeq(lines, d + 1, Len(lines)) \in Seq(written)
    BY <2>2, SubSeqProperties, LenProperties
  <2>4. new \in Seq(written)
    BY <2>1, <2>3
  <2> HIDE DEF new
  <2> QED
    BY <2>4, LenProperties, ElementOfSeq
<1> HIDE DEF new, base
<1>2. PICK after :
        /\ all = after[N]
        /\ after[0] = base
        /\ \A n \in 1 .. N : after[n] = Surface(after[n - 1], new[n], writable)
  <2>1. PICK b, e : b = base /\ e = new
    OBVIOUS
  <2>2. Len(e) \in Nat
    BY <1>1, <2>1
  <2>3. \E after :
          /\ SurfaceAll(b, e, writable) = after[Len(e)]
          /\ after[0] = b
          /\ \A n \in 1 .. Len(e) : after[n] = Surface(after[n - 1], e[n], writable)
    BY <2>2, SurfaceRuns
  <2> QED
    BY <2>1, <2>3
<1> DEFINE good == {n \in 0 .. N : StateOK(after[n]) /\ HeldOK(after[n].mem, after[n].sink)}
<1>3. 0 \in good
  BY <1>0, <1>1, <1>2
<1>4. ASSUME NEW n \in 1 .. N, n - 1 \in good PROVE n \in good
  <2>1. StateOK(after[n - 1]) /\ HeldOK(after[n - 1].mem, after[n - 1].sink) /\ n \in 0 .. N
    BY <1>1, <1>4
  <2>2. after[n] = Surface(after[n - 1], new[n], writable) /\ new[n] \in written
    BY <1>1, <1>2
  <2>3. StateOK(after[n]) /\ HeldOK(after[n].mem, after[n].sink)
    BY <1>0, <2>1, <2>2, SurfaceKeeps
  <2> QED
    BY <2>1, <2>3
<1>5. N \in good
  <2> HIDE DEF good
  <2>1. \A n \in 0 .. N : n \in good
    BY <1>1, <1>3, <1>4, Inductively
  <2> QED
    BY <1>1, <2>1
<1>6. StateOK(all) /\ HeldOK(all.mem, all.sink)
  BY <1>2, <1>5
<1>7. /\ st.mem = all.mem /\ st.sink = RotateHistory(all.sink, rotation)
      /\ st.spool = IF Len(spool.lines) > SpoolCap /\ rotation = "done"
                      THEN [lines |-> <<>>, drained |-> 0]
                      ELSE [spool EXCEPT !.drained = Len(spool.lines)]
  <2> HIDE DEF all, N, good
  <2> QED
    BY DEF Drained, all, new, base
<1>8. st.spool \in [lines : Seq(written), drained : Nat]
  <2>1. spool.lines \in Seq(written) /\ Len(spool.lines) \in Nat /\ <<>> \in Seq(written)
    BY <1>0, LenProperties, EmptySeq DEF SpoolOK
  <2> QED
    BY <1>0, <1>7, <2>1 DEF SpoolOK
<1> HIDE DEF all, st
<1>9. st.sink \in [live : Seq(Stored), rot : Seq(Stored)] /\ HeldOK(st.mem, st.sink)
  BY <1>0, <1>6, <1>7, RotateKeeps
<1>10. StateOK([mem |-> st.mem, sink |-> st.sink])
  BY <1>6, <1>7, <1>9 DEF StateOK
<1> QED
  BY <1>8, <1>9, <1>10 DEF st

(* More is shown of more that is written. *)
LEMMA ShownGrows ==
  ASSUME NEW st, StateOK(st), written \subseteq written'
  PROVE  StateOK(st)'
<1>1. Shown \subseteq Shown'
  BY DEF Shown, Copy
<1>2. Stored \subseteq Stored'
  BY <1>1 DEF Stored, OnDisk
<1>3. st.mem.ring \in Seq(Shown') /\ st.sink.live \in Seq(Stored') /\ st.sink.rot \in Seq(Stored')
  BY <1>1, <1>2, SeqMonotonic DEF StateOK
<1>4. st.sink = [live |-> st.sink.live, rot |-> st.sink.rot]
  BY DEF StateOK
<1>5. st.sink \in [live : Seq(Stored'), rot : Seq(Stored')]
  BY <1>3, <1>4
<1> QED
  BY <1>3, <1>5 DEF StateOK

-----------------------------------------------------------------------------
(* The rows that the equipped profile shows, and the queue among them. *)

(* An approval is shown as one row, and stored as one. *)
OneCopy(S) == \A a, b \in Approval(S) : a.id = b.id => a = b

LEMMA ShownOnce == WrittenOK => OneCopy(Shown)
<1> SUFFICES ASSUME WrittenOK, NEW a \in Shown, NEW b \in Shown,
                    a.event = "approval", b.event = "approval", a.id = b.id
             PROVE  a = b
  BY DEF OneCopy, Approval
<1>1. PICK ev \in GatewayRows : a = Copy(ev) /\ a.id = ev.id
  BY ShownKeyed
<1>2. PICK fv \in GatewayRows : b = Copy(fv) /\ b.id = fv.id
  BY ShownKeyed
<1>3. ev = fv
  BY <1>1, <1>2, HistoryAssumption
<1> QED
  BY <1>1, <1>2, <1>3

(* The row of the sink that a row of the ring covers, and the rows that    *)
(* are shown.                                                              *)
SinkCopy(r) == QueueCopy(OnDisk(r))

LEMMA SinkCopyIs ==
  ASSUME WrittenOK, NEW r \in Shown
  PROVE  /\ Keyed(SinkCopy(r)) /\ SinkCopy(r).id = r.id /\ SinkCopy(r).event = r.event
         /\ SinkCopy(r).provenance = "unverifiable" <=> r.provenance = "unverifiable"
<1>1. Keyed(OnDisk(r)) /\ OnDisk(r).id = r.id /\ OnDisk(r).event = r.event /\ OnDisk(r).provenance = r.provenance
  BY StoredKeyed
<1>2. CASE r.provenance = "unverifiable"
  <2>1. SinkCopy(r) = OnDisk(r)
    BY <1>1, <1>2 DEF SinkCopy, QueueCopy
  <2> QED
    BY <1>1, <2>1
<1>3. CASE r.provenance # "unverifiable"
  <2> DEFINE d == OnDisk(r)
             verdict == IF KeyOn THEN "genuine" ELSE "unattested"
  <2>1. SinkCopy(r) = [d EXCEPT !.provenance = verdict]
    BY <1>1, <1>3 DEF SinkCopy, QueueCopy, Attached
  <2>2. verdict # "unverifiable"
    OBVIOUS
  <2> HIDE DEF d, verdict
  <2>3. Keyed(d) /\ d.id = r.id /\ d.event = r.event
    BY <1>1 DEF d
  <2> QED
    BY <1>3, <2>1, <2>2, <2>3 DEF Keyed, RowFields
<1> QED
  BY <1>2, <1>3

Over(S, T) == S \cup {r \in T : \A o \in S : o.id # r.id}

LEMMA OverOnce == ASSUME NEW S, NEW T, OneCopy(S), OneCopy(T) PROVE OneCopy(Over(S, T))
BY DEF OneCopy, Over, Approval

(* What the queue is read from: keyed rows, and one row of each approval.  *)
LEMMA RowsAre ==
  ASSUME WrittenOK, NEW st, StateOK(st), NEW readable \in BOOLEAN
  PROVE  LET rows == EquippedRows(st.mem.ring, st.sink, readable) IN
         IsFiniteSet(rows) /\ (\A r \in rows : Keyed(r)) /\ OneCopy(rows)
<1> DEFINE inRing == ToSet(st.mem.ring)
           inSink == IF readable THEN {QueueCopy(r) : r \in ToSet(Retained(st.sink))} ELSE {}
           Trusting(S) == {r \in S : r.provenance # "unverifiable"}
           rows == EquippedRows(st.mem.ring, st.sink, readable)
<1>1. inRing \subseteq Shown /\ IsFiniteSet(inRing)
  BY ElementsFinite DEF StateOK
<1>2. /\ inSink \subseteq {SinkCopy(x) : x \in Shown}
      /\ IsFiniteSet(inSink)
  <2>1. Retained(st.sink) \in Seq(Stored)
    BY ConcatProperties DEF StateOK, Retained
  <2>2. ToSet(Retained(st.sink)) \subseteq Stored /\ IsFiniteSet(ToSet(Retained(st.sink)))
    BY <2>1, ElementsFinite
  <2>3. PICK P : P = ToSet(Retained(st.sink))
    OBVIOUS
  <2>4. P \subseteq Stored /\ IsFiniteSet(P)
    BY <2>2, <2>3
  <2>5. inSink = IF readable THEN {QueueCopy(r) : r \in P} ELSE {}
    BY <2>3
  <2>6. \A r \in P : QueueCopy(r) \in {SinkCopy(x) : x \in Shown}
    BY <2>4 DEF Stored, SinkCopy
  <2>7. IsFiniteSet({QueueCopy(r) : r \in P})
    <3> DEFINE f == [r \in P |-> QueueCopy(r)]
    <3>1. {QueueCopy(r) : r \in P} = {f[r] : r \in P}
      OBVIOUS
    <3> HIDE DEF f
    <3> QED
      BY <2>4, <3>1, FiniteImage
  <2>8. IsFiniteSet({})
    BY FS_EmptySet
  <2> HIDE DEF inSink
  <2> QED
    BY <2>5, <2>6, <2>7, <2>8
<1>3. rows = Over(Over(Over(Trusting(inSink), Trusting(inRing)), inRing), inSink)
  BY DEF EquippedRows, Over
<1>4. OneCopy(inRing) /\ OneCopy(Trusting(inRing))
  BY <1>1, ShownOnce DEF OneCopy, Approval
<1>5. OneCopy(inSink) /\ OneCopy(Trusting(inSink))
  <2> SUFFICES ASSUME NEW a \in inSink, NEW b \in inSink,
                      a.event = "approval", b.event = "approval", a.id = b.id
               PROVE  a = b
    BY DEF OneCopy, Approval
  <2> HIDE DEF inSink
  <2>1. PICK x \in Shown : a = SinkCopy(x)
    BY <1>2
  <2>2. PICK y \in Shown : b = SinkCopy(y)
    BY <1>2
  <2>3. x.id = a.id /\ y.id = b.id /\ x.event = a.event /\ y.event = b.event
    BY <2>1, <2>2, SinkCopyIs
  <2>4. x = y
    BY <2>3, ShownOnce DEF OneCopy, Approval
  <2> QED
    BY <2>1, <2>2, <2>4
<1>6. \A r \in inRing \cup inSink : Keyed(r)
  <2> HIDE DEF inRing, inSink
  <2> QED
    BY <1>1, <1>2, ShownKeyed, SinkCopyIs
<1> HIDE DEF inRing, inSink
<1>7. OneCopy(rows)
  <2> HIDE DEF rows, Trusting
  <2> QED
    BY <1>3, <1>4, <1>5, OverOnce
<1>8. rows \subseteq inRing \cup inSink
  BY <1>3 DEF Over
<1>9. IsFiniteSet(rows)
  <2> HIDE DEF rows
  <2>1. IsFiniteSet(inRing \cup inSink)
    BY <1>1, <1>2, FS_Union
  <2> QED
    BY <1>8, <2>1, FS_Subset
<1> QED
  BY <1>6, <1>7, <1>8, <1>9

(* What is left of the rows without those that do not verify. *)
Honest(rows) == {r \in rows : r.provenance # "unverifiable"}

(* A row that does not verify neither answers a prompt nor groups with     *)
(* one, so it decides about no other row.                                  *)
LEMMA HonestItems == \A rows : Items(Honest(rows)) = Honest(Items(rows))
<1> SUFFICES ASSUME NEW rows PROVE Items(Honest(rows)) = Honest(Items(rows))
  OBVIOUS
<1>1. Trusted(Honest(rows)) = Trusted(rows)
  BY DEF Trusted, Honest, Approval
<1>2. \A r : Group(Honest(rows), r) = Group(rows, r)
  BY <1>1 DEF Group
<1>3. \A d : Overrules(Honest(rows), d) = Overrules(rows, d)
  BY <1>2 DEF Overrules
<1>4. Overruled(Honest(rows)) = Overruled(rows)
  BY <1>1, <1>3 DEF Overruled
<1>5. \A r \in Trusted(rows) : r.provenance # "unverifiable"
  BY DEF Trusted
<1>6. \A r \in Approval(Honest(rows)) : r.provenance # "unverifiable"
  BY DEF Approval, Honest
<1> QED
  BY <1>1, <1>4, <1>5, <1>6 DEF Items, Honest

(* An automatic denial is overruled by a verified answer of the prompt.    *)
LEMMA Listed == \A rows : RefusalsListed(rows)
<1> SUFFICES ASSUME NEW rows, NEW r \in {o \in Approval(rows) : Refusal(o)} \ Items(rows)
             PROVE  /\ r.smart
                    /\ \E h \in rows : ~h.smart /\ h.prompt = r.prompt /\ h.phase = "response" /\
                                       h.provenance # "unverifiable"
  BY DEF RefusalsListed
<1>1. r.provenance # "unverifiable" /\ r.phase = "response" /\ r \in Trusted(rows)
  BY DEF Items, Trusted, Refusal
<1>2. r \in Overruled(rows)
  BY <1>1 DEF Items
<1>3. r.smart /\ Overrules(rows, r) # {}
  BY <1>2 DEF Overruled
<1>4. PICK h \in Group(rows, r) \ {r} : h.phase = "response" /\ ~h.smart
  BY <1>3 DEF Overrules
<1>5. h \in Trusted(rows) /\ h.prompt = r.prompt
  BY <1>4 DEF Group
<1> QED
  BY <1>3, <1>4, <1>5 DEF Trusted, Approval

(* The order of the queue: band, then newest first. *)
Sooner(a, b, ids) ==
  Band(a, ids) < Band(b, ids) \/ (Band(a, ids) = Band(b, ids) /\ Newer(a, b))

QueueOrder(S, ids) == {p \in S \X S : Sooner(p[1], p[2], ids)}

(* The queue is the beginning of the line-up of its items. *)
LEMMA QueueIsLined ==
  ASSUME NEW rows, NEW ids
  PROVE  LET q == Lined(QueueOrder(Items(rows), ids), Items(rows)) IN
         Queue(rows, ids) = SubSeq(q, 1, IF Len(q) < QueueCap THEN Len(q) ELSE QueueCap)
<1> DEFINE S == Items(rows)
           R == QueueOrder(S, ids)
<1>1. \A r \in S : Before(R, S, r) = {o \in S : Sooner(o, r, ids)}
  BY DEF Before, QueueOrder
<1>2. \A i : (CHOOSE r \in S : Cardinality(Before(R, S, r)) = i - 1)
           = (CHOOSE r \in S : Cardinality({o \in S : Sooner(o, r, ids)}) = i - 1)
  <2> HIDE DEF S, R
  <2> TAKE i
  <2>1. \A r \in S : Cardinality(Before(R, S, r)) = i - 1
                    <=> Cardinality({o \in S : Sooner(o, r, ids)}) = i - 1
    BY <1>1
  <2> QED
    BY <2>1, Zenon
<1>3. Lined(R, S) = [i \in 1 .. Cardinality(S) |->
                       CHOOSE r \in S : Cardinality({o \in S : Sooner(o, r, ids)}) = i - 1]
  <2> DEFINE N == Cardinality(S)
             f == [i \in 1 .. N |-> CHOOSE r \in S : Cardinality(Before(R, S, r)) = i - 1]
             g == [i \in 1 .. N |-> CHOOSE r \in S : Cardinality({o \in S : Sooner(o, r, ids)}) = i - 1]
  <2> HIDE DEF S, R, N
  <2>1. ASSUME NEW i \in 1 .. N PROVE f[i] = g[i]
    <3>1. f[i] = CHOOSE r \in S : Cardinality(Before(R, S, r)) = i - 1
      OBVIOUS
    <3>2. g[i] = CHOOSE r \in S : Cardinality({o \in S : Sooner(o, r, ids)}) = i - 1
      OBVIOUS
    <3> HIDE DEF f, g
    <3> QED
      BY <1>2, <3>1, <3>2, Zenon
  <2>2. f = [i \in 1 .. N |-> f[i]] /\ g = [i \in 1 .. N |-> g[i]]
    OBVIOUS
  <2> HIDE DEF f, g
  <2>3. f = g
    BY <2>1, <2>2
  <2> QED
    BY <2>3, Zenon DEF f, g, N, Lined
<1> QED
  BY <1>3, Zenon DEF Queue, Ordered, Sooner

(* No two items tie, because no two rows have one id. *)
LEMMA QueueLinear ==
  ASSUME NEW S, \A r \in S : Keyed(r), \A a, b \in S : a.id = b.id => a = b, NEW ids
  PROVE  LinearOn(QueueOrder(S, ids), S)
<1> DEFINE R == QueueOrder(S, ids)
<1>1. \A r \in S : r.id \in Nat /\ r.at \in Nat /\ Band(r, ids) \in 0 .. 2
  BY DEF Keyed, Band
<1>2. \A a, b \in S : <<a, b>> \in R <=> Sooner(a, b, ids)
  BY DEF QueueOrder
<1>3. ASSUME NEW a \in S PROVE ~Sooner(a, a, ids)
  BY <1>1 DEF Sooner, Newer, Older
<1>4. ASSUME NEW a \in S, NEW b \in S, NEW c \in S, Sooner(a, b, ids), Sooner(b, c, ids)
      PROVE  Sooner(a, c, ids)
  BY <1>1, <1>4 DEF Sooner, Newer, Older
<1>5. ASSUME NEW a \in S, NEW b \in S, a # b
      PROVE  Sooner(a, b, ids) \/ Sooner(b, a, ids)
  <2>1. a.id # b.id
    BY <1>5
  <2> QED
    BY <1>1, <2>1 DEF Sooner, Newer, Older
<1> HIDE DEF R
<1> QED
  BY <1>2, <1>3, <1>4, <1>5 DEF LinearOn, R

(* An item of the honest queue has no more before it once rows that do not *)
(* verify are taken away: those come in the last band.                     *)
LEMMA ForgedHides ==
  ASSUME NEW rows, IsFiniteSet(rows), \A r \in rows : Keyed(r), OneCopy(rows), NEW ids
  PROVE  ToSet(Queue(Honest(rows), ids)) \subseteq ToSet(Queue(rows, ids))
<1> DEFINE S == Items(rows)
           H == Items(Honest(rows))
           q == Lined(QueueOrder(S, ids), S)
           h == Lined(QueueOrder(H, ids), H)
           Cap(l) == IF Len(l) < QueueCap THEN Len(l) ELSE QueueCap
<1>1. H = Honest(S) /\ H \subseteq S
  BY HonestItems DEF Honest
<1>2. S \subseteq Approval(rows) /\ S \subseteq rows
  BY DEF Items, Trusted, Approval, Overruled
<1> HIDE DEF S, H
<1>3. IsFiniteSet(S) /\ IsFiniteSet(H)
  BY <1>1, <1>2, FS_Subset
<1>4. LinearOn(QueueOrder(S, ids), S) /\ LinearOn(QueueOrder(H, ids), H)
  <2>1. (\A r \in S : Keyed(r)) /\ \A a, b \in S : a.id = b.id => a = b
    BY <1>2 DEF OneCopy
  <2> QED
    BY <1>1, <2>1, QueueLinear
<1>5. /\ q \in Seq(S) /\ Len(q) \in Nat /\ h \in Seq(H) /\ Len(h) \in Nat
  BY <1>3, <1>4, LinedUp
<1>6. \A r \in S : /\ Cardinality(Before(QueueOrder(S, ids), S, r)) + 1 \in 1 .. Len(q)
                   /\ q[Cardinality(Before(QueueOrder(S, ids), S, r)) + 1] = r
  BY <1>3, <1>4, LinedUp
<1>7. \A k \in 1 .. Len(h) : h[k] \in H /\ k = Cardinality(Before(QueueOrder(H, ids), H, h[k])) + 1
  BY <1>3, <1>4, PlaceInLine
<1>8. ASSUME NEW x \in H
      PROVE  Before(QueueOrder(S, ids), S, x) = Before(QueueOrder(H, ids), H, x)
  <2>1. \A o \in S : Sooner(o, x, ids) => o \in H
    <3> SUFFICES ASSUME NEW o \in S, o \notin H PROVE ~Sooner(o, x, ids)
      OBVIOUS
    <3>1. Band(o, ids) = 2 /\ Band(x, ids) \in {0, 1}
      BY <1>1 DEF Honest, Band
    <3> QED
      BY <3>1 DEF Sooner
  <2> QED
    BY <1>1, <2>1 DEF Before, QueueOrder
<1>9. /\ ToSet(Queue(rows, ids)) = {q[k] : k \in 1 .. Cap(q)}
      /\ ToSet(Queue(Honest(rows), ids)) = {h[k] : k \in 1 .. Cap(h)}
  <2>1. QueueCap \in Nat
    BY AuditAssumption
  <2>2. Cap(q) \in Nat /\ Cap(q) <= Len(q) /\ Cap(h) \in Nat /\ Cap(h) <= Len(h)
    <3> HIDE DEF q, h
    <3> QED
      BY <1>5, <2>1
  <2>3. Queue(rows, ids) = SubSeq(q, 1, Cap(q)) /\ Queue(Honest(rows), ids) = SubSeq(h, 1, Cap(h))
    BY QueueIsLined, Zenon DEF S, H
  <2> HIDE DEF q, h, Cap
  <2>4. ToSet(SubSeq(q, 1, Cap(q))) = {q[k] : k \in 1 .. Cap(q)}
    BY <1>5, <2>2, FirstOfList
  <2>5. ToSet(SubSeq(h, 1, Cap(h))) = {h[k] : k \in 1 .. Cap(h)}
    BY <1>5, <2>2, FirstOfList
  <2> QED
    BY <2>3, <2>4, <2>5
<1> HIDE DEF q, h
<1>10. ASSUME NEW k \in 1 .. Cap(h) PROVE \E i \in 1 .. Cap(q) : q[i] = h[k]
  <2>1. QueueCap \in Nat
    BY AuditAssumption
  <2>2. k \in 1 .. Len(h) /\ k <= QueueCap
    BY <1>5, <2>1
  <2>3. h[k] \in H /\ k = Cardinality(Before(QueueOrder(S, ids), S, h[k])) + 1
    BY <1>7, <1>8, <2>2
  <2>4. k \in 1 .. Len(q) /\ q[k] = h[k]
    BY <1>1, <1>6, <2>3
  <2>5. k \in 1 .. Cap(q)
    BY <1>5, <2>1, <2>2, <2>4
  <2> QED
    BY <2>4, <2>5
<1> QED
  BY <1>9, <1>10

-----------------------------------------------------------------------------
(* The invariant of the history. *)

LEMMA HistoryStarts == Init => HistoryOK
<1> SUFFICES ASSUME Init PROVE HistoryOK
  OBVIOUS
<1>1. /\ spool = [lines |-> <<>>, drained |-> 0] /\ console = FreshConsole
      /\ sink = [live |-> <<>>, rot |-> <<>>] /\ written = {}
  BY DEF Init, HistoryInit
<1>2. WrittenOK
  BY <1>1, FS_EmptySet DEF WrittenOK
<1>3. \A T : <<>> \in Seq(T)
  BY EmptySeq
<1>4. StateOK([mem |-> console, sink |-> sink])
  BY <1>1, <1>3 DEF StateOK, FreshConsole, MemFields
<1>5. HeldOK(console, sink)
  <2>1. console.ring = <<>> /\ Len(<<>>) = 0
    BY <1>1, EmptySeq DEF FreshConsole
  <2> QED
    BY <2>1 DEF HeldOK, Held
<1>6. SpoolOK
  BY <1>1, <1>3 DEF SpoolOK
<1> QED
  BY <1>2, <1>4, <1>5, <1>6 DEF HistoryOK

(* A step that leaves the memory and the sink in order, and writes only    *)
(* keyed records.                                                          *)
LEMMA HistoryGoesOn ==
  ASSUME WrittenOK, NEW st, StateOK(st), HeldOK(st.mem, st.sink),
         written \subseteq written', IsFiniteSet(written'),
         \A r \in written' \ written :
           Keyed(r) /\ (r \in GatewayRows \cup PlayRows \/ r.event = "approval_reviewed"),
         console' = st.mem, sink' = st.sink, spool' \in [lines : Seq(written'), drained : Nat]
  PROVE  HistoryOK'
<1>1. WrittenOK'
  BY DEF WrittenOK
<1>2. StateOK(st)'
  BY ShownGrows
<1>3. StateOK([mem |-> console, sink |-> sink])'
  BY <1>2 DEF StateOK
<1>4. HeldOK(console, sink)'
  <2>1. HeldOK(console', sink')
    BY Zenon
  <2> QED
    BY <2>1, Zenon DEF HeldOK, Held, Retained
<1> QED
  BY <1>1, <1>3, <1>4 DEF HistoryOK, SpoolOK

LEMMA OneWritten ==
  ASSUME WrittenOK, NEW r, written' = written \cup {r}
  PROVE  written \subseteq written' /\ IsFiniteSet(written')
<1>1. IsFiniteSet(written \cup {r})
  BY FS_AddElement DEF WrittenOK
<1> QED
  BY <1>1

(* Every action of the history, and a mark, which drains it and writes its *)
(* audit row.                                                              *)
LEMMA DrainKeeps ==
  ASSUME HistoryOK, NEW writable \in BOOLEAN, NEW rotation \in Rotations, Drain(writable, rotation)
  PROVE  HistoryOK'
<1>1. PICK st : st = Drained(writable, rotation)
  OBVIOUS
<1>2. /\ StateOK([mem |-> st.mem, sink |-> st.sink]) /\ HeldOK(st.mem, st.sink)
      /\ st.spool \in [lines : Seq(written), drained : Nat]
  BY <1>1, DrainedKeeps
<1>3. console' = st.mem /\ sink' = st.sink /\ spool' = st.spool /\ written' = written
  BY <1>1 DEF Drain
<1>4. WrittenOK
  BY DEF HistoryOK
<1>5. PICK base : base = [mem |-> st.mem, sink |-> st.sink]
  OBVIOUS
<1>6. base.mem = st.mem /\ base.sink = st.sink
  BY <1>5
<1>7. IsFiniteSet(written')
  BY <1>3, <1>4 DEF WrittenOK
<1> QED
  BY <1>2, <1>3, <1>4, <1>5, <1>6, <1>7, HistoryGoesOn

LEMMA EmitKeeps == ASSUME HistoryOK, NEW ev \in GatewayRows, GatewayEmit(ev) PROVE HistoryOK'
<1>1. /\ written' = written \cup {ev} /\ spool' = [spool EXCEPT !.lines = Append(@, ev)]
      /\ console' = console /\ sink' = sink
  BY DEF GatewayEmit
<1>2. WrittenOK /\ Keyed(ev)
  BY HistoryAssumption DEF HistoryOK
<1>3. written \subseteq written' /\ IsFiniteSet(written')
  BY <1>1, <1>2, OneWritten
<1>4. spool' \in [lines : Seq(written'), drained : Nat]
  <2>1. spool.lines \in Seq(written) /\ spool.drained \in Nat /\ spool = [lines |-> spool.lines, drained |-> spool.drained]
    BY DEF HistoryOK, SpoolOK
  <2>2. spool.lines \in Seq(written') /\ ev \in written'
    BY <1>1, <1>3, <2>1, SeqMonotonic
  <2>3. Append(spool.lines, ev) \in Seq(written')
    BY <2>2, AppendProperties
  <2>4. spool' = [lines |-> Append(spool.lines, ev), drained |-> spool.drained]
    BY <1>1, <2>1
  <2> QED
    BY <2>1, <2>3, <2>4
<1>5. PICK base : base = [mem |-> console, sink |-> sink]
  OBVIOUS
<1>6. base.mem = console /\ base.sink = sink
  BY <1>5
<1>7. StateOK(base) /\ HeldOK(base.mem, base.sink)
  BY <1>5, <1>6 DEF HistoryOK
<1> QED
  BY <1>1, <1>2, <1>3, <1>4, <1>6, <1>7, HistoryGoesOn

LEMMA PlayKeeps ==
  ASSUME HistoryOK, NEW scan \in PlayRows, NEW writable \in BOOLEAN, NEW rotation \in Rotations,
         RunScan(scan, writable, rotation)
  PROVE  HistoryOK'
<1>1. PICK base : base = [mem |-> console, sink |-> sink]
  OBVIOUS
<1>2. WrittenOK /\ StateOK(base) /\ HeldOK(base.mem, base.sink)
  BY <1>1 DEF HistoryOK
<1>3. PlayRow(scan) \in Shown
  BY DEF Shown
<1>4. PICK st : st = RecordScan(base, PlayRow(scan), writable)
  OBVIOUS
<1>5. StateOK(st) /\ HeldOK(st.mem, st.sink)
  BY <1>2, <1>3, <1>4, RecordKeeps
<1>6. /\ console' = st.mem /\ sink' = RotateHistory(st.sink, rotation)
      /\ written' = written \cup {scan} /\ spool' = spool
  BY <1>1, <1>4 DEF RunScan, PlayRow
<1>7. PICK s : s = RotateHistory(st.sink, rotation)
  OBVIOUS
<1>8. s \in [live : Seq(Stored), rot : Seq(Stored)] /\ HeldOK(st.mem, s)
  BY <1>2, <1>5, <1>7, RotateKeeps
<1>9. PICK new : new = [mem |-> st.mem, sink |-> s]
  OBVIOUS
<1>10. new.mem = st.mem /\ new.sink = s /\ DOMAIN new = {"mem", "sink"}
  BY <1>9
<1>11. StateOK(new) /\ HeldOK(new.mem, new.sink)
  BY <1>5, <1>8, <1>10 DEF StateOK
<1>12. written \subseteq written' /\ IsFiniteSet(written')
  BY <1>2, <1>6, OneWritten
<1>13. spool' \in [lines : Seq(written'), drained : Nat]
  <2>1. spool.lines \in Seq(written) /\ spool.drained \in Nat /\ spool = [lines |-> spool.lines, drained |-> spool.drained]
    BY DEF HistoryOK, SpoolOK
  <2>2. spool.lines \in Seq(written')
    BY <1>12, <2>1, SeqMonotonic
  <2> QED
    BY <1>6, <2>1, <2>2
<1>14. Keyed(scan) /\ scan \in GatewayRows \cup PlayRows
  BY HistoryAssumption
<1> QED
  BY <1>2, <1>6, <1>7, <1>10, <1>11, <1>12, <1>13, <1>14, HistoryGoesOn

LEMMA RestartKeeps == ASSUME HistoryOK, ConsoleRestart PROVE HistoryOK'
<1>1. /\ console' = FreshConsole /\ spool' = [spool EXCEPT !.drained = 0]
      /\ sink' = sink /\ written' = written
  BY DEF ConsoleRestart
<1>2. PICK st : st = [mem |-> FreshConsole, sink |-> sink]
  OBVIOUS
<1>3. st.mem = FreshConsole /\ st.sink = sink
  BY <1>2
<1>4. StateOK(st)
  <2>1. \A T : <<>> \in Seq(T)
    BY EmptySeq
  <2>2. sink \in [live : Seq(Stored), rot : Seq(Stored)]
    BY DEF HistoryOK, StateOK
  <2> QED
    BY <1>2, <1>3, <2>1, <2>2 DEF StateOK, FreshConsole, MemFields
<1>5. HeldOK(st.mem, st.sink)
  <2>1. st.mem.ring = <<>> /\ Len(<<>>) = 0
    BY <1>3, EmptySeq DEF FreshConsole
  <2> QED
    BY <2>1 DEF HeldOK, Held
<1>6. spool' \in [lines : Seq(written'), drained : Nat]
  BY <1>1 DEF HistoryOK, SpoolOK
<1>7. WrittenOK /\ IsFiniteSet(written')
  BY <1>1 DEF HistoryOK, WrittenOK
<1> QED
  BY <1>1, <1>3, <1>4, <1>5, <1>6, <1>7, HistoryGoesOn

LEMMA MarkKeeps ==
  ASSUME HistoryOK, NEW id, NEW writable \in BOOLEAN, NEW rotation \in Rotations, NEW readable \in BOOLEAN,
         BeginMark(id, writable, rotation, readable)
  PROVE  HistoryOK'
<1>1. PICK st : st = Drained(writable, rotation)
  OBVIOUS
<1>2. /\ StateOK([mem |-> st.mem, sink |-> st.sink]) /\ HeldOK(st.mem, st.sink)
      /\ st.spool \in [lines : Seq(written), drained : Nat]
  BY <1>1, DrainedKeeps
<1>3. PICK base : base = [mem |-> st.mem, sink |-> st.sink]
  OBVIOUS
<1>4. base.mem = st.mem /\ base.sink = st.sink /\ StateOK(base) /\ WrittenOK
  BY <1>2, <1>3 DEF HistoryOK
<1>5. PICK rows : rows = EquippedRows(base.mem.ring, base.sink, readable)
  OBVIOUS
<1>6. \A r \in rows : Keyed(r)
  BY <1>4, <1>5, RowsAre
<1>7. PICK item : item = CHOOSE r \in Items(rows) : r.id = id
  OBVIOUS
<1>8. PICK audit : audit = AuditRow(item)
  OBVIOUS
<1>9. /\ id \in ItemIds(rows) /\ console' = st.mem /\ sink' = st.sink
      /\ spool' = [st.spool EXCEPT !.lines = Append(@, audit)] /\ written' = written \cup {audit}
  BY <1>1, <1>4, <1>5, <1>7, <1>8 DEF BeginMark
<1>10. item \in rows
  <2>1. \E r \in Items(rows) : r.id = id
    BY <1>9 DEF ItemIds
  <2>2. item \in Items(rows)
    BY <1>7, <2>1
  <2> QED
    BY <2>2 DEF Items, Trusted, Approval, Overruled
<1>11. Keyed(audit) /\ audit.event = "approval_reviewed"
  <2>1. AuditTime + Cardinality(written) \in Nat /\ AuditTime \in Nat
    BY <1>4, FS_CardinalityType, AuditAssumption DEF WrittenOK
  <2>2. Keyed(item)
    BY <1>6, <1>10
  <2> QED
    BY <1>8, <2>1, <2>2 DEF AuditRow, Keyed, RowFields
<1>12. written \subseteq written' /\ IsFiniteSet(written')
  BY <1>4, <1>9, OneWritten
<1>13. spool' \in [lines : Seq(written'), drained : Nat]
  <2>1. PICK lines, d : lines = st.spool.lines /\ d = st.spool.drained
    OBVIOUS
  <2>2. lines \in Seq(written) /\ d \in Nat /\ st.spool = [lines |-> lines, drained |-> d]
    BY <1>2, <2>1
  <2>3. lines \in Seq(written') /\ audit \in written'
    BY <1>9, <1>12, <2>2, SeqMonotonic
  <2>4. Append(lines, audit) \in Seq(written')
    BY <2>3, AppendProperties
  <2>5. spool' = [lines |-> Append(lines, audit), drained |-> d]
    BY <1>9, <2>1, <2>2
  <2> QED
    BY <2>2, <2>4, <2>5
<1> QED
  BY <1>2, <1>4, <1>9, <1>11, <1>12, <1>13, HistoryGoesOn

LEMMA NextKeepsHistory == ASSUME HistoryOK, [Next]_vars PROVE HistoryOK'
<1>1. CASE History
  BY <1>1, EmitKeeps, DrainKeeps, PlayKeeps DEF History
<1>2. CASE Restart
  BY <1>2, RestartKeeps DEF Restart
<1>3. CASE \E id \in {r.id : r \in GatewayRows}, rotation \in Rotations, writable, readable \in BOOLEAN :
             BeginMark(id, writable, rotation, readable)
  BY <1>3, MarkKeeps
<1>4. CASE UNCHANGED <<spool, console, sink, written>>
  <2>1. /\ WrittenOK' = WrittenOK /\ SpoolOK' = SpoolOK /\ HeldOK(console, sink)' = HeldOK(console, sink)
        /\ StateOK([mem |-> console, sink |-> sink])' = StateOK([mem |-> console, sink |-> sink])
    BY <1>4 DEF WrittenOK, SpoolOK, HeldOK, Held, Retained, StateOK, Stored, Shown, Copy, OnDisk
  <2> QED
    BY <2>1 DEF HistoryOK
<1>5. (\E ok \in BOOLEAN : SaveMark(ok)) => UNCHANGED <<spool, console, sink, written>>
  BY DEF SaveMark, historyVars
<1>6. (\E state \in {"good", "locked", "bad", "newer"} : Disturb(state)) =>
        UNCHANGED <<spool, console, sink, written>>
  BY DEF Disturb
<1>7. UNCHANGED vars => UNCHANGED <<spool, console, sink, written>>
  BY DEF vars, historyVars
<1> QED
  BY <1>1, <1>2, <1>3, <1>4, <1>5, <1>6, <1>7 DEF Next

LEMMA HistoryStays == Spec => []HistoryOK
<1>1. Init => HistoryOK
  BY HistoryStarts
<1>2. HistoryOK /\ [Next]_vars => HistoryOK'
  BY NextKeepsHistory
<1> QED
  BY <1>1, <1>2, PTL DEF Spec

LEMMA QueueHonest == HistoryOK => QueueIsHonest
<1> SUFFICES ASSUME HistoryOK PROVE QueueIsHonest
  OBVIOUS
<1>1. PICK st : st = [mem |-> console, sink |-> sink]
  OBVIOUS
<1>2. StateOK(st) /\ WrittenOK /\ st.mem = console /\ st.sink = sink
  BY <1>1 DEF HistoryOK
<1>3. PICK rows : rows = EquippedRows(st.mem.ring, st.sink, TRUE)
  OBVIOUS
<1>4. IsFiniteSet(rows) /\ (\A r \in rows : Keyed(r)) /\ OneCopy(rows)
  BY <1>2, <1>3, RowsAre
<1>5. PICK ids : ids = ReadReviewed
  OBVIOUS
<1>6. ToSet(Queue(Honest(rows), ids)) \subseteq ToSet(Queue(rows, ids))
  BY <1>4, ForgedHides
<1>7. Items(Honest(rows)) \subseteq Items(rows)
  BY HonestItems DEF Honest
<1>8. ForgedHidesNothing(rows)
  BY <1>5, <1>6, <1>7 DEF ForgedHidesNothing, Honest
<1>9. RefusalsListed(rows)
  BY Listed
<1>10. CurrentRows = rows
  BY <1>2, <1>3 DEF CurrentRows
<1> QED
  BY <1>8, <1>9, <1>10 DEF QueueIsHonest

(* A row that does not verify neither leaves the queue's cap to another    *)
(* nor overrules one: it hides no item that is there without it; and a     *)
(* refusal is missing from the queue only if it was automatic and a        *)
(* verified answer to the same prompt overruled it                         *)
(* (_approvals.py:190-308).                                                *)
THEOREM QueuesAreHonest == Spec => []QueueIsHonest
<1>1. HistoryOK => QueueIsHonest
  BY QueueHonest
<1> QED
  BY <1>1, HistoryStays, PTL

-----------------------------------------------------------------------------
(* Pages and the walk along their cursors. *)

Numbered(r) == r.id \in Nat /\ r.at \in Nat

OlderThan(rows, k) == {r \in rows : Older(r, k)}

(* What a page owes a reader at the cursor k: nothing when nothing is      *)
(* older; else rows that are older, and all that are but those a next page *)
(* starts with.                                                            *)
PageServes(rows, k, shown) ==
  /\ OlderThan(rows, k) = {} => shown = <<>>
  /\ OlderThan(rows, k) # {} =>
       /\ shown # <<>> /\ Len(shown) \in Nat \ {0} /\ DOMAIN shown = 1 .. Len(shown)
       /\ \A j \in 1 .. Len(shown) : \E r \in OlderThan(rows, k) : shown[j].at = r.at /\ shown[j].id = r.id
       /\ \A r \in OlderThan(rows, k) : \/ \E j \in 1 .. Len(shown) : shown[j].id = r.id
                                        \/ Older(r, shown[Len(shown)])

(* The first cursor is above every row. *)
LEMMA AboveAll ==
  ASSUME NEW rows, IsFiniteSet(rows), \A r \in rows : Numbered(r)
  PROVE  /\ Above(rows).at \in Nat /\ Above(rows).id \in Nat
         /\ \A r \in rows : Older(r, Above(rows))
<1> DEFINE ats == {0} \cup {r.at : r \in rows}
<1>1. IsFiniteSet(ats)
  <2> DEFINE f == [r \in rows |-> r.at]
  <2>1. {r.at : r \in rows} = {f[r] : r \in rows}
    OBVIOUS
  <2> HIDE DEF f
  <2>2. IsFiniteSet({r.at : r \in rows})
    BY <2>1, FiniteImage
  <2>3. ats = {r.at : r \in rows} \cup {0}
    OBVIOUS
  <2> QED
    BY <2>2, <2>3, FS_AddElement
<1>2. ats \in SUBSET Nat /\ ats # {}
  BY DEF Numbered
<1>3. Max(ats) \in ats /\ \A y \in ats : y <= Max(ats)
  <2> HIDE DEF ats
  <2> QED
    BY <1>1, <1>2, MaxIs
<1>4. Above(rows) = [at |-> 1 + Max(ats), id |-> 0]
  BY DEF Above
<1>5. Max(ats) \in Nat /\ \A r \in rows : r.at <= Max(ats)
  BY <1>2, <1>3
<1> HIDE DEF ats
<1>6. ASSUME NEW r \in rows PROVE Older(r, Above(rows))
  <2>1. r.at <= Max(ats) /\ r.at \in Nat
    BY <1>5 DEF Numbered
  <2>2. r.at < 1 + Max(ats)
    BY <1>5, <2>1
  <2> QED
    BY <1>4, <2>2 DEF Older
<1> QED
  BY <1>4, <1>5, <1>6

(* What a reader has seen after a page, and where it stands. *)
AfterPage(before, shown) ==
  IF shown = <<>> THEN before
  ELSE [cursor |-> Key(Last(shown)), seen |-> before.seen \cup {r.id : r \in ToSet(shown)}]

Turning(turned, page, rows) ==
  turned = [n \in 0 .. Cardinality(rows) |->
              IF n = 0 THEN [cursor |-> Above(rows), seen |-> {}]
              ELSE AfterPage(turned[n - 1], page[turned[n - 1].cursor])]

Cursors(rows) == Keys(rows) \cup {Above(rows)}

(* One page further, nothing is passed over and the cursor is lower.       *)
LEMMA PageAdvances ==
  ASSUME NEW rows, IsFiniteSet(rows), \A r \in rows : Numbered(r),
         NEW page, \A k \in Cursors(rows) : PageServes(rows, k, page[k]),
         NEW v \in [cursor : Cursors(rows), seen : SUBSET {r.id : r \in rows}]
  PROVE  LET w == AfterPage(v, page[v.cursor]) IN
         /\ w \in [cursor : Cursors(rows), seen : SUBSET {r.id : r \in rows}]
         /\ (\A r \in rows : r.id \in v.seen \/ Older(r, v.cursor)) =>
              \A r \in rows : r.id \in w.seen \/ Older(r, w.cursor)
         /\ IF OlderThan(rows, v.cursor) = {} THEN w = v
            ELSE Cardinality(OlderThan(rows, w.cursor)) < Cardinality(OlderThan(rows, v.cursor))
<1> DEFINE ids == {r.id : r \in rows}
           k == v.cursor
           shown == page[k]
           w == AfterPage(v, shown)
<1>1. k \in Cursors(rows) /\ PageServes(rows, k, shown)
  OBVIOUS
<1>2. k.at \in Nat /\ k.id \in Nat /\ \A r \in rows : r.id \in Nat /\ r.at \in Nat
  BY AboveAll DEF Cursors, Keys, Key, Numbered
<1> HIDE DEF k
<1> HIDE DEF shown
<1>3. CASE OlderThan(rows, k) = {}
  <2>1. w = v
    BY <1>1, <1>3 DEF PageServes, AfterPage
  <2> QED
    BY <1>3, <2>1 DEF k, shown
<1>4. CASE OlderThan(rows, k) # {}
  <2> DEFINE n == Len(shown)
             c == Key(shown[n])
  <2>1. /\ shown # <<>> /\ n \in Nat \ {0} /\ DOMAIN shown = 1 .. n
        /\ \A j \in 1 .. n : \E r \in OlderThan(rows, k) : shown[j].at = r.at /\ shown[j].id = r.id
        /\ \A r \in OlderThan(rows, k) : (\E j \in 1 .. n : shown[j].id = r.id) \/ Older(r, shown[n])
    BY <1>1, <1>4 DEF PageServes
  <2> HIDE DEF n
  <2>2. w = [cursor |-> c, seen |-> v.seen \cup {r.id : r \in ToSet(shown)}]
    BY <2>1 DEF AfterPage, Last, n
  <2>3. {r.id : r \in ToSet(shown)} = {shown[j].id : j \in 1 .. n}
    BY <2>1 DEF ToSet
  <2>4. \A j \in 1 .. n : shown[j].id \in ids
    BY <2>1 DEF OlderThan
  <2>5. n \in 1 .. n
    BY <2>1
  <2>6. PICK last \in OlderThan(rows, k) : shown[n].at = last.at /\ shown[n].id = last.id
    BY <2>1, <2>5
  <2>7. c = Key(last) /\ c \in Keys(rows) /\ c.at = last.at /\ c.id = last.id
    BY <2>6 DEF Key, Keys, OlderThan
  <2> HIDE DEF c
  <2>8. w.cursor = c /\ w.seen = v.seen \cup {shown[j].id : j \in 1 .. n}
    BY <2>2, <2>3
  <2>9. w \in [cursor : Cursors(rows), seen : SUBSET ids]
    BY <2>2, <2>3, <2>4, <2>7 DEF Cursors
  <2>10. last \in rows /\ Older(last, k) /\ ~Older(last, c)
    BY <1>2, <2>6, <2>7 DEF OlderThan, Older
  <2>11. \A r \in rows : Older(r, c) => Older(r, k)
    BY <1>2, <2>7, <2>10 DEF Older
  <2>12. Cardinality(OlderThan(rows, c)) < Cardinality(OlderThan(rows, k))
    <3> DEFINE A == OlderThan(rows, c)
               B == OlderThan(rows, k)
    <3>1. A \subseteq B /\ last \in B /\ last \notin A /\ B \subseteq rows
      BY <2>10, <2>11 DEF OlderThan
    <3> HIDE DEF A, B
    <3>2. IsFiniteSet(B) /\ IsFiniteSet(A)
      BY <3>1, FS_Subset
    <3>3. Cardinality(A) <= Cardinality(B) /\ (Cardinality(A) = Cardinality(B) => A = B)
      BY <3>1, <3>2, FS_Subset
    <3>4. Cardinality(A) \in Nat /\ Cardinality(B) \in Nat
      BY <3>2, FS_CardinalityType
    <3>5. Cardinality(A) < Cardinality(B)
      BY <3>1, <3>3, <3>4
    <3> QED
      BY <3>5 DEF A, B
  <2>13. ASSUME \A r \in rows : r.id \in v.seen \/ Older(r, k), NEW r \in rows
         PROVE  r.id \in w.seen \/ Older(r, w.cursor)
    <3>1. CASE r.id \in v.seen
      BY <2>8, <3>1
    <3>2. CASE Older(r, k)
      <4>1. (\E j \in 1 .. n : shown[j].id = r.id) \/ Older(r, shown[n])
        BY <2>1, <3>2 DEF OlderThan
      <4>2. Older(r, shown[n]) => Older(r, c)
        BY <2>6, <2>7 DEF Older
      <4> QED
        BY <2>8, <4>1, <4>2
    <3> QED
      BY <2>13, <3>1, <3>2
  <2> HIDE DEF w
  <2>14. Cardinality(OlderThan(rows, w.cursor)) < Cardinality(OlderThan(rows, v.cursor))
    BY <2>8, <2>12 DEF k
  <2>15. (\A r \in rows : r.id \in v.seen \/ Older(r, v.cursor)) =>
           \A r \in rows : r.id \in w.seen \/ Older(r, w.cursor)
    BY <2>13 DEF k
  <2> QED
    BY <1>4, <2>9, <2>14, <2>15 DEF k, w, shown
<1> QED
  BY <1>3, <1>4

(* The walk, page by page. *)
LEMMA WalkTurns ==
  ASSUME NEW rows, IsFiniteSet(rows), \A r \in rows : Numbered(r),
         NEW page, \A k \in Cursors(rows) : PageServes(rows, k, page[k])
  PROVE  \E turned :
           /\ Walk(page, rows) = turned[Cardinality(rows)].seen
           /\ turned[0] = [cursor |-> Above(rows), seen |-> {}]
           /\ \A n \in 1 .. Cardinality(rows) :
                turned[n] = AfterPage(turned[n - 1], page[turned[n - 1].cursor])
<1> DEFINE N == Cardinality(rows)
           V == [cursor : Cursors(rows), seen : SUBSET {r.id : r \in rows}]
           start == [cursor |-> Above(rows), seen |-> {}]
           step == [p \in (1 .. N) \X V |-> AfterPage(p[2], page[p[2].cursor])]
<1>1. N \in Nat /\ start \in V
  BY FS_CardinalityType DEF Cursors
<1>2. \A n \in 1 .. N, v \in V : step[<<n, v>>] = AfterPage(v, page[v.cursor])
  OBVIOUS
<1>3. Turns(step, N, V)
  <2>1. \A v \in V : AfterPage(v, page[v.cursor]) \in V
    BY PageAdvances
  <2> HIDE DEF V, N, step
  <2> QED
    BY <1>2, <2>1 DEF Turns
<1>4. PICK g \in [0 .. N -> V] : Ran(g, step, N, start)
  <2> HIDE DEF V, N, step, start
  <2> QED
    BY <1>1, <1>3, LoopExists
<1> HIDE DEF N, V, step, start
<1>5. \A n \in 1 .. N : n # 0 /\ n \in 0 .. N /\ n - 1 \in 0 .. N
  BY <1>1
<1>6. g[0] = start /\ \A n \in 1 .. N : g[n] = AfterPage(g[n - 1], page[g[n - 1].cursor])
  <2>1. g[0] = start /\ \A n \in 1 .. N : g[n] = step[<<n, g[n - 1]>>]
    BY <1>4 DEF Ran
  <2>2. \A n \in 1 .. N : g[n - 1] \in V
    BY <1>4, <1>5
  <2> QED
    BY <1>2, <2>1, <2>2
<1>7. \E turned : Turning(turned, page, rows)
  <2> DEFINE h == [n \in 0 .. N |-> IF n = 0 THEN start ELSE AfterPage(g[n - 1], page[g[n - 1].cursor])]
  <2>1. \A n \in 0 .. N : n = 0 \/ n \in 1 .. N
    BY <1>1
  <2>2. \A n \in 0 .. N : g[n] = h[n]
    BY <1>5, <1>6, <2>1
  <2>3. g = h
    BY <1>4, <2>2
  <2>4. Turning(g, page, rows)
    BY <2>3 DEF Turning, N, start
  <2> QED
    BY <2>4
<1> DEFINE turned == CHOOSE f : Turning(f, page, rows)
<1>8. Turning(turned, page, rows)
  BY <1>7
<1>9. Walk(page, rows) = turned[N].seen
  BY Zenon DEF Walk, Turning, AfterPage, N
<1> HIDE DEF turned
<1>10. \A n \in 0 .. N : turned[n] = IF n = 0 THEN start ELSE AfterPage(turned[n - 1], page[turned[n - 1].cursor])
  BY <1>8, Zenon DEF Turning, N, start
<1>11. 0 \in 0 .. N
  BY <1>1
<1>12. turned[0] = start
  BY <1>10, <1>11
<1>13. \A n \in 1 .. N : turned[n] = AfterPage(turned[n - 1], page[turned[n - 1].cursor])
  BY <1>5, <1>10
<1> QED
  BY <1>9, <1>12, <1>13 DEF N, start

(* Fewer rows are left after each page, so the walk has seen all when it   *)
(* ends.                                                                   *)
LEMMA WalkSeesAll ==
  ASSUME NEW rows, IsFiniteSet(rows), \A r \in rows : Numbered(r),
         NEW page, \A k \in Cursors(rows) : PageServes(rows, k, page[k])
  PROVE  Walk(page, rows) = {r.id : r \in rows}
<1> DEFINE N == Cardinality(rows)
           V == [cursor : Cursors(rows), seen : SUBSET {r.id : r \in rows}]
           Left(v) == Cardinality(OlderThan(rows, v.cursor))
           NoneMissed(v) == \A r \in rows : r.id \in v.seen \/ Older(r, v.cursor)
<1>1. N \in Nat
  BY FS_CardinalityType
<1>2. PICK turned :
        /\ Walk(page, rows) = turned[N].seen
        /\ turned[0] = [cursor |-> Above(rows), seen |-> {}]
        /\ \A n \in 1 .. N : turned[n] = AfterPage(turned[n - 1], page[turned[n - 1].cursor])
  BY WalkTurns
<1>3. \A v : Left(v) \in Nat /\ Left(v) <= N
  <2> TAKE v
  <2>1. OlderThan(rows, v.cursor) \in SUBSET rows
    BY DEF OlderThan
  <2>2. IsFiniteSet(OlderThan(rows, v.cursor)) /\ Cardinality(OlderThan(rows, v.cursor)) <= Cardinality(rows)
    BY <2>1, FS_Subset
  <2> QED
    BY <2>2, FS_CardinalityType
<1>4. \A v \in V : LET w == AfterPage(v, page[v.cursor]) IN
                   /\ w \in V /\ (NoneMissed(v) => NoneMissed(w))
                   /\ IF OlderThan(rows, v.cursor) = {} THEN w = v ELSE Left(w) < Left(v)
  BY PageAdvances
<1> DEFINE good == {n \in 0 .. N : turned[n] \in V /\ NoneMissed(turned[n]) /\ Left(turned[n]) <= N - n}
<1>5. 0 \in good
  <2>1. turned[0] \in V
    BY <1>2 DEF Cursors
  <2>2. NoneMissed(turned[0])
    BY <1>2, AboveAll
  <2>3. Left(turned[0]) <= N - 0
    <3> HIDE DEF Left, N
    <3> QED
      BY <1>1, <1>3
  <2> HIDE DEF V, NoneMissed, Left, N
  <2> QED
    BY <1>1, <2>1, <2>2, <2>3
<1>6. ASSUME NEW n \in 1 .. N, n - 1 \in good PROVE n \in good
  <2> DEFINE v == turned[n - 1]
             w == turned[n]
  <2>1. v \in V /\ NoneMissed(v) /\ Left(v) <= N - (n - 1)
    <3> HIDE DEF V, NoneMissed, Left, N
    <3> QED
      BY <1>6
  <2>2. w = AfterPage(v, page[v.cursor])
    <3> HIDE DEF N
    <3> QED
      BY <1>2
  <2>3. w \in V /\ NoneMissed(w) /\ IF OlderThan(rows, v.cursor) = {} THEN w = v ELSE Left(w) < Left(v)
    <3> HIDE DEF V, NoneMissed, Left, v, w
    <3> QED
      BY <1>4, <2>1, <2>2
  <2>4. OlderThan(rows, v.cursor) = {} => Left(v) = 0
    BY FS_EmptySet
  <2> HIDE DEF V, NoneMissed, Left, N, v, w
  <2>5. Left(w) <= N - n
    BY <1>1, <1>3, <1>6, <2>1, <2>3, <2>4
  <2>6. n \in 0 .. N
    BY <1>1
  <2> QED
    BY <2>3, <2>5, <2>6 DEF w
<1>7. N \in good
  <2> HIDE DEF good, N
  <2>1. \A n \in 0 .. N : n \in good
    BY <1>1, <1>5, <1>6, Inductively
  <2> QED
    BY <1>1, <2>1
<1>8. turned[N] \in V /\ NoneMissed(turned[N]) /\ Left(turned[N]) = 0
  <2>1. turned[N] \in V /\ NoneMissed(turned[N]) /\ Left(turned[N]) <= N - N
    <3> HIDE DEF V, NoneMissed, Left, N
    <3> QED
      BY <1>7
  <2> HIDE DEF V, NoneMissed, Left, N
  <2> QED
    BY <1>1, <1>3, <2>1
<1>9. OlderThan(rows, turned[N].cursor) = {}
  <2>1. OlderThan(rows, turned[N].cursor) \in SUBSET rows
    BY DEF OlderThan
  <2>2. IsFiniteSet(OlderThan(rows, turned[N].cursor))
    BY <2>1, FS_Subset
  <2> QED
    BY <1>8, <2>2, FS_EmptySet
<1>10. turned[N].seen = {r.id : r \in rows}
  <2>1. \A r \in rows : r.id \in turned[N].seen
    BY <1>8, <1>9 DEF OlderThan
  <2>2. turned[N].seen \subseteq {r.id : r \in rows}
    BY <1>8
  <2> QED
    BY <2>1, <2>2
<1> QED
  BY <1>2, <1>10

(* The order of the places on a page: newest first, and by place in a tie. *)
SoonerPlace(q, i, j) == Newer(q[i], q[j]) \/ (~Newer(q[j], q[i]) /\ i < j)

PlaceOrder(q, older) == {p \in older \X older : SoonerPlace(q, p[1], p[2])}

LEMMA NewestIsLined ==
  ASSUME NEW q, NEW older, NEW n
  PROVE  LET l == Lined(PlaceOrder(q, older), older) IN
         Newest(q, older, n) = [k \in 1 .. IF Len(l) < n THEN Len(l) ELSE n |-> q[l[k]]]
<1> DEFINE R == PlaceOrder(q, older)
<1>1. \A r \in older : Before(R, older, r) = {o \in older : SoonerPlace(q, o, r)}
  BY DEF Before, PlaceOrder
<1>2. \A i : (CHOOSE r \in older : Cardinality(Before(R, older, r)) = i - 1)
           = (CHOOSE r \in older : Cardinality({o \in older : SoonerPlace(q, o, r)}) = i - 1)
  <2> HIDE DEF R
  <2> TAKE i
  <2>1. \A r \in older : Cardinality(Before(R, older, r)) = i - 1
                    <=> Cardinality({o \in older : SoonerPlace(q, o, r)}) = i - 1
    BY <1>1
  <2> QED
    BY <2>1, Zenon
<1>3. Lined(R, older) = [i \in 1 .. Cardinality(older) |->
                       CHOOSE r \in older : Cardinality({o \in older : SoonerPlace(q, o, r)}) = i - 1]
  <2> DEFINE N == Cardinality(older)
             f == [i \in 1 .. N |-> CHOOSE r \in older : Cardinality(Before(R, older, r)) = i - 1]
             g == [i \in 1 .. N |-> CHOOSE r \in older : Cardinality({o \in older : SoonerPlace(q, o, r)}) = i - 1]
  <2> HIDE DEF R, N
  <2>1. ASSUME NEW i \in 1 .. N PROVE f[i] = g[i]
    <3>1. f[i] = CHOOSE r \in older : Cardinality(Before(R, older, r)) = i - 1
      OBVIOUS
    <3>2. g[i] = CHOOSE r \in older : Cardinality({o \in older : SoonerPlace(q, o, r)}) = i - 1
      OBVIOUS
    <3> HIDE DEF f, g
    <3> QED
      BY <1>2, <3>1, <3>2, Zenon
  <2>2. f = [i \in 1 .. N |-> f[i]] /\ g = [i \in 1 .. N |-> g[i]]
    OBVIOUS
  <2> HIDE DEF f, g
  <2>3. f = g
    BY <2>1, <2>2
  <2> QED
    BY <2>3, Zenon DEF f, g, N, Lined
<1> DEFINE page == [i \in 1 .. Cardinality(older) |->
                     CHOOSE r \in older : Cardinality({o \in older : SoonerPlace(q, o, r)}) = i - 1]
           l == Lined(R, older)
<1>4. Newest(q, older, n) = [k \in 1 .. IF Len(page) < n THEN Len(page) ELSE n |-> q[page[k]]]
  BY Zenon DEF Newest, Ordered, SoonerPlace
<1>5. page = l
  BY <1>3, Zenon
<1> HIDE DEF page, l
<1> QED
  BY <1>4, <1>5 DEF l

(* What the newest n of the rows at the places in older are.               *)
AreNewest(p, q, older, n) ==
  /\ Len(p) = (IF Cardinality(older) < n THEN Cardinality(older) ELSE n)
  /\ Cardinality(older) \in Nat /\ (Cardinality(older) = 0 <=> older = {})
  /\ \A k \in 1 .. Len(p) : \E i \in older : p[k] = q[i]
  /\ \A i \in older : \/ \E k \in 1 .. Len(p) : p[k] = q[i]
                      \/ /\ Len(p) = n /\ n < Cardinality(older)
                         /\ n # 0 => \/ Older(q[i], p[n])
                                     \/ \E k \in 1 .. Len(p) : p[k].id = q[i].id

LEMMA NewestPage ==
  ASSUME NEW T, NEW q \in Seq(T), \A k \in 1 .. Len(q) : Numbered(q[k]),
         NEW older \in SUBSET (1 .. Len(q)), NEW n \in Nat
  PROVE  Newest(q, older, n) \in Seq(T) /\ AreNewest(Newest(q, older, n), q, older, n)
<1> DEFINE R == PlaceOrder(q, older)
           l == Lined(R, older)
           m == IF Len(l) < n THEN Len(l) ELSE n
           p == Newest(q, older, n)
<1>1. Len(q) \in Nat /\ \A i \in 1 .. Len(q) : q[i] \in T /\ q[i].id \in Nat /\ q[i].at \in Nat /\ i \in Nat
  BY LenProperties, ElementOfSeq DEF Numbered
<1>2. IsFiniteSet(older)
  <2>1. IsFiniteSet(1 .. Len(q))
    BY <1>1, FS_Interval
  <2> QED
    BY <2>1, FS_Subset
<1>3. LinearOn(R, older)
  <2>1. \A a, b \in older : <<a, b>> \in R <=> SoonerPlace(q, a, b)
    BY DEF PlaceOrder
  <2>2. ASSUME NEW a \in older PROVE ~SoonerPlace(q, a, a)
    BY <1>1 DEF SoonerPlace, Newer, Older
  <2>3. ASSUME NEW a \in older, NEW b \in older, NEW c \in older, SoonerPlace(q, a, b), SoonerPlace(q, b, c)
        PROVE  SoonerPlace(q, a, c)
    <3>1. /\ q[a].id \in Nat /\ q[a].at \in Nat /\ a \in Nat /\ q[b].id \in Nat /\ q[b].at \in Nat /\ b \in Nat
          /\ q[c].id \in Nat /\ q[c].at \in Nat /\ c \in Nat
      BY <1>1
    <3> QED
      BY <2>3, <3>1 DEF SoonerPlace, Newer, Older
  <2>4. ASSUME NEW a \in older, NEW b \in older, a # b
        PROVE  SoonerPlace(q, a, b) \/ SoonerPlace(q, b, a)
    <3>1. q[a].id \in Nat /\ q[a].at \in Nat /\ a \in Nat /\ q[b].id \in Nat /\ q[b].at \in Nat /\ b \in Nat
      BY <1>1
    <3> QED
      BY <2>4, <3>1 DEF SoonerPlace, Newer, Older
  <2> HIDE DEF R
  <2> QED
    BY <2>1, <2>2, <2>3, <2>4 DEF LinearOn
<1>4. /\ Cardinality(older) \in Nat /\ l \in Seq(older) /\ Len(l) = Cardinality(older)
      /\ \A i, k \in 1 .. Len(l) : i < k => <<l[i], l[k]>> \in R
      /\ \A r \in older : /\ Cardinality(Before(R, older, r)) + 1 \in 1 .. Len(l)
                          /\ l[Cardinality(Before(R, older, r)) + 1] = r
  BY <1>2, <1>3, LinedUp
<1>5. p = [k \in 1 .. m |-> q[l[k]]]
  BY NewestIsLined
<1>6. Cardinality(older) = 0 <=> older = {}
  BY <1>2, FS_EmptySet
<1>7. \A a, b \in older : <<a, b>> \in R => SoonerPlace(q, a, b)
  BY DEF PlaceOrder
<1> HIDE DEF R, l, p
<1>8. m \in Nat /\ m <= Len(l) /\ m <= n
  BY <1>4
<1>9. \A k \in 1 .. Len(l) : l[k] \in older
  BY <1>4, ElementOfSeq
<1>10. \A k \in 1 .. m : k \in 1 .. Len(l) /\ p[k] = q[l[k]] /\ l[k] \in older
  BY <1>4, <1>5, <1>8, <1>9
<1>11. p \in Seq(T) /\ Len(p) = m
  <2>1. \A k \in 1 .. m : q[l[k]] \in T
    BY <1>1, <1>10
  <2> HIDE DEF m
  <2>2. p \in [1 .. m -> T]
    BY <1>5, <2>1
  <2> QED
    BY <1>8, <2>2
<1>12. ASSUME NEW i \in older
       PROVE  \/ \E k \in 1 .. m : p[k] = q[i]
              \/ /\ m = n /\ n < Cardinality(older)
                 /\ n # 0 => \/ Older(q[i], p[n])
                             \/ \E k \in 1 .. m : p[k].id = q[i].id
  <2>1. PICK c \in 1 .. Len(l) : l[c] = i
    BY <1>4
  <2>2. CASE c <= m
    <3>1. c \in 1 .. m
      BY <1>8, <2>1, <2>2
    <3> QED
      BY <1>10, <2>1, <3>1
  <2>3. CASE ~(c <= m)
    <3>1. m = n /\ n < Cardinality(older) /\ n < c
      BY <1>4, <1>8, <2>1, <2>3
    <3>2. ASSUME n # 0 PROVE Older(q[i], p[n]) \/ p[n].id = q[i].id
      <4>1. n \in 1 .. m /\ n \in 1 .. Len(l) /\ c \in 1 .. Len(l)
        BY <1>4, <1>8, <3>1, <3>2
      <4>2. <<l[n], i>> \in R /\ l[n] \in older /\ p[n] = q[l[n]]
        BY <1>4, <1>10, <2>1, <3>1, <4>1
      <4>3. SoonerPlace(q, l[n], i)
        BY <1>7, <4>2
      <4>4. q[l[n]].id \in Nat /\ q[l[n]].at \in Nat /\ q[i].id \in Nat /\ q[i].at \in Nat
        BY <1>1, <4>2
      <4> QED
        BY <4>2, <4>3, <4>4 DEF SoonerPlace, Newer, Older
    <3>3. n # 0 => n \in 1 .. m
      BY <1>8, <3>1
    <3> QED
      BY <3>1, <3>2, <3>3
  <2> QED
    BY <2>2, <2>3
<1> QED
  BY <1>4, <1>6, <1>10, <1>11, <1>12 DEF p, AreNewest

(* What the sink retains has its keys. *)
LEMMA RetainedAre ==
  ASSUME HistoryOK
  PROVE  /\ Retained(sink) \in Seq(Stored) /\ IsFiniteSet(ToSet(Retained(sink)))
         /\ \A k \in 1 .. Len(Retained(sink)) : Numbered(Retained(sink)[k])
         /\ \A r \in ToSet(Retained(sink)) : Numbered(r)
         /\ \A r \in Stored : Keyed(r)
<1>1. sink.rot \in Seq(Stored) /\ sink.live \in Seq(Stored) /\ WrittenOK
  BY DEF HistoryOK, StateOK
<1>2. PICK q : q = Retained(sink)
  OBVIOUS
<1>3. q \in Seq(Stored)
  BY <1>1, <1>2, ConcatProperties DEF Retained
<1>4. \A r \in Stored : Keyed(r)
  BY <1>1, StoredKeyed DEF Stored
<1>5. ToSet(q) \subseteq Stored /\ IsFiniteSet(ToSet(q))
  BY <1>3, ElementsFinite
<1>6. \A k \in 1 .. Len(q) : q[k] \in Stored
  BY <1>3, ElementOfSeq
<1> QED
  BY <1>2, <1>3, <1>4, <1>5, <1>6 DEF Keyed, Numbered

(* A cursor that the console minted is taken, and points where it did      *)
(* (server.py, _decode_cursor).                                            *)
LEMMA TokenIsTaken ==
  ASSUME NEW k, k.at \in Nat, k.id \in Nat
  PROVE  LET t == MintCursor(k, "own") IN
         /\ t # None /\ CursorStatus(t, "own") = "ok"
         /\ \A r : Older(r, t) <=> Older(r, k)
<1> DEFINE t == MintCursor(k, "own")
<1>1. t.scope = "own" /\ t.at = k.at /\ t.id = k.id
  BY DEF MintCursor
<1>2. t # None /\ k.at # None
  BY HistoryAssumption DEF MintCursor
<1> HIDE DEF t
<1> QED
  BY <1>1, <1>2 DEF CursorStatus, Older, t

(* A page of the equipped profile (read_history_page). *)
LEMMA EquippedServes ==
  ASSUME HistoryOK, NEW n \in Nat \ {0}, NEW k \in Cursors(ToSet(Retained(sink)))
  PROVE  PageServes(ToSet(Retained(sink)), k, EquippedPage(MintCursor(k, "own"), "own", n))
<1>1. PICK q : q = Retained(sink)
  OBVIOUS
<1>2. q \in Seq(Stored) /\ IsFiniteSet(ToSet(q)) /\ Len(q) \in Nat /\ DOMAIN q = 1 .. Len(q)
  BY <1>1, RetainedAre, LenProperties
<1>3. (\A i \in 1 .. Len(q) : Numbered(q[i])) /\ (\A r \in ToSet(q) : Numbered(r)) /\ \A r \in Stored : Keyed(r)
  BY <1>1, RetainedAre
<1>4. k \in Cursors(ToSet(q)) /\ k.at \in Nat /\ k.id \in Nat
  BY <1>1, <1>2, <1>3, AboveAll DEF Cursors, Keys, Key, Numbered
<1>5. PICK t : t = MintCursor(k, "own")
  OBVIOUS
<1>6. t # None /\ CursorStatus(t, "own") = "ok" /\ \A r : Older(r, t) <=> Older(r, k)
  BY <1>4, <1>5, TokenIsTaken
<1> DEFINE older == {i \in 1 .. Len(q) : Older(q[i], k)}
<1>7. PICK p : p = Newest(q, older, n)
  OBVIOUS
<1>8. SinkPage(sink, t, n) = p
  <2>1. {i \in DOMAIN q : t = None \/ Older(q[i], t)} = older
    BY <1>2, <1>6
  <2> HIDE DEF older
  <2> QED
    BY <1>1, <1>7, <2>1, Zenon DEF SinkPage
<1>9. older \in SUBSET (1 .. Len(q)) /\ n \in Nat /\ n # 0
  OBVIOUS
<1>10. OlderThan(ToSet(q), k) = {q[i] : i \in older}
  BY <1>2 DEF OlderThan, ToSet
<1> HIDE DEF older
<1>11. /\ p \in Seq(Stored) /\ Len(p) = (IF Cardinality(older) < n THEN Cardinality(older) ELSE n)
       /\ Cardinality(older) \in Nat /\ (Cardinality(older) = 0 <=> older = {})
       /\ \A j \in 1 .. Len(p) : \E i \in older : p[j] = q[i]
       /\ \A i \in older : \/ \E j \in 1 .. Len(p) : p[j] = q[i]
                           \/ /\ Len(p) = n /\ n < Cardinality(older)
                              /\ n # 0 => \/ Older(q[i], p[n])
                                          \/ \E j \in 1 .. Len(p) : p[j].id = q[i].id
  <2>1. q \in Seq(Stored)
    BY <1>2
  <2>2. p \in Seq(Stored) /\ AreNewest(p, q, older, n)
    BY <1>3, <1>7, <1>9, <2>1, NewestPage
  <2> QED
    BY <2>2 DEF AreNewest
<1> DEFINE shown == [i \in DOMAIN p |-> Attached(p[i])]
           m == Len(p)
<1>12. DOMAIN p = 1 .. m /\ m \in Nat
  BY <1>11, LenProperties
<1>13. \A j \in 1 .. m : shown[j].at = p[j].at /\ shown[j].id = p[j].id
  <2> SUFFICES ASSUME NEW j \in 1 .. m PROVE Attached(p[j]).at = p[j].at /\ Attached(p[j]).id = p[j].id
    BY <1>12
  <2>1. Keyed(p[j])
    BY <1>3, <1>11, ElementOfSeq
  <2> QED
    BY <2>1 DEF Attached, Keyed, RowFields
<1>14. EquippedPage(t, "own", n) = shown
  BY <1>6, <1>8, Zenon DEF EquippedPage
<1>15. Len(shown) = m /\ DOMAIN shown = 1 .. m /\ shown \in Seq({shown[j] : j \in 1 .. m})
  <2>1. shown = [j \in 1 .. m |-> shown[j]]
    BY <1>12
  <2> HIDE DEF shown, m
  <2> QED
    BY <1>12, <2>1
<1> HIDE DEF shown, m
<1>16. CASE older = {}
  <2>1. m = 0
    BY <1>9, <1>11, <1>16 DEF m
  <2>2. shown = <<>>
    BY <1>15, <2>1, EmptySeq
  <2> QED
    BY <1>1, <1>5, <1>10, <1>14, <1>16, <2>2 DEF PageServes
<1>17. CASE older # {}
  <2>1. m # 0 /\ shown # <<>>
    BY <1>9, <1>11, <1>12, <1>15, <1>17, EmptySeq DEF m
  <2>2. ASSUME NEW j \in 1 .. m
        PROVE  \E r \in OlderThan(ToSet(q), k) : shown[j].at = r.at /\ shown[j].id = r.id
    <3>1. PICK i \in older : p[j] = q[i]
      BY <1>11 DEF m
    <3> QED
      BY <1>10, <1>13, <3>1
  <2>3. ASSUME NEW r \in OlderThan(ToSet(q), k)
        PROVE  (\E j \in 1 .. m : shown[j].id = r.id) \/ Older(r, shown[m])
    <3>1. PICK i \in older : r = q[i]
      BY <1>10
    <3>2. \/ \E j \in 1 .. m : p[j].id = r.id
          \/ m = n /\ Older(r, p[n])
      BY <1>9, <1>11, <3>1 DEF m
    <3>3. m \in 1 .. m
      BY <1>12, <2>1
    <3>4. Older(r, p[m]) => Older(r, shown[m])
      BY <1>13, <3>3 DEF Older
    <3> QED
      BY <1>13, <3>2, <3>4
  <2> QED
    BY <1>1, <1>5, <1>10, <1>12, <1>14, <1>15, <1>17, <2>1, <2>2, <2>3 DEF PageServes
<1> QED
  BY <1>16, <1>17

-----------------------------------------------------------------------------
(* The console of another profile. *)

(* The first row of each id in a list. *)
FirstPlaces(all) == {i \in DOMAIN all : \A j \in 1 .. i - 1 : all[j].id # all[i].id}

FirstRows(all) == {all[i] : i \in FirstPlaces(all)}

LEMMA FirstRowsAre ==
  ASSUME NEW X, NEW all \in Seq(X)
  PROVE  LET F == FirstRows(all) IN
         /\ F \subseteq X /\ IsFiniteSet(F)
         /\ \A a, b \in F : a.id = b.id => a = b
         /\ {r.id : r \in F} = {all[i].id : i \in 1 .. Len(all)}
<1> DEFINE F == {all[i] : i \in FirstPlaces(all)}
<1>0. FirstRows(all) = F
  BY DEF FirstRows
<1>1. Len(all) \in Nat /\ DOMAIN all = 1 .. Len(all) /\ \A i \in 1 .. Len(all) : all[i] \in X
  BY LenProperties, ElementOfSeq
<1>2. FirstPlaces(all) \subseteq 1 .. Len(all)
  BY <1>1 DEF FirstPlaces
<1>3. F \subseteq X
  BY <1>1, <1>2
<1>4. IsFiniteSet(F)
  <2>1. F \subseteq ToSet(all)
    BY <1>1, <1>2 DEF ToSet
  <2> HIDE DEF F
  <2> QED
    BY <2>1, ElementsFinite, FS_Subset
<1>5. ASSUME NEW i \in FirstPlaces(all), NEW j \in FirstPlaces(all), all[i].id = all[j].id
      PROVE  i = j
  <2>1. i \in Nat /\ j \in Nat /\ i >= 1 /\ j >= 1
    BY <1>2
  <2>2. ~(i < j) /\ ~(j < i)
    <3>1. i < j => i \in 1 .. j - 1
      BY <2>1
    <3>2. j < i => j \in 1 .. i - 1
      BY <2>1
    <3> QED
      BY <1>5, <3>1, <3>2 DEF FirstPlaces
  <2> QED
    BY <2>1, <2>2
<1>6. \A a, b \in F : a.id = b.id => a = b
  BY <1>5
<1>7. ASSUME NEW k \in 1 .. Len(all) PROVE \E i \in FirstPlaces(all) : all[i].id = all[k].id
  <2> DEFINE same == {i \in 1 .. Len(all) : all[i].id = all[k].id}
  <2>1. same \in SUBSET Nat /\ same # {}
    OBVIOUS
  <2>2. PICK i \in same : \A y \in same : i <= y
    <3> HIDE DEF same
    <3> QED
      BY <2>1, LeastElement
  <2>3. i \in 1 .. Len(all) /\ all[i].id = all[k].id
    BY <2>2
  <2>4. ASSUME NEW j \in 1 .. i - 1 PROVE all[j].id # all[i].id
    <3>1. j \in 1 .. Len(all) /\ ~(i <= j)
      BY <1>1, <2>3
    <3> QED
      BY <2>2, <2>3, <3>1
  <2> QED
    BY <1>1, <2>3, <2>4 DEF FirstPlaces
<1>8. {r.id : r \in F} = {all[i].id : i \in 1 .. Len(all)}
  <2>1. {r.id : r \in F} = {all[i].id : i \in FirstPlaces(all)}
    OBVIOUS
  <2> HIDE DEF F
  <2> QED
    BY <1>2, <1>7, <2>1
<1> QED
  BY <1>0, <1>3, <1>4, <1>6, <1>8

(* A row as the console of another profile judges it. *)
MarkedForeign(r, keep) ==
  [r EXCEPT !.provenance = IF keep /\ @ = "unverifiable" THEN @ ELSE "foreign"]

ForeignCopies(keep) ==
  {MarkedForeign(r, keep) : r \in Stored} \cup {Summary(r, "foreign") : r \in written}

LEMMA ForeignCopiesAre ==
  ASSUME HistoryOK, NEW keep
  PROVE  \A x \in ForeignCopies(keep) : Numbered(x) /\ x.provenance \in {"foreign", "unverifiable"}
<1>1. ASSUME NEW r \in Stored
      PROVE  /\ Numbered(MarkedForeign(r, keep)) /\ MarkedForeign(r, keep).provenance \in {"foreign", "unverifiable"}
             /\ MarkedForeign(r, keep).id = r.id
  <2>1. Keyed(r)
    BY RetainedAre
  <2> QED
    BY <2>1 DEF Keyed, RowFields, MarkedForeign, Numbered
<1>2. ASSUME NEW r \in written
      PROVE  Numbered(Summary(r, "foreign")) /\ Summary(r, "foreign").provenance = "foreign"
  <2>1. Keyed(r)
    BY DEF HistoryOK, WrittenOK
  <2> QED
    BY <2>1 DEF Keyed, RowFields, Summary, Numbered
<1> QED
  BY <1>1, <1>2 DEF ForeignCopies

(* The sink as another profile reads it. *)
ForeignSink == IF Len(sink.live) > ReadCap \/ Len(sink.rot) > ReadCap
                 THEN <<>> ELSE SinkPage(sink, None, Len(Retained(sink)))

(* What the console of another profile reads, before it drops the copies.  *)
ForeignList(keep) ==
  [i \in DOMAIN ForeignSink |-> MarkedForeign(ForeignSink[i], keep)]
    \o [i \in DOMAIN LastN(spool.lines, ReadCap) |-> Summary(LastN(spool.lines, ReadCap)[i], "foreign")]

LEMMA ForeignRowsAre ==
  \A keep \in BOOLEAN : ForeignRows(keep) = FirstRows(ForeignList(keep))
BY Zenon DEF ForeignRows, FirstRows, ForeignList, ForeignSink, MarkedForeign, FirstPlaces

(* The sink is read whole, unless a segment is over the cap. *)
LEMMA ForeignSinkIs ==
  ASSUME HistoryOK
  PROVE  /\ ForeignSink \in Seq(Stored)
         /\ ~(Len(sink.live) > ReadCap \/ Len(sink.rot) > ReadCap) =>
              \A i \in 1 .. Len(Retained(sink)) :
                \E k \in 1 .. Len(ForeignSink) : ForeignSink[k].id = Retained(sink)[i].id
<1>1. PICK q : q = Retained(sink)
  OBVIOUS
<1>2. q \in Seq(Stored) /\ Len(q) \in Nat /\ DOMAIN q = 1 .. Len(q) /\ \A i \in 1 .. Len(q) : Numbered(q[i])
  BY <1>1, RetainedAre, LenProperties
<1>3. PICK older : older = 1 .. Len(q)
  OBVIOUS
<1>4. PICK p : p = Newest(q, older, Len(q))
  OBVIOUS
<1>5. SinkPage(sink, None, Len(Retained(sink))) = p
  <2>1. {i \in DOMAIN q : None = None \/ Older(q[i], None)} = older
    BY <1>2, <1>3
  <2>2. SinkPage(sink, None, Len(q)) = Newest(q, {i \in DOMAIN q : None = None \/ Older(q[i], None)}, Len(q))
    BY <1>1, Zenon DEF SinkPage
  <2>3. SinkPage(sink, None, Len(Retained(sink))) = SinkPage(sink, None, Len(q))
    BY <1>1, Zenon
  <2> QED
    BY <1>4, <2>1, <2>2, <2>3, Zenon
<1>6. p \in Seq(Stored) /\ AreNewest(p, q, older, Len(q))
  <2>1. older \in SUBSET (1 .. Len(q))
    BY <1>3
  <2> QED
    BY <1>2, <1>4, <2>1, NewestPage
<1>7. Cardinality(older) = Len(q)
  BY <1>2, <1>3, FS_Interval
<1>8. \A i \in 1 .. Len(q) : \E k \in 1 .. Len(p) : p[k].id = q[i].id
  <2> TAKE i \in 1 .. Len(q)
  <2>1. i \in older /\ ~(Len(q) < Cardinality(older))
    BY <1>2, <1>3, <1>7
  <2>2. \E k \in 1 .. Len(p) : p[k] = q[i]
    BY <1>6, <2>1, Zenon DEF AreNewest
  <2> QED
    BY <2>2
<1>9. <<>> \in Seq(Stored)
  BY EmptySeq
<1>10. ForeignSink = IF Len(sink.live) > ReadCap \/ Len(sink.rot) > ReadCap THEN <<>> ELSE p
  BY <1>5 DEF ForeignSink
<1> QED
  BY <1>1, <1>6, <1>8, <1>9, <1>10

(* Every row of the sink and of the end of the spool is in the list. *)
LEMMA ForeignListIs ==
  ASSUME HistoryOK, NEW keep \in BOOLEAN
  PROVE  LET list == ForeignList(keep)
             tail == LastN(spool.lines, ReadCap) IN
         /\ list \in Seq(ForeignCopies(keep)) /\ tail \in Seq(written)
         /\ \A i \in 1 .. Len(ForeignSink) : \E k \in 1 .. Len(list) : list[k].id = ForeignSink[i].id
         /\ \A i \in 1 .. Len(tail) : \E k \in 1 .. Len(list) : list[k].id = tail[i].id
<1>1. PICK a, t, X : a = ForeignSink /\ t = LastN(spool.lines, ReadCap) /\ X = ForeignCopies(keep)
  OBVIOUS
<1>2. a \in Seq(Stored) /\ t \in Seq(written)
  <2>1. spool.lines \in Seq(written) /\ ReadCap \in Nat
    BY HistoryAssumption DEF HistoryOK, SpoolOK
  <2>2. t \in Seq(written)
    BY <1>1, <2>1, LastNIs
  <2> QED
    BY <1>1, <2>2, ForeignSinkIs
<1>3. /\ Len(a) \in Nat /\ DOMAIN a = 1 .. Len(a) /\ \A i \in 1 .. Len(a) : a[i] \in Stored
      /\ Len(t) \in Nat /\ DOMAIN t = 1 .. Len(t) /\ \A i \in 1 .. Len(t) : t[i] \in written
  BY <1>2, LenProperties, ElementOfSeq
<1> DEFINE left == [i \in 1 .. Len(a) |-> MarkedForeign(a[i], keep)]
           right == [i \in 1 .. Len(t) |-> Summary(t[i], "foreign")]
           list == left \o right
<1>4. ForeignList(keep) = list
  <2>1. /\ [i \in DOMAIN a |-> MarkedForeign(a[i], keep)] = left
        /\ [i \in DOMAIN t |-> Summary(t[i], "foreign")] = right
    BY <1>3
  <2> HIDE DEF left, right
  <2> QED
    BY <1>1, <2>1, Zenon DEF ForeignList
<1>5. left \in Seq(X) /\ Len(left) = Len(a)
  <2>1. left \in [1 .. Len(a) -> X]
    BY <1>1, <1>3 DEF ForeignCopies
  <2> HIDE DEF left
  <2> QED
    BY <1>3, <2>1
<1>6. right \in Seq(X) /\ Len(right) = Len(t)
  <2>1. right \in [1 .. Len(t) -> X]
    BY <1>1, <1>3 DEF ForeignCopies
  <2> HIDE DEF right
  <2> QED
    BY <1>3, <2>1
<1>7. /\ list \in Seq(X) /\ Len(list) = Len(a) + Len(t)
      /\ \A i \in 1 .. Len(a) + Len(t) : list[i] = IF i <= Len(a) THEN left[i] ELSE right[i - Len(a)]
  <2> HIDE DEF left, right
  <2>1. left \in Seq(X) /\ right \in Seq(X)
    BY <1>5, <1>6
  <2>2. /\ list \in Seq(X)
        /\ Len(list) = Len(left) + Len(right)
        /\ \A i \in 1 .. Len(left) + Len(right) :
             list[i] = IF i <= Len(left) THEN left[i] ELSE right[i - Len(left)]
    BY <2>1, ConcatProperties
  <2> HIDE DEF list
  <2> QED
    BY <1>5, <1>6, <2>2
<1> HIDE DEF list
<1>10. /\ \A i \in 1 .. Len(a) : left[i] = MarkedForeign(a[i], keep)
       /\ \A i \in 1 .. Len(t) : right[i] = Summary(t[i], "foreign")
  OBVIOUS
<1> HIDE DEF left, right
<1>8. ASSUME NEW i \in 1 .. Len(a) PROVE \E k \in 1 .. Len(list) : list[k].id = a[i].id
  <2>1. i \in 1 .. Len(list) /\ list[i] = MarkedForeign(a[i], keep)
    BY <1>3, <1>7, <1>10
  <2>2. Keyed(a[i])
    BY <1>3, RetainedAre
  <2>3. MarkedForeign(a[i], keep).id = a[i].id
    BY <2>2 DEF MarkedForeign, Keyed, RowFields
  <2> QED
    BY <2>1, <2>3
<1>9. ASSUME NEW i \in 1 .. Len(t) PROVE \E k \in 1 .. Len(list) : list[k].id = t[i].id
  <2>1. Len(a) + i \in 1 .. Len(list) /\ ~(Len(a) + i <= Len(a)) /\ (Len(a) + i) - Len(a) = i
    BY <1>3, <1>7
  <2>2. list[Len(a) + i] = Summary(t[i], "foreign")
    BY <1>7, <1>10, <2>1
  <2>3. Keyed(t[i])
    BY <1>3 DEF HistoryOK, WrittenOK
  <2>4. Summary(t[i], "foreign").id = t[i].id
    BY <2>3 DEF Summary, Keyed, RowFields
  <2> QED
    BY <2>1, <2>2, <2>4
<1> QED
  BY <1>1, <1>2, <1>4, <1>7, <1>8, <1>9

(* So it is among the rows shown, and none of those is called genuine. *)
LEMMA ForeignKnown ==
  ASSUME HistoryOK, NEW keep \in BOOLEAN
  PROVE  LET F == ForeignRows(keep)
             tail == LastN(spool.lines, ReadCap) IN
         /\ IsFiniteSet(F) /\ \A a, b \in F : a.id = b.id => a = b
         /\ \A r \in F : Numbered(r) /\ r.provenance \in {"foreign", "unverifiable"}
         /\ \A i \in 1 .. Len(ForeignSink) : \E r \in F : r.id = ForeignSink[i].id
         /\ \A i \in 1 .. Len(tail) : \E r \in F : r.id = tail[i].id
<1>1. PICK list, X, F : list = ForeignList(keep) /\ X = ForeignCopies(keep) /\ F = ForeignRows(keep)
  OBVIOUS
<1>2. list \in Seq(X)
  BY <1>1, ForeignListIs
<1>3. F = FirstRows(list)
  BY <1>1, ForeignRowsAre
<1>4. /\ F \subseteq X /\ IsFiniteSet(F) /\ \A a, b \in F : a.id = b.id => a = b
      /\ {r.id : r \in F} = {list[i].id : i \in 1 .. Len(list)}
  BY <1>2, <1>3, FirstRowsAre
<1>5. \A r \in F : Numbered(r) /\ r.provenance \in {"foreign", "unverifiable"}
  BY <1>1, <1>4, ForeignCopiesAre
<1>6. \A i \in 1 .. Len(list) : \E r \in F : r.id = list[i].id
  BY <1>4
<1>7. PICK a, t : a = ForeignSink /\ t = LastN(spool.lines, ReadCap)
  OBVIOUS
<1>8. /\ \A i \in 1 .. Len(a) : \E k \in 1 .. Len(list) : list[k].id = a[i].id
      /\ \A i \in 1 .. Len(t) : \E k \in 1 .. Len(list) : list[k].id = t[i].id
  BY <1>1, <1>7, ForeignListIs
<1>9. /\ \A i \in 1 .. Len(a) : \E r \in F : r.id = a[i].id
      /\ \A i \in 1 .. Len(t) : \E r \in F : r.id = t[i].id
  BY <1>6, <1>8
<1> QED
  BY <1>1, <1>4, <1>5, <1>7, <1>9

NewerOrder(S) == {p \in S \X S : Newer(p[1], p[2])}

(* The page of another profile is a line-up by the keys. *)
LEMMA NewerIsLined == \A S : Ordered(S, Newer) = Lined(NewerOrder(S), S)
<1> TAKE S
<1> DEFINE R == NewerOrder(S)
<1>1. \A r \in S : Before(R, S, r) = {o \in S : Newer(o, r)}
  BY DEF Before, NewerOrder
<1>2. \A i : (CHOOSE r \in S : Cardinality(Before(R, S, r)) = i - 1)
           = (CHOOSE r \in S : Cardinality({o \in S : Newer(o, r)}) = i - 1)
  <2> HIDE DEF R
  <2> TAKE i
  <2>1. \A r \in S : Cardinality(Before(R, S, r)) = i - 1
                    <=> Cardinality({o \in S : Newer(o, r)}) = i - 1
    BY <1>1
  <2> QED
    BY <2>1, Zenon
<1> DEFINE N == Cardinality(S)
           f == [i \in 1 .. N |-> CHOOSE r \in S : Cardinality(Before(R, S, r)) = i - 1]
           g == [i \in 1 .. N |-> CHOOSE r \in S : Cardinality({o \in S : Newer(o, r)}) = i - 1]
<1> HIDE DEF R, N
<1>3. ASSUME NEW i \in 1 .. N PROVE f[i] = g[i]
  <2>1. f[i] = CHOOSE r \in S : Cardinality(Before(R, S, r)) = i - 1
    OBVIOUS
  <2>2. g[i] = CHOOSE r \in S : Cardinality({o \in S : Newer(o, r)}) = i - 1
    OBVIOUS
  <2> HIDE DEF f, g
  <2> QED
    BY <1>2, <2>1, <2>2, Zenon
<1>4. f = [i \in 1 .. N |-> f[i]] /\ g = [i \in 1 .. N |-> g[i]]
  OBVIOUS
<1> HIDE DEF f, g
<1>5. f = g
  BY <1>3, <1>4
<1> QED
  BY <1>5, Zenon DEF f, g, N, R, Lined, Ordered

(* A page of another profile. *)
LEMMA ForeignServes ==
  ASSUME HistoryOK, NEW n \in Nat \ {0}, NEW k \in Cursors(ForeignRows(FALSE))
  PROVE  PageServes(ForeignRows(FALSE), k, ForeignPage(MintCursor(k, "own"), "own", n))
<1>1. PICK F : F = ForeignRows(FALSE)
  OBVIOUS
<1>2. IsFiniteSet(F) /\ (\A a, b \in F : a.id = b.id => a = b) /\ \A r \in F : Numbered(r)
  BY <1>1, ForeignKnown
<1>3. k \in Cursors(F) /\ k.at \in Nat /\ k.id \in Nat
  <2>1. Above(F).at \in Nat /\ Above(F).id \in Nat
    BY <1>2, AboveAll
  <2>2. k \in Cursors(F)
    BY <1>1
  <2> QED
    BY <1>2, <2>1, <2>2 DEF Cursors, Keys, Key, Numbered
<1>4. PICK t : t = MintCursor(k, "own")
  OBVIOUS
<1>5. t # None /\ CursorStatus(t, "own") = "ok" /\ \A r : Older(r, t) <=> Older(r, k)
  BY <1>3, <1>4, TokenIsTaken
<1>6. PICK older : older = OlderThan(F, k)
  OBVIOUS
<1>7. older \subseteq F /\ IsFiniteSet(older) /\ Cardinality(older) \in Nat
      /\ (Cardinality(older) = 0 <=> older = {})
  BY <1>2, <1>6, FS_Subset, FS_CardinalityType, FS_EmptySet DEF OlderThan
<1> DEFINE l == Lined(NewerOrder(older), older)
           m == IF Cardinality(older) < n THEN Cardinality(older) ELSE n
           shown == SubSeq(l, 1, m)
<1>8. ForeignPage(t, "own", n) = shown
  <2>1. {r \in F : t = None \/ Older(r, t)} = older
    BY <1>5, <1>6 DEF OlderThan
  <2>2. ForeignPage(t, "own", n) = SubSeq(Ordered(older, Newer), 1, m)
    BY <1>1, <1>5, <2>1, Zenon DEF ForeignPage
  <2> QED
    BY <2>2, NewerIsLined, Zenon
<1>9. LinearOn(NewerOrder(older), older)
  <2>1. \A r \in older : r.id \in Nat /\ r.at \in Nat
    BY <1>2, <1>7 DEF Numbered
  <2>2. \A a, b \in older : <<a, b>> \in NewerOrder(older) <=> Newer(a, b)
    BY DEF NewerOrder
  <2>3. \A a, b \in older : a.id = b.id => a = b
    BY <1>2, <1>7
  <2> QED
    BY <2>1, <2>2, <2>3 DEF LinearOn, Newer, Older
<1>10. /\ l \in Seq(older) /\ Len(l) = Cardinality(older)
       /\ \A i, j \in 1 .. Len(l) : i < j => <<l[i], l[j]>> \in NewerOrder(older)
       /\ \A r \in older : /\ Cardinality(Before(NewerOrder(older), older, r)) + 1 \in 1 .. Len(l)
                           /\ l[Cardinality(Before(NewerOrder(older), older, r)) + 1] = r
  BY <1>7, <1>9, LinedUp
<1> HIDE DEF l
<1>11. m \in Nat /\ m <= Len(l) /\ m <= n /\ n \in Nat /\ n # 0
  BY <1>7, <1>10
<1>12. shown \in Seq(older) /\ Len(shown) = m /\ \A j \in 1 .. m : shown[j] = l[j]
  <2> HIDE DEF m
  <2> QED
    BY <1>10, <1>11, FirstOfList
<1>13. DOMAIN shown = 1 .. m
  <2> HIDE DEF shown, m
  <2> QED
    BY <1>12, LenProperties
<1>14. \A j \in 1 .. m : shown[j] \in older
  <2> HIDE DEF shown, m
  <2> QED
    BY <1>12, ElementOfSeq
<1>15. CASE older = {}
  <2>1. m = 0
    BY <1>7, <1>11, <1>15
  <2> HIDE DEF shown, m
  <2>2. shown = <<>>
    BY <1>12, <2>1, EmptySeq
  <2> QED
    BY <1>1, <1>4, <1>6, <1>8, <1>15, <2>2 DEF PageServes
<1>16. CASE older # {}
  <2>1. m # 0
    BY <1>7, <1>11, <1>16
  <2>2. ASSUME NEW r \in older
        PROVE  (\E j \in 1 .. m : shown[j].id = r.id) \/ Older(r, shown[m])
    <3>1. PICK c \in 1 .. Len(l) : l[c] = r
      BY <1>10
    <3>2. CASE c <= m
      <4>1. c \in 1 .. m
        BY <1>11, <3>1, <3>2
      <4> HIDE DEF shown, m
      <4> QED
        BY <1>12, <3>1, <4>1
    <3>3. CASE ~(c <= m)
      <4>1. m < c /\ m \in 1 .. Len(l) /\ m \in 1 .. m /\ c \in 1 .. Len(l)
        BY <1>7, <1>10, <1>11, <2>1, <3>1, <3>3
      <4> HIDE DEF shown, m
      <4>2. <<l[m], r>> \in NewerOrder(older) /\ shown[m] = l[m]
        BY <1>10, <1>12, <3>1, <4>1
      <4> QED
        BY <4>2 DEF NewerOrder, Newer
    <3> QED
      BY <3>2, <3>3
  <2>3. shown # <<>>
    <3> HIDE DEF shown, m
    <3> QED
      BY <1>12, <2>1, EmptySeq
  <2> HIDE DEF shown, m
  <2> QED
    BY <1>1, <1>4, <1>6, <1>8, <1>11, <1>12, <1>13, <1>14, <1>16, <2>1, <2>2, <2>3 DEF PageServes
<1> QED
  BY <1>15, <1>16

(* The newest of the ring are in the sink. *)
LEMMA HeldIsShown ==
  ASSUME NEW A, NEW ring \in Seq(A), NEW q, Len(q) \in Nat, Held(ring, q)
  PROVE  \A r \in ToSet(LastN(ring, SinkCap + 1)) : \E i \in 1 .. Len(q) : q[i].id = r.id
<1> DEFINE new == LastN(ring, SinkCap + 1)
<1>1. SinkCap \in Nat /\ SinkCap + 1 \in Nat
  BY HistoryAssumption
<1>2. /\ new \in Seq(A) /\ Len(new) = (IF Len(ring) <= SinkCap + 1 THEN Len(ring) ELSE SinkCap + 1)
      /\ \A k \in Nat : k < Len(new) => new[Len(new) - k] = ring[Len(ring) - k]
  BY <1>1, LastNIs
<1> HIDE DEF new
<1>3. Len(ring) \in Nat /\ Len(new) \in Nat /\ DOMAIN new = 1 .. Len(new)
  BY <1>2, LenProperties
<1>4. ASSUME NEW j \in 1 .. Len(new) PROVE \E i \in 1 .. Len(q) : q[i].id = new[j].id
  <2> DEFINE k == Len(new) - j
  <2>1. k \in Nat /\ k < Len(new) /\ Len(new) - k = j
    BY <1>3
  <2> HIDE DEF k
  <2>2. k < Len(ring) /\ k <= SinkCap
    BY <1>1, <1>2, <1>3, <2>1
  <2>3. k < Len(q) /\ q[Len(q) - k].id = ring[Len(ring) - k].id
    BY <2>1, <2>2 DEF Held
  <2>4. new[j] = ring[Len(ring) - k]
    BY <1>2, <2>1
  <2>5. Len(q) - k \in 1 .. Len(q)
    BY <2>1, <2>3
  <2> QED
    BY <2>3, <2>4, <2>5
<1> QED
  BY <1>3, <1>4 DEF ToSet, new

LEMMA ForeignSees == ASSUME HistoryOK PROVE ForeignSeesAll
<1>1. \A keep \in BOOLEAN : \A r \in ForeignRows(keep) : r.provenance \in {"foreign", "unverifiable"}
  BY ForeignKnown
<1>2. ASSUME ~ForeignTruncated, ~console.sinkWarned
      PROVE  {r.id : r \in ToSet(spool.lines) \cup ToSet(LastN(console.ring, SinkCap + 1))}
               \subseteq {r.id : r \in ForeignRows(FALSE)}
  <2>1. PICK F, lines, ring, q, a :
          /\ F = ForeignRows(FALSE) /\ lines = spool.lines /\ ring = console.ring
          /\ q = Retained(sink) /\ a = ForeignSink
    OBVIOUS
  <2>2. lines \in Seq(written) /\ ring \in Seq(Shown) /\ q \in Seq(Stored)
    BY <2>1, RetainedAre DEF HistoryOK, SpoolOK, StateOK
  <2>3. Len(lines) \in Nat /\ DOMAIN lines = 1 .. Len(lines) /\ Len(q) \in Nat
    BY <2>2, LenProperties
  <2>4. ~(Len(lines) > ReadCap) /\ ~(Len(sink.live) > ReadCap \/ Len(sink.rot) > ReadCap)
    BY <1>2, <2>1 DEF ForeignTruncated
  <2>5. LastN(lines, ReadCap) = lines
    <3>1. Len(lines) <= ReadCap
      BY <2>3, <2>4, HistoryAssumption
    <3> QED
      BY <3>1 DEF LastN
  <2>6. /\ \A i \in 1 .. Len(a) : \E r \in F : r.id = a[i].id
        /\ \A i \in 1 .. Len(lines) : \E r \in F : r.id = lines[i].id
    <3> DEFINE tail == LastN(spool.lines, ReadCap)
    <3>1. /\ \A i \in 1 .. Len(a) : \E r \in F : r.id = a[i].id
          /\ \A i \in 1 .. Len(tail) : \E r \in F : r.id = tail[i].id
      BY <2>1, ForeignKnown
    <3>2. tail = lines
      BY <2>1, <2>5, Zenon
    <3> HIDE DEF tail
    <3> QED
      BY <3>1, <3>2
  <2>7. \A i \in 1 .. Len(q) : \E k \in 1 .. Len(a) : a[k].id = q[i].id
    BY <2>1, <2>4, ForeignSinkIs
  <2>8. Held(ring, q)
    BY <1>2, <2>1 DEF HistoryOK, HeldOK
  <2>9. \A r \in ToSet(LastN(ring, SinkCap + 1)) : \E i \in 1 .. Len(q) : q[i].id = r.id
    BY <2>2, <2>3, <2>8, HeldIsShown
  <2>10. \A r \in ToSet(lines) : \E f \in F : f.id = r.id
    BY <2>3, <2>6 DEF ToSet
  <2>11. \A r \in ToSet(LastN(ring, SinkCap + 1)) : \E f \in F : f.id = r.id
    <3> TAKE r \in ToSet(LastN(ring, SinkCap + 1))
    <3>1. PICK i \in 1 .. Len(q) : q[i].id = r.id
      BY <2>9
    <3>2. PICK k \in 1 .. Len(a) : a[k].id = q[i].id
      BY <2>7
    <3>3. PICK f \in F : f.id = a[k].id
      BY <2>6
    <3> QED
      BY <3>1, <3>2, <3>3
  <2> QED
    BY <2>1, <2>10, <2>11
<1> QED
  BY <1>1, <1>2 DEF ForeignSeesAll

LEMMA AllPages == ASSUME HistoryOK PROVE PagesComplete
<1> SUFFICES ASSUME NEW n \in 1 .. 2
             PROVE  /\ WalkIsComplete(ToSet(Retained(sink)), LAMBDA token : EquippedPage(token, "own", n))
                    /\ WalkIsComplete(ForeignRows(FALSE), LAMBDA token : ForeignPage(token, "own", n))
  BY DEF PagesComplete
<1>0. n \in Nat \ {0}
  OBVIOUS
<1>1. WalkIsComplete(ToSet(Retained(sink)), LAMBDA token : EquippedPage(token, "own", n))
  <2>1. PICK rows : rows = ToSet(Retained(sink))
    OBVIOUS
  <2>2. IsFiniteSet(rows) /\ \A r \in rows : Numbered(r)
    BY <2>1, RetainedAre
  <2>3. PICK page : page = [k \in Cursors(rows) |-> EquippedPage(MintCursor(k, "own"), "own", n)]
    OBVIOUS
  <2>4. \A k \in Cursors(rows) : PageServes(rows, k, page[k])
    BY <1>0, <2>1, <2>3, EquippedServes
  <2>5. Walk(page, rows) = {r.id : r \in rows}
    BY <2>2, <2>4, WalkSeesAll
  <2> QED
    BY <2>1, <2>3, <2>5, Zenon DEF WalkIsComplete, Cursors
<1>2. WalkIsComplete(ForeignRows(FALSE), LAMBDA token : ForeignPage(token, "own", n))
  <2>1. PICK rows : rows = ForeignRows(FALSE)
    OBVIOUS
  <2>2. IsFiniteSet(rows) /\ \A r \in rows : Numbered(r)
    BY <2>1, ForeignKnown
  <2>3. PICK page : page = [k \in Cursors(rows) |-> ForeignPage(MintCursor(k, "own"), "own", n)]
    OBVIOUS
  <2>4. \A k \in Cursors(rows) : PageServes(rows, k, page[k])
    BY <1>0, <2>1, <2>3, ForeignServes
  <2>5. Walk(page, rows) = {r.id : r \in rows}
    BY <2>2, <2>4, WalkSeesAll
  <2> QED
    BY <2>1, <2>3, <2>5, Zenon DEF WalkIsComplete, Cursors
<1> QED
  BY <1>1, <1>2

(* A reader who follows the cursors from the newest page to the last sees  *)
(* every row, with pages of any size and rows of one time, in the equipped *)
(* profile and in another; another profile sees all of the spool and the   *)
(* newest rows of the ring, unless a file is over its cap or the sink      *)
(* refused a row, and calls none genuine (server.py:1878-1924,             *)
(* _history.py:212-247).                                                   *)
THEOREM HistoryIsComplete == Spec => []HistoryComplete
<1>1. HistoryOK => HistoryComplete
  BY AllPages, ForeignSees DEF HistoryComplete
<1> QED
  BY <1>1, HistoryStays, PTL

-----------------------------------------------------------------------------
(* The configuration file.                                                 *)

ConfigRecord == [a : Values, b : Values, enabled : BOOLEAN, mtime : Int, readable : BOOLEAN]
Settings == [a : Values, b : Values]
ArmJob == [kind : {"arm"}, target : Profiles, enabled : BOOLEAN, base : ConfigRecord,
           phase : {"replace", "announce"}]
ReadJob == [kind : {"save", "stage"}, target : Profiles \cup {Nothing}, settings : Settings,
            phase : {"read"}]
ReplaceJob == [kind : {"save", "stage"}, target : Profiles, settings : Settings,
               base : ConfigRecord, phase : {"replace"}]
Jobs == ArmJob \cup ReadJob \cup ReplaceJob \cup {Nothing}

SwitchTypeOK ==
  /\ files \in [Profiles -> ConfigRecord]
  /\ active \in Profiles
  /\ memory \in [Consoles -> Settings]
  /\ job \in [Consoles -> Jobs]
  /\ clock \in Nat

-----------------------------------------------------------------------------
(* What the handlers do to the state, for the types.                       *)

LEMMA JobTyped ==
  ASSUME SwitchTypeOK, NEW c \in Consoles, NEW j \in Jobs, job' = [job EXCEPT ![c] = j]
  PROVE  job' \in [Consoles -> Jobs] /\ \A d \in Consoles : d # c => job'[d] = job[d]
  BY DEF SwitchTypeOK

LEMMA ReplaceTyped ==
  ASSUME SwitchTypeOK, NEW p \in Profiles, NEW f \in ConfigRecord, ReplaceFile(p, f)
  PROVE  /\ files' \in [Profiles -> ConfigRecord]
         /\ files'[p] = [f EXCEPT !.mtime = clock \div Grain]
         /\ \A q \in Profiles : q # p => files'[q] = files[q]
  <1> DEFINE r == [f EXCEPT !.mtime = clock \div Grain]
  <1>1. clock \div Grain \in Int
    BY ConfigFileAssumption DEF SwitchTypeOK
  <1>2. r \in ConfigRecord
    BY <1>1 DEF ConfigRecord
  <1>3. files' = [files EXCEPT ![p] = r]
    BY DEF ReplaceFile
  <1> QED
    BY <1>2, <1>3 DEF SwitchTypeOK

(* A handler that is about to replace a file has read it.                  *)
LEMMA ReplacerTyped ==
  ASSUME SwitchTypeOK, NEW c \in Consoles, job[c] # Nothing, job[c].phase = "replace"
  PROVE  /\ job[c].target \in Profiles /\ job[c].base \in ConfigRecord
         /\ job[c].kind = "arm" => job[c] \in ArmJob
         /\ job[c].kind # "arm" => job[c] \in ReplaceJob
  <1>1. job[c] \in ArmJob \cup ReadJob \cup ReplaceJob
    BY DEF SwitchTypeOK, Jobs
  <1>2. job[c] \notin ReadJob
    BY DEF ReadJob
  <1> QED
    BY <1>1, <1>2 DEF ArmJob, ReplaceJob

LEMMA ArmWrites ==
  ASSUME SwitchTypeOK, NEW c \in Consoles, ArmReplaces(c)
  PROVE  /\ job[c] \in ArmJob /\ job[c].phase = "replace" /\ job[c].target \in Profiles
         /\ [job[c].base EXCEPT !.enabled = job[c].enabled] \in ConfigRecord
         /\ files' \in [Profiles -> ConfigRecord]
         /\ files'[job[c].target].a = job[c].base.a /\ files'[job[c].target].b = job[c].base.b
         /\ \A q \in Profiles : q # job[c].target => files'[q] = files[q]
         /\ job' \in [Consoles -> Jobs] /\ \A d \in Consoles : d # c => job'[d] = job[d]
  <1> DEFINE j == job[c]
             r == [j.base EXCEPT !.enabled = j.enabled]
             k == [j EXCEPT !.phase = "announce"]
  <1>1. /\ j # Nothing /\ j.kind = "arm" /\ j.phase = "replace" /\ ReplaceFile(j.target, r)
        /\ job' = [job EXCEPT ![c].phase = "announce"]
    BY DEF ArmReplaces
  <1>2. j \in ArmJob /\ j.target \in Profiles /\ j.base \in ConfigRecord
    BY <1>1, ReplacerTyped
  <1>3. r \in ConfigRecord /\ r.a = j.base.a /\ r.b = j.base.b
    BY <1>2 DEF ArmJob, ConfigRecord
  <1>4. k \in Jobs
    BY <1>2 DEF ArmJob, Jobs
  <1>5. job' = [job EXCEPT ![c] = k]
    BY <1>1
  <1> HIDE DEF j, r, k
  <1>6. job' \in [Consoles -> Jobs] /\ \A d \in Consoles : d # c => job'[d] = job[d]
    BY <1>4, <1>5, JobTyped
  <1>7. /\ files' \in [Profiles -> ConfigRecord]
        /\ files'[j.target] = [r EXCEPT !.mtime = clock \div Grain]
        /\ \A q \in Profiles : q # j.target => files'[q] = files[q]
    BY <1>1, <1>2, <1>3, ReplaceTyped
  <1>8. files'[j.target].a = r.a /\ files'[j.target].b = r.b
    BY <1>3, <1>7 DEF ConfigRecord
  <1> QED
    BY <1>1, <1>2, <1>3, <1>6, <1>7, <1>8 DEF j, r

LEMMA PersistWrites ==
  ASSUME SwitchTypeOK, NEW c \in Consoles, PersistReplaces(c)
  PROVE  /\ job[c] \in ReplaceJob /\ job[c].phase = "replace" /\ job[c].target \in Profiles
         /\ [job[c].base EXCEPT !.a = job[c].settings.a, !.b = job[c].settings.b] \in ConfigRecord
         /\ files' \in [Profiles -> ConfigRecord]
         /\ files'[job[c].target].enabled = job[c].base.enabled
         /\ \A q \in Profiles : q # job[c].target => files'[q] = files[q]
         /\ job' \in [Consoles -> Jobs] /\ \A d \in Consoles : d # c => job'[d] = job[d]
  <1> DEFINE j == job[c]
             r == [j.base EXCEPT !.a = j.settings.a, !.b = j.settings.b]
  <1>1. /\ j # Nothing /\ j.kind # "arm" /\ j.phase = "replace" /\ ReplaceFile(j.target, r)
        /\ job' = [job EXCEPT ![c] = Nothing]
    BY DEF PersistReplaces
  <1>2. j \in ReplaceJob /\ j.target \in Profiles /\ j.base \in ConfigRecord
    BY <1>1, ReplacerTyped
  <1>3. r \in ConfigRecord /\ r.enabled = j.base.enabled
    BY <1>2 DEF ReplaceJob, Settings, ConfigRecord
  <1> HIDE DEF j, r
  <1>4. job' \in [Consoles -> Jobs] /\ \A d \in Consoles : d # c => job'[d] = job[d]
    BY <1>1, JobTyped DEF Jobs
  <1>5. /\ files' \in [Profiles -> ConfigRecord]
        /\ files'[j.target] = [r EXCEPT !.mtime = clock \div Grain]
        /\ \A q \in Profiles : q # j.target => files'[q] = files[q]
    BY <1>1, <1>2, <1>3, ReplaceTyped
  <1>6. files'[j.target].enabled = r.enabled
    BY <1>3, <1>5 DEF ConfigRecord
  <1> QED
    BY <1>1, <1>2, <1>3, <1>4, <1>5, <1>6 DEF j, r

(* A handler that begins, goes on, or gives up, and replaces nothing.      *)
LEMMA OtherHandlersTyped ==
  ASSUME SwitchTypeOK, NEW c \in Consoles, Handlers(c), ~ArmReplaces(c), ~PersistReplaces(c)
  PROVE  /\ job' \in [Consoles -> Jobs] /\ \A d \in Consoles : d # c => job'[d] = job[d]
         /\ memory' \in [Consoles -> Settings]
         /\ UNCHANGED <<fileVars, gateVars, clock>>
  <1> USE DEF SwitchTypeOK
  <1>1. CASE \E armed \in BOOLEAN, named \in {Nothing} \cup Profiles : BeginArm(c, armed, named)
    <2>1. PICK armed \in BOOLEAN, named \in {Nothing} \cup Profiles : BeginArm(c, armed, named)
      BY <1>1
    <2> DEFINE j == [kind |-> "arm", target |-> active, enabled |-> armed,
                     base |-> files[active], phase |-> "replace"]
    <2>2. j \in Jobs
      BY DEF Jobs, ArmJob
    <2>3. job' = [job EXCEPT ![c] = j] /\ UNCHANGED <<memory, fileVars, gateVars, clock>>
      BY <2>1 DEF BeginArm
    <2> HIDE DEF j
    <2> QED
      BY <2>2, <2>3, JobTyped
  <1>2. CASE ArmFails(c) \/ Announce(c) \/ PersistFails(c)
    <2>1. job' = [job EXCEPT ![c] = Nothing] /\ UNCHANGED <<memory, fileVars, gateVars, clock>>
      BY <1>2 DEF ArmFails, Announce, PersistFails, boundVars
    <2> QED
      BY <2>1, JobTyped DEF Jobs
  <1>3. ASSUME NEW key \in {"a", "b"}, NEW value \in Values, BeginSave(c, key, value)
        PROVE  /\ job' \in [Consoles -> Jobs] /\ \A d \in Consoles : d # c => job'[d] = job[d]
               /\ memory' \in [Consoles -> Settings]
               /\ UNCHANGED <<fileVars, gateVars, clock>>
    <2> DEFINE merged == [memory[c] EXCEPT ![key] = value]
               j == [kind |-> "save", target |-> Nothing, settings |-> merged, phase |-> "read"]
    <2>1. memory[c] \in Settings
      OBVIOUS
    <2>2. merged \in Settings
      BY <2>1 DEF Settings
    <2>3. /\ memory' = [memory EXCEPT ![c] = merged] /\ job' = [job EXCEPT ![c] = j]
          /\ UNCHANGED <<fileVars, gateVars, clock>>
      BY <1>3 DEF BeginSave
    <2> HIDE DEF merged
    <2>4. j \in Jobs
      BY <2>2 DEF Jobs, ReadJob
    <2> HIDE DEF j
    <2> QED
      BY <2>2, <2>3, <2>4, JobTyped
  <1>4. ASSUME NEW key \in {"a", "b"}, NEW value \in Values, NEW p \in Profiles,
               BeginStage(c, p, key, value)
        PROVE  /\ job' \in [Consoles -> Jobs] /\ \A d \in Consoles : d # c => job'[d] = job[d]
               /\ memory' \in [Consoles -> Settings]
               /\ UNCHANGED <<fileVars, gateVars, clock>>
    <2> DEFINE section == Section(files[p])
               merged == [section EXCEPT ![key] = value]
               j == [kind |-> "stage", target |-> p, settings |-> merged, phase |-> "read"]
    <2>1. section \in Settings
      BY DEF Section, Settings, ConfigRecord
    <2>2. job' = [job EXCEPT ![c] = j] /\ UNCHANGED <<memory, fileVars, gateVars, clock>>
      BY <1>4 DEF BeginStage
    <2> HIDE DEF section
    <2>3. merged \in Settings
      BY <2>1 DEF Settings
    <2> HIDE DEF merged
    <2>4. j \in Jobs
      BY <2>3 DEF Jobs, ReadJob
    <2> HIDE DEF j
    <2> QED
      BY <2>2, <2>4, JobTyped
  <1>5. CASE PersistReads(c)
    <2> DEFINE j == job[c]
               p == IF j.target = Nothing THEN active ELSE j.target
               k == [kind |-> j.kind, target |-> p, settings |-> j.settings,
                     base |-> files[p], phase |-> "replace"]
    <2>1. /\ j # Nothing /\ j.phase = "read" /\ job' = [job EXCEPT ![c] = k]
          /\ UNCHANGED <<memory, fileVars, gateVars, clock>>
      BY <1>5 DEF PersistReads, boundVars
    <2>2. j \in ReadJob
      BY <2>1 DEF Jobs, ArmJob, ReplaceJob
    <2>3. p \in Profiles /\ j.kind \in {"save", "stage"} /\ j.settings \in Settings
      BY <2>2 DEF ReadJob
    <2> HIDE DEF j, p
    <2>4. k \in Jobs
      BY <2>3 DEF Jobs, ReplaceJob
    <2> HIDE DEF k
    <2> QED
      BY <2>1, <2>4, JobTyped
  <1> QED
    BY <1>1, <1>2, <1>3, <1>4, <1>5 DEF Handlers

(* What somebody else writes into a file.                                  *)
LEMMA OutsideTyped ==
  ASSUME SwitchTypeOK, Outside
  PROVE  /\ files' \in [Profiles -> ConfigRecord] /\ active' \in Profiles
         /\ UNCHANGED <<gateVars, consoleVars, clock, streamVars>>
         /\ \/ UNCHANGED <<files, disarmedAt>>
            \/ \E p \in Profiles, f \in ConfigRecord : ReplaceFile(p, f)
  <1>1. PICK p \in Profiles : \/ SwitchProfile(p)
                              \/ EditFile(p, [files[p] EXCEPT !.readable = ~@])
                              \/ EditFile(p, [files[p] EXCEPT !.enabled = ~@])
    BY DEF Outside
  <1>2. CASE SwitchProfile(p)
    BY <1>2 DEF SwitchProfile, SwitchTypeOK
  <1>3. ASSUME NEW f \in ConfigRecord, EditFile(p, f)
        PROVE  /\ files' \in [Profiles -> ConfigRecord] /\ active' \in Profiles
               /\ UNCHANGED <<gateVars, consoleVars, clock, streamVars>>
               /\ \E q \in Profiles, g \in ConfigRecord : ReplaceFile(q, g)
    BY <1>3, ReplaceTyped DEF EditFile, SwitchTypeOK
  <1>4. /\ [files[p] EXCEPT !.readable = ~@] \in ConfigRecord
        /\ [files[p] EXCEPT !.enabled = ~@] \in ConfigRecord
    <2>1. files[p] \in ConfigRecord
      BY DEF SwitchTypeOK
    <2> QED
      BY <2>1 DEF ConfigRecord
  <1> QED
    BY <1>1, <1>2, <1>3, <1>4

LEMMA SwitchTypes ==
  ASSUME SwitchTypeOK, [ConfigFileNext]_switchVars
  PROVE  SwitchTypeOK'
  <1>1. CASE UNCHANGED switchVars
    BY <1>1 DEF switchVars, fileVars, consoleVars, boundVars, SwitchTypeOK
  <1>2. ASSUME NEW c \in Consoles, Handlers(c) PROVE SwitchTypeOK'
    <2>1. CASE ArmReplaces(c)
      BY <2>1, ArmWrites DEF SwitchTypeOK, ArmReplaces, boundVars
    <2>2. CASE PersistReplaces(c)
      BY <2>2, PersistWrites DEF SwitchTypeOK, PersistReplaces, boundVars
    <2>3. CASE ~ArmReplaces(c) /\ ~PersistReplaces(c)
      BY <1>2, <2>3, OtherHandlersTyped DEF SwitchTypeOK, fileVars
    <2> QED
      BY <2>1, <2>2, <2>3
  <1>3. CASE StatGated \/ ParseGated \/ Streams
    BY <1>3 DEF StatGated, ParseGated, Streams, fileVars, consoleVars, boundVars, SwitchTypeOK
  <1>4. CASE Tick
    BY <1>4 DEF Tick, consoleVars, SwitchTypeOK
  <1>5. CASE Outside
    BY <1>5, OutsideTyped DEF consoleVars, SwitchTypeOK
  <1> QED
    BY <1>1, <1>2, <1>3, <1>4, <1>5 DEF ConfigFileNext

LEMMA SwitchInitTyped == ConfigFileInit => SwitchTypeOK
  <1> SUFFICES ASSUME ConfigFileInit PROVE SwitchTypeOK
    OBVIOUS
  <1> DEFINE f == [a |-> Initial, b |-> Initial, enabled |-> TRUE, mtime |-> 0, readable |-> TRUE]
  <1>1. f \in ConfigRecord
    BY ConfigFileAssumption DEF ConfigRecord
  <1>2. files = [p \in Profiles |-> f] /\ active \in Profiles
    BY DEF ConfigFileInit
  <1> HIDE DEF f
  <1>3. Section(files[active]) \in Settings
    BY <1>1, <1>2 DEF ConfigRecord, Section, Settings
  <1> QED
    BY <1>1, <1>2, <1>3 DEF ConfigFileInit, SwitchTypeOK, Jobs

(* WritersKeepTheRest for any consoles, profiles and settings, and any     *)
(* interleaving of their readings and replacements (_armed.py:117,         *)
(* server.py:596-606): a replacement writes what was read, except for what *)
(* its handler was asked to change.                                        *)
THEOREM WritersKeep == ConfigFileSpec => WritersKeepTheRest
  <1> DEFINE Kept ==
        \A p \in Profiles, c \in Consoles :
          (Writing(c, p) /\ files'[p] # files[p] /\ job[c].base = files[p]) =>
            IF job[c].kind = "arm" THEN Section(files'[p]) = Section(files[p])
                                   ELSE files'[p].enabled = files[p].enabled
  <1>1. ASSUME SwitchTypeOK, [ConfigFileNext]_switchVars PROVE Kept
    <2> SUFFICES ASSUME NEW p \in Profiles, NEW c \in Consoles, Writing(c, p),
                        files'[p] # files[p], job[c].base = files[p]
                 PROVE  IF job[c].kind = "arm" THEN Section(files'[p]) = Section(files[p])
                                               ELSE files'[p].enabled = files[p].enabled
      OBVIOUS
    <2>1. job'[c] # job[c] /\ job[c].target = p
      BY DEF Writing
    <2>2. PICK d \in Consoles : Handlers(d)
      BY <1>1, <2>1, OutsideTyped DEF ConfigFileNext, switchVars, consoleVars, StatGated, ParseGated, Tick, Streams
    <2>3. CASE ArmReplaces(d)
      <3>1. d = c
        BY <1>1, <2>1, <2>3, ArmWrites
      <3> QED
        BY <1>1, <2>1, <2>3, <3>1, ArmWrites DEF ArmJob, Section
    <2>4. CASE PersistReplaces(d)
      <3>1. d = c
        BY <1>1, <2>1, <2>4, PersistWrites
      <3> QED
        BY <1>1, <2>1, <2>4, <3>1, PersistWrites DEF ReplaceJob
    <2>5. CASE ~ArmReplaces(d) /\ ~PersistReplaces(d)
      BY <1>1, <2>2, <2>5, OtherHandlersTyped DEF fileVars
    <2> QED
      BY <2>3, <2>4, <2>5
  <1>2. SwitchTypeOK /\ [ConfigFileNext]_switchVars => [Kept]_switchVars
    BY <1>1
  <1> QED
    BY <1>2, SwitchInitTyped, SwitchTypes, PTL DEF ConfigFileSpec, WritersKeepTheRest
-----------------------------------------------------------------------------
(* A file that says disarmed says so now, and a cached "disarmed" is not   *)
(* older than the last time that it did.                                   *)
DisarmDated ==
  /\ ~files[Gated].enabled => disarmedAt = clock
  /\ disarmedAt # Nothing => disarmedAt \in 0 .. clock
  /\ reading # Nothing => reading.at \in 0 .. clock
  /\ \E S : cache \in Seq(S)
  /\ \A i \in DOMAIN cache :
       /\ cache[i].at \in 0 .. clock
       /\ ~cache[i].armed => disarmedAt # Nothing /\ cache[i].at <= disarmedAt

LEMMA ReplaceDated ==
  ASSUME SwitchTypeOK, DisarmDated, NEW p \in Profiles, NEW f \in ConfigRecord,
         ReplaceFile(p, f), UNCHANGED <<gateVars, clock>>
  PROVE  DisarmDated'
  <1>1. /\ files'[p] = [f EXCEPT !.mtime = clock \div Grain]
        /\ \A q \in Profiles : q # p => files'[q] = files[q]
    BY ReplaceTyped
  <1>2. files'[p].enabled = f.enabled
    BY <1>1 DEF ConfigRecord
  <1>3. disarmedAt' = IF p = Gated /\ ~f.enabled THEN clock ELSE disarmedAt
    BY DEF ReplaceFile
  <1>4. ~files'[Gated].enabled => disarmedAt' = clock
    BY <1>1, <1>2, <1>3, ConfigFileAssumption DEF DisarmDated
  <1>5. clock \in Nat /\ Nothing \notin Nat
    BY ConfigFileAssumption DEF SwitchTypeOK
  <1> QED
    BY <1>3, <1>4, <1>5 DEF DisarmDated, gateVars

(* The parse stores nothing but the entry that it read, and drops some.    *)
LEMMA ParseStores ==
  ASSUME DisarmDated, ParseGated
  PROVE  /\ \E S : cache' \in Seq(S)
         /\ \A i \in DOMAIN cache' :
              \/ \E k \in DOMAIN cache : cache'[i] = cache[k]
              \/ cache'[i] = [key |-> reading.key, at |-> reading.at,
                              armed |-> files[Gated].readable => files[Gated].enabled]
  <1> DEFINE new == [key |-> reading.key, at |-> reading.at,
                     armed |-> files[Gated].readable => files[Gated].enabled]
             kept == Popped(reading.key)
             all == Append(kept, new)
             first == IF Len(all) > ArmedCacheMax THEN Len(all) - ArmedCacheMax + 1 ELSE 1
             S == {cache[k] : k \in DOMAIN cache}
  <1>1. cache \in Seq(S)
    BY DEF DisarmDated
  <1>2. kept \in Seq(S)
    <2>1. CASE \A i \in DOMAIN cache : cache[i].key # reading.key
      BY <1>1, <2>1 DEF Popped
    <2>2. CASE \E i \in DOMAIN cache : cache[i].key = reading.key
      <3>1. PICK i \in 1 .. Len(cache) : kept = RemoveAt(cache, i)
        <4> DEFINE found == {i \in DOMAIN cache : cache[i].key = reading.key}
                   i == CHOOSE k \in found : TRUE
        <4>1. found # {} /\ found \subseteq 1 .. Len(cache)
          BY <1>1, <2>2
        <4>2. kept = RemoveAt(cache, i)
          BY <4>1 DEF Popped
        <4> HIDE DEF found
        <4> QED
          BY <4>1, <4>2
      <3>2. SubSeq(cache, 1, i - 1) \in Seq(S) /\ SubSeq(cache, i + 1, Len(cache)) \in Seq(S)
        BY <1>1
      <3> QED
        BY <3>1, <3>2 DEF RemoveAt
    <2> QED
      BY <2>1, <2>2
  <1> HIDE DEF kept
  <1>3. all \in Seq(S \cup {new})
    BY <1>2
  <1>4. first \in 1 .. Len(all)
    BY <1>2, ConfigFileAssumption
  <1>5. cache' = SubSeq(all, first, Len(all))
    BY DEF ParseGated, kept
  <1> HIDE DEF all, first
  <1>6. cache' \in Seq(S \cup {new})
    BY <1>3, <1>4, <1>5
  <1>7. \A i \in DOMAIN cache' : cache'[i] \in S \cup {new}
    BY <1>6
  <1> HIDE DEF new
  <1>8. \A i \in DOMAIN cache' : (\E k \in DOMAIN cache : cache'[i] = cache[k]) \/ cache'[i] = new
    BY <1>7
  <1> QED
    BY <1>6, <1>8 DEF new

LEMMA DatesKept ==
  ASSUME SwitchTypeOK, DisarmDated, [ConfigFileNext]_switchVars
  PROVE  DisarmDated'
  <1> USE DEF DisarmDated
  <1>0. clock \in Nat /\ Nothing \notin Nat /\ Gated \in Profiles
    BY ConfigFileAssumption DEF SwitchTypeOK
  <1>1. CASE UNCHANGED <<files, disarmedAt, clock, gateVars>>
    BY <1>1 DEF gateVars
  <1>2. ASSUME NEW c \in Consoles, Handlers(c) PROVE DisarmDated'
    <2>1. CASE ArmReplaces(c)
      BY <2>1, ArmWrites, ReplaceDated DEF ArmReplaces, boundVars
    <2>2. CASE PersistReplaces(c)
      BY <2>2, PersistWrites, ReplaceDated DEF PersistReplaces, boundVars
    <2>3. CASE ~ArmReplaces(c) /\ ~PersistReplaces(c)
      BY <1>1, <1>2, <2>3, OtherHandlersTyped DEF fileVars
    <2> QED
      BY <2>1, <2>2, <2>3
  <1>3. CASE StatGated
    BY <1>0, <1>3 DEF StatGated, fileVars, boundVars
  <1>4. CASE ParseGated
    <2>1. reading # Nothing /\ reading' = Nothing /\ UNCHANGED <<files, disarmedAt, clock>>
      BY <1>4 DEF ParseGated, fileVars, boundVars
    <2>2. reading.at \in 0 .. clock
      BY <2>1
    <2>3. ~(files[Gated].readable => files[Gated].enabled) => disarmedAt = clock
      OBVIOUS
    <2>4. ASSUME NEW i \in DOMAIN cache'
          PROVE  /\ cache'[i].at \in 0 .. clock
                 /\ ~cache'[i].armed => disarmedAt # Nothing /\ cache'[i].at <= disarmedAt
      <3>1. CASE \E k \in DOMAIN cache : cache'[i] = cache[k]
        BY <3>1
      <3>2. CASE cache'[i] = [key |-> reading.key, at |-> reading.at,
                              armed |-> files[Gated].readable => files[Gated].enabled]
        <4>1. /\ cache'[i].at = reading.at
              /\ cache'[i].armed = (files[Gated].readable => files[Gated].enabled)
          BY <3>2
        <4>2. ~cache'[i].armed => disarmedAt = clock
          BY <2>3, <4>1, Zenon
        <4> QED
          BY <1>0, <2>2, <4>1, <4>2
      <3> QED
        BY <1>4, <3>1, <3>2, ParseStores
    <2> QED
      BY <1>4, <2>1, <2>4, ParseStores
  <1>5. CASE Tick
    <2>1. /\ clock' = clock + 1 /\ UNCHANGED <<files, gateVars>>
          /\ disarmedAt' = IF files[Gated].enabled THEN disarmedAt ELSE clock'
      BY <1>5 DEF Tick
    <2> QED
      BY <1>0, <2>1 DEF gateVars
  <1>6. CASE Outside
    BY <1>1, <1>6, OutsideTyped, ReplaceDated
  <1>7. CASE Streams
    BY <1>1, <1>7 DEF Streams, fileVars, boundVars
  <1>8. CASE UNCHANGED switchVars
    BY <1>1, <1>8 DEF switchVars, fileVars, boundVars
  <1> QED
    BY <1>2, <1>3, <1>4, <1>5, <1>6, <1>7, <1>8 DEF ConfigFileNext

(* DisarmExpires for any profiles, consoles, TTL, mtime granularity and    *)
(* cache size, and any clock (_armed.py:65-92): what the gateway takes     *)
(* from its cache, the file said less than a TTL ago, though it may have   *)
(* been replaced since the key was taken and within one mtime.             *)
THEOREM DisarmsExpire == ConfigFileSpec => []DisarmExpires
  <1>1. ConfigFileInit => DisarmDated
    <2> SUFFICES ASSUME ConfigFileInit PROVE DisarmDated
      OBVIOUS
    <2>1. files[Gated].enabled
      BY ConfigFileAssumption DEF ConfigFileInit
    <2>2. cache = <<>> /\ reading = Nothing /\ disarmedAt = Nothing
      BY DEF ConfigFileInit
    <2>3. <<>> \in Seq({0}) /\ DOMAIN <<>> = {}
      OBVIOUS
    <2> QED
      BY <2>1, <2>2, <2>3 DEF DisarmDated
  <1>2. SwitchTypeOK /\ DisarmDated => DisarmExpires
    <2> SUFFICES ASSUME SwitchTypeOK, DisarmDated, FALSE \in Answers
                 PROVE  disarmedAt # Nothing /\ clock - disarmedAt < ArmedTTL
      BY DEF DisarmExpires
    <2>1. PICK i \in DOMAIN cache : ~cache[i].armed /\ clock - cache[i].at < ArmedTTL
      BY DEF Answers, CacheHit
    <2> QED
      BY <2>1, ConfigFileAssumption DEF SwitchTypeOK, DisarmDated
  <1> QED
    BY <1>1, <1>2, SwitchInitTyped, SwitchTypes, DatesKept, PTL DEF ConfigFileSpec
-----------------------------------------------------------------------------
(* A queue that was sent the last armed event holds it, the last of its    *)
(* kind, until the tab has seen it.                                        *)
Event == [kind : {"armed", "end", "scan_result"}, armed : BOOLEAN]
LastArmed(q, i) == q[i].kind = "armed" /\ \A j \in DOMAIN q : j > i => q[j].kind # "armed"

StreamTypeOK ==
  /\ stream \in [Tabs -> {"closed", "reserved", "open", "ended", "idleReserved", "idle"}]
  /\ subscribers \subseteq Tabs
  /\ queue \in [Tabs -> Seq(Event)]
  /\ \A t \in Tabs : Len(queue[t]) <= StreamCap
  /\ seen \in [Tabs -> BOOLEAN \cup {Nothing}]
  /\ down \in BOOLEAN

LastFlipQueued ==
  \A t \in subscribers \ missed :
    /\ \A i \in DOMAIN queue[t] : LastArmed(queue[t], i) => queue[t][i].armed = sent
    /\ seen[t] # Nothing /\ (\A i \in DOMAIN queue[t] : queue[t][i].kind # "armed") => seen[t] = sent

(* A live response that is no subscriber any more has its sentinel.        *)
LiveHear ==
  /\ down => subscribers = {}
  /\ \A t \in Tabs : stream[t] \in {"reserved", "open"} =>
       t \in subscribers \/ (down /\ \E i \in DOMAIN queue[t] : queue[t][i] = Sentinel)

StreamsIInv == StreamTypeOK /\ LastFlipQueued /\ LiveHear

-----------------------------------------------------------------------------
LEMMA EventsTyped ==
  /\ Sentinel \in Event /\ Sentinel.kind = "end"
  /\ ScanEvent \in Event /\ ScanEvent.kind = "scan_result"
  /\ \A armed \in BOOLEAN : /\ ArmedEvent(armed) \in Event /\ ArmedEvent(armed).kind = "armed"
                            /\ ArmedEvent(armed).armed = armed
  BY DEF Event, Sentinel, ScanEvent, ArmedEvent

(* Appending an event.                                                     *)
LEMMA AppendedLast ==
  ASSUME NEW q \in Seq(Event), NEW e \in Event
  PROVE  /\ Append(q, e) \in Seq(Event) /\ DOMAIN Append(q, e) = 1 .. Len(q) + 1
         /\ Append(q, e)[Len(q) + 1] = e
         /\ \A i \in DOMAIN q : i \in DOMAIN Append(q, e) /\ Append(q, e)[i] = q[i]
         /\ \A i \in DOMAIN Append(q, e) : i \in DOMAIN q \/ i = Len(q) + 1
         /\ \A i \in DOMAIN q : i < Len(q) + 1
  OBVIOUS

(* One that is not armed changes nothing about the last armed event.       *)
LEMMA AppendOther ==
  ASSUME NEW q \in Seq(Event), NEW e \in Event, e.kind # "armed"
  PROVE  /\ \A i \in DOMAIN Append(q, e) :
              LastArmed(Append(q, e), i) =>
                i \in DOMAIN q /\ LastArmed(q, i) /\ Append(q, e)[i] = q[i]
         /\ (\A i \in DOMAIN Append(q, e) : Append(q, e)[i].kind # "armed") =>
              \A i \in DOMAIN q : q[i].kind # "armed"
  BY AppendedLast DEF LastArmed

LEMMA AppendFlip ==
  ASSUME NEW q \in Seq(Event), NEW e \in Event, e.kind = "armed"
  PROVE  /\ \A i \in DOMAIN Append(q, e) : LastArmed(Append(q, e), i) => Append(q, e)[i] = e
         /\ \E i \in DOMAIN Append(q, e) : Append(q, e)[i].kind = "armed"
  <1>1. Len(q) + 1 \in DOMAIN Append(q, e)
    BY AppendedLast
  <1> QED
    BY <1>1, AppendedLast DEF LastArmed

LEMMA BroadcastTyped ==
  ASSUME StreamTypeOK, NEW e \in Event
  PROVE  /\ Broadcast(e) \in [Tabs -> Seq(Event)]
         /\ \A t \in Tabs : Len(Broadcast(e)[t]) <= StreamCap
         /\ \A t \in subscribers : \/ Broadcast(e)[t] = Append(queue[t], e)
                                   \/ Broadcast(e)[t] = queue[t] /\ Len(queue[t]) = StreamCap
         /\ \A t \in Tabs \ subscribers : Broadcast(e)[t] = queue[t]
  <1> SUFFICES ASSUME NEW t \in Tabs
               PROVE  /\ Broadcast(e)[t] \in Seq(Event) /\ Len(Broadcast(e)[t]) <= StreamCap
                      /\ \/ t \in subscribers /\ Broadcast(e)[t] = Append(queue[t], e)
                         \/ Broadcast(e)[t] = queue[t] /\ (t \in subscribers => Len(queue[t]) = StreamCap)
    BY DEF Broadcast, StreamTypeOK
  <1>1. queue[t] \in Seq(Event) /\ Len(queue[t]) <= StreamCap /\ Len(queue[t]) \in Nat
    BY DEF StreamTypeOK
  <1>2. Append(queue[t], e) \in Seq(Event) /\ Len(Append(queue[t], e)) = Len(queue[t]) + 1
    BY <1>1
  <1>3. CASE t \in subscribers /\ Len(queue[t]) < StreamCap
    BY <1>1, <1>2, <1>3, EventStreamsAssumption DEF Broadcast
  <1>4. CASE ~(t \in subscribers /\ Len(queue[t]) < StreamCap)
    BY <1>1, <1>4, EventStreamsAssumption DEF Broadcast
  <1> QED
    BY <1>3, <1>4

(* An armed event reaches every subscriber, or the tab has missed it.      *)
LEMMA FlipKeeps ==
  ASSUME StreamsIInv, NEW armed \in BOOLEAN, BroadcastArmed(armed), sent' = armed
  PROVE  StreamsIInv'
  <1> DEFINE e == ArmedEvent(armed)
  <1>1. e \in Event /\ e.kind = "armed" /\ e.armed = armed
    BY EventsTyped
  <1>2. /\ queue' = Broadcast(e) /\ missed' = {t \in subscribers : Len(queue[t]) = StreamCap}
        /\ UNCHANGED <<stream, subscribers, idleCount, seen, down>>
    BY DEF BroadcastArmed
  <1> HIDE DEF e
  <1>3. StreamTypeOK'
    BY <1>1, <1>2, BroadcastTyped DEF StreamsIInv, StreamTypeOK
  <1>4. \A t \in subscribers \ missed' : queue'[t] = Append(queue[t], e) /\ queue[t] \in Seq(Event)
    BY <1>1, <1>2, BroadcastTyped DEF StreamsIInv, StreamTypeOK
  <1>5. ASSUME NEW t \in subscribers \ missed'
        PROVE  /\ \A i \in DOMAIN queue'[t] : LastArmed(queue'[t], i) => queue'[t][i].armed = sent'
               /\ \E i \in DOMAIN queue'[t] : queue'[t][i].kind = "armed"
    <2>1. queue'[t] = Append(queue[t], e) /\ queue[t] \in Seq(Event) /\ sent' = e.armed
      BY <1>1, <1>4, <1>5
    <2>2. /\ \A i \in DOMAIN queue'[t] : LastArmed(queue'[t], i) => queue'[t][i] = e
          /\ \E i \in DOMAIN queue'[t] : queue'[t][i].kind = "armed"
      BY <1>1, <2>1, AppendFlip
    <2> QED
      BY <2>1, <2>2
  <1>6. LastFlipQueued'
    BY <1>2, <1>5 DEF LastFlipQueued
  <1>7. LiveHear'
    BY <1>1, <1>2, BroadcastTyped DEF StreamsIInv, StreamTypeOK, LiveHear
  <1> QED
    BY <1>3, <1>6, <1>7 DEF StreamsIInv

LEMMA ScanKeeps ==
  ASSUME StreamsIInv, BroadcastScan, UNCHANGED sent
  PROVE  StreamsIInv'
  <1> DEFINE e == ScanEvent
  <1>1. e \in Event /\ e.kind # "armed"
    BY EventsTyped
  <1>2. queue' = Broadcast(e) /\ UNCHANGED <<stream, subscribers, idleCount, seen, missed, down>>
    BY DEF BroadcastScan
  <1> HIDE DEF e
  <1>3. StreamTypeOK'
    BY <1>1, <1>2, BroadcastTyped DEF StreamsIInv, StreamTypeOK
  <1>4. ASSUME NEW t \in subscribers \ missed
        PROVE  /\ \A i \in DOMAIN queue'[t] : LastArmed(queue'[t], i) => queue'[t][i].armed = sent
               /\ seen[t] # Nothing /\ (\A i \in DOMAIN queue'[t] : queue'[t][i].kind # "armed") =>
                    seen[t] = sent
    <2>1. queue[t] \in Seq(Event) /\ queue'[t] \in {queue[t], Append(queue[t], e)}
      BY <1>1, <1>2, <1>4, BroadcastTyped DEF StreamsIInv, StreamTypeOK
    <2>2. CASE queue'[t] = queue[t]
      BY <2>2 DEF StreamsIInv, LastFlipQueued
    <2>3. CASE queue'[t] = Append(queue[t], e)
      BY <1>1, <2>1, <2>3, AppendOther DEF StreamsIInv, LastFlipQueued
    <2> QED
      BY <2>1, <2>2, <2>3
  <1>5. LastFlipQueued'
    BY <1>2, <1>4 DEF LastFlipQueued
  <1>6. LiveHear'
    BY <1>1, <1>2, BroadcastTyped DEF StreamsIInv, StreamTypeOK, LiveHear
  <1> QED
    BY <1>3, <1>5, <1>6 DEF StreamsIInv

LEMMA ShutdownKeeps ==
  ASSUME StreamsIInv, Shutdown, UNCHANGED sent
  PROVE  StreamsIInv'
  <1>1. /\ down' = TRUE /\ subscribers' = {} /\ UNCHANGED <<stream, idleCount, seen, missed>>
        /\ ~down
    BY DEF Shutdown
  <1>2. ASSUME NEW t \in Tabs
        PROVE  /\ queue'[t] \in Seq(Event) /\ Len(queue'[t]) <= StreamCap
               /\ t \in subscribers => \E i \in DOMAIN queue'[t] : queue'[t][i] = Sentinel
    <2>1. queue[t] \in Seq(Event) /\ Len(queue[t]) <= StreamCap /\ Len(queue[t]) \in Nat
      BY DEF StreamsIInv, StreamTypeOK
    <2>2. CASE t \notin subscribers
      BY <2>1, <2>2 DEF Shutdown
    <2>3. CASE t \in subscribers /\ Len(queue[t]) < StreamCap
      <3>1. queue'[t] = Append(queue[t], Sentinel)
        BY <2>3 DEF Shutdown
      <3>2. queue'[t] \in Seq(Event) /\ Len(queue'[t]) = Len(queue[t]) + 1
        BY <2>1, <3>1, EventsTyped
      <3>3. Len(queue[t]) + 1 \in DOMAIN queue'[t] /\ queue'[t][Len(queue[t]) + 1] = Sentinel
        BY <2>1, <3>1, EventsTyped, AppendedLast
      <3> QED
        BY <2>1, <2>3, <3>2, <3>3, EventStreamsAssumption
    <2>4. CASE t \in subscribers /\ ~(Len(queue[t]) < StreamCap)
      <3>1. queue'[t] = <<Sentinel>>
        BY <2>4 DEF Shutdown
      <3>2. queue'[t] \in Seq(Event) /\ Len(queue'[t]) = 1 /\ queue'[t][1] = Sentinel
        BY <3>1, EventsTyped
      <3>3. 1 \in DOMAIN queue'[t]
        BY <3>2
      <3> QED
        BY <3>2, <3>3, EventStreamsAssumption
    <2> QED
      BY <2>2, <2>3, <2>4
  <1>3. queue' = [t \in Tabs |-> queue'[t]]
    BY DEF Shutdown
  <1>4. StreamTypeOK'
    BY <1>1, <1>2, <1>3 DEF StreamsIInv, StreamTypeOK
  <1>5. LastFlipQueued' /\ LiveHear'
    BY <1>1, <1>2 DEF StreamsIInv, LastFlipQueued, LiveHear
  <1> QED
    BY <1>4, <1>5 DEF StreamsIInv

(* What is left of a queue after its head.                                 *)
LEMMA TailOfQueue ==
  ASSUME NEW q \in Seq(Event), q # <<>>
  PROVE  /\ Tail(q) \in Seq(Event) /\ Len(Tail(q)) <= Len(q) /\ Head(q) \in Event
         /\ \A i \in DOMAIN Tail(q) : /\ i + 1 \in DOMAIN q /\ Tail(q)[i] = q[i + 1]
                                     /\ LastArmed(Tail(q), i) => LastArmed(q, i + 1)
         /\ Head(q).kind = "armed" /\ (\A i \in DOMAIN Tail(q) : Tail(q)[i].kind # "armed") =>
              1 \in DOMAIN q /\ q[1] = Head(q) /\ LastArmed(q, 1)
         /\ Head(q).kind # "armed" /\ (\A i \in DOMAIN Tail(q) : Tail(q)[i].kind # "armed") =>
              \A i \in DOMAIN q : q[i].kind # "armed"
         /\ Head(q) # Sentinel /\ (\E i \in DOMAIN q : q[i] = Sentinel) =>
              \E i \in DOMAIN Tail(q) : Tail(q)[i] = Sentinel
  <1>1. /\ Tail(q) \in Seq(Event) /\ Len(Tail(q)) = Len(q) - 1 /\ Head(q) \in Event
        /\ Head(q) = q[1] /\ Len(q) \in Nat \ {0} /\ DOMAIN q = 1 .. Len(q)
        /\ DOMAIN Tail(q) = 1 .. Len(q) - 1
        /\ \A i \in 1 .. Len(q) - 1 : Tail(q)[i] = q[i + 1]
    OBVIOUS
  <1>2. \A i \in 2 .. Len(q) : i - 1 \in DOMAIN Tail(q) /\ Tail(q)[i - 1] = q[i]
    BY <1>1
  <1>3. \A i \in DOMAIN Tail(q) : LastArmed(Tail(q), i) => LastArmed(q, i + 1)
    <2> SUFFICES ASSUME NEW i \in DOMAIN Tail(q), LastArmed(Tail(q), i)
                 PROVE  LastArmed(q, i + 1)
      OBVIOUS
    <2>1. q[i + 1].kind = "armed"
      BY <1>1 DEF LastArmed
    <2>2. ASSUME NEW j \in DOMAIN q, j > i + 1 PROVE q[j].kind # "armed"
      <3>1. j \in 2 .. Len(q) /\ j - 1 > i
        BY <1>1, <2>2
      <3> QED
        BY <1>2, <3>1 DEF LastArmed
    <2> QED
      BY <2>1, <2>2 DEF LastArmed
  <1>4. \A i \in DOMAIN q : i = 1 \/ i \in 2 .. Len(q)
    BY <1>1
  <1>5. (\A i \in DOMAIN Tail(q) : Tail(q)[i].kind # "armed") =>
          \A i \in 2 .. Len(q) : q[i].kind # "armed"
    BY <1>2
  <1>6. \A j \in DOMAIN q : j > 1 => j \in 2 .. Len(q)
    BY <1>1
  <1>7. Head(q).kind = "armed" /\ (\A i \in DOMAIN Tail(q) : Tail(q)[i].kind # "armed") =>
          LastArmed(q, 1)
    BY <1>1, <1>5, <1>6 DEF LastArmed
  <1>8. Head(q) # Sentinel /\ (\E i \in DOMAIN q : q[i] = Sentinel) =>
          \E i \in DOMAIN Tail(q) : Tail(q)[i] = Sentinel
    BY <1>1, <1>2, <1>4
  <1> QED
    BY <1>1, <1>3, <1>4, <1>5, <1>7, <1>8

LEMMA PullKeeps ==
  ASSUME StreamsIInv, NEW t \in Tabs, Pull(t), UNCHANGED sent
  PROVE  StreamsIInv'
  <1> DEFINE q == queue[t]
             e == Head(q)
  <1>1. /\ stream[t] = "open" /\ q # <<>> /\ queue' = [queue EXCEPT ![t] = Tail(q)]
        /\ UNCHANGED <<idleCount, down, missed>>
    BY DEF Pull, StreamsIInv, StreamTypeOK
  <1>2. q \in Seq(Event) /\ Len(q) <= StreamCap
    BY DEF StreamsIInv, StreamTypeOK
  <1>3. /\ queue' \in [Tabs -> Seq(Event)] /\ queue'[t] = Tail(q)
        /\ \A u \in Tabs : u # t => queue'[u] = queue[u]
    BY <1>1, <1>2, TailOfQueue DEF StreamsIInv, StreamTypeOK
  <1>4. Len(Tail(q)) <= StreamCap /\ e \in Event
    BY <1>1, <1>2, TailOfQueue, EventStreamsAssumption
  <1> HIDE DEF q, e
  <1>5. CASE e = Sentinel
    <2>1. /\ stream' = [stream EXCEPT ![t] = "ended"] /\ subscribers' = subscribers \ {t}
          /\ UNCHANGED seen
      BY <1>5 DEF Pull, e, q
    <2>2. StreamTypeOK'
      BY <1>1, <1>3, <1>4, <2>1 DEF StreamsIInv, StreamTypeOK
    <2>3. LastFlipQueued'
      BY <1>1, <1>3, <2>1 DEF StreamsIInv, StreamTypeOK, LastFlipQueued
    <2>4. LiveHear'
      BY <1>1, <1>3, <2>1 DEF StreamsIInv, StreamTypeOK, LiveHear
    <2> QED
      BY <2>2, <2>3, <2>4 DEF StreamsIInv
  <1>6. CASE e # Sentinel
    <2>1. /\ seen' = IF e.kind = "armed" THEN [seen EXCEPT ![t] = e.armed] ELSE seen
          /\ UNCHANGED <<stream, subscribers>>
      BY <1>6 DEF Pull, e, q
    <2>2. /\ seen' \in [Tabs -> BOOLEAN \cup {Nothing}]
          /\ seen'[t] = IF e.kind = "armed" THEN e.armed ELSE seen[t]
          /\ \A u \in Tabs : u # t => seen'[u] = seen[u]
      BY <1>4, <2>1 DEF Event, StreamsIInv, StreamTypeOK
    <2>3. StreamTypeOK'
      BY <1>1, <1>3, <1>4, <2>1, <2>2 DEF StreamsIInv, StreamTypeOK
    <2>4. ASSUME t \in subscribers \ missed
          PROVE  /\ \A i \in DOMAIN Tail(q) : LastArmed(Tail(q), i) => Tail(q)[i].armed = sent
                 /\ seen'[t] # Nothing /\ (\A i \in DOMAIN Tail(q) : Tail(q)[i].kind # "armed") =>
                      seen'[t] = sent
      <3>1. /\ \A i \in DOMAIN q : LastArmed(q, i) => q[i].armed = sent
            /\ seen[t] # Nothing /\ (\A i \in DOMAIN q : q[i].kind # "armed") => seen[t] = sent
        BY <2>4 DEF StreamsIInv, LastFlipQueued, q
      <3>2. \A i \in DOMAIN Tail(q) : LastArmed(Tail(q), i) => Tail(q)[i].armed = sent
        BY <1>1, <1>2, <3>1, TailOfQueue
      <3>3. CASE e.kind = "armed"
        BY <1>1, <1>2, <2>2, <3>1, <3>2, <3>3, TailOfQueue DEF e
      <3>4. CASE e.kind # "armed"
        BY <1>1, <1>2, <2>2, <3>1, <3>2, <3>4, TailOfQueue DEF e
      <3> QED
        BY <3>3, <3>4
    <2>5. LastFlipQueued'
      BY <1>1, <1>3, <2>1, <2>2, <2>4 DEF StreamsIInv, StreamTypeOK, LastFlipQueued
    <2>6. t \in subscribers \/ (down /\ \E i \in DOMAIN Tail(q) : Tail(q)[i] = Sentinel)
      BY <1>1, <1>2, <1>6, TailOfQueue DEF StreamsIInv, LiveHear, q, e
    <2>7. LiveHear'
      BY <1>1, <1>3, <2>1, <2>6 DEF StreamsIInv, LiveHear
    <2> QED
      BY <2>3, <2>5, <2>7 DEF StreamsIInv
  <1> QED
    BY <1>5, <1>6

LEMMA StreamsStep ==
  ASSUME StreamsIInv, StreamsNext, UNCHANGED sent
  PROVE  StreamsIInv'
  <1> USE DEF StreamsIInv, StreamTypeOK, LastFlipQueued, LiveHear
  <1>0. <<>> \in Seq(Event) /\ Len(<<>>) = 0 /\ DOMAIN <<>> = {}
    OBVIOUS
  <1>1. ASSUME NEW t \in Tabs, Connect(t) PROVE StreamsIInv'
    BY <1>0, <1>1, EventStreamsAssumption DEF Connect
  <1>2. ASSUME NEW t \in Tabs, ConnectIdle(t) PROVE StreamsIInv'
    BY <1>2 DEF ConnectIdle
  <1>3. ASSUME NEW t \in Tabs, Start(t) PROVE StreamsIInv'
    BY <1>3 DEF Start
  <1>4. ASSUME NEW t \in Tabs, Teardown(t) PROVE StreamsIInv'
    BY <1>0, <1>4, EventStreamsAssumption DEF Teardown
  <1> QED
    BY <1>1, <1>2, <1>3, <1>4, PullKeeps, ShutdownKeeps, ScanKeeps DEF StreamsNext

(* StreamsKeepUp for any tabs and queues, any flips, scans and rows, and   *)
(* any order of connecting, pulling, leaving and shutting down             *)
(* (server.py:2300-2308, _sse.py:73-87).                                   *)
THEOREM StreamsAreCurrent == ConfigFileSpec => []StreamsKeepUp
  <1>1. ConfigFileInit => StreamsIInv
    <2> SUFFICES ASSUME StreamsInit PROVE StreamsIInv
      BY DEF ConfigFileInit
    <2>1. <<>> \in Seq(Event) /\ Len(<<>>) = 0
      OBVIOUS
    <2>2. queue \in [Tabs -> Seq(Event)] /\ \A t \in Tabs : Len(queue[t]) <= StreamCap
      BY <2>1, EventStreamsAssumption DEF StreamsInit
    <2>3. StreamTypeOK
      BY <2>2 DEF StreamsInit, StreamTypeOK
    <2>4. LastFlipQueued /\ LiveHear
      BY DEF StreamsInit, LastFlipQueued, LiveHear
    <2> QED
      BY <2>3, <2>4 DEF StreamsIInv
  <1>2. ASSUME SwitchTypeOK, StreamsIInv, [ConfigFileNext]_switchVars PROVE StreamsIInv'
    <2>1. CASE UNCHANGED <<sent, streamVars>>
      <3>1. StreamTypeOK' /\ LiveHear'
        BY <1>2, <2>1 DEF streamVars, StreamsIInv, StreamTypeOK, LiveHear
      <3>2. LastFlipQueued'
        BY <1>2, <2>1 DEF streamVars, StreamsIInv, LastFlipQueued
      <3> QED
        BY <3>1, <3>2 DEF StreamsIInv
    <2>2. ASSUME NEW c \in Consoles, Announce(c) PROVE StreamsIInv'
      <3>1. CASE c = Main
        <4>1. job[c] \in ArmJob
          BY <1>2, <2>2 DEF Announce, SwitchTypeOK, Jobs, ReadJob, ReplaceJob
        <4>2. job[c].enabled \in BOOLEAN /\ sent' = job[c].enabled /\ BroadcastArmed(job[c].enabled)
          BY <2>2, <3>1, <4>1 DEF Announce, ArmJob
        <4> QED
          BY <1>2, <4>2, FlipKeeps
      <3>2. CASE c # Main
        BY <2>1, <2>2, <3>2 DEF Announce
      <3> QED
        BY <3>1, <3>2
    <2>3. ASSUME NEW c \in Consoles, Handlers(c), ~Announce(c) PROVE UNCHANGED <<sent, streamVars>>
      BY <2>3 DEF Handlers, BeginArm, ArmReplaces, ArmFails, BeginSave, BeginStage, PersistReads,
                  PersistReplaces, PersistFails
    <2>4. CASE StatGated \/ ParseGated \/ Tick
      BY <2>1, <2>4 DEF StatGated, ParseGated, Tick, consoleVars
    <2>5. CASE Outside
      BY <1>2, <2>1, <2>5, OutsideTyped DEF consoleVars
    <2>6. CASE Streams
      BY <1>2, <2>6, StreamsStep DEF Streams, consoleVars
    <2>7. CASE UNCHANGED switchVars
      BY <2>1, <2>7 DEF switchVars, consoleVars
    <2> QED
      BY <1>2, <2>1, <2>2, <2>3, <2>4, <2>5, <2>6, <2>7 DEF ConfigFileNext
  <1>3. StreamsIInv => StreamsKeepUp
    BY DEF StreamsIInv, LastFlipQueued, LiveHear, StreamsKeepUp, TabsFollowTheFile, ShutdownEnds
  <1> QED
    BY <1>1, <1>2, <1>3, SwitchInitTyped, SwitchTypes, PTL DEF ConfigFileSpec
=============================================================================
