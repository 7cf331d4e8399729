------------------------------ MODULE ScanHistory ------------------------------
(***************************************************************************)
(* What a console keeps of the scans and enforcement rows it has seen: the *)
(* ring and the counters in memory, the history sink with its one rotated  *)
(* segment on disk, and the pages it serves from them (console/server.py,  *)
(* _history.py, _ring_buffer.py).                                          *)
(*                                                                         *)
(* The handlers run on one event loop and do not suspend between reading   *)
(* the spool and rotating the sink, so a drain is one step here; Spool is  *)
(* about its steps.  The gateway, the disk and a restart interleave.       *)
(***************************************************************************)
EXTENDS Values, ScanDetail

CONSTANTS
  GatewayRows,   \* the records the gateway may append to the spool
  PlayRows,      \* the playground scans an operator may run
  KeyOn,         \* a session secret is configured
  RingCap, SinkCap, SpoolCap, TallyCap,
  ReadCap,       \* _FOREIGN_SPOOL_READ_CAP, in lines
  MaxUpsets      \* bound on restarts, refused writes and rotations, and disturbed files

RowFields ==
  {"id", "at", "event", "session", "phase", "choice", "prompt", "smart", "rule", "count", "sig",
   "provenance", "safe", "findings", "kept", "text", "item"}

(* What every reader of the history orders and matches rows by.            *)
Keyed(r) == RowFields \subseteq DOMAIN r /\ r.id \in Nat /\ r.at \in Nat

(* A scan_id is a fresh uuid; the row of a playground scan is no approval. *)
ASSUME HistoryAssumption ==
  /\ \A r \in GatewayRows \cup PlayRows : Keyed(r)
  /\ \A r, q \in GatewayRows \cup PlayRows : r.id = q.id => r = q
  /\ \A r \in PlayRows : r.event # "approval"
  /\ {RingCap, SinkCap, ReadCap} \subseteq Nat
  /\ None \notin Nat \cup [scope : {"own"}, at : Nat, id : Nat]

VARIABLES
  spool,     \* the enforcement spool: [lines, drained], drained a line count
  console,   \* the memory of ConsoleHandlers
  sink,      \* the history sink: [live, rot]
  written,   \* the records appended or run so far
  upsets     \* the upsets so far

historyVars == <<spool, console, sink, written, upsets>>

(* One more upset for each of these that went wrong.                       *)
Upset(outcomes) ==
  /\ upsets' = upsets + Cardinality({i \in DOMAIN outcomes : ~outcomes[i]})
  /\ upsets' <= MaxUpsets

BlockEvents  == {"block", "quarantine", "tier3"}
IngestEvents == {"ingest_flagged", "ingest_unscanned"}

(* (timestamp, scan_id), the order of every page.                          *)
Older(a, b) == a.at < b.at \/ (a.at = b.at /\ a.id < b.id)
Newer(a, b) == Older(b, a)

(* The members of S in a total order.                                      *)
Ordered(S, before(_, _)) ==
  [i \in 1..Cardinality(S) |-> CHOOSE r \in S : Cardinality({o \in S : before(o, r)}) = i - 1]

-----------------------------------------------------------------------------
(* Surfacing one record.                                                   *)

(* Without a key a row is unattested and trusted; with one, its signature  *)
(* decides.                                                                *)
Provenance(ev) == IF ~KeyOn THEN "unattested"
                  ELSE IF ev.sig = "good" THEN "genuine" ELSE "unverifiable"

Summary(ev, verdict) ==
  [ev EXCEPT !.provenance = verdict,
             !.safe = ev.event \notin BlockEvents,
             !.count = IF ev.event = "bypassed_disarmed" THEN ev.count ELSE 0,
             !.findings = IF ev.event \in BlockEvents \cup IngestEvents THEN 1 ELSE 0]

LastN(s, n) == IF Len(s) <= n THEN s ELSE SubSeq(s, Len(s) - n + 1, Len(s))

(* A per-session count, kept in place for a session already counted; past  *)
(* the cap the session that was counted first is dropped.                  *)
CountOf(tally, sid) == IF \E i \in DOMAIN tally : tally[i].session = sid
                         THEN tally[CHOOSE i \in DOMAIN tally : tally[i].session = sid].n
                         ELSE 0
SetCount(tally, sid, n) ==
  IF \E i \in DOMAIN tally : tally[i].session = sid
    THEN [i \in DOMAIN tally |-> IF tally[i].session = sid THEN [session |-> sid, n |-> n]
                                                            ELSE tally[i]]
    ELSE LastN(Append(tally, [session |-> sid, n |-> n]), TallyCap)

(* _record_scan: ring, total and sink together.  A sink that cannot be     *)
(* written is remembered for good, and stops nothing.                      *)
RecordScan(st, row, writable) ==
  [st EXCEPT !.mem.ring = LastN(Append(@, row), RingCap),
             !.mem.total = @ + 1,
             !.mem.sinkWarned = @ \/ ~writable,
             !.sink.live = IF writable THEN Append(@, [row EXCEPT !.text = 0]) ELSE @]

BumpTally(mem, ev, verdict) ==
  CASE ev.event \in BlockEvents ->
         IF verdict # "unverifiable" /\ ev.session # None
           THEN [mem EXCEPT !.blocks = SetCount(@, ev.session, CountOf(@, ev.session) + 1)]
           ELSE mem
    [] ev.event = "bypassed_disarmed" ->
         IF ev.session # None /\ ev.count > CountOf(mem.bypasses, ev.session)
           THEN [mem EXCEPT !.bypasses = SetCount(@, ev.session, ev.count)]
           ELSE mem
    [] ev.event = "selfmod_attempt" -> [mem EXCEPT !.selfmods = @ + 1]
    [] OTHER -> mem

Surface(st, ev, writable) ==
  LET verdict == Provenance(ev)
      kept == RecordScan(st, Summary(ev, verdict), writable)
  IN  [kept EXCEPT !.mem = BumpTally(@, ev, verdict)]

(* _maybe_rotate_history: the older segment is reclaimed, then the live    *)
(* one renamed; the system may refuse either, and "half" is when it        *)
(* refuses only the second.                                                *)
Rotations == {"done", "refused", "half"}
RotateHistory(s, rotation) ==
  IF Len(s.live) <= SinkCap \/ rotation = "refused" THEN s
  ELSE IF rotation = "half" THEN [s EXCEPT !.rot = <<>>]
  ELSE [live |-> <<>>, rot |-> s.live]

-----------------------------------------------------------------------------
(* Reading.                                                                *)

Retained(s) == s.rot \o s.live

(* The newest n of the rows whose places are in older, by their keys; rows *)
(* of one key stay in their order.                                         *)
Newest(rows, older, n) ==
  LET sooner(i, j) == Newer(rows[i], rows[j]) \/ (~Newer(rows[j], rows[i]) /\ i < j)
      page == Ordered(older, sooner)
  IN  [k \in 1 .. IF Len(page) < n THEN Len(page) ELSE n |-> rows[page[k]]]

(* Mutant: the cursor is compared by its time alone. *)
SinkPageByTime(s, cursor, n) ==
  LET rows == Retained(s)
  IN  Newest(rows, {i \in DOMAIN rows : cursor = None \/ rows[i].at < cursor.at}, n)

(* read_history_page: up to n rows strictly older than the cursor.         *)
SinkPage(s, cursor, n) ==
  LET rows == Retained(s)
  IN  Newest(rows, {i \in DOMAIN rows : cursor = None \/ Older(rows[i], cursor)}, n)

(* _attach_history_provenance: the verdict on a row of the sink is about   *)
(* the sink's own signature, which the console wrote.                      *)
Attached(r) == [r EXCEPT !.provenance = IF KeyOn THEN "genuine" ELSE "unattested"]

(* A token names the scope it was minted under, if the request named one.  *)
MintCursor(row, scope) == [scope |-> scope, at |-> row.at, id |-> row.id]
CursorStatus(token, scope) ==
  IF token = None THEN "ok"
  ELSE IF token.scope # scope THEN "scope_mismatch"
  ELSE IF token.at = None THEN "malformed" ELSE "ok"

Reversed(s) == [i \in DOMAIN s |-> s[Len(s) - i + 1]]

(* get_scan_history under the equipped profile, after its drain.           *)
EquippedPage(token, scope, n) ==
  CASE CursorStatus(token, scope) # "ok" -> <<>>
    [] token = None -> Reversed(LastN(console.ring, n))
    [] OTHER -> LET page == SinkPage(sink, token, n)
                IN  [i \in DOMAIN page |-> Attached(page[i])]

(* A console bound to another profile reads the sink and the tail of the   *)
(* spool, changes neither, and keeps one copy of a row, the sink's first.  *)
(* Its verdict on what it did not surface is "foreign".                    *)
ForeignRows(keepUnverifiable) ==
  LET fromSink == IF Len(sink.live) > ReadCap \/ Len(sink.rot) > ReadCap
                    THEN <<>> ELSE SinkPage(sink, None, Len(Retained(sink)))
      marked == [i \in DOMAIN fromSink |->
                   [fromSink[i] EXCEPT !.provenance =
                      IF keepUnverifiable /\ @ = "unverifiable" THEN @ ELSE "foreign"]]
      tail == LastN(spool.lines, ReadCap)
      all == marked \o [i \in DOMAIN tail |-> Summary(tail[i], "foreign")]
      first == {i \in DOMAIN all : \A j \in 1..i - 1 : all[j].id # all[i].id}
  IN  {all[i] : i \in first}

ForeignTruncated ==
  Len(sink.live) > ReadCap \/ Len(sink.rot) > ReadCap \/ Len(spool.lines) > ReadCap

ForeignPage(token, scope, n) ==
  LET older == {r \in ForeignRows(FALSE) : token = None \/ Older(r, token)}
  IN  IF CursorStatus(token, scope) # "ok" THEN <<>>
      ELSE SubSeq(Ordered(older, Newer), 1,
                  IF Cardinality(older) < n THEN Cardinality(older) ELSE n)

-----------------------------------------------------------------------------
FreshConsole ==
  [ring |-> <<>>, total |-> 0, blocks |-> <<>>, bypasses |-> <<>>, selfmods |-> 0,
   sinkWarned |-> FALSE]

HistoryInit ==
  /\ spool = [lines |-> <<>>, drained |-> 0]
  /\ console = FreshConsole
  /\ sink = [live |-> <<>>, rot |-> <<>>]
  /\ written = {}
  /\ upsets = 0

GatewayEmit(ev) ==
  /\ ev \in GatewayRows \ written
  /\ written' = written \cup {ev}
  /\ spool' = [spool EXCEPT !.lines = Append(@, ev)]
  /\ UNCHANGED <<console, sink, upsets>>

SurfaceAll(st, events, writable) ==
  LET after[n \in 0 .. Len(events)] ==
        IF n = 0 THEN st ELSE Surface(after[n - 1], events[n], writable)
  IN  after[Len(events)]

(* What _drain_enforcement_into_history makes of the memory and the sink;  *)
(* past the cap the spool is rotated, drained and removed, or the rotation *)
(* is refused.                                                             *)
Drained(writable, rotation) ==
  LET new == SubSeq(spool.lines, spool.drained + 1, Len(spool.lines))
      st == SurfaceAll([mem |-> console, sink |-> sink], new, writable)
  IN  [mem |-> st.mem, sink |-> RotateHistory(st.sink, rotation),
       spool |-> IF Len(spool.lines) > SpoolCap /\ rotation = "done"
                   THEN [lines |-> <<>>, drained |-> 0]
                   ELSE [spool EXCEPT !.drained = Len(spool.lines)]]

(* The tailer's drain, and the one before every read.                      *)
Drain(writable, rotation) ==
  LET st == Drained(writable, rotation) IN
  /\ spool.drained < Len(spool.lines)
  /\ console' = st.mem
  /\ sink' = st.sink
  /\ spool' = st.spool
  /\ Upset(<<writable, rotation = "done">>)
  /\ UNCHANGED written

(* What each playground scan keeps of its detail.                          *)
Details == [scan \in PlayRows |-> Detail(scan.scan)]

RunScan(scan, writable, rotation) ==
  LET detail == Details[scan]
      row == [scan EXCEPT !.kept = detail.kept, !.text = detail.text, !.safe = scan.safe]
      st == RecordScan([mem |-> console, sink |-> sink], row, writable)
  IN  /\ scan \in PlayRows \ written
      /\ written' = written \cup {scan}
      /\ console' = st.mem
      /\ sink' = RotateHistory(st.sink, rotation)
      /\ Upset(<<writable, rotation = "done">>)
      /\ UNCHANGED spool

(* Memory is lost; the spool is read again from its first byte.            *)
ConsoleRestart ==
  /\ Upset(<<FALSE>>)
  /\ console' = FreshConsole
  /\ spool' = [spool EXCEPT !.drained = 0]
  /\ UNCHANGED <<sink, written>>
=============================================================================
