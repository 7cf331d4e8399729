------------------------------- MODULE Approvals -------------------------------
(***************************************************************************)
(* The queue of refused approvals and the file of those an operator has    *)
(* reviewed (console/_approvals.py, ConsoleHandlers.mark_approval_reviewed *)
(* and get_refused_approvals).  A mark drains, reads the queue, appends an *)
(* audit row and replaces the file; nothing else runs on the event loop    *)
(* between the last two, but the process may stop there.                   *)
(***************************************************************************)
EXTENDS ScanHistory

CONSTANTS
  CanReview,    \* embedded, or a console token is configured
  QueueCap,     \* _MAX_QUEUE_ITEMS
  MaxAudits,    \* bound on the audit rows
  AuditTime     \* the timestamp of an audit row

ASSUME AuditAssumption == {QueueCap, AuditTime} \subseteq Nat

VARIABLES
  reviewed,     \* the reviewed file: [state, ids]
  marking,      \* the mark between its audit row and its save, or None
  audited       \* the items an audit row was ever appended for

vars == <<historyVars, reviewed, marking, audited>>

RefusalChoices  == {"deny", "timeout", "cancelled", "notify_failed", "smart_deny"}
ApprovalChoices == {"once", "session", "always", "smart_approve"}

-----------------------------------------------------------------------------
(* The queue, from a set of rows with one row per id.                      *)

Approval(rows) == {r \in rows : r.event = "approval"}
Refusal(r) == r.phase = "response" /\ r.choice \in RefusalChoices
TrustedOrNot(rows) == {r \in Approval(rows) : r.phase \in {"request", "response"}}
Trusted(rows) == {r \in Approval(rows) : /\ r.provenance # "unverifiable"
                                         /\ r.phase \in {"request", "response"}}

(* Rows of one prompt belong together; a row without a prompt is alone.    *)
Group(rows, r) == IF r.prompt = None THEN {r} ELSE {o \in Trusted(rows) : o.prompt = r.prompt}

OverrulesBySmart(rows, deny) ==
  {h \in Group(rows, deny) :
     h.phase = "response" /\ h.rule = deny.rule /\ h.at >= deny.at
       /\ h.choice \in RefusalChoices \cup ApprovalChoices}
(* The human answers that may overrule an automatic denial: to the same    *)
(* rule, not before it, with no automatic row strictly between the two.    *)
Overrules(rows, deny) ==
  {h \in Group(rows, deny) \ {deny} :
     /\ h.phase = "response" /\ ~h.smart
     /\ h.rule = deny.rule
     /\ h.choice \in RefusalChoices \cup ApprovalChoices
     /\ h.at >= deny.at
     /\ ~\E o \in Group(rows, deny) : o.smart /\ deny.at < o.at /\ o.at < h.at}

Overruled(rows) ==
  {d \in Trusted(rows) : /\ d.phase = "response" /\ d.choice = "smart_deny" /\ d.smart
                         /\ Overrules(rows, d) # {}}

Items(rows) ==
  ({r \in Trusted(rows) : Refusal(r)} \ Overruled(rows))
    \cup {r \in Approval(rows) : r.provenance = "unverifiable" /\ Refusal(r)}

(* Not reviewed before reviewed before unverifiable, newest first in each. *)
Band(r, ids) == IF r.provenance = "unverifiable" THEN 2 ELSE IF r.id \in ids THEN 1 ELSE 0
Queue(rows, ids) ==
  LET first(a, b) == Band(a, ids) < Band(b, ids) \/ (Band(a, ids) = Band(b, ids) /\ Newer(a, b))
      all == Ordered(Items(rows), first)
  IN  SubSeq(all, 1, IF Len(all) < QueueCap THEN Len(all) ELSE QueueCap)

(* _dedupe_queue_rows: a trusted copy beats an unverifiable one, and the   *)
(* sink's beats the ring's.  A stored verdict "unverifiable" survives the  *)
(* sink's own signature.                                                   *)
QueueCopy(r) == IF r.provenance = "unverifiable" THEN r ELSE Attached(r)
EquippedRows(ring, s, readable) ==
  LET inRing == ToSet(ring)
      inSink == IF readable THEN {QueueCopy(r) : r \in ToSet(Retained(s))} ELSE {}
      trusted(S) == {r \in S : r.provenance # "unverifiable"}
      over(S, T) == S \cup {r \in T : \A o \in S : o.id # r.id}
  IN  over(over(over(trusted(inSink), trusted(inRing)), inRing), inSink)

ItemIds(rows) == {r.id : r \in Items(rows)}

-----------------------------------------------------------------------------
(* The reviewed file.                                                      *)

(* read_reviewed: what cannot be read or does not verify holds nothing.    *)
ReadReviewed == IF reviewed.state = "good" THEN reviewed.ids ELSE {}
MarkRefused == reviewed.state \in {"locked", "newer"}

AuditRow(item) ==
  [item EXCEPT !.id = AuditTime + Cardinality(written), !.at = AuditTime,
               !.event = "approval_reviewed", !.phase = None, !.provenance = None,
               !.sig = "good", !.item = item.id]

BeginMarkUnrecorded(id, writable, rotation, readable) ==
  LET st == Drained(writable, rotation)
      rows == EquippedRows(st.mem.ring, st.sink, readable)
      truncated == ~readable \/ st.mem.sinkWarned
      live == ItemIds(rows)
      kept == IF truncated THEN ReadReviewed ELSE ReadReviewed \cap live
  IN  /\ marking = None
      /\ CanReview /\ ~MarkRefused
      /\ id \notin ReadReviewed
      /\ Cardinality(written \ (GatewayRows \cup PlayRows)) < MaxAudits
      /\ Upset(<<writable, rotation = "done">>)
      /\ id \in live
      /\ console' = st.mem
      /\ sink' = st.sink
      /\ spool' = st.spool
      /\ UNCHANGED <<written, audited>>
      /\ marking' = [ids |-> kept \cup {id}]
      /\ UNCHANGED reviewed

BeginMarkPruning(id, writable, rotation, readable) ==
  LET st == Drained(writable, rotation)
      rows == EquippedRows(st.mem.ring, st.sink, readable)
      item == CHOOSE r \in Items(rows) : r.id = id
      live == ItemIds(rows)
      kept == ReadReviewed \cap live
      audit == AuditRow(item)
  IN  /\ marking = None
      /\ CanReview /\ ~MarkRefused
      /\ id \notin ReadReviewed
      /\ Cardinality(written \ (GatewayRows \cup PlayRows)) < MaxAudits
      /\ Upset(<<writable, rotation = "done">>)
      /\ id \in live
      /\ console' = st.mem
      /\ sink' = st.sink
      /\ spool' = [st.spool EXCEPT !.lines = Append(@, audit)]
      /\ written' = written \cup {audit}
      /\ audited' = audited \cup {id}
      /\ marking' = [ids |-> kept \cup {id}]
      /\ UNCHANGED reviewed

(* mark_approval_reviewed up to its audit row, after the drain.  Nothing   *)
(* is pruned when part of the history could not be read.  A mark that is   *)
(* refused, or whose audit row cannot be appended, is its Drain.           *)
BeginMark(id, writable, rotation, readable) ==
  LET st == Drained(writable, rotation)
      rows == EquippedRows(st.mem.ring, st.sink, readable)
      truncated == ~readable \/ st.mem.sinkWarned
      item == CHOOSE r \in Items(rows) : r.id = id
      live == ItemIds(rows)
      kept == IF truncated THEN ReadReviewed ELSE ReadReviewed \cap live
      audit == AuditRow(item)
  IN  /\ marking = None
      /\ CanReview /\ ~MarkRefused
      /\ id \notin ReadReviewed
      /\ Cardinality(written \ (GatewayRows \cup PlayRows)) < MaxAudits
      /\ Upset(<<writable, rotation = "done">>)
      /\ id \in live
      /\ console' = st.mem
      /\ sink' = st.sink
      /\ spool' = [st.spool EXCEPT !.lines = Append(@, audit)]
      /\ written' = written \cup {audit}
      /\ audited' = audited \cup {id}
      /\ marking' = [ids |-> kept \cup {id}]
      /\ UNCHANGED reviewed

(* write_reviewed replaces the file or leaves it alone.                    *)
SaveMark(ok) ==
  /\ marking # None
  /\ marking' = None
  /\ reviewed' = IF ok THEN [state |-> "good", ids |-> marking.ids] ELSE reviewed
  /\ UNCHANGED <<historyVars, audited>>

(* The file is locked for a while, edited by hand, replaced by one of a    *)
(* newer version, or removed.                                              *)
Disturb(state) ==
  /\ reviewed.state \in {"good", "locked"}
  /\ state # reviewed.state
  /\ reviewed' = [reviewed EXCEPT !.state = state]
  /\ Upset(<<FALSE>>)
  /\ UNCHANGED <<spool, console, sink, written, marking, audited>>

Init ==
  /\ HistoryInit
  /\ reviewed = [state |-> "absent", ids |-> {}]
  /\ marking = None
  /\ audited = {}

Restart ==
  /\ ConsoleRestart
  /\ marking' = None
  /\ UNCHANGED <<reviewed, audited>>

History ==
  /\ UNCHANGED <<reviewed, marking, audited>>
  /\ \/ \E ev \in GatewayRows : GatewayEmit(ev)
     \/ /\ marking = None
        /\ \E writable \in BOOLEAN, rotation \in Rotations :
             \/ Drain(writable, rotation)
             \/ \E scan \in PlayRows : RunScan(scan, writable, rotation)

Next ==
  \/ History
  \/ Restart
  \/ \E id \in {r.id : r \in GatewayRows}, rotation \in Rotations, writable, readable \in BOOLEAN :
       BeginMark(id, writable, rotation, readable)
  \/ \E ok \in BOOLEAN : SaveMark(ok)
  \/ \E state \in {"good", "locked", "bad", "newer"} : Disturb(state)

Spec == Init /\ [][Next]_vars

-----------------------------------------------------------------------------
CurrentRows == EquippedRows(console.ring, sink, TRUE)

(* An item is recorded as reviewed only after its audit row was appended,  *)
(* across failed saves, retries and restarts (server.py:2160-2216).        *)
ReviewedIsAudited == reviewed.ids \subseteq audited

(* A mark on an item that the history still shows is never dropped by a    *)
(* later mark, whatever part of the history that mark could read, unless   *)
(* the file itself was damaged (server.py:2209).                           *)
ReviewSticks ==
  [][\A id \in ReadReviewed \ ReadReviewed' :
       reviewed'.state # "good" \/ id \notin ItemIds(CurrentRows)]_vars

(* A row whose signature does not verify takes no refusal out of the queue *)
(* or past the cap of its list (_approvals.py:253-304).                    *)
ForgedHidesNothing(rows) ==
  LET honest == {r \in rows : r.provenance # "unverifiable"} IN
  /\ Items(honest) \subseteq Items(rows)
  /\ ToSet(Queue(honest, ReadReviewed)) \subseteq ToSet(Queue(rows, ReadReviewed))

(* An automatic denial leaves the queue only when a human answered.        *)
(* Any other refusal stays while its row is retained.                      *)
RefusalsListed(rows) ==
  LET unlisted == {r \in Approval(rows) : Refusal(r)} \ Items(rows) IN
  \A r \in unlisted :
    /\ r.smart
    /\ \E h \in rows : ~h.smart /\ h.prompt = r.prompt /\ h.phase = "response" /\
                       h.provenance # "unverifiable"

(* The queue shows what the operator has yet to see: nothing a forged row  *)
(* could take away, and no refusal that no human answered                  *)
(* (_approvals.py:190-308).                                                *)
QueueIsHonest == \A rows \in {CurrentRows} : ForgedHidesNothing(rows) /\ RefusalsListed(rows)

(* Following the cursors of the pages, from above the newest row, visits   *)
(* every row retained, for the console that owns the history and for one   *)
(* that is bound to another profile (get_scan_history, read_history_page). *)
Key(r) == [at |-> r.at, id |-> r.id]
Keys(rows) == {Key(r) : r \in rows}
Above(rows) == [at |-> 1 + Max({0} \cup {r.at : r \in rows}), id |-> 0]

(* The pages are a function of the cursor.                                 *)
Walk(page, rows) ==
  LET turned[n \in 0 .. Cardinality(rows)] ==
        IF n = 0 THEN [cursor |-> Above(rows), seen |-> {}]
        ELSE LET before == turned[n - 1]
                 shown  == page[before.cursor]
             IN  IF shown = <<>> THEN before
                 ELSE [cursor |-> Key(Last(shown)), seen |-> before.seen \cup {r.id : r \in ToSet(shown)}]
  IN  turned[Cardinality(rows)].seen

WalkIsComplete(rows, Page(_)) ==
  Walk([k \in Keys(rows) \cup {Above(rows)} |-> Page(MintCursor(k, "own"))], rows) = {r.id : r \in rows}

PagesComplete ==
  \A n \in 1..2 :
    /\ WalkIsComplete(ToSet(Retained(sink)), LAMBDA token : EquippedPage(token, "own", n))
    /\ WalkIsComplete(ForeignRows(FALSE), LAMBDA token : ForeignPage(token, "own", n))

(* Another profile's console sees every row that is in the spool and, of   *)
(* those this console holds, the newest that a full segment has room for,  *)
(* unless a file is over its cap or the sink refused a row, and calls none *)
(* of them genuine (server.py:1878-1924).                                  *)
ForeignSeesAll ==
  /\ ForeignTruncated \/ console.sinkWarned
       \/ {r.id : r \in ToSet(spool.lines) \cup ToSet(LastN(console.ring, SinkCap + 1))}
            \subseteq {r.id : r \in ForeignRows(FALSE)}
  /\ \A keep \in BOOLEAN : \A r \in ForeignRows(keep) : r.provenance \in {"foreign", "unverifiable"}

(* What each reader is shown of the history is whole.                      *)
HistoryComplete == PagesComplete /\ ForeignSeesAll
=============================================================================
