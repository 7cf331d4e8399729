----------------------------- MODULE EventStreams -----------------------------
(***************************************************************************)
(* The event streams of a console (_sse.py, _sse_route.py): one bounded    *)
(* queue for every subscribed tab, a bound on the subscribers and one of   *)
(* the same size on the idle streams of tabs that look at another profile. *)
(* A slot is reserved before the response exists and released when the     *)
(* response is torn down, whether its body was ever started or not.        *)
(***************************************************************************)
EXTENDS Integers, Sequences, FiniteSets

CONSTANTS
  Nothing,         \* no value, and no event
  Tabs,
  MaxSubscribers,  \* bound on the subscribers, and on the idle streams
  StreamCap        \* maxsize of a queue

ASSUME EventStreamsAssumption == StreamCap \in Nat \ {0} /\ Nothing \notin BOOLEAN

VARIABLES
  stream,       \* [Tabs -> state of the tab's response]
  subscribers,  \* the tabs whose queue is in SSEBroadcaster._subscribers
  queue,
  idleCount,    \* _idle_stream_count
  seen,         \* the bit in the last armed event a tab was sent
  missed,       \* the tabs that did not get the last armed event
  down          \* the shutdown hook has run

streamVars == <<stream, subscribers, queue, idleCount, seen, missed, down>>

IdleLive == {"idleReserved", "idle"}
Sentinel == [kind |-> "end", armed |-> FALSE]
ArmedEvent(armed) == [kind |-> "armed", armed |-> armed]
ScanEvent == [kind |-> "scan_result", armed |-> FALSE]

StreamsInit ==
  /\ stream = [t \in Tabs |-> "closed"]
  /\ subscribers = {}
  /\ queue = [t \in Tabs |-> <<>>]
  /\ idleCount = 0
  /\ seen = [t \in Tabs |-> Nothing]
  /\ missed = {}
  /\ down = FALSE

(* events_response: check and reservation are one step of the event loop.  *)
Connect(t) ==
  /\ stream[t] = "closed" /\ ~down
  /\ Cardinality(subscribers) < MaxSubscribers
  /\ stream' = [stream EXCEPT ![t] = "reserved"]
  /\ subscribers' = subscribers \cup {t}
  /\ queue' = [queue EXCEPT ![t] = <<>>]
  /\ seen' = [seen EXCEPT ![t] = Nothing]
  /\ missed' = missed \ {t}
  /\ UNCHANGED <<idleCount, down>>

ConnectIdle(t) ==
  /\ stream[t] = "closed" /\ ~down
  /\ idleCount < MaxSubscribers
  /\ stream' = [stream EXCEPT ![t] = "idleReserved"]
  /\ idleCount' = idleCount + 1
  /\ UNCHANGED <<subscribers, queue, seen, missed, down>>

(* The first pull of the body.                                             *)
Start(t) ==
  /\ stream[t] \in {"reserved", "idleReserved"}
  /\ stream' = [stream EXCEPT ![t] = IF @ = "reserved" THEN "open" ELSE "idle"]
  /\ UNCHANGED <<subscribers, queue, idleCount, seen, missed, down>>

(* The generator yields the next event, or returns at the sentinel, where  *)
(* its finally unsubscribes.                                               *)
Pull(t) ==
  /\ stream[t] = "open"
  /\ queue[t] # <<>>
  /\ queue' = [queue EXCEPT ![t] = Tail(@)]
  /\ IF Head(queue[t]) = Sentinel
       THEN /\ stream' = [stream EXCEPT ![t] = "ended"]
            /\ subscribers' = subscribers \ {t}
            /\ UNCHANGED seen
       ELSE /\ seen' = IF Head(queue[t]).kind = "armed"
                        THEN [seen EXCEPT ![t] = Head(queue[t]).armed] ELSE seen
            /\ UNCHANGED <<stream, subscribers>>
  /\ UNCHANGED <<idleCount, down, missed>>

(* The client went away, or the body ended: the lease is released.         *)
Teardown(t) ==
  /\ stream[t] # "closed"
  /\ stream' = [stream EXCEPT ![t] = "closed"]
  /\ subscribers' = subscribers \ {t}
  /\ idleCount' = IF stream[t] \in IdleLive THEN idleCount - 1 ELSE idleCount
  /\ queue' = [queue EXCEPT ![t] = <<>>]
  /\ seen' = [seen EXCEPT ![t] = Nothing]
  /\ UNCHANGED <<missed, down>>

(* broadcast: a full queue drops the event for its tab alone.              *)
Broadcast(event) ==
  [t \in Tabs |-> IF t \in subscribers /\ Len(queue[t]) < StreamCap
                    THEN Append(queue[t], event) ELSE queue[t]]

BroadcastArmed(armed) ==
  /\ queue' = Broadcast(ArmedEvent(armed))
  /\ missed' = {t \in subscribers : Len(queue[t]) = StreamCap}
  /\ UNCHANGED <<stream, subscribers, idleCount, seen, down>>

(* A row was surfaced; its event takes room in the queues.                 *)
BroadcastScan ==
  /\ subscribers # {}
  /\ queue' = Broadcast(ScanEvent)
  /\ UNCHANGED <<stream, subscribers, idleCount, seen, missed, down>>

ShutdownPolite ==
  /\ ~down
  /\ down' = TRUE
  /\ queue' = Broadcast(Sentinel)
  /\ subscribers' = {}
  /\ UNCHANGED <<stream, idleCount, seen, missed>>

(* The shutdown hook: a queue that is full is emptied for the sentinel.    *)
Shutdown ==
  /\ ~down
  /\ down' = TRUE
  /\ queue' = [t \in Tabs |-> IF t \notin subscribers THEN queue[t]
                              ELSE IF Len(queue[t]) < StreamCap THEN Append(queue[t], Sentinel)
                              ELSE <<Sentinel>>]
  /\ subscribers' = {}
  /\ UNCHANGED <<stream, idleCount, seen, missed>>

StreamsNext ==
  \/ Shutdown
  \/ BroadcastScan
  \/ \E t \in Tabs : Connect(t) \/ ConnectIdle(t) \/ Start(t) \/ Pull(t) \/ Teardown(t)

-----------------------------------------------------------------------------
(* The shutdown reaches every live stream, also one whose queue was full:  *)
(* the sentinel that ends it waits in its queue (_sse.py:73-87).           *)
ShutdownEnds ==
  down => \A t \in Tabs : stream[t] \in {"reserved", "open"} =>
                           \E i \in DOMAIN queue[t] : queue[t][i] = Sentinel
=============================================================================
