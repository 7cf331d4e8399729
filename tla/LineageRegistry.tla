--------------------------- MODULE LineageRegistry ---------------------------
(***************************************************************************)
(* The sub-agent lineage registry of petasos/session/lineage.py: a bounded *)
(* store of child -> (parent, registration time) edges that the host       *)
(* asserts from its subagent_start and subagent_stop hooks.  The tool-call *)
(* guard reads it through ancestors(), the frequency tracker through       *)
(* is_pinned(), and the tracker drops the outgoing edge of every session   *)
(* it removes or terminates.                                               *)
(*                                                                         *)
(* The dictionary is a total function on Sessions whose absent keys hold   *)
(* NoEdge.  Every method body is one critical section of the registry's    *)
(* lock, hence one action.  The clock is the time.monotonic() that the     *)
(* registry and the tracker share.                                         *)
(***************************************************************************)
EXTENDS Values, Naturals, Sequences, FiniteSets, Functions, SequencesExt

CONSTANTS
  Sessions,        \* session ids, of parents and of children alike
  LineageConfigs,  \* the lineage fields of the configurations that may be applied
  MaxNow           \* bound: the last instant of the clock

LineageConfig == [maxDepth : Nat \ {0}, maxEdges : Nat \ {0}, edgeTTL : Nat \ {0}]

ASSUME SessionsAssumption == IsFiniteSet(Sessions) /\ None \notin Sessions
ASSUME LineageConfigsAssumption == LineageConfigs \subseteq LineageConfig
ASSUME MaxNowAssumption == MaxNow \in Nat

VARIABLES
  now,         \* time.monotonic()
  edges,       \* LineageRegistry._edges
  lineageCfg   \* LineageRegistry._max_depth, _max_edges, _edge_ttl

lineageVars == <<now, edges, lineageCfg>>

Time == 0 .. MaxNow

-----------------------------------------------------------------------------
Edge == [parent : Sessions \cup {None}, at : Time]

NoEdge == [parent |-> None, at |-> 0]

EdgeSet(e) == {c \in Sessions : e[c].parent # None}

LineageInit ==
  /\ now = 0
  /\ edges = [c \in Sessions |-> NoEdge]
  /\ lineageCfg \in LineageConfigs

(* An edge counts as long as it is no older than the TTL. *)
LiveEdge(c) ==
  /\ edges[c].parent # None
  /\ now - edges[c].at <= lineageCfg.edgeTTL

-----------------------------------------------------------------------------
(* register() prunes expired edges, re-parents a known child in place, and *)
(* makes room for an unknown one by evicting an oldest edge when the store *)
(* is full.  Which of several edges of equal age min() picks depends on    *)
(* the dictionary's insertion order, which the model leaves open.          *)
PruneExpired == [c \in Sessions |-> IF LiveEdge(c) THEN edges[c] ELSE NoEdge]

OldestEdges(e) == {c \in EdgeSet(e) : \A d \in EdgeSet(e) : e[c].at <= e[d].at}

RegisterInto(e, child, parent) ==
  LET new == [parent |-> parent, at |-> now] IN
  IF child \in EdgeSet(e) \/ Cardinality(EdgeSet(e)) < lineageCfg.maxEdges
  THEN {[e EXCEPT ![child] = new]}
  ELSE {[e EXCEPT ![old] = NoEdge, ![child] = new] : old \in OldestEdges(e)}

Register(child, parent) ==
  /\ child # parent
  /\ edges' \in RegisterInto(PruneExpired, child, parent)
  /\ UNCHANGED <<now, lineageCfg>>

(* unregister(), and the registry's half of the tracker's on_terminate     *)
(* callback.                                                               *)
DropEdge(e, child) == [e EXCEPT ![child] = NoEdge]

Unregister(child) ==
  /\ edges' = DropEdge(edges, child)
  /\ UNCHANGED <<now, lineageCfg>>

LineageApplyConfig(c) ==
  /\ lineageCfg' = c
  /\ UNCHANGED <<now, edges>>

-----------------------------------------------------------------------------
(* ancestors(): the parent chain, nearest first, cut at the depth bound,   *)
(* at a missing or expired edge and at the first repetition.  chain[n] is  *)
(* the value of the loop's result after n rounds.                          *)
Ancestors(s) ==
  LET chain[n \in 0 .. lineageCfg.maxDepth] ==
        IF n = 0 THEN << >>
        ELSE LET soFar   == chain[n - 1]
                 current == IF soFar = << >> THEN s ELSE Last(soFar)
                 parent  == edges[current].parent
             IN  IF Len(soFar) = n - 1 /\ LiveEdge(current)
                    /\ parent # s /\ parent \notin ToSet(soFar)
                 THEN Append(soFar, parent)
                 ELSE soFar
  IN  chain[lineageCfg.maxDepth]

(* is_pinned(): some live edge names the session as its parent.            *)
IsPinned(s) == \E c \in Sessions : edges[c].parent = s /\ LiveEdge(c)

Tick ==
  /\ now < MaxNow
  /\ now' = now + 1
  /\ UNCHANGED <<edges, lineageCfg>>

LineageTypeOK ==
  /\ now \in Time
  /\ edges \in [Sessions -> Edge]
  /\ lineageCfg \in LineageConfigs
=============================================================================
