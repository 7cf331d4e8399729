---------------------------- MODULE EnforcementLog ----------------------------
(***************************************************************************)
(* What the enforcement spool promises: a row that was written waits until *)
(* the console surfaces it, and is surfaced at most once until the console *)
(* forgets what it has shown (a restart, or a move to another profile's    *)
(* spool, both of which clear the ring).  Rows may be lost; they are never *)
(* invented and never shown twice.                                         *)
(***************************************************************************)
CONSTANT Rows

VARIABLES
  pending,   \* rows on disk that a drain would still surface
  surfaced   \* rows surfaced since the ring was last cleared

logVars == <<pending, surfaced>>

LogInit ==
  /\ pending = {}
  /\ surfaced = {}

Append(r) ==
  /\ r \notin pending \cup surfaced
  /\ pending' = pending \cup {r}
  /\ UNCHANGED surfaced

Surface(S) ==
  /\ S \subseteq pending
  /\ pending' = pending \ S
  /\ surfaced' = surfaced \cup S

Lose(S) ==
  /\ S \subseteq pending
  /\ pending' = pending \ S
  /\ UNCHANGED surfaced

(* The ring is cleared; rows that are still on disk will be shown again.   *)
Forget(S) ==
  /\ S \subseteq surfaced
  /\ pending' = pending \cup S
  /\ surfaced' = {}

LogNext ==
  \/ \E r \in Rows : Append(r)
  \/ \E S \in SUBSET Rows : Surface(S) \/ Lose(S) \/ Forget(S)

LogSpec == LogInit /\ [][LogNext]_logVars
=============================================================================
