---------------------------- MODULE SlidingWindow ----------------------------
(***************************************************************************)
(* A deque of times, oldest first, of which a window is kept: the loop     *)
(* "while dq and dq[0] <= cutoff: dq.popleft()" of the delegation budget   *)
(* (guard.py) and of the alert manager (alerting.py).                      *)
(***************************************************************************)
EXTENDS Integers, Sequences

(* What is left when the times up to t have gone from the left.            *)
After(times, t) ==
  LET gone == CHOOSE n \in 0..Len(times) :
                /\ \A i \in 1..n : times[i] <= t
                /\ n < Len(times) => times[n + 1] > t
  IN  SubSeq(times, gone + 1, Len(times))
=============================================================================
