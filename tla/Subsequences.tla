----------------------------- MODULE Subsequences -----------------------------
(***************************************************************************)
(* Python's "[x for x in q if ...]" and "for" loops over a list, as        *)
(* functions of the place that is reached.                                 *)
(***************************************************************************)
EXTENDS Integers, Sequences

(* The elements of q whose places are in I, in their order.                *)
Only(q, I) ==
  LET kept[n \in 0 .. Len(q)] ==
        IF n = 0 THEN << >> ELSE IF n \in I THEN Append(kept[n - 1], q[n]) ELSE kept[n - 1]
  IN  kept[Len(q)]

(* The sum of a list of numbers.                                           *)
Total(q) ==
  LET sum[n \in 0 .. Len(q)] == IF n = 0 THEN 0 ELSE sum[n - 1] + q[n]
  IN  sum[Len(q)]
=============================================================================
