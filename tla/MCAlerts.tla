------------------------------- MODULE MCAlerts -------------------------------
(* The alert manager by itself: one session, and a reload that raises the  *)
(* count of the rapid-fire rule and the capacity of its ring together.     *)
EXTENDS AlertManager

Unsafe == [escalates |-> "no", severe |-> FALSE, found |-> FALSE, troubled |-> TRUE, pii |-> 0]
Small  == [cooldown |-> 1, perMinute |-> 1, perHour |-> 1, criticalPerMinute |-> 1, perSession |-> 1,
           maxEntries |-> 1, rapidCount |-> 2, rapidWindow |-> 2, burstCount |-> 1,
           burstWindow |-> 1, piiThreshold |-> 1, piiWindow |-> 1, capacity |-> 2]

UnsafeScans   == {Unsafe}
GrowingLimits == {Small, [Small EXCEPT !.rapidCount = 3, !.capacity = 3]}
=============================================================================
