-------------------------------- MODULE Clock --------------------------------
(***************************************************************************)
(* Process-local deadlines and conservative lifetimes                      *)
(* (internal/clock/clock.go).                                              *)
(*                                                                         *)
(* Only differences of readings matter, so a Deadline is the number of     *)
(* ticks left (0: unset or passed) and a Lifetime counts the ticks since   *)
(* its start.  A Reading pairs elapsed and wall time; the wall clock may   *)
(* be corrected in either direction, and "wall" is how far it is ahead of  *)
(* the elapsed clock.  A lifetime that has run out stays so: its count     *)
(* stops at its limit.                                                     *)
(***************************************************************************)
EXTENDS Integers

Larger(a, b) == IF a >= b THEN a ELSE b
Smaller(a, b) == IF a <= b THEN a ELSE b

\* Deadline: After, Pending, and a tick.
After(delay) == delay
Pending(deadline) == deadline > 0
DeadlineTick(deadline) == Larger(deadline - 1, 0)

NewLifetime(wall, limit) ==
  [elapsed |-> 0, startWall |-> wall, age |-> 0, limit |-> limit]

LifetimeTick(l) == [l EXCEPT !.elapsed = Smaller(@ + 1, l.limit)]

\* Mutant: the age is computed afresh at every reading.
AgeOfReading(l, wall) ==
  Larger(l.elapsed, l.elapsed + wall - l.startWall)

\* Lifetime.Age: the greatest age that a reading of either clock has shown.
Age(l, wall) ==
  Larger(l.age, Larger(l.elapsed, l.elapsed + wall - l.startWall))

\* Age and Remaining store what they observe.
Observed(l, wall) == [l EXCEPT !.age = Age(l, wall)]

Remaining(l, wall) == l.limit - Age(l, wall)
=============================================================================
