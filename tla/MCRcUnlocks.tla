---------------------------- MODULE MCRcUnlocks ----------------------------
(* RcUnlocks on small instances. *)
EXTENDS RcUnlocks

CONSTANTS a1, a2, e1, u1, u2

OneAward == {a1}
TwoAwards == {a1, a2}
NoEntry == {}
OneEntry == {e1}
OneUser == {u1}
TwoUsers == {u1, u2}

\* One job may fail often, so that the delays grow, and the other one twice.
Often(n) == [j \in Jobs |-> IF j = a1 THEN n ELSE 2]
Twice == Often(2)
UpToFour == Often(4)

\* The delays over the range in which the code computes them.
ASSUME DelaysAsDocumented ==
  \A n \in 2 .. 12 : Delay(n) = Schedule[IF n > 8 THEN 8 ELSE n - 1]
=============================================================================
