-------------------------- MODULE MCSeasonCalendar --------------------------
(* Three or four probes of three days.  From 100 to 95 a price stays within  *)
(* 5 percent of the old one, from 95 to 100 it does not.  One page lists a   *)
(* group twice.                                                              *)
EXTENDS SeasonCalendar

Read(cars) == [kind |-> "read", cars |-> cars]
Car(g, p) == [group |-> g, price |-> p]
Other == {[kind |-> "errored", cars |-> << >>], [kind |-> "empty", cars |-> << >>]}

MCPages ==
    {Read(<<Car("a", 100)>>), Read(<<Car("b", 120), Car("a", 95)>>),
     Read(<<Car("a", 100), Car("a", 120)>>)} \cup Other
=============================================================================
