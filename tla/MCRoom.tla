------------------------------- MODULE MCRoom -------------------------------
(***************************************************************************)
(* Values for checking Room.  Cards are numbers.  No action tells two      *)
(* undrawn cards apart, so every shuffle is a renaming of the one that     *)
(* deals the lowest cards first, and one deal per draw is enough.          *)
(***************************************************************************)
EXTENDS Room, TLC

MCAnswer == 1..10
MCSlots == [q \in Prompt |-> 2]
MCSymmetry == Permutations(Prompt)

MCDeals(pool, need) ==
  LET Before(p) == SumFunctionOnSet(need, 1..(p - 1))
      Rank(c) == Cardinality({e \in pool : e <= c})
  IN  IF SumFunction(need) > Cardinality(pool) THEN {}
      ELSE {[p \in Player |->
               {c \in pool : Rank(c) > Before(p) /\ Rank(c) <= Before(p) + need[p]}]}

\* bumps is reset before it is read, and a room without a file never changes
\* again: states that differ in these alone have the same futures.
MCView == IF file = "gone" THEN <<"gone">> ELSE <<[room EXCEPT !.bumps = 0]>>
=============================================================================
