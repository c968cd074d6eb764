--------------------------- MODULE MCRoomLiveness ---------------------------
(***************************************************************************)
(* Values for checking RoomLiveness: as in MCRoom, but a single round, so  *)
(* that the behaviours stay few enough for the liveness check.             *)
(***************************************************************************)
EXTENDS RoomLiveness

MCAnswer == 1..6
MCSlots == [q \in Prompt |-> 2]

MCDeals(pool, need) ==
  LET Before(p) == SumFunctionOnSet(need, 1..(p - 1))
      Rank(c) == Cardinality({e \in pool : e <= c})
  IN  IF SumFunction(need) > Cardinality(pool) THEN {}
      ELSE {[p \in Player |->
               {c \in pool : Rank(c) > Before(p) /\ Rank(c) <= Before(p) + need[p]}]}
=============================================================================
