----------------------------- MODULE MCRoomFiles -----------------------------
(***************************************************************************)
(* RoomFiles with a view.  What is in a file that nothing refers to is     *)
(* never read before it is written again: states that differ in it alone   *)
(* have the same futures.                                                  *)
(***************************************************************************)
EXTENDS RoomFiles

MCView ==
  <<path, building, old, [f \in File \ Free |-> data[f]], request, crashes>>
=============================================================================
