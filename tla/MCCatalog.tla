----------------------------- MODULE MCCatalog ------------------------------
(* Each key on a page of its own.  One changes between two packs, of which   *)
(* one cannot be encoded, and an archive to reject; the other between that   *)
(* and one that cannot be read.                                              *)
EXTENDS Catalog

CONSTANTS a, b, good, huge, bomb, odd

MCUploads == [k \in Key |-> IF k = a THEN {good, odd, huge} ELSE {huge, bomb}]
MCPageOf == [k \in Key |-> IF k = a THEN 1 ELSE 2]
=============================================================================
