-------------------------------- MODULE MCOta --------------------------------
(* Small instances of Ota for TLC.                                         *)
EXTENDS Ota, TLC

CONSTANTS a, b, u

(* Two updates.                                                            *)
MCRequests == {[uuid |-> a, url |-> u], [uuid |-> b, url |-> u]}

(* The same update, again and again.                                       *)
MCOneRequest == {[uuid |-> a, url |-> u]}

(* The slots, and the updates, are interchangeable.                        *)
Symmetry == Permutations(Slots) \cup Permutations(Uuids)
=============================================================================
