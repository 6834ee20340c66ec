-------------------------- MODULE MCPortableTransfer --------------------------
(* The limits of the gates (32, 64) are the code's own.  The guests lie     *)
(* around them: exits at the first block, just inside and just outside the  *)
(* 32 slices of a run, and beyond 64 blocks.                                *)
EXTENDS PortableTransfer

MCKinds == {"restart", "snapshot"}
EdgeExits == {1, 2, 3, 32, 33, 34, 64, 65, 66, 96, 97}
EdgeGuests == {g \in [exitAt : EdgeExits, outAt : EdgeExits \cup {31}] :
                 g.outAt <= g.exitAt}
LateCounts == {33, 64}
RunCounts == {0, 1, 2, 32, 33, 65}
RunGuests == [exitAt : {3}, outAt : {1, 3}] \cup
             [exitAt : {32, 33, 34, 66, 97}, outAt : {1}] \cup
             [exitAt : {66}, outAt : {66}]
===============================================================================
