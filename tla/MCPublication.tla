----------------------------- MODULE MCPublication -----------------------------
(* Two channels, two versions, two edits and a second commit: a new host    *)
(* with one manifest or both, a candidate and its Core, a refresh that did  *)
(* half of its work, and any part of all that staged.  One of the versions  *)
(* of a Core is above 8 MiB; main begins with either.                       *)
EXTENDS Publication
===============================================================================
