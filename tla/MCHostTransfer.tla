---------------------------- MODULE MCHostTransfer ----------------------------
(* Small instances of HostTransfer: four addresses, one of them above 2^31, *)
(* are one more than any call holds at once; two handles let a call on one  *)
(* session run beside another session, and let a stale handle be passed.    *)
EXTENDS HostTransfer, TLC

CONSTANTS p1, p2, p3, p4, h1, h2

MCPointer == {p1, p2, p3, p4}
MCHighPointer == {p4}
MCHandle == {h1, h2}
Symmetry == Permutations({p1, p2, p3}) \cup Permutations(MCHandle)
===============================================================================
