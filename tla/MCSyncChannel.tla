----------------------------- MODULE MCSyncChannel -----------------------------
(* Two runs at once over two channels, with three edits: a run that dies    *)
(* between two renames while another is staging, an edit, and the run that  *)
(* repairs.                                                                 *)
EXTENDS SyncChannel, TLC

Symmetry ==
  Permutations(Channel) \cup Permutations(Version) \cup Permutations(Run)
===============================================================================
