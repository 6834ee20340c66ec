------------------------------ MODULE MCAdmission ------------------------------
(* Two runtimes and one platform, two faults: a gate that lies next to one  *)
(* that fails, a failure followed by a cancellation, and so on.             *)
EXTENDS Admission
===============================================================================
