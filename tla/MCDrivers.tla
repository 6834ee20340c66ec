------------------------------ MODULE MCDrivers -------------------------------
(* Every program.  Guests need fewer calls than the bound, as many, one     *)
(* more, or more than any loop makes.  A status has eight bits: of the exit *)
(* codes one is 0, one fits and one does not.                               *)
EXTENDS Drivers
===============================================================================
