----------------------------- MODULE MCNativeHost -----------------------------
(* Guests of each kind that exit in the first call, in the last one within  *)
(* the bound, in the one after it, and much later; one or two workloads.    *)
EXTENDS NativeHost

Kinds == {"plain", "argv", "tool"}
Guests == [kind : Kinds, needs : {1, 2, 3, 9}]
MCPlans ==
  [mode : {"run"}, load : {<<g>> : g \in {g \in Guests : g.kind = "argv"}}]
  \cup [mode : {"bench"}, load : {<<g>> : g \in Guests} \cup
          {<<g, h>> : g \in {g \in Guests : g.needs <= 2}, h \in Guests}]
===============================================================================
