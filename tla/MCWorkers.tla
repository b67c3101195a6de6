----------------------------- MODULE MCWorkers -----------------------------
(* Instances of Workers for TLC. *)
EXTENDS Workers, TLC

CONSTANTS c1, c2

(* All cores host a worker, or only the first one. *)
AllCores == {Cores}
Masks == {Cores, {c1}}

(* EO and message handles are interchangeable. *)
Symmetry == Permutations(Eos) \cup Permutations(Messages)
=============================================================================
