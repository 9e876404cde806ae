------------------------------ MODULE MCPairing ------------------------------
(* Instances of Pairing for TLC. *)
EXTENDS Pairing, TLC

(* Devices, codes and attempts are only ever compared for equality. *)
Symmetry == Permutations(Device) \cup Permutations(Code) \cup Permutations(Attempt)
=============================================================================
