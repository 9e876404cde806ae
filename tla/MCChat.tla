------------------------------- MODULE MCChat -------------------------------
(* Instances of Chat for TLC. *)
EXTENDS Chat

(* Users, taps and texts are only ever compared for equality. *)
Symmetry == Permutations(User) \cup Permutations(Send) \cup Permutations(Text)
=============================================================================
