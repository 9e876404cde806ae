----------------------------- MODULE MCClothesSync -----------------------------
(* Instances of ClothesSync for TLC. *)
EXTENDS ClothesSync, TLC

(* Cloths and categories are only ever compared for equality. *)
Symmetry == Permutations(Cloth) \cup Permutations(Category)
================================================================================
