--------------------------- MODULE MCItemActions ---------------------------
(* Small instances of ItemActions for TLC. *)
EXTENDS ItemActions, TLC

AllPlanned == {[i \in Items |-> "planned"]}

\* The cooldown is configured to be shorter than Keep of a planned purchase.
Keep == [k \in Kinds |-> IF k = "planned" THEN 4 ELSE 1]

Symmetry == Permutations(Slots) \cup Permutations(Items)
=============================================================================
