---------------------------- MODULE MCAccountKeys ----------------------------
(* Instances of AccountManager, with its memory, for TLC.                    *)
EXTENDS AccountKeys, FiniteSets, Naturals, TLC

CONSTANT MaxSeals  \* combinations of private and encryption key in a behaviour

FewSeals == Cardinality(entrusted) <= MaxSeals

Symmetry == Permutations(Keys) \cup Permutations(Names) \cup Permutations(EncKeys)
            \cup Permutations(Requests)
=============================================================================
