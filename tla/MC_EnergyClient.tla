--------------------------- MODULE MC_EnergyClient ---------------------------
(* A small instance of EnergyClient for TLC.                               *)
EXTENDS EnergyClient, TLC

CONSTANTS c1, c2

\* Records of two categories in turn: four, or six, so that the ids of the batch
\* end before, at or behind the tenth.
MCEarlier ==
    {[c \in {c1, c2} |-> {k \in 1..n : k % 2 = IF c = c1 THEN 1 ELSE 0}] : n \in {4, 6}}

MCSymmetry == Permutations(Hashes)
=============================================================================
