----------------------------- MODULE EnergyTypes -----------------------------
(* What the keeper of x/energy and its clients have in common.             *)

CONSTANTS
    Categories,      \* non-empty category strings (ValidateBasic)
    Hashes,          \* non-empty data hashes (ValidateBasic)
    MaxSeq           \* bound of the models on the id sequence (2^64 - 1 in the code)
=============================================================================
