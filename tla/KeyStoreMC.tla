------------------------------ MODULE KeyStoreMC ------------------------------
(***************************************************************************)
(* Small instances of the key store: each command is of any kind.          *)
(***************************************************************************)
EXTENDS KeyStore, TLC

\* Commands differ in nothing but their name.
CommandSymmetry == Permutations(Commands)
=============================================================================
