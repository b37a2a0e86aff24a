--------------------------- MODULE MCSoulRegistry ---------------------------
(***************************************************************************)
(* Instances of SoulRegistry for TLC.                                      *)
(***************************************************************************)
EXTENDS SoulRegistry, TLC

WalletSymmetry == Permutations(Wallets)
=============================================================================
