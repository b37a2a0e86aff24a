--------------------------- MODULE MCTipSplitter ---------------------------
(* TipSplitter on small instances.                                         *)
EXTENDS TipSplitter, TLC

WalletSymmetry == Permutations(Wallets)
============================================================================
