--------------------------- MODULE MCNotifier ---------------------------
(***************************************************************************)
(* Instances of Notifier for TLC. The .cfg files give the constants their  *)
(* values; processes are interchangeable where only invariants are checked.*)
(***************************************************************************)
EXTENDS Notifier, TLC

Symm == Permutations(Process)
=========================================================================
