----------------------------- MODULE MCLockLevels -----------------------------
(* Small instances of LockLevels for TLC. *)
EXTENDS LockLevels, TLC

(* threads run the same code and lists are only compared for equality *)
ThreadsAndLists == Permutations(Threads) \union Permutations(Lists)
===============================================================================
