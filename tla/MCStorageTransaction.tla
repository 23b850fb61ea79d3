----------------------- MODULE MCStorageTransaction -----------------------
(***************************************************************************)
(* StorageTransaction on small sets of threads and files.  Threads that    *)
(* all may, or all may not, roll another's transaction back are alike.     *)
(***************************************************************************)
EXTENDS StorageTransaction, TLC

CONSTANTS t1, t2, t3, f1, f2

TwoThreads == {t1, t2}
ThreeThreads == {t1, t2, t3}
OneFile == {f1}
TwoFiles == {f1, f2}
Nobody == {}
Third == {t3}

AllAlike == Permutations(ThreeThreads) \union Permutations(TwoFiles)
===========================================================================
