-------------------------- MODULE MCArtifactStore --------------------------
(***************************************************************************)
(* ArtifactStore with two Storage objects, five inodes with the blob's     *)
(* bytes and one of an outsider.                                           *)
(***************************************************************************)
EXTENDS ArtifactStore, TLC

CONSTANTS s1, s2, f1, f2, f3, f4, f5, g1

Two == {s1, s2}
First == {s1}
Second == {s2}
Nobody == {}
Good == {f1, f2, f3, f4, f5}
All == Good \union {g1}

InodesAlike == Permutations(Good)
=============================================================================
