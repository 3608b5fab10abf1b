---------------------------- MODULE MCSigactionVmm ----------------------------
(***************************************************************************)
(* SigactionVmm on small instances.  The contents of a block are a natural *)
(* number, 0 for zeros, and its hash the next number; a version is a model *)
(* value (the versions are interchangeable).                               *)
(***************************************************************************)
EXTENDS SigactionVmm

CONSTANT MaxValue      (* contents are 0 .. MaxValue *)

MCValues == 0 .. MaxValue
MCZero == 0
MCEmptyHash == 0
MCHashes == 0 .. (MaxValue + 1)
MCHash == [v \in MCValues |-> v + 1]

VersionSymmetry == Permutations(Versions)
===============================================================================
