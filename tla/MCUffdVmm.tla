------------------------------ MODULE MCUffdVmm -------------------------------
(***************************************************************************)
(* UffdVmm on small instances.  Threads are numbered from 0; contents are  *)
(* natural numbers.                                                        *)
(***************************************************************************)
EXTENDS UffdVmm

CONSTANTS NumThreads, NumValues

MCThreads == 0 .. (NumThreads - 1)
MCValues == 0 .. (NumValues - 1)

(* Each thread has its own blocks, ...                                     *)
OwnBlocks == [t \in MCThreads |-> {b \in 0 .. (NumBlocks - 1) : b % NumThreads = t}]
(* ... or all threads share all of them.                                   *)
AllBlocks == [t \in MCThreads |-> 0 .. (NumBlocks - 1)]

(* ... or each has its own and those of the threads before it.             *)
FirstBlocks == [t \in MCThreads |-> 0 .. t]

(* Each thread stores what it likes, ...                                   *)
AnyContents == [t \in MCThreads |-> MCValues]
(* ... or only the first one does, and the others store ones.              *)
FirstAny == [t \in MCThreads |-> IF t = 0 THEN MCValues ELSE {1}]
===============================================================================
