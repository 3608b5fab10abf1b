---------------------------- MODULE MCBlockStorage ----------------------------
(***************************************************************************)
(* BlockStorage on small instances: processes are numbered from 1, each    *)
(* has the same number of threads, contents are natural numbers and the    *)
(* hash of contents is the next number.                                    *)
(***************************************************************************)
EXTENDS BlockStorage, TLC

CONSTANTS
  NumProcesses,
  NumThreads,    (* per process *)
  NumValues

MCProcesses == 1 .. NumProcesses
MCWorkers == 1 .. (NumProcesses * NumThreads)
MCProcess == [w \in MCWorkers |-> ((w - 1) \div NumThreads) + 1]
MCValues == 0 .. (NumValues - 1)
MCHashes == 1 .. NumValues
MCHash == [v \in MCValues |-> v + 1]

BlockSymmetry == Permutations(Blocks)
===============================================================================
