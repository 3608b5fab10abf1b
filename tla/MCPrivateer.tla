----------------------------- MODULE MCPrivateer ------------------------------
(***************************************************************************)
(* Privateer on small instances.  Objects are numbered from 1 and belong   *)
(* to the processes in turn.  Versions, addresses and slots are            *)
(* interchangeable.                                                        *)
(***************************************************************************)
EXTENDS Privateer, TLC

CONSTANTS NumProcesses, NumObjects, MaxValue

MCProcesses == 1 .. NumProcesses
MCObjects == 1 .. NumObjects
MCProcess == [o \in MCObjects |-> ((o - 1) % NumProcesses) + 1]
MCValues == 0 .. MaxValue

OneBlockSize == {[block_size |-> 2, num_blocks |-> 0]}
AnyBlockSize == {[block_size |-> 1, num_blocks |-> 0], [block_size |-> 0, num_blocks |-> 0],
                 [block_size |-> 0, num_blocks |-> 1]}

(* One process of each build, or all of one.                               *)
BothBuilds == [p \in MCProcesses |-> IF p = 1 THEN "USERFAULTFD" ELSE "SIGACTION"]
Sigaction == [p \in MCProcesses |-> "SIGACTION"]
Userfaultfd == [p \in MCProcesses |-> "USERFAULTFD"]

AllCalls == [p \in MCProcesses |-> CallNames]

(* Both processes make versions; the second also opens and copies them.    *)
Makes == {"CREATE", "create", "access", "destroy"}
MakersAndCopier == [p \in MCProcesses |->
  Makes \cup IF p = 1 THEN {"msync", "snapshot"}
             ELSE {"CREATE with stash", "OPEN", "open_read_only", "open_immutable"}]

(* The first process makes versions, the others open them.                 *)
MakerAndOpeners == [p \in MCProcesses |->
  IF p = 1 THEN Makes \cup {"overwrite", "msync", "snapshot"}
  ELSE {"OPEN", "open", "open_read_only", "open_immutable", "access", "destroy"}]

(* A writer and a process that opens what it wrote, read-only.             *)
WriterAndReader == [p \in MCProcesses |->
  IF p = 1 THEN {"CREATE", "create", "access", "msync"}
  ELSE {"OPEN", "open_read_only", "access", "msync"}]

Symmetry == Permutations(Versions) \cup Permutations(Managers) \cup Permutations(Slots)
===============================================================================
