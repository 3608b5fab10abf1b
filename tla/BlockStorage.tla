----------------------------- MODULE BlockStorage -----------------------------
(***************************************************************************)
(* posix_block_storage (src/src/privateer/posix_block_storage.cpp), file   *)
(* by file: several processes share a base directory (the permanent tier)  *)
(* and possibly a stash directory in another place (multi-tiered), and     *)
(* each has threads that call the storage the way its virtual memory       *)
(* manager does: msync() calls store_block() for different blocks from     *)
(* parallel threads, and every other call is alone in its process (msync() *)
(* commits under sig_handler_mutex, and faults come one at a time).        *)
(*                                                                         *)
(* Abstractions.  A file is its contents: a member of Values, or Partial   *)
(* when it is not the whole block.  The files of a dead process that have  *)
(* no other name than a temporary one are garbage and forgotten.  A failed *)
(* file operation makes the caller exit(-1), which is a Restart.           *)
(***************************************************************************)
EXTENDS Naturals, FiniteSets

CONSTANTS
  Processes,
  Workers,        (* threads that call the storage *)
  process,        (* the process of each worker *)
  Blocks,         (* block indices *)
  Values, Hashes, compute_hash,
  None, Partial,
  MultiTiered,    (* is_multi_tiered() *)
  UseCompression, (* built with USE_COMPRESSION *)
  ShortWrites,    (* may pwrite() write less than it was asked to? *)
  MayCrash        (* may a process die inside a call? *)

ASSUME HashAssumption ==
  /\ compute_hash \in [Values -> Hashes]
  /\ \A v, w \in Values : compute_hash[v] = compute_hash[w] => v = w
  /\ None \notin Values \cup Hashes /\ Partial \notin Values \cup {None}

ASSUME ProcessAssumption == process \in [Workers -> Processes]

VARIABLES
  final_files,      (* per tier: the files named by a hash *)
  returned,         (* hashes given to a caller, for a _metadata file *)
  blocks_ids,       (* per process: its manager's hash of each block *)
  stash_block_ids,  (* per process: blocks with a stash file ... *)
  stash_files,      (* ... and what is in it *)
  stash_committed_block_ids,  (* per process: blocks known to be in the stash tier *)
  job               (* per worker: the call it is in *)

vars == <<final_files, returned, blocks_ids, stash_block_ids, stash_files,
          stash_committed_block_ids, job>>

Contents == Values \cup {None, Partial}
Tiers == {"base", "stash"}

Job == [pc : {"idle", "temp", "write", "rename", "remove", "insert",
              "move", "drop", "erase", "copy", "copying", "found"},
        op : {"none", "store_block", "commit_stash_block", "get_block_full_path"},
        block_index : Blocks \cup {None},
        buffer : Values \cup {None},
        tier : Tiers,
        temporary_file : Contents]

TypeOK ==
  /\ final_files \in [Tiers -> [Hashes -> Contents]]
  /\ returned \subseteq Hashes
  /\ blocks_ids \in [Processes -> [Blocks -> Hashes \cup {None}]]
  /\ stash_block_ids \in [Processes -> SUBSET Blocks]
  /\ stash_files \in [Processes -> [Blocks -> Values \cup {None}]]
  /\ stash_committed_block_ids \in [Processes -> SUBSET Blocks]
  /\ job \in [Workers -> Job]

Idle == [pc |-> "idle", op |-> "none", block_index |-> None, buffer |-> None,
         tier |-> "base", temporary_file |-> None]

(* The base directory is new, or was filled by processes that are gone and *)
(* that had another stash directory, or none.                              *)
Init ==
  /\ \E kept \in SUBSET Values :
       /\ final_files = [base  |-> [h \in Hashes |-> IF \E v \in kept : compute_hash[v] = h
                                                     THEN CHOOSE v \in kept : compute_hash[v] = h
                                                     ELSE None],
                         stash |-> [h \in Hashes |-> None]]
       /\ returned = {compute_hash[v] : v \in kept}
  /\ blocks_ids = [p \in Processes |-> [b \in Blocks |-> None]]
  /\ stash_block_ids = [p \in Processes |-> {}]
  /\ stash_files = [p \in Processes |-> [b \in Blocks |-> None]]
  /\ stash_committed_block_ids = [p \in Processes |-> {}]
  /\ job = [w \in Workers |-> Idle]

-------------------------------------------------------------------------------
block_hash(w) == compute_hash[job[w].buffer]
FileExists(tier, h) == final_files[tier][h] # None

WorkersOf(p) == {w \in Workers : process[w] = p}
Quiet(p) == \A w \in WorkersOf(p) : job[w] = Idle

Begin(w, pc, op, b, v, tier) ==
  job' = [job EXCEPT ![w] = [pc |-> pc, op |-> op, block_index |-> b, buffer |-> v,
                             tier |-> tier, temporary_file |-> None]]

(* The hash a call returns, which the manager enters in its blocks_ids.    *)
(* (The outer block_hash of store_block() stays empty when multi-tiered.)  *)
OuterHash(w) == IF job[w].op = "store_block" THEN None ELSE block_hash(w) \* seeded fault
ReturnedHash(w) == block_hash(w)

ReturnHash(w) ==
  /\ returned' = returned \cup {ReturnedHash(w)}
  /\ blocks_ids' = [blocks_ids EXCEPT ![process[w]][job[w].block_index] = ReturnedHash(w)]
  /\ job' = [job EXCEPT ![w] = Idle]

-------------------------------------------------------------------------------
(* store_block(), the public one: the stash tier first when there is one.  *)
(* Threads of a process store different blocks, none of them stashed.      *)
FirstTier == IF MultiTiered THEN "stash" ELSE "base"

StoreBlock(w, b, v) ==
  /\ job[w] = Idle
  /\ \A x \in WorkersOf(process[w]) :
       job[x].op \in {"none", "store_block"} /\ job[x].block_index # b
  /\ b \notin stash_block_ids[process[w]]
  /\ Begin(w, "temp", "store_block", b, v, FirstTier)
  /\ UNCHANGED <<final_files, returned, blocks_ids, stash_block_ids, stash_files,
                 stash_committed_block_ids>>

(* The inner store_block(), for one tier: a temporary file of its own, the *)
(* look whether the block is there already ...                             *)
PcWithoutWrite(w) == IF FileExists(job[w].tier, block_hash(w)) THEN "remove" ELSE "rename" \* seeded fault
PcAfterTemp(w) == IF FileExists(job[w].tier, block_hash(w)) THEN "remove" ELSE "write"

CreateTemp(w) ==
  /\ job[w].pc = "temp"
  /\ job' = [job EXCEPT ![w].temporary_file = Partial, ![w].pc = PcAfterTemp(w)]
  /\ UNCHANGED <<final_files, returned, blocks_ids, stash_block_ids, stash_files,
                 stash_committed_block_ids>>

(* ... the contents (pwrite()'s count is compared with -1 only) ... *)
Written(w) == {job[w].buffer} \cup (IF ShortWrites THEN {Partial} ELSE {})

WriteTemp(w) ==
  /\ job[w].pc = "write"
  /\ \E contents \in Written(w) :
       job' = [job EXCEPT ![w].temporary_file = contents, ![w].pc = "rename"]
  /\ UNCHANGED <<final_files, returned, blocks_ids, stash_block_ids, stash_files,
                 stash_committed_block_ids>>

(* ... and then the next tier, or what the caller does next. *)
StoredInTier(w) ==
  LET next_tier == job[w].op = "store_block" /\ job[w].tier = "stash" IN
    job' = [job EXCEPT ![w].temporary_file = None,
                       ![w].tier = "base",
                       ![w].pc = IF next_tier THEN "temp"
                                 ELSE IF job[w].op = "store_block" THEN "insert"
                                 ELSE "erase"]

(* The temporary file gets its final name, replacing one of that name. *)
RenameTemp(w) ==
  /\ job[w].pc = "rename"
  /\ final_files' = [final_files EXCEPT ![job[w].tier][block_hash(w)] = job[w].temporary_file]
  /\ StoredInTier(w)
  /\ UNCHANGED <<returned, blocks_ids, stash_block_ids, stash_files,
                 stash_committed_block_ids>>

(* The block was there: the temporary file goes. *)
WithoutFinalFile(w) == [final_files EXCEPT ![job[w].tier][block_hash(w)] = None] \* seeded fault
WithoutTempFile(w) == final_files

RemoveTemp(w) ==
  /\ job[w].pc = "remove"
  /\ final_files' = WithoutTempFile(w)
  /\ StoredInTier(w)
  /\ UNCHANGED <<returned, blocks_ids, stash_block_ids, stash_files,
                 stash_committed_block_ids>>

(* stash_committed_block_ids.insert() is not synchronised: when two        *)
(* threads insert at once, entries may be lost (or the process die).       *)
Inserted(w) ==
  LET p == process[w]
      all == stash_committed_block_ids[p] \cup {job[w].block_index}
  IN IF \E x \in WorkersOf(p) \ {w} : job[x].pc = "insert" THEN SUBSET all ELSE {all}

InsertCommitted(w) ==
  /\ job[w].pc = "insert"
  /\ \E ids \in Inserted(w) :
       stash_committed_block_ids' = [stash_committed_block_ids EXCEPT ![process[w]] = ids]
  /\ ReturnHash(w)
  /\ UNCHANGED <<final_files, stash_block_ids, stash_files>>

-------------------------------------------------------------------------------
(* stash_block(): a file under a UUID, kept when the block is stashed again. *)
StashBlock(p, b, v) ==
  /\ Quiet(p)
  /\ stash_block_ids' = [stash_block_ids EXCEPT ![p] = @ \cup {b}]
  /\ stash_files' = [stash_files EXCEPT ![p][b] = v]
  /\ UNCHANGED <<final_files, returned, blocks_ids, stash_committed_block_ids, job>>

UnstashBlock(p, b) ==
  /\ Quiet(p)
  /\ b \in stash_block_ids[p]
  /\ stash_files' = [stash_files EXCEPT ![p][b] = None]
  /\ stash_block_ids' = [stash_block_ids EXCEPT ![p] = @ \ {b}]
  /\ UNCHANGED <<final_files, returned, blocks_ids, stash_committed_block_ids, job>>

(* commit_stash_block(): the stash file is read, hashed, and looked for in *)
(* the first tier.                                                         *)
CommitStashBlock(w, b) ==
  LET p == process[w]
      v == stash_files[p][b]
  IN /\ Quiet(p)
     /\ b \in stash_block_ids[p]
     /\ Begin(w, IF FileExists(FirstTier, compute_hash[v]) THEN "drop"
                 ELSE IF UseCompression THEN "temp" ELSE "move",
              "commit_stash_block", b, v, "base")
     /\ UNCHANGED <<final_files, returned, blocks_ids, stash_block_ids, stash_files,
                    stash_committed_block_ids>>

(* Not there and not compressed: the stash file itself gets the final name *)
(* in the first tier; the inner store_block() for the base tier follows.   *)
MoveStash(w) ==
  /\ job[w].pc = "move"
  /\ final_files' = [final_files EXCEPT ![FirstTier][block_hash(w)] =
                       stash_files[process[w]][job[w].block_index]]
  /\ stash_files' = [stash_files EXCEPT ![process[w]][job[w].block_index] = None]
  /\ job' = [job EXCEPT ![w].pc = "temp"]
  /\ UNCHANGED <<returned, blocks_ids, stash_block_ids, stash_committed_block_ids>>

(* The block is in the base tier ("erase"), or was in the first tier to    *)
(* begin with ("drop"): the stash file goes, and its id.                   *)
IdsKept(w) == stash_block_ids[process[w]] \* seeded fault
IdsErased(w) == stash_block_ids[process[w]] \ {job[w].block_index}

EraseStash(w) ==
  /\ job[w].pc \in {"erase", "drop"}
  /\ stash_files' = [stash_files EXCEPT ![process[w]][job[w].block_index] = None]
  /\ stash_block_ids' = [stash_block_ids EXCEPT ![process[w]] = IdsErased(w)]
  /\ ReturnHash(w)
  /\ UNCHANGED <<final_files, stash_committed_block_ids>>

-------------------------------------------------------------------------------
(* get_block_full_path(), for a fault on a block that has no stash file.   *)
(* A block not known to be in the stash tier is looked for there ...       *)
PathTier == FirstTier
NotKnown(p, b) == MultiTiered /\ b \notin stash_committed_block_ids[p]
NeedsNoCopy(p, b) == FALSE \* seeded fault
NeedsCopy(p, b) == NotKnown(p, b) /\ ~FileExists("stash", blocks_ids[p][b])
Known(p, b) == [stash_committed_block_ids EXCEPT ![p] = IF MultiTiered THEN @ \cup {b} ELSE @]

GetBlockFullPath(w, b, v) ==
  LET p == process[w] IN
    /\ Quiet(p)
    /\ b \notin stash_block_ids[p]
    /\ blocks_ids[p][b] = compute_hash[v]
    /\ IF NeedsCopy(p, b)
       THEN Begin(w, "copy", "get_block_full_path", b, v, "stash")
            /\ UNCHANGED stash_committed_block_ids
       ELSE Begin(w, "found", "get_block_full_path", b, v, PathTier)
            /\ stash_committed_block_ids' = Known(p, b)
    /\ UNCHANGED <<final_files, returned, blocks_ids, stash_block_ids, stash_files>>

(* ... and copied when it is not.  The copy is made under the final name:  *)
(* the file is created, which fails if it has come to exist ...            *)
StartCopy(w) ==
  /\ job[w].pc = "copy"
  /\ ~FileExists("stash", block_hash(w)) /\ FileExists("base", block_hash(w))
  /\ final_files' = [final_files EXCEPT !["stash"][block_hash(w)] = Partial]
  /\ job' = [job EXCEPT ![w].pc = "copying"]
  /\ UNCHANGED <<returned, blocks_ids, stash_block_ids, stash_files,
                 stash_committed_block_ids>>

(* ... and filled. *)
FinishCopy(w) ==
  /\ job[w].pc = "copying"
  /\ final_files' = [final_files EXCEPT !["stash"][block_hash(w)] =
                       final_files["base"][block_hash(w)]]
  /\ stash_committed_block_ids' = Known(process[w], job[w].block_index)
  /\ job' = [job EXCEPT ![w].pc = "found"]
  /\ UNCHANGED <<returned, blocks_ids, stash_block_ids, stash_files>>

(* The handler has mapped the file it was pointed to. *)
UsePath(w) ==
  /\ job[w].pc = "found"
  /\ job' = [job EXCEPT ![w] = Idle]
  /\ UNCHANGED <<final_files, returned, blocks_ids, stash_block_ids, stash_files,
                 stash_committed_block_ids>>

-------------------------------------------------------------------------------
(* A process may end after close(), when a copy fails (exit(-1)), or, with *)
(* MayCrash, at any time.                                                  *)
CopyFails(w) ==
  /\ job[w].pc = "copy"
  /\ FileExists("stash", block_hash(w)) \/ ~FileExists("base", block_hash(w))

MayEnd(p) ==
  \/ Quiet(p) /\ stash_block_ids[p] = {}
  \/ \E w \in WorkersOf(p) : CopyFails(w)
  \/ MayCrash

(* Its successor opens a version, whose _metadata holds hashes that some   *)
(* process was given, with a storage object of its own.                    *)
Restart(p) ==
  /\ MayEnd(p)
  /\ \E ids \in [Blocks -> returned \cup {None}] :
       blocks_ids' = [blocks_ids EXCEPT ![p] = ids]
  /\ stash_block_ids' = [stash_block_ids EXCEPT ![p] = {}]
  /\ stash_files' = [stash_files EXCEPT ![p] = [b \in Blocks |-> None]]
  /\ stash_committed_block_ids' = [stash_committed_block_ids EXCEPT ![p] = {}]
  /\ job' = [w \in Workers |-> IF process[w] = p THEN Idle ELSE job[w]]
  /\ UNCHANGED <<final_files, returned>>

-------------------------------------------------------------------------------
Next ==
  \/ \E w \in Workers :
       \/ \E b \in Blocks, v \in Values : StoreBlock(w, b, v) \/ GetBlockFullPath(w, b, v)
       \/ \E b \in Blocks : CommitStashBlock(w, b)
       \/ CreateTemp(w) \/ WriteTemp(w) \/ RenameTemp(w) \/ RemoveTemp(w)
       \/ InsertCommitted(w) \/ MoveStash(w) \/ EraseStash(w)
       \/ StartCopy(w) \/ FinishCopy(w) \/ UsePath(w)
  \/ \E p \in Processes :
       \/ \E b \in Blocks, v \in Values : StashBlock(p, b, v)
       \/ \E b \in Blocks : UnstashBlock(p, b)
       \/ Restart(p)

Spec == Init /\ [][Next]_vars

-------------------------------------------------------------------------------
(* "Hash of the stored block", "Hash of the committed block", "Commit a    *)
(* stashed block to permanent storage" (block_storage_base.hpp): whatever  *)
(* the other threads and processes were doing and whoever died, a hash     *)
(* that a store or a commit returned names a whole file in the base tier.  *)
ReturnedIsStored ==
  \A v \in Values : compute_hash[v] \in returned =>
    final_files["base"][compute_hash[v]] = v

(* "Get the full path to a block" (block_storage_base.hpp): the file the   *)
(* path leads to is there, and is the whole block.                         *)
PathsResolve ==
  \A w \in Workers : job[w].pc = "found" =>
    final_files[job[w].tier][block_hash(w)] = job[w].buffer

(* Between calls, the blocks the storage says are stashed are those it has *)
(* a stash file for: otherwise the next commit_stash_block() would exit,   *)
(* or a fault would map a file that is gone instead of the block's own.    *)
StashBacked ==
  \A p \in Processes : Quiet(p) =>
    stash_block_ids[p] = {b \in Blocks : stash_files[p][b] # None}

(* The base tier is the store SigactionVmm takes it for: files appear      *)
(* whole, in one step, under their hash, and stay.                         *)
Base == INSTANCE ContentStore WITH files <- final_files["base"]
ImplementsContentStore == Base!Spec
===============================================================================
