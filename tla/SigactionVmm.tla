----------------------------- MODULE SigactionVmm -----------------------------
(***************************************************************************)
(* The SIGSEGV-driven virtual memory manager                               *)
(* (src/src/privateer/sigaction_virtual_memory_manager.cpp): one process   *)
(* that creates or opens a version directory, lets its single application  *)
(* thread load and store in the mapped region, and saves the region with   *)
(* msync(), snapshot() and close().  The process may die between any two   *)
(* steps (a crash, or one of the code's exit(-1)).                         *)
(*                                                                         *)
(* Abstractions.  A block address is its block index.  The contents of a   *)
(* block are a member of Values, a SHA-256 hash a member of Hashes.  The   *)
(* base directory is single-tiered and uncompressed; a call of the block   *)
(* storage is one step here (BlockStorage opens it up).  An entry past the *)
(* end of a _metadata file is EMPTY_BLOCK_HASH, which is what the open     *)
(* constructor fills in for it.  Files written before a process dies stay  *)
(* written.                                                                *)
(*                                                                         *)
(* A definition marked "seeded fault" is no part of the model.  It is a    *)
(* plausible mistake in the definition after it, kept to show that the     *)
(* properties can fail: PROJECT.json names the one it must break.          *)
(***************************************************************************)
EXTENDS Naturals, FiniteSets, SequencesExt

CONSTANTS
  NumBlocks,         (* m_region_max_capacity / m_block_size *)
  MaxMemBlocks,      (* PRIVATEER_MAX_MEM_BLOCKS, m_max_mem_size / m_block_size *)
  Values,            (* contents a block may have *)
  Zero,              (* contents of a page the kernel hands out *)
  Hashes,            (* 64-character block hashes *)
  EMPTY_BLOCK_HASH,  (* sixty-four zeros: no block file *)
  compute_hash,      (* SHA-256, as a function *)
  Versions,          (* version directories under the base directory *)
  None               (* no file, no version *)

Blocks == 0 .. (NumBlocks - 1)

ASSUME SizeAssumption ==
  NumBlocks \in Nat \ {0} /\ MaxMemBlocks \in Nat \ {0}

(* None is no contents, no version and no region. *)
ASSUME ValueAssumption ==
  Zero \in Values /\ None \notin Values \cup Versions \cup [Blocks -> Values]

(* Different contents never have the same hash, and no contents hash to    *)
(* the string of zeros.                                                    *)
ASSUME HashAssumption ==
  /\ EMPTY_BLOCK_HASH \in Hashes
  /\ compute_hash \in [Values -> Hashes \ {EMPTY_BLOCK_HASH}]
  /\ \A v, w \in Values : compute_hash[v] = compute_hash[w] => v = w

VersionFile == {"dir", "_metadata", "_blocks_path", "_capacity"}

VARIABLES
  (* On disk: survives the process. *)
  block_files,       (* the blocks directory: contents of the file of each hash *)
  metadata,          (* the hashes in each version's _metadata *)
  files,             (* what exists of each version directory *)
  (* The manager's fields. *)
  present_blocks, clean_lru, dirty_lru, stash_set,
  blocks_ids,
  m_version_metadata_path,
  m_read_only,
  stash_files,       (* posix_block_storage::stash_block_ids and the files it names *)
  (* The mapped region. *)
  mem,               (* contents of each block's pages *)
  prot,              (* their protection; "write" is PROT_WRITE, readable too *)
  (* The public call under way. *)
  pc,                (* where it is; "ready" between calls, "closed" without a region *)
  op,                (* which call it is *)
  todo,              (* blocks its current parallel loop still has to do *)
  version_metadata_path,          (* the version directory it was given *)
  m_temp_current_metadata_path    (* snapshot()'s saved copy of the path *)

disk == <<block_files, metadata, files>>
fields == <<present_blocks, clean_lru, dirty_lru, stash_set, blocks_ids,
            m_version_metadata_path, m_read_only, stash_files>>
region == <<mem, prot>>
call == <<pc, op, todo, version_metadata_path, m_temp_current_metadata_path>>
vars == <<disk, fields, region, call>>

pcs == {"closed", "_metadata", "_blocks_path", "_capacity", "map", "ready",
        "store", "commit", "unmap"}

TypeOK ==
  /\ block_files \in [Hashes -> Values \cup {None}]
  /\ metadata \in [Versions -> [Blocks -> Hashes]]
  /\ files \in [Versions -> SUBSET VersionFile]
  /\ present_blocks \subseteq Blocks
  /\ clean_lru \in Seq(Blocks)
  /\ dirty_lru \in Seq(Blocks)
  /\ stash_set \subseteq Blocks
  /\ blocks_ids \in [Blocks -> Hashes]
  /\ m_version_metadata_path \in Versions \cup {None}
  /\ m_read_only \in BOOLEAN
  /\ stash_files \in [Blocks -> Values \cup {None}]
  /\ mem \in [Blocks -> Values]
  /\ prot \in [Blocks -> {"none", "read", "write"}]
  /\ pc \in pcs
  /\ op \in {"none", "create", "msync", "snapshot", "close"}
  /\ todo \subseteq Blocks
  /\ version_metadata_path \in Versions \cup {None}
  /\ m_temp_current_metadata_path \in Versions \cup {None}

-------------------------------------------------------------------------------
NoBlocks == [b \in Blocks |-> EMPTY_BLOCK_HASH]

(* No region is mapped before the first create() or open() ... *)
Init ==
  /\ block_files = [h \in Hashes |-> None]
  /\ metadata = [v \in Versions |-> NoBlocks]
  /\ files = [v \in Versions |-> {}]
  /\ present_blocks = {} /\ clean_lru = <<>> /\ dirty_lru = <<>>
  /\ stash_set = {} /\ stash_files = [b \in Blocks |-> None]
  /\ blocks_ids = NoBlocks
  /\ m_version_metadata_path = None /\ m_read_only = FALSE
  /\ mem = [b \in Blocks |-> Zero] /\ prot = [b \in Blocks |-> "none"]
  /\ pc = "closed" /\ op = "none" /\ todo = {}
  /\ version_metadata_path = None /\ m_temp_current_metadata_path = None

(* ... nor after close(), nor after the end of a process, whose successor  *)
(* starts with what is on disk.                                            *)
EndRegion ==
  /\ present_blocks' = {} /\ clean_lru' = <<>> /\ dirty_lru' = <<>>
  /\ stash_set' = {} /\ stash_files' = [b \in Blocks |-> None]
  /\ blocks_ids' = NoBlocks
  /\ m_version_metadata_path' = None /\ m_read_only' = FALSE
  /\ mem' = [b \in Blocks |-> Zero] /\ prot' = [b \in Blocks |-> "none"]
  /\ pc' = "closed" /\ op' = "none" /\ todo' = {}
  /\ version_metadata_path' = None /\ m_temp_current_metadata_path' = None
  /\ UNCHANGED disk

(* The call under way is over. *)
Return ==
  /\ pc' = "ready" /\ op' = "none" /\ todo' = {}
  /\ version_metadata_path' = None /\ m_temp_current_metadata_path' = None

-------------------------------------------------------------------------------
(* Privateer::create().  create_version_metadata() refuses an existing     *)
(* directory unless allow_overwrite is set (it exits), and otherwise       *)
(* removes its _metadata; the files are then written one after another.    *)
Create(v, allow_overwrite) ==
  /\ pc = "closed"
  /\ "dir" \in files[v] => allow_overwrite
  /\ files' = [files EXCEPT ![v] = (@ \cup {"dir"}) \ {"_metadata"}]
  /\ metadata' = [metadata EXCEPT ![v] = NoBlocks]
  /\ pc' = "_metadata" /\ op' = "create"
  /\ version_metadata_path' = v
  /\ UNCHANGED <<block_files, fields, region, todo, m_temp_current_metadata_path>>

(* _metadata, _blocks_path and _capacity, in this order, while create()    *)
(* makes a version; the last two when snapshot() finishes one.  A file     *)
(* that is there and not yet filled stops open() as a missing one does.    *)
WriteVersionFile ==
  /\ pc \in {"_metadata", "_blocks_path", "_capacity"}
  /\ files' = [files EXCEPT ![version_metadata_path] = @ \cup {pc}]
  /\ \/ /\ pc = "_metadata" /\ pc' = "_blocks_path"
        /\ UNCHANGED <<op, todo, version_metadata_path, m_temp_current_metadata_path>>
     \/ /\ pc = "_blocks_path" /\ pc' = "_capacity"
        /\ UNCHANGED <<op, todo, version_metadata_path, m_temp_current_metadata_path>>
     \/ /\ pc = "_capacity" /\ op = "create" /\ pc' = "map"
        /\ UNCHANGED <<op, todo, version_metadata_path, m_temp_current_metadata_path>>
     \/ pc = "_capacity" /\ op = "snapshot" /\ Return
  /\ UNCHANGED <<block_files, metadata, fields, region>>

(* The rest of the create constructor: storage, PROT_NONE region, ids. *)
MapRegion ==
  /\ pc = "map"
  /\ m_version_metadata_path' = version_metadata_path
  /\ blocks_ids' = NoBlocks
  /\ m_read_only' = FALSE
  /\ Return
  /\ UNCHANGED <<disk, present_blocks, clean_lru, dirty_lru, stash_set, stash_files, region>>

(* Privateer::open() and open_read_only().  The constructor exits or       *)
(* asserts when one of the files is missing.                               *)
Open(v, read_only) ==
  /\ pc = "closed"
  /\ files[v] = VersionFile
  /\ m_version_metadata_path' = v
  /\ blocks_ids' = metadata[v]
  /\ m_read_only' = read_only
  /\ Return
  /\ UNCHANGED <<disk, present_blocks, clean_lru, dirty_lru, stash_set, stash_files, region>>

-------------------------------------------------------------------------------
(* An application store that the page protection lets through.  (Loads     *)
(* change nothing: what they return is what mem holds.)                    *)
Store(b, value) ==
  /\ pc = "ready"
  /\ prot[b] = "write"
  /\ mem' = [mem EXCEPT ![b] = value]
  /\ UNCHANGED <<disk, fields, prot, call>>

(* A store fault on a read-only region is refused. *)
NeverRefused == TRUE \* seeded fault
WriteAllowed == ~m_read_only

(* The refusal: exit(-1). *)
ReadOnlyWriteFault(b) ==
  /\ pc = "ready"
  /\ ~WriteAllowed
  /\ prot[b] # "write"
  /\ EndRegion

(* clean_lru.remove(b), which finds the block's one occurrence. *)
StillClean(b) == clean_lru \* seeded fault
CleanWithout(b) == RemoveFirst(clean_lru, b)

(* handler() for a store to a present block: it leaves the clean list, is  *)
(* the newest dirty one, and its stash file, if any, is out of date.  (A   *)
(* load of a present block never faults: its pages are readable.)          *)
PresentWriteFault(b) ==
  /\ pc = "ready"
  /\ WriteAllowed
  /\ b \in present_blocks
  /\ prot[b] = "read"
  /\ clean_lru' = CleanWithout(b)
  /\ dirty_lru' = Cons(b, dirty_lru)
  /\ stash_set' = stash_set \ {b}
  /\ stash_files' = IF b \in stash_set THEN [stash_files EXCEPT ![b] = None]
                                       ELSE stash_files
  /\ prot' = [prot EXCEPT ![b] = "write"]
  /\ UNCHANGED <<disk, present_blocks, blocks_ids, m_version_metadata_path,
                 m_read_only, mem, call>>

(* evict_if_needed(): at the limit the oldest clean block goes, and only   *)
(* when there is none the oldest dirty one, after it is stashed.           *)
MemoryOverfull == Cardinality(present_blocks) > MaxMemBlocks \* seeded fault
MemoryFull == Cardinality(present_blocks) >= MaxMemBlocks
EvictClean == MemoryFull /\ Len(clean_lru) > 0
EvictDirty == MemoryFull /\ Len(clean_lru) = 0

to_evict == IF EvictClean THEN {Last(clean_lru)}
            ELSE IF EvictDirty THEN {Last(dirty_lru)} ELSE {}
unstashed == {} \* seeded fault
stashed == IF EvictDirty THEN to_evict ELSE {}
clean_unpopped == clean_lru \* seeded fault
clean_left == IF EvictClean THEN Front(clean_lru) ELSE clean_lru
dirty_left == IF EvictDirty THEN Front(dirty_lru) ELSE dirty_lru

(* Where an absent block comes from: its stash file, else the block file   *)
(* its id names, else nowhere (the pages are used as they are).            *)
BackingFile(b) == \* seeded fault
  IF stash_files[b] # None THEN stash_files[b] ELSE block_files[blocks_ids[b]]
BackingBlock(b) ==
  IF stash_files[b] # None THEN stash_files[b]
  ELSE IF blocks_ids[b] # EMPTY_BLOCK_HASH THEN block_files[blocks_ids[b]]
  ELSE mem[b]

(* The stash file a store to b outdates, which unstash_block() removes. *)
NothingOutdated(b) == {} \* seeded fault
OutdatedStash(b) == {x \in {b} : stash_files[x] # None}

(* handler() for an absent block: evict, map the backing block with the    *)
(* protection the access needs, drop the stash file a store outdates, and  *)
(* enter the block in its list.                                            *)
AbsentFault(b, is_write_fault) ==
  /\ pc = "ready"
  /\ is_write_fault => WriteAllowed
  /\ b \notin present_blocks
  /\ present_blocks' = (present_blocks \ to_evict) \cup {b}
  /\ clean_lru' = IF is_write_fault THEN clean_left ELSE Cons(b, clean_left)
  /\ dirty_lru' = IF is_write_fault THEN Cons(b, dirty_left) ELSE dirty_left
  /\ LET outdated == IF is_write_fault THEN OutdatedStash(b) ELSE {} IN
       /\ stash_set' = (stash_set \cup stashed) \ outdated
       /\ stash_files' = [x \in Blocks |-> IF x \in stashed THEN mem[x]
                                           ELSE IF x \in outdated THEN None
                                           ELSE stash_files[x]]
  /\ mem' = [x \in Blocks |-> IF x \in to_evict THEN Zero
                              ELSE IF x = b THEN BackingBlock(b) ELSE mem[x]]
  /\ prot' = [x \in Blocks |-> IF x \in to_evict THEN "none"
                               ELSE IF x = b
                                    THEN IF is_write_fault THEN "write" ELSE "read"
                               ELSE prot[x]]
  /\ UNCHANGED <<disk, blocks_ids, m_version_metadata_path, m_read_only, call>>

-------------------------------------------------------------------------------
(* msync(), alone or inside snapshot() and close(): first every dirty      *)
(* block, by parallel workers that each own some of them.                  *)
StartMsync ==
  /\ pc' = "store"
  /\ todo' = ToSet(dirty_lru)

Msync ==
  /\ pc = "ready"
  /\ StartMsync /\ op' = "msync"
  /\ UNCHANGED <<disk, fields, region, version_metadata_path, m_temp_current_metadata_path>>

Close ==
  /\ pc = "ready"
  /\ StartMsync /\ op' = "close"
  /\ UNCHANGED <<disk, fields, region, version_metadata_path, m_temp_current_metadata_path>>

(* snapshot() points m_version_metadata_path at a new directory with an    *)
(* empty _metadata for the length of the msync().  It returns false, and   *)
(* does nothing, when the directory already has a _metadata.               *)
Snapshot(v) ==
  /\ pc = "ready"
  /\ ~({"dir", "_metadata"} \subseteq files[v])
  /\ files' = [files EXCEPT ![v] = @ \cup {"dir", "_metadata"}]
  /\ m_temp_current_metadata_path' = m_version_metadata_path
  /\ m_version_metadata_path' = v
  /\ version_metadata_path' = v
  /\ StartMsync /\ op' = "snapshot"
  /\ UNCHANGED <<block_files, metadata, present_blocks, clean_lru, dirty_lru, stash_set,
                 blocks_ids, m_read_only, stash_files, region>>

(* A file is written for a hash that has none, and an existing file kept. *)
AddNoBlockFile(contents) == UNCHANGED block_files \* seeded fault
AddBlockFile(contents) ==
  block_files' = [block_files EXCEPT ![compute_hash[contents]] =
                    IF @ = None THEN contents ELSE @]

(* mprotect(PROT_READ): the next store to b faults. *)
Unprotected(b) == prot \* seeded fault
WriteProtected(b) == [prot EXCEPT ![b] = "read"]

(* One worker stores one dirty block: file, id, protection, clean list. *)
StoreBlock(b) ==
  /\ pc = "store"
  /\ b \in todo
  /\ AddBlockFile(mem[b])
  /\ blocks_ids' = [blocks_ids EXCEPT ![b] = compute_hash[mem[b]]]
  /\ prot' = WriteProtected(b)
  /\ clean_lru' = Cons(b, clean_lru)
  /\ todo' = todo \ {b}
  /\ UNCHANGED <<metadata, files, present_blocks, dirty_lru, stash_set,
                 m_version_metadata_path, m_read_only, stash_files, mem, pc, op,
                 version_metadata_path, m_temp_current_metadata_path>>

(* msync()'s stash_vector: the blocks to commit from the stash. *)
stash_vector_absent == stash_set \ present_blocks \* seeded fault
stash_vector == stash_set

(* The workers have joined: now every stashed block. *)
ClearDirty ==
  /\ pc = "store"
  /\ todo = {}
  /\ dirty_lru' = <<>>
  /\ pc' = "commit"
  /\ todo' = stash_vector
  /\ UNCHANGED <<disk, present_blocks, clean_lru, stash_set, blocks_ids,
                 m_version_metadata_path, m_read_only, stash_files, region, op,
                 version_metadata_path, m_temp_current_metadata_path>>

(* commit_stash_block(): the stash file becomes the block file. *)
CommitStashBlock(b) ==
  /\ pc = "commit"
  /\ b \in todo
  /\ AddBlockFile(stash_files[b])
  /\ blocks_ids' = [blocks_ids EXCEPT ![b] = compute_hash[stash_files[b]]]
  /\ stash_files' = [stash_files EXCEPT ![b] = None]
  /\ todo' = todo \ {b}
  /\ UNCHANGED <<metadata, files, present_blocks, clean_lru, dirty_lru, stash_set,
                 m_version_metadata_path, m_read_only, region, pc, op,
                 version_metadata_path, m_temp_current_metadata_path>>

(* The blocks update_metadata() writes: up to the highest present one, and *)
(* none when no block is present.                                          *)
BelowHighestPresent(b) == \E x \in present_blocks : b < x \* seeded fault
InMetadataRange(b) == \E x \in present_blocks : b <= x

(* snapshot() puts the open version's path back after its msync(). *)
KeptPath == version_metadata_path \* seeded fault
RestoredPath == m_temp_current_metadata_path

UpdateMetadata ==
  /\ pc = "commit"
  /\ todo = {}
  /\ stash_set' = {}
  /\ metadata' = [metadata EXCEPT ![m_version_metadata_path] =
                    [b \in Blocks |-> IF InMetadataRange(b) THEN blocks_ids[b] ELSE @[b]]]
  /\ \/ op = "msync" /\ Return /\ UNCHANGED m_version_metadata_path
     \/ /\ op = "snapshot" /\ pc' = "_blocks_path"
        /\ m_version_metadata_path' = RestoredPath
        /\ UNCHANGED <<op, todo, version_metadata_path, m_temp_current_metadata_path>>
     \/ /\ op = "close" /\ pc' = "unmap"
        /\ UNCHANGED <<op, todo, m_version_metadata_path, version_metadata_path,
                       m_temp_current_metadata_path>>
  /\ UNCHANGED <<block_files, files, present_blocks, clean_lru, dirty_lru, blocks_ids,
                 m_read_only, stash_files, region>>

(* The end of close(). *)
Unmap ==
  /\ pc = "unmap"
  /\ EndRegion

(* The process dies: only what is on disk is left, and the next process    *)
(* does not know the stash files that may be there.                        *)
Crash ==
  /\ pc # "closed"
  /\ EndRegion

-------------------------------------------------------------------------------
Next ==
  \/ \E v \in Versions :
       \/ \E flag \in BOOLEAN : Create(v, flag) \/ Open(v, flag)
       \/ Snapshot(v)
  \/ \E b \in Blocks :
       \/ \E value \in Values : Store(b, value)
       \/ \E is_write_fault \in BOOLEAN : AbsentFault(b, is_write_fault)
       \/ PresentWriteFault(b) \/ ReadOnlyWriteFault(b)
       \/ StoreBlock(b) \/ CommitStashBlock(b)
  \/ WriteVersionFile \/ MapRegion
  \/ Msync \/ Close \/ ClearDirty \/ UpdateMetadata \/ Unmap
  \/ Crash

Spec == Init /\ [][Next]_vars

-------------------------------------------------------------------------------
(* The blocks whose latest contents are in memory only. *)
Unsaved == IF pc = "store" THEN todo ELSE ToSet(dirty_lru)

(* The blocks whose latest contents may be in a stash file. *)
Stashed == IF pc = "commit" THEN todo ELSE stash_set

(* The two lists split the resident blocks: nothing is in a list twice,    *)
(* every resident block is in the list its state calls for, and no evicted *)
(* block is left in either.  evict_if_needed() takes its victim from the   *)
(* lists without looking at present_blocks, so a stale or doubled entry    *)
(* would evict a block that is not there, and a missing one would leave    *)
(* nothing to evict at the limit.                                          *)
LruPartition ==
  /\ IsInjective(clean_lru) /\ IsInjective(dirty_lru)
  /\ ToSet(dirty_lru) \subseteq present_blocks
  /\ Unsaved \subseteq ToSet(dirty_lru)
  /\ ToSet(clean_lru) = present_blocks \ Unsaved

(* PRIVATEER_MAX_MEM_BLOCKS is never exceeded by resident blocks. *)
MemoryBound == Cardinality(present_blocks) <= MaxMemBlocks

(* The page protections are the write barrier: a block can be stored to    *)
(* without a fault exactly while it is on record as unsaved.  A writable   *)
(* block outside the dirty list would take stores no msync() ever saves.   *)
WriteBarrier ==
  \A b \in Blocks :
    prot[b] = IF b \notin present_blocks THEN "none"
              ELSE IF b \in Unsaved THEN "write" ELSE "read"

(* The manager's stash_set and the storage's table of stash files agree,   *)
(* and neither knows a block that has newer contents in memory: otherwise  *)
(* msync() would commit the outdated file over the block it just stored.   *)
StashCurrent ==
  /\ Stashed = {b \in Blocks : stash_files[b] # None}
  /\ pc # "commit" => stash_set \cap ToSet(dirty_lru) = {}

(* At every moment, so also after a crash, every hash in a _metadata file  *)
(* names a block file that is there: blocks reach the disk before the      *)
(* metadata that names them.                                               *)
MetadataBacked ==
  \A v \in Versions, b \in Blocks :
    metadata[v][b] # EMPTY_BLOCK_HASH => block_files[metadata[v][b]] # None

(* What the file a hash names holds; the empty hash names a zero block. *)
FileContents(h) == IF h = EMPTY_BLOCK_HASH THEN Zero ELSE block_files[h]

(* The saved copy of b's contents: its stash file, or else its block file. *)
SavedCopy(b) ==
  IF stash_files[b] # None THEN stash_files[b] ELSE FileContents(blocks_ids[b])

(* A clean block may be thrown away: its saved copy is what memory holds.  *)
(* And the pages of an absent block are the kernel's zero pages again, so  *)
(* that a block with no backing file reads as zeros.                       *)
CleanIsDisposable ==
  \A b \in Blocks :
    /\ b \in present_blocks \ Unsaved => mem[b] = SavedCopy(b)
    /\ b \notin present_blocks => mem[b] = Zero

(* What a load from b returns, now if b is present and after its fault     *)
(* otherwise.                                                              *)
Contents(b) == IF b \in present_blocks THEN mem[b] ELSE BackingBlock(b)

(* Every block that update_metadata() writes an entry for is saved with    *)
(* the contents the application sees, wherever they were: in memory, in a  *)
(* block file since an earlier msync(), or in the stash until this one.    *)
RangeDurable ==
  [][UpdateMetadata =>
       \A b \in Blocks : InMetadataRange(b) =>
         FileContents(metadata'[m_version_metadata_path][b]) = Contents(b)]_vars

(* "Commit changes to datastore" (privateer.hpp): when msync() or close()  *)
(* has written the metadata, the version holds the region's contents.      *)
MsyncDurable ==
  [][UpdateMetadata /\ op # "snapshot" =>
       \A b \in Blocks :
         FileContents(metadata'[m_version_metadata_path][b]) = Contents(b)]_vars

(* "Commit changes and takes a snapshot of current changes made so far"    *)
(* (privateer.hpp): the snapshot holds the region's contents.              *)
SnapshotComplete ==
  [][UpdateMetadata /\ op = "snapshot" =>
       \A b \in Blocks :
         FileContents(metadata'[m_version_metadata_path][b]) = Contents(b)]_vars

(* The version the region was opened from, while snapshot() has the path   *)
(* field point elsewhere too.                                              *)
OpenVersion ==
  IF op = "snapshot" /\ pc \in {"store", "commit"}
  THEN m_temp_current_metadata_path ELSE m_version_metadata_path

(* A region opened read-only never changes its version, although msync(),  *)
(* snapshot() and close() rewrite its _metadata all the same.              *)
ReadOnlyPreserves ==
  [][m_read_only => metadata'[OpenVersion] = metadata[OpenVersion]]_vars

-------------------------------------------------------------------------------
(* The promise of RegionStore, and how the state above keeps it. *)
Mapped ==
  \/ pc \in {"ready", "store", "commit", "unmap"}
  \/ pc \in {"_blocks_path", "_capacity"} /\ op = "snapshot"

Region ==
  INSTANCE RegionStore WITH
    NoRegion <- None,
    data     <- IF Mapped THEN [b \in Blocks |-> Contents(b)] ELSE None,
    current  <- IF Mapped THEN OpenVersion ELSE None,
    making   <- IF op = "snapshot" THEN version_metadata_path ELSE None,
    saved    <- [v \in Versions |-> [b \in Blocks |-> FileContents(metadata[v][b])]],
    openable <- {v \in Versions : files[v] = VersionFile}

(* Faults, evictions, stashing, the steps of msync() and a death between   *)
(* any two of them never change what the application reads or what a       *)
(* version holds, except by saving a block's current contents in the       *)
(* version being written.                                                  *)
ImplementsRegionStore == Region!Spec
===============================================================================
