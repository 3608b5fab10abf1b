-------------------------- MODULE SigactionVmmProofs --------------------------
(***************************************************************************)
(* Proofs about SigactionVmm, for every number of blocks, every memory     *)
(* limit, all contents and any set of versions.                            *)
(*                                                                         *)
(* The properties are not inductive one by one: that an evicted dirty      *)
(* block exists needs the lists to split the resident blocks, that memory  *)
(* holds values needs the block files that the ids name to exist, that a   *)
(* clean block can be thrown away needs the stash to hold no outdated      *)
(* file, and so on.  IInv is their conjunction with what the code relies   *)
(* on between the steps of a call.                                         *)
(*                                                                         *)
(* Two results come after it: if all blocks fit within the memory limit,   *)
(* msync() and close() save the whole region, which takes one invariant    *)
(* more (AbsentUntouched); and the manager implements RegionStore.         *)
(***************************************************************************)
EXTENDS SigactionVmm, LruLemmas, FiniteSetTheorems, TLAPS

(* How far the call under way is, and what that says of the other fields. *)
CallState ==
  /\ pc \in {"closed", "ready"} => op = "none"
  /\ pc \in {"_metadata", "map"} => op = "create"
  /\ pc \in {"_blocks_path", "_capacity"} => op \in {"create", "snapshot"}
  /\ pc \in {"store", "commit"} => op \in {"msync", "snapshot", "close"}
  /\ pc = "unmap" => op = "close"
  /\ pc \notin {"store", "commit"} => todo = {}
  /\ pc \in {"commit", "unmap", "_blocks_path", "_capacity"} => dirty_lru = <<>>

(* A call has the version directory it was given, an open region its own,  *)
(* and snapshot() a second, different one.                                 *)
VersionPaths ==
  /\ op \in {"create", "snapshot"} => version_metadata_path \in Versions
  /\ Mapped => m_version_metadata_path \in Versions
  /\ op = "snapshot" /\ pc \in {"store", "commit"} =>
       /\ m_version_metadata_path = version_metadata_path
       /\ m_temp_current_metadata_path \in Versions
       /\ m_temp_current_metadata_path # m_version_metadata_path

(* The files create() and snapshot() have made so far, what create() put   *)
(* in _metadata, and that an open version has all its files.               *)
VersionFiles ==
  /\ op \in {"create", "snapshot"} => "dir" \in files[version_metadata_path]
  /\ op = "snapshot" \/ (op = "create" /\ pc # "_metadata") =>
       "_metadata" \in files[version_metadata_path]
  /\ op \in {"create", "snapshot"} /\ pc \in {"_capacity", "map"} =>
       "_blocks_path" \in files[version_metadata_path]
  /\ op = "create" =>
       /\ pc = "map" => files[version_metadata_path] = VersionFile
       /\ metadata[version_metadata_path] = NoBlocks
  /\ Mapped => files[OpenVersion] = VersionFile

(* Without a region the fields are as the constructors expect them. *)
NoRegionState ==
  ~Mapped =>
    /\ present_blocks = {} /\ clean_lru = <<>> /\ dirty_lru = <<>>
    /\ stash_set = {} /\ stash_files = [b \in Blocks |-> None]
    /\ ~m_read_only
    /\ mem = [b \in Blocks |-> Zero] /\ prot = [b \in Blocks |-> "none"]

(* A block file holds contents that hash to its name, and every id names   *)
(* a file that is there.                                                   *)
ContentAddressed ==
  \A h \in Hashes :
    block_files[h] # None =>
      block_files[h] \in Values /\ compute_hash[block_files[h]] = h

IdsBacked ==
  \A b \in Blocks :
    blocks_ids[b] # EMPTY_BLOCK_HASH => block_files[blocks_ids[b]] # None

(* A read-only region is never dirty and its ids are those of its version. *)
ReadOnlyClean ==
  m_read_only =>
    /\ dirty_lru = <<>> /\ todo = {} /\ stash_set = {}
    /\ blocks_ids = metadata[OpenVersion]

ListInv == LruPartition /\ MemoryBound /\ WriteBarrier
DataInv == StashCurrent /\ ContentAddressed /\ IdsBacked /\ MetadataBacked /\ CleanIsDisposable
ControlInv == CallState /\ VersionPaths /\ VersionFiles /\ NoRegionState /\ ReadOnlyClean
IInv == TypeOK /\ ControlInv /\ ListInv /\ DataInv

-------------------------------------------------------------------------------
LEMMA InitInv == Init => IInv
<1> SUFFICES ASSUME Init PROVE IInv
  OBVIOUS
<1> USE SizeAssumption, ValueAssumption, HashAssumption DEF Init
<1>1. TypeOK
  <2>1. NoBlocks \in [Blocks -> Hashes] /\ <<>> \in Seq(Blocks)
    BY DEF NoBlocks
  <2>2. /\ block_files \in [Hashes -> Values \cup {None}]
        /\ metadata \in [Versions -> [Blocks -> Hashes]]
        /\ files \in [Versions -> SUBSET VersionFile]
    BY <2>1
  <2> QED
    BY <2>1, <2>2 DEF TypeOK, pcs
<1>2. ControlInv
  BY DEF ControlInv, CallState, VersionPaths, VersionFiles, NoRegionState,
     ReadOnlyClean, Mapped
<1>3. ListInv
  <2>1. Cardinality(present_blocks) = 0
    BY FS_EmptySet
  <2> QED
    BY <2>1, ToSetEmpty DEF ListInv, LruPartition, MemoryBound, WriteBarrier,
       Unsaved
<1>4. DataInv
  BY ToSetEmpty DEF DataInv, StashCurrent, ContentAddressed, IdsBacked,
     MetadataBacked, CleanIsDisposable, Stashed, Unsaved, NoBlocks
<1> QED
  BY <1>1, <1>2, <1>3, <1>4 DEF IInv

(* close() and the end of a process leave what is on disk. *)
LEMMA EndRegionInv == ASSUME IInv, EndRegion PROVE IInv'
<1>1. TypeOK'
  <2>1. NoBlocks \in [Blocks -> Hashes] /\ <<>> \in Seq(Blocks)
    BY HashAssumption DEF NoBlocks
  <2> QED
    BY <2>1, ValueAssumption DEF IInv, TypeOK, EndRegion, pcs, disk
<1>2. ControlInv'
  BY DEF EndRegion, ControlInv, CallState, VersionPaths, VersionFiles,
     NoRegionState, ReadOnlyClean, Mapped, OpenVersion
<1>3. ListInv'
  <2>1. Cardinality(present_blocks') = 0
    BY FS_EmptySet DEF EndRegion
  <2> QED
    BY <2>1, ToSetEmpty, SizeAssumption DEF EndRegion, ListInv, LruPartition, MemoryBound,
       WriteBarrier, Unsaved
<1>4. DataInv'
  BY ToSetEmpty DEF IInv, DataInv, EndRegion, StashCurrent, ContentAddressed,
     IdsBacked, MetadataBacked, CleanIsDisposable, Stashed, Unsaved, NoBlocks, disk
<1> QED
  BY <1>1, <1>2, <1>3, <1>4 DEF IInv

LEMMA CreateInv ==
  ASSUME IInv, NEW v \in Versions, NEW flag \in BOOLEAN, Create(v, flag)
  PROVE  IInv'
<1>1. TypeOK'
  BY HashAssumption, ValueAssumption DEF IInv, TypeOK, Create, NoBlocks, pcs, fields, region, VersionFile
<1>2. ControlInv'
  BY DEF IInv, TypeOK, Create, fields, region, ControlInv, CallState, VersionPaths,
     VersionFiles, NoRegionState, ReadOnlyClean, Mapped, OpenVersion
<1>3. ListInv'
  BY DEF IInv, Create, fields, region, ControlInv, CallState, ListInv, LruPartition,
     MemoryBound, WriteBarrier, Unsaved
<1>4. DataInv'
  BY DEF IInv, TypeOK, DataInv, Create, fields, region, StashCurrent,
     ContentAddressed, IdsBacked, MetadataBacked, CleanIsDisposable, SavedCopy,
     FileContents, Stashed, Unsaved, NoBlocks
<1> QED
  BY <1>1, <1>2, <1>3, <1>4 DEF IInv

LEMMA WriteVersionFileInv == ASSUME IInv, WriteVersionFile PROVE IInv'
<1>1. TypeOK'
  BY DEF IInv, TypeOK, WriteVersionFile, Return, ControlInv, VersionPaths,
     CallState, pcs, fields, region, VersionFile
<1>2. ControlInv'
  BY DEF IInv, TypeOK, WriteVersionFile, Return, fields, region, ControlInv,
     CallState, VersionPaths, VersionFiles, NoRegionState, ReadOnlyClean, Mapped,
     OpenVersion, VersionFile
<1>3. ListInv'
  BY DEF IInv, WriteVersionFile, Return, fields, region, ControlInv, CallState,
     ListInv, LruPartition, MemoryBound, WriteBarrier, Unsaved
<1>4. DataInv'
  BY DEF IInv, TypeOK, DataInv, WriteVersionFile, Return, fields, region,
     StashCurrent, ContentAddressed, IdsBacked, MetadataBacked, CleanIsDisposable,
     SavedCopy, FileContents, Stashed, Unsaved, NoBlocks
<1> QED
  BY <1>1, <1>2, <1>3, <1>4 DEF IInv

LEMMA MapRegionInv == ASSUME IInv, MapRegion PROVE IInv'
<1>1. TypeOK'
  BY HashAssumption DEF IInv, TypeOK, MapRegion, NoBlocks, Return, ControlInv, VersionPaths,
     CallState, pcs, disk, region
<1>2. ControlInv'
  BY DEF IInv, TypeOK, MapRegion, Return, disk, region, ControlInv, CallState,
     VersionPaths, VersionFiles, NoRegionState, ReadOnlyClean, Mapped, OpenVersion
<1>3. ListInv'
  BY DEF IInv, MapRegion, Return, disk, region, ControlInv, CallState, ListInv,
     LruPartition, MemoryBound, WriteBarrier, Unsaved
<1>4. DataInv'
  BY DEF IInv, TypeOK, ControlInv, NoRegionState, Mapped, DataInv, MapRegion,
     Return, disk, region, StashCurrent, ContentAddressed, IdsBacked,
     MetadataBacked, CleanIsDisposable, SavedCopy, FileContents, Stashed, Unsaved,
     NoBlocks
<1> QED
  BY <1>1, <1>2, <1>3, <1>4 DEF IInv

LEMMA OpenInv ==
  ASSUME IInv, NEW v \in Versions, NEW flag \in BOOLEAN, Open(v, flag)
  PROVE  IInv'
<1>1. TypeOK'
  BY DEF IInv, TypeOK, Open, Return, pcs, disk, region
<1>2. ControlInv'
  BY DEF IInv, TypeOK, Open, Return, disk, region, ControlInv, CallState,
     VersionPaths, VersionFiles, NoRegionState, ReadOnlyClean, Mapped, OpenVersion
<1>3. ListInv'
  BY DEF IInv, Open, Return, disk, region, ControlInv, CallState, ListInv,
     LruPartition, MemoryBound, WriteBarrier, Unsaved
<1>4. DataInv'
  BY DEF IInv, TypeOK, ControlInv, NoRegionState, Mapped, DataInv, Open, Return,
     disk, region, StashCurrent, ContentAddressed, IdsBacked, MetadataBacked,
     CleanIsDisposable, SavedCopy, FileContents, Stashed, Unsaved, NoBlocks
<1> QED
  BY <1>1, <1>2, <1>3, <1>4 DEF IInv

-------------------------------------------------------------------------------

LEMMA StoreInv ==
  ASSUME IInv, NEW b \in Blocks, NEW value \in Values, Store(b, value)
  PROVE  IInv'
<1>1. TypeOK'
  BY DEF IInv, TypeOK, Store, disk, fields, call, LruPartition, ListInv,
     WriteBarrier, pcs
<1>2. ControlInv'
  BY DEF IInv, TypeOK, Store, disk, fields, call, LruPartition, ListInv,
     WriteBarrier, ControlInv, CallState, VersionPaths, VersionFiles, NoRegionState,
     ReadOnlyClean, Mapped, OpenVersion
<1>3. ListInv'
  BY DEF IInv, TypeOK, Store, disk, fields, call, LruPartition, ListInv,
     WriteBarrier, ControlInv, CallState, MemoryBound, Unsaved
<1>4. DataInv'
  BY DEF IInv, TypeOK, Store, disk, fields, call, LruPartition, ListInv,
     WriteBarrier, ControlInv, CallState, DataInv, StashCurrent, ContentAddressed,
     IdsBacked, MetadataBacked, CleanIsDisposable, SavedCopy, FileContents, Stashed,
     Unsaved
<1> QED
  BY <1>1, <1>2, <1>3, <1>4 DEF IInv

LEMMA PresentWriteFaultInv ==
  ASSUME IInv, NEW b \in Blocks, PresentWriteFault(b)
  PROVE  IInv'
<1> USE DEF PresentWriteFault, WriteAllowed, disk, call
<1>1. /\ pc = "ready" /\ Unsaved = ToSet(dirty_lru) /\ Unsaved' = ToSet(dirty_lru')
      /\ b \notin ToSet(dirty_lru)
      /\ clean_lru \in Seq(Blocks) /\ dirty_lru \in Seq(Blocks)
      /\ IsInjective(clean_lru) /\ IsInjective(dirty_lru)
  BY DEF IInv, TypeOK, ListInv, LruPartition, WriteBarrier, Unsaved
<1>2. /\ clean_lru' \in Seq(Blocks) /\ IsInjective(clean_lru')
      /\ ToSet(clean_lru') = ToSet(clean_lru) \ {b}
  BY <1>1, RemoveFirstProperties DEF CleanWithout
<1>3. /\ dirty_lru' \in Seq(Blocks) /\ IsInjective(dirty_lru')
      /\ ToSet(dirty_lru') = ToSet(dirty_lru) \cup {b}
  BY <1>1, ConsProperties
<1>4. TypeOK'
  BY <1>2, <1>3 DEF IInv, TypeOK
<1>5. ControlInv'
  BY DEF IInv, TypeOK, ControlInv, CallState, VersionPaths, VersionFiles,
     NoRegionState, ReadOnlyClean, Mapped, OpenVersion
<1>6. ListInv'
  BY <1>1, <1>2, <1>3 DEF IInv, TypeOK, ListInv, LruPartition, MemoryBound,
     WriteBarrier
<1>7. StashCurrent'
  BY <1>1, <1>3 DEF IInv, TypeOK, DataInv, StashCurrent, Stashed
<1>8. CleanIsDisposable'
  BY <1>1, <1>3 DEF IInv, TypeOK, DataInv, CleanIsDisposable, SavedCopy,
     FileContents
<1>9. DataInv'
  BY <1>7, <1>8 DEF IInv, DataInv, ContentAddressed, IdsBacked, MetadataBacked
<1> QED
  BY <1>4, <1>5, <1>6, <1>9 DEF IInv

LEMMA StartMsyncInv ==
  ASSUME IInv, Msync \/ Close
  PROVE  IInv'
<1>1. TypeOK'
  BY ToSetElements DEF IInv, TypeOK, Msync, Close, StartMsync, disk, fields, region,
     pcs
<1>2. ControlInv'
  BY ToSetEmpty DEF IInv, TypeOK, Msync, Close, StartMsync, disk, fields, region,
     ControlInv, CallState, VersionPaths, VersionFiles, NoRegionState,
     ReadOnlyClean, Mapped, OpenVersion
<1>3. ListInv'
  BY DEF IInv, TypeOK, Msync, Close, StartMsync, disk, fields, region, ControlInv,
     CallState, ListInv, LruPartition, MemoryBound, WriteBarrier, Unsaved
<1>4. DataInv'
  BY DEF IInv, TypeOK, Msync, Close, StartMsync, disk, fields, region, ControlInv,
     CallState, DataInv, StashCurrent, ContentAddressed, IdsBacked, MetadataBacked,
     CleanIsDisposable, SavedCopy, FileContents, Stashed, Unsaved
<1> QED
  BY <1>1, <1>2, <1>3, <1>4 DEF IInv

LEMMA SnapshotInv ==
  ASSUME IInv, NEW v \in Versions, Snapshot(v)
  PROVE  IInv'
<1>1. TypeOK'
  BY ToSetElements DEF IInv, TypeOK, Snapshot, StartMsync, region, pcs, VersionFile
<1>2. ControlInv'
  BY ToSetEmpty DEF IInv, TypeOK, Snapshot, StartMsync, region, VersionFile,
     ControlInv, CallState, VersionPaths, VersionFiles, NoRegionState,
     ReadOnlyClean, Mapped, OpenVersion
<1>3. ListInv'
  BY DEF IInv, TypeOK, Snapshot, StartMsync, region, ControlInv, CallState, ListInv,
     LruPartition, MemoryBound, WriteBarrier, Unsaved
<1>4. DataInv'
  BY DEF IInv, TypeOK, Snapshot, StartMsync, region, ControlInv, CallState, DataInv,
     StashCurrent, ContentAddressed, IdsBacked, MetadataBacked, CleanIsDisposable,
     SavedCopy, FileContents, Stashed, Unsaved
<1> QED
  BY <1>1, <1>2, <1>3, <1>4 DEF IInv

LEMMA StoreBlockInv ==
  ASSUME IInv, NEW b \in Blocks, StoreBlock(b)
  PROVE  IInv'
<1> USE DEF StoreBlock
<1>1. /\ pc = "store" /\ Unsaved = todo /\ Unsaved' = todo \ {b}
      /\ b \in ToSet(dirty_lru) /\ b \in present_blocks /\ b \notin ToSet(clean_lru)
      /\ clean_lru \in Seq(Blocks) /\ IsInjective(clean_lru)
  BY DEF IInv, TypeOK, ListInv, LruPartition, Unsaved
<1>2. /\ clean_lru' \in Seq(Blocks) /\ IsInjective(clean_lru')
      /\ ToSet(clean_lru') = ToSet(clean_lru) \cup {b}
  BY <1>1, ConsProperties
<1>3. /\ mem[b] \in Values
      /\ compute_hash[mem[b]] \in Hashes \ {EMPTY_BLOCK_HASH}
      /\ stash_files[b] = None
  BY <1>1, HashAssumption DEF IInv, TypeOK, DataInv, StashCurrent, Stashed
<1>4. TypeOK'
  BY <1>2, <1>3 DEF IInv, TypeOK, AddBlockFile, WriteProtected
<1>5. ControlInv'
  BY DEF IInv, TypeOK, ControlInv, CallState, VersionPaths, VersionFiles,
     NoRegionState, ReadOnlyClean, Mapped, OpenVersion
<1>6. ListInv'
  BY <1>1, <1>2 DEF IInv, TypeOK, ListInv, LruPartition, MemoryBound, WriteBarrier,
     WriteProtected
<1>7. block_files'[compute_hash[mem[b]]] = mem[b]
  BY <1>3, HashAssumption DEF IInv, TypeOK, DataInv, ContentAddressed, AddBlockFile
<1>8. \A h \in Hashes : block_files[h] # None => block_files'[h] = block_files[h]
  BY DEF IInv, TypeOK, AddBlockFile
<1>9. CleanIsDisposable'
  BY <1>1, <1>3, <1>7, <1>8 DEF IInv, TypeOK, DataInv, CleanIsDisposable, IdsBacked,
     SavedCopy, FileContents
<1>10. /\ StashCurrent' /\ ContentAddressed' /\ IdsBacked' /\ MetadataBacked'
  <2>1. ContentAddressed'
    BY <1>3 DEF IInv, TypeOK, DataInv, ContentAddressed, AddBlockFile
  <2>2. IdsBacked' /\ MetadataBacked'
    BY <1>3, <1>7, <1>8, ValueAssumption DEF IInv, TypeOK, DataInv, IdsBacked, MetadataBacked
  <2>3. StashCurrent'
    BY <1>1 DEF IInv, DataInv, StashCurrent, Stashed
  <2> QED
    BY <2>1, <2>2, <2>3
<1> QED
  BY <1>4, <1>5, <1>6, <1>9, <1>10 DEF IInv, DataInv

LEMMA ClearDirtyInv ==
  ASSUME IInv, ClearDirty
  PROVE  IInv'
<1>1. TypeOK'
  BY DEF IInv, TypeOK, ClearDirty, stash_vector, disk, region, pcs
<1>2. ControlInv'
  BY DEF IInv, TypeOK, ClearDirty, stash_vector, disk, region, ControlInv,
     CallState, VersionPaths, VersionFiles, NoRegionState, ReadOnlyClean, Mapped,
     OpenVersion
<1>3. ListInv'
  BY ToSetEmpty DEF IInv, TypeOK, ClearDirty, stash_vector, disk, region,
     ControlInv, CallState, ListInv, LruPartition, MemoryBound, WriteBarrier,
     Unsaved
<1>4. DataInv'
  BY DEF IInv, TypeOK, ClearDirty, stash_vector, disk, region, ControlInv,
     CallState, DataInv, StashCurrent, ContentAddressed, IdsBacked, MetadataBacked,
     CleanIsDisposable, SavedCopy, FileContents, Stashed, Unsaved
<1> QED
  BY <1>1, <1>2, <1>3, <1>4 DEF IInv

LEMMA CommitStashBlockInv ==
  ASSUME IInv, NEW b \in Blocks, CommitStashBlock(b)
  PROVE  IInv'
<1>1. TypeOK'
  <2>1. stash_files[b] \in Values
    BY DEF IInv, TypeOK, DataInv, StashCurrent, Stashed, CommitStashBlock
  <2> QED
    BY <2>1, HashAssumption DEF IInv, TypeOK, CommitStashBlock, AddBlockFile, region
<1>2. ControlInv'
  BY DEF IInv, TypeOK, CommitStashBlock, AddBlockFile, region, ControlInv,
     CallState, VersionPaths, VersionFiles, NoRegionState, ReadOnlyClean, Mapped,
     OpenVersion
<1>3. ListInv'
  BY DEF IInv, TypeOK, CommitStashBlock, AddBlockFile, region, ControlInv,
     CallState, ListInv, LruPartition, MemoryBound, WriteBarrier, Unsaved
<1>4. DataInv'
  BY HashAssumption DEF IInv, TypeOK, CommitStashBlock, AddBlockFile, region, ControlInv,
     CallState, DataInv, StashCurrent, ContentAddressed, IdsBacked, MetadataBacked,
     CleanIsDisposable, SavedCopy, FileContents, Stashed, Unsaved
<1> QED
  BY <1>1, <1>2, <1>3, <1>4 DEF IInv

LEMMA UpdateMetadataInv ==
  ASSUME IInv, UpdateMetadata
  PROVE  IInv'
<1>1. TypeOK'
  BY DEF IInv, TypeOK, UpdateMetadata, Return, RestoredPath, InMetadataRange,
     region, pcs
<1>2. ControlInv'
  BY DEF IInv, TypeOK, UpdateMetadata, Return, RestoredPath, InMetadataRange,
     region, ControlInv, CallState, VersionPaths, VersionFiles, NoRegionState,
     ReadOnlyClean, Mapped, OpenVersion
<1>3. ListInv'
  BY DEF IInv, TypeOK, UpdateMetadata, Return, RestoredPath, InMetadataRange,
     region, ControlInv, CallState, ListInv, LruPartition, MemoryBound,
     WriteBarrier, Unsaved
<1>4. DataInv'
  BY DEF IInv, TypeOK, UpdateMetadata, Return, RestoredPath, InMetadataRange,
     region, ControlInv, CallState, DataInv, StashCurrent, ContentAddressed,
     IdsBacked, MetadataBacked, CleanIsDisposable, SavedCopy, FileContents, Stashed,
     Unsaved
<1> QED
  BY <1>1, <1>2, <1>3, <1>4 DEF IInv

-------------------------------------------------------------------------------
(* evict_if_needed() finds a resident block to evict whenever memory is    *)
(* full, in the list it looks in; nothing else leaves either list.         *)
LEMMA EvictionFindsVictim ==
  ASSUME IInv, pc = "ready"
  PROVE  /\ clean_left \in Seq(Blocks) /\ IsInjective(clean_left)
         /\ ToSet(clean_left) = ToSet(clean_lru) \ to_evict
         /\ dirty_left \in Seq(Blocks) /\ IsInjective(dirty_left)
         /\ ToSet(dirty_left) = ToSet(dirty_lru) \ to_evict
         /\ to_evict \subseteq present_blocks
         /\ stashed = to_evict \cap ToSet(dirty_lru)
         /\ MemoryFull => \E victim \in present_blocks : to_evict = {victim}
         /\ ~MemoryFull => to_evict = {}
<1> USE SizeAssumption
<1>1. /\ clean_lru \in Seq(Blocks) /\ IsInjective(clean_lru)
      /\ dirty_lru \in Seq(Blocks) /\ IsInjective(dirty_lru)
      /\ Unsaved = ToSet(dirty_lru)
      /\ ToSet(dirty_lru) \subseteq present_blocks
      /\ ToSet(clean_lru) = present_blocks \ ToSet(dirty_lru)
      /\ present_blocks \subseteq Blocks
  BY DEF IInv, TypeOK, ListInv, LruPartition, Unsaved
<1>2. /\ Len(clean_lru) \in Nat /\ (Len(clean_lru) = 0 <=> ToSet(clean_lru) = {})
      /\ Len(dirty_lru) \in Nat /\ (Len(dirty_lru) = 0 <=> ToSet(dirty_lru) = {})
  BY <1>1, ToSetElements
<1>3. CASE ~MemoryFull
  BY <1>1, <1>3 DEF clean_left, dirty_left, to_evict, stashed, EvictClean,
     EvictDirty
<1>4. CASE EvictClean
  <2>1. /\ Last(clean_lru) \in ToSet(clean_lru)
        /\ Front(clean_lru) \in Seq(Blocks)
        /\ ToSet(Front(clean_lru)) = ToSet(clean_lru) \ {Last(clean_lru)}
        /\ IsInjective(Front(clean_lru))
    BY <1>1, <1>4, FrontLastProperties DEF EvictClean
  <2>2. ~EvictDirty /\ MemoryFull
    BY <1>4 DEF EvictClean, EvictDirty
  <2> QED
    BY <1>1, <1>4, <2>1, <2>2 DEF clean_left, dirty_left, to_evict, stashed
<1>5. CASE EvictDirty
  <2>1. present_blocks # {}
    <3> SUFFICES ASSUME present_blocks = {} PROVE FALSE
      OBVIOUS
    <3>1. Cardinality(present_blocks) = 0
      BY FS_EmptySet
    <3>2. 0 >= MaxMemBlocks
      BY <1>5, <3>1 DEF EvictDirty, MemoryFull
    <3> QED
      BY <3>2
  <2>2. Len(dirty_lru) > 0
    BY <1>1, <1>2, <1>5, <2>1 DEF EvictDirty
  <2>3. /\ Last(dirty_lru) \in ToSet(dirty_lru)
        /\ Front(dirty_lru) \in Seq(Blocks)
        /\ ToSet(Front(dirty_lru)) = ToSet(dirty_lru) \ {Last(dirty_lru)}
        /\ IsInjective(Front(dirty_lru))
    BY <1>1, <2>2, FrontLastProperties
  <2>4. ~EvictClean /\ MemoryFull /\ ToSet(clean_lru) = {}
    BY <1>2, <1>5 DEF EvictClean, EvictDirty
  <2> QED
    BY <1>1, <1>5, <2>3, <2>4 DEF clean_left, dirty_left, to_evict, stashed
<1> QED
  BY <1>2, <1>3, <1>4, <1>5 DEF EvictClean, EvictDirty

LEMMA AbsentFaultInv ==
  ASSUME IInv, NEW b \in Blocks, NEW is_write_fault \in BOOLEAN,
         AbsentFault(b, is_write_fault)
  PROVE  IInv'
<1> USE DEF AbsentFault, disk, call
<1> DEFINE outdated == IF is_write_fault THEN OutdatedStash(b) ELSE {}
<1>1. /\ pc = "ready" /\ pc' = "ready"
      /\ Unsaved = ToSet(dirty_lru) /\ Unsaved' = ToSet(dirty_lru')
      /\ ToSet(dirty_lru) \subseteq present_blocks
      /\ ToSet(clean_lru) = present_blocks \ ToSet(dirty_lru)
      /\ b \notin present_blocks
  BY DEF IInv, TypeOK, ListInv, LruPartition, Unsaved
<1>2. /\ clean_left \in Seq(Blocks) /\ IsInjective(clean_left)
      /\ ToSet(clean_left) = ToSet(clean_lru) \ to_evict
      /\ dirty_left \in Seq(Blocks) /\ IsInjective(dirty_left)
      /\ ToSet(dirty_left) = ToSet(dirty_lru) \ to_evict
      /\ to_evict \subseteq present_blocks
      /\ stashed = to_evict \cap ToSet(dirty_lru)
      /\ MemoryFull => \E victim \in present_blocks : to_evict = {victim}
      /\ ~MemoryFull => to_evict = {}
  BY <1>1, EvictionFindsVictim
<1>3. /\ Cons(b, clean_left) \in Seq(Blocks) /\ IsInjective(Cons(b, clean_left))
      /\ ToSet(Cons(b, clean_left)) = ToSet(clean_left) \cup {b}
      /\ Cons(b, dirty_left) \in Seq(Blocks) /\ IsInjective(Cons(b, dirty_left))
      /\ ToSet(Cons(b, dirty_left)) = ToSet(dirty_left) \cup {b}
  BY <1>1, <1>2, ConsProperties
<1>4. /\ clean_lru' \in Seq(Blocks) /\ IsInjective(clean_lru')
      /\ ToSet(clean_lru') = (ToSet(clean_lru) \ to_evict) \cup (IF is_write_fault THEN {} ELSE {b})
      /\ dirty_lru' \in Seq(Blocks) /\ IsInjective(dirty_lru')
      /\ ToSet(dirty_lru') = (ToSet(dirty_lru) \ to_evict) \cup (IF is_write_fault THEN {b} ELSE {})
  BY <1>2, <1>3
<1>5. BackingBlock(b) \in Values /\ BackingBlock(b) = SavedCopy(b)
  BY <1>1, HashAssumption DEF IInv, TypeOK, DataInv, IdsBacked, CleanIsDisposable,
     BackingBlock, SavedCopy, FileContents
<1>6. outdated = {x \in {b} : is_write_fault /\ stash_files[b] # None}
  BY DEF OutdatedStash
<1>7. /\ stash_set' = (stash_set \cup stashed) \ outdated
      /\ stash_files' = [x \in Blocks |-> IF x \in stashed THEN mem[x]
                                          ELSE IF x \in outdated THEN None
                                          ELSE stash_files[x]]
  OBVIOUS
<1> HIDE DEF outdated
<1>8. TypeOK'
  <2>1. stash_files' \in [Blocks -> Values \cup {None}] /\ stash_set' \subseteq Blocks
    <3>1. stash_files' \in [Blocks -> Values \cup {None}]
      BY <1>7 DEF IInv, TypeOK
    <3>2. stash_set \subseteq Blocks /\ stashed \subseteq Blocks
      BY <1>2 DEF IInv, TypeOK
    <3> QED
      BY <1>7, <3>1, <3>2
  <2>2. mem' \in [Blocks -> Values] /\ prot' \in [Blocks -> {"none", "read", "write"}]
    BY <1>5, ValueAssumption DEF IInv, TypeOK
  <2> QED
    BY <1>4, <2>1, <2>2 DEF IInv, TypeOK
<1>9. ControlInv'
  <2>1. ReadOnlyClean'
    <3> SUFFICES ASSUME m_read_only PROVE ReadOnlyClean'
      BY DEF ReadOnlyClean
    <3>1. ~is_write_fault /\ dirty_lru = <<>> /\ stash_set = {} /\ todo = {}
      BY DEF IInv, ControlInv, ReadOnlyClean, WriteAllowed
    <3>2. stashed = {} /\ dirty_lru' = <<>>
      <4>1. ToSet(dirty_lru) = {} /\ ToSet(dirty_lru') = {}
        BY <1>4, <3>1, ToSetEmpty
      <4>2. dirty_lru' = <<>>
        BY <1>4, <4>1, ToSetElements, EmptySeq
      <4> QED
        BY <1>2, <4>1, <4>2
    <3> QED
      BY <3>1, <3>2, <1>7 DEF IInv, ControlInv, ReadOnlyClean, Mapped, OpenVersion
  <2> QED
    BY <1>1, <2>1 DEF IInv, TypeOK, ControlInv, CallState, VersionPaths,
       VersionFiles, NoRegionState, Mapped, OpenVersion
<1>10. LruPartition'
  BY <1>1, <1>2, <1>4 DEF LruPartition
<1>11. MemoryBound'
  <2>1. IsFiniteSet(present_blocks) /\ Cardinality(present_blocks) \in Nat
    <3>1. IsFiniteSet(Blocks)
      BY FS_Interval, SizeAssumption DEF Blocks
    <3> QED
      BY <3>1, FS_Subset, FS_CardinalityType DEF IInv, TypeOK
  <2>2. CASE ~MemoryFull
    <3>1. present_blocks' = present_blocks \cup {b}
      BY <1>2, <2>2
    <3>2. Cardinality(present_blocks') = Cardinality(present_blocks) + 1
      <4>1. b \notin present_blocks
        BY <1>1
      <4>2. Cardinality(present_blocks \cup {b}) = Cardinality(present_blocks) + 1
        BY <2>1, <4>1, FS_AddElement, Zenon
      <4> QED
        BY <3>1, <4>2
    <3> QED
      BY <2>1, <2>2, <3>2, SizeAssumption DEF MemoryFull, MemoryBound
  <2>3. CASE MemoryFull
    <3>1. PICK victim \in present_blocks : to_evict = {victim}
      BY <1>2, <2>3
    <3>2. /\ IsFiniteSet(present_blocks \ {victim})
          /\ Cardinality(present_blocks \ {victim}) = Cardinality(present_blocks) - 1
      BY <2>1, FS_RemoveElement
    <3>3. Cardinality(present_blocks') = (Cardinality(present_blocks) - 1) + 1
      BY <1>1, <3>1, <3>2, FS_AddElement
    <3>4. Cardinality(present_blocks) <= MaxMemBlocks
      BY DEF IInv, ListInv, MemoryBound
    <3> QED
      BY <2>1, <3>3, <3>4, SizeAssumption DEF MemoryBound
  <2> QED
    BY <2>2, <2>3
<1>12. WriteBarrier'
  BY <1>1, <1>2, <1>4 DEF IInv, TypeOK, ListInv, WriteBarrier
<1>13. StashCurrent'
  <2>1. stash_set = {x \in Blocks : stash_files[x] # None} /\ stash_set \cap ToSet(dirty_lru) = {}
    BY <1>1 DEF IInv, DataInv, StashCurrent, Stashed
  <2>2. b \notin stashed /\ \A x \in Blocks : mem[x] # None
    BY <1>1, <1>2, ValueAssumption DEF IInv, TypeOK
  <2>3. stash_set' = {x \in Blocks : stash_files'[x] # None}
    BY <1>2, <1>6, <1>7, <2>1, <2>2 DEF IInv, TypeOK
  <2>4. stash_set' \cap ToSet(dirty_lru') = {}
    BY <1>1, <1>2, <1>4, <1>6, <1>7, <2>1, <2>2
  <2> QED
    BY <1>1, <2>3, <2>4 DEF StashCurrent, Stashed
<1>14. CleanIsDisposable'
  <2> SUFFICES ASSUME NEW x \in Blocks
               PROVE  /\ x \in present_blocks' \ Unsaved' => mem'[x] = SavedCopy(x)'
                      /\ x \notin present_blocks' => mem'[x] = Zero
    BY DEF CleanIsDisposable
  <2>1. /\ x \in present_blocks \ Unsaved => mem[x] = SavedCopy(x)
        /\ x \notin present_blocks => mem[x] = Zero
    BY DEF IInv, DataInv, CleanIsDisposable
  <2>2. mem'[x] = IF x \in to_evict THEN Zero ELSE IF x = b THEN BackingBlock(b) ELSE mem[x]
    BY DEF IInv, TypeOK
  <2>3. x \notin present_blocks' => mem'[x] = Zero
    BY <2>1, <2>2
  <2>4. ASSUME x \in present_blocks' \ Unsaved' PROVE mem'[x] = SavedCopy(x)'
    <3>1. x \notin to_evict /\ x \notin stashed /\ x \notin outdated
      BY <1>1, <1>2, <1>4, <1>6, <2>4
    <3>2. SavedCopy(x)' = SavedCopy(x)
      BY <1>7, <3>1 DEF SavedCopy, FileContents
    <3>3. x # b => x \in present_blocks \ Unsaved
      BY <1>1, <1>4, <2>4, <3>1
    <3> QED
      BY <1>5, <2>1, <2>2, <3>1, <3>2, <3>3
  <2> QED
    BY <2>3, <2>4
<1>15. ContentAddressed' /\ IdsBacked' /\ MetadataBacked'
  BY DEF IInv, DataInv, ContentAddressed, IdsBacked, MetadataBacked
<1> QED
  BY <1>8, <1>9, <1>10, <1>11, <1>12, <1>13, <1>14, <1>15 DEF IInv, ListInv, DataInv

-------------------------------------------------------------------------------
LEMMA StutterInv == ASSUME IInv, UNCHANGED vars PROVE IInv'
<1> USE DEF vars, disk, fields, region, call
<1>1. TypeOK'
  BY DEF IInv, TypeOK
<1>2. ControlInv'
  BY DEF IInv, ControlInv, CallState, VersionPaths, VersionFiles, NoRegionState,
     ReadOnlyClean, Mapped, OpenVersion
<1>3. ListInv'
  BY DEF IInv, ListInv, LruPartition, MemoryBound, WriteBarrier, Unsaved
<1>4. DataInv'
  BY DEF IInv, DataInv, StashCurrent, ContentAddressed, IdsBacked, MetadataBacked,
     CleanIsDisposable, SavedCopy, FileContents, Stashed, Unsaved
<1> QED
  BY <1>1, <1>2, <1>3, <1>4 DEF IInv

LEMMA NextInv == IInv /\ [Next]_vars => IInv'
<1> SUFFICES ASSUME IInv, [Next]_vars PROVE IInv'
  OBVIOUS
<1>1. CASE \E v \in Versions, flag \in BOOLEAN : Create(v, flag)
  BY <1>1, CreateInv
<1>2. CASE \E v \in Versions, flag \in BOOLEAN : Open(v, flag)
  BY <1>2, OpenInv
<1>3. CASE \E v \in Versions : Snapshot(v)
  BY <1>3, SnapshotInv
<1>4. CASE \E b \in Blocks, value \in Values : Store(b, value)
  BY <1>4, StoreInv
<1>5. CASE \E b \in Blocks, is_write_fault \in BOOLEAN : AbsentFault(b, is_write_fault)
  BY <1>5, AbsentFaultInv
<1>6. CASE \E b \in Blocks : PresentWriteFault(b)
  BY <1>6, PresentWriteFaultInv
<1>7. CASE (\E b \in Blocks : ReadOnlyWriteFault(b)) \/ Unmap \/ Crash
  BY <1>7, EndRegionInv DEF ReadOnlyWriteFault, Unmap, Crash
<1>8. CASE \E b \in Blocks : StoreBlock(b)
  BY <1>8, StoreBlockInv
<1>9. CASE \E b \in Blocks : CommitStashBlock(b)
  BY <1>9, CommitStashBlockInv
<1>10. CASE WriteVersionFile
  BY <1>10, WriteVersionFileInv
<1>11. CASE MapRegion
  BY <1>11, MapRegionInv
<1>12. CASE Msync \/ Close
  BY <1>12, StartMsyncInv
<1>13. CASE ClearDirty
  BY <1>13, ClearDirtyInv
<1>14. CASE UpdateMetadata
  BY <1>14, UpdateMetadataInv
<1>15. CASE UNCHANGED vars
  BY <1>15, StutterInv
<1> QED
  BY <1>1, <1>2, <1>3, <1>4, <1>5, <1>6, <1>7, <1>8, <1>9, <1>10, <1>11, <1>12,
     <1>13, <1>14, <1>15 DEF Next

(* The inductive invariant: what holds between any two steps. *)
THEOREM Inductive == Spec => []IInv
  BY InitInv, NextInv, PTL DEF Spec

(* Every field keeps its type; in particular no block is ever filled from  *)
(* a file that is not there.                                               *)
THEOREM TypeCorrect == Spec => []TypeOK
  BY Inductive, PTL DEF IInv

(* The LRU lists split the resident blocks, whatever is evicted, faulted   *)
(* in or saved, so evict_if_needed() always has a victim.                  *)
THEOREM ListsPartition == Spec => []LruPartition
  BY Inductive, PTL DEF IInv, ListInv

(* No fault leaves more blocks resident than the limit allows. *)
THEOREM MemoryBounded == Spec => []MemoryBound
  BY Inductive, PTL DEF IInv, ListInv

(* A page can be stored to silently exactly while its block is on record   *)
(* as unsaved, also in the middle of msync().                              *)
THEOREM NoSilentStore == Spec => []WriteBarrier
  BY Inductive, PTL DEF IInv, ListInv

(* No stash file is outdated, so that committing one never replaces newer  *)
(* contents.                                                               *)
THEOREM StashNeverStale == Spec => []StashCurrent
  BY Inductive, PTL DEF IInv, DataInv

(* Whenever the process dies, the hashes in every _metadata name block     *)
(* files that exist.                                                       *)
THEOREM MetadataNamesFiles == Spec => []MetadataBacked
  BY Inductive, PTL DEF IInv, DataInv

(* Evicting a clean block, or all of them, loses nothing. *)
THEOREM CleanBlocksDisposable == Spec => []CleanIsDisposable
  BY Inductive, PTL DEF IInv, DataInv

(* Once the stash is committed, an entry update_metadata() writes names    *)
(* what the application reads.                                             *)
LEMMA WrittenEntryDurable ==
  ASSUME IInv, UpdateMetadata, NEW b \in Blocks, InMetadataRange(b)
  PROVE  FileContents(metadata'[m_version_metadata_path][b]) = Contents(b)
<1>1. pc = "commit" /\ todo = {} /\ m_version_metadata_path \in Versions
  BY DEF UpdateMetadata, IInv, ControlInv, VersionPaths, Mapped
<1>2. metadata'[m_version_metadata_path][b] = blocks_ids[b]
  BY <1>1 DEF UpdateMetadata, IInv, TypeOK
<1>3. Unsaved = {}
  BY <1>1, ToSetEmpty DEF IInv, ControlInv, CallState, Unsaved
<1>4. stash_files[b] = None
  BY <1>1 DEF IInv, DataInv, StashCurrent, Stashed
<1>5. CASE b \in present_blocks
  BY <1>2, <1>3, <1>4, <1>5 DEF IInv, DataInv, CleanIsDisposable, SavedCopy,
     Contents
<1>6. CASE b \notin present_blocks
  BY <1>2, <1>4, <1>6 DEF IInv, DataInv, CleanIsDisposable, FileContents,
     Contents, BackingBlock
<1> QED
  BY <1>5, <1>6

(* Every entry update_metadata() writes names the block's contents: what   *)
(* is stashed is committed before, and what is dirty is stored before.     *)
THEOREM WrittenEntriesDurable == Spec => RangeDurable
<1> DEFINE Durable ==
      UpdateMetadata =>
        \A b \in Blocks : InMetadataRange(b) =>
          FileContents(metadata'[m_version_metadata_path][b]) = Contents(b)
<1>1. IInv /\ [Next]_vars => [Durable]_vars
  BY WrittenEntryDurable
<1> QED
  BY <1>1, Inductive, PTL DEF Spec, RangeDurable

(* A read-only region never changes the version it shows. *)
THEOREM ReadOnlyNeverChanges == Spec => ReadOnlyPreserves
<1> DEFINE Kept == m_read_only => metadata'[OpenVersion] = metadata[OpenVersion]
<1>1. IInv /\ [Next]_vars => [Kept]_vars
  <2> SUFFICES ASSUME IInv, Next, m_read_only
               PROVE  metadata'[OpenVersion] = metadata[OpenVersion]
    BY DEF vars
  <2>1. Mapped /\ blocks_ids = metadata[OpenVersion]
    BY DEF IInv, ControlInv, NoRegionState, ReadOnlyClean
  <2>2. OpenVersion \in Versions
    BY <2>1 DEF IInv, ControlInv, VersionPaths, Mapped, OpenVersion
  <2>3. CASE UpdateMetadata
    <3>1. metadata' = [metadata EXCEPT ![m_version_metadata_path] =
                         [b \in Blocks |-> IF InMetadataRange(b) THEN blocks_ids[b] ELSE @[b]]]
      BY <2>3 DEF UpdateMetadata
    <3>2. CASE m_version_metadata_path = OpenVersion
      BY <2>1, <2>2, <3>1, <3>2 DEF IInv, TypeOK
    <3>3. CASE m_version_metadata_path # OpenVersion
      BY <2>2, <3>1, <3>3 DEF IInv, TypeOK
    <3> QED
      BY <3>2, <3>3
  <2>4. CASE metadata' = metadata
    BY <2>4
  <2>5. ~(\E v \in Versions, flag \in BOOLEAN : Create(v, flag))
    BY <2>1 DEF Create, Mapped
  <2>6. UpdateMetadata \/ metadata' = metadata
    BY <2>5 DEF Next, Open, Snapshot, Store, AbsentFault, PresentWriteFault,
       ReadOnlyWriteFault, StoreBlock, CommitStashBlock, WriteVersionFile,
       MapRegion, Msync, Close, ClearDirty, Unmap, Crash, EndRegion, disk
  <2> QED
    BY <2>3, <2>4, <2>6
<1> QED
  BY <1>1, Inductive, PTL DEF Spec, ReadOnlyPreserves
-------------------------------------------------------------------------------
(* MsyncDurable, of a region whose blocks fit in memory.  Then nothing is  *)
(* evicted, and a block that is not present was never touched since the    *)
(* version was opened: the entries msync() does not write are right as     *)
(* they are.                                                               *)

AbsentUntouched ==
  Mapped => \A b \in Blocks \ present_blocks :
    stash_files[b] = None /\ blocks_ids[b] = metadata[OpenVersion][b]

(* A fault on an absent block finds room. *)
LEMMA NothingEvicted ==
  ASSUME NumBlocks <= MaxMemBlocks, IInv, pc = "ready", NEW b \in Blocks \ present_blocks
  PROVE  ~MemoryFull /\ to_evict = {} /\ stashed = {}
<1>1. /\ IsFiniteSet(Blocks) /\ Cardinality(Blocks) = NumBlocks
  <2>1. /\ 0 \in Int /\ NumBlocks - 1 \in Int /\ ~(0 > NumBlocks - 1)
    BY SizeAssumption
  <2> QED
    BY <2>1, SizeAssumption, FS_Interval DEF Blocks
<1>2. /\ IsFiniteSet(present_blocks) /\ Cardinality(present_blocks) \in Nat
      /\ Cardinality(present_blocks) < NumBlocks
  <2>1. present_blocks \subseteq Blocks /\ present_blocks # Blocks
    BY DEF IInv, TypeOK
  <2> QED
    BY <1>1, <2>1, FS_Subset, FS_CardinalityType
<1>3. ~MemoryFull
  BY <1>2, SizeAssumption DEF MemoryFull
<1> QED
  BY <1>3, EvictionFindsVictim
LEMMA AbsentUntouchedNext ==
  ASSUME NumBlocks <= MaxMemBlocks, IInv, AbsentUntouched, [Next]_vars
  PROVE  AbsentUntouched'
<1> USE DEF AbsentUntouched
(* Without a region before the step ... *)
<1>1. CASE (\E v \in Versions, flag \in BOOLEAN : Create(v, flag)) \/ EndRegion
  BY <1>1 DEF Create, EndRegion, Mapped
<1>2. CASE \E v \in Versions, flag \in BOOLEAN : Open(v, flag)
  BY <1>2 DEF Open, Return, OpenVersion, Mapped, disk, region, IInv, ControlInv, NoRegionState
<1>3. CASE MapRegion
  BY <1>3 DEF MapRegion, Return, OpenVersion, Mapped, disk, region, IInv, ControlInv,
     CallState, NoRegionState, VersionFiles
<1>4. CASE WriteVersionFile
  BY <1>4 DEF WriteVersionFile, Return, OpenVersion, Mapped, fields, region, IInv, ControlInv, CallState
(* ... or in a region: the application's accesses, ... *)
<1>5. CASE \E b \in Blocks, value \in Values : Store(b, value)
  BY <1>5 DEF Store, OpenVersion, Mapped, disk, fields, call
<1>6. CASE \E b \in Blocks : PresentWriteFault(b)
  <2>1. PICK b \in Blocks : PresentWriteFault(b)
    BY <1>6
  <2>2. \A x \in Blocks : stash_files[x] = None => stash_files'[x] = None
    BY <2>1 DEF PresentWriteFault, IInv, TypeOK
  <2> QED
    BY <2>1, <2>2 DEF PresentWriteFault, OpenVersion, Mapped, disk, call
<1>7. CASE \E b \in Blocks, is_write_fault \in BOOLEAN : AbsentFault(b, is_write_fault)
  <2>1. PICK b \in Blocks, is_write_fault \in BOOLEAN : AbsentFault(b, is_write_fault)
    BY <1>7
  <2>2. to_evict = {} /\ stashed = {}
    BY <2>1, NothingEvicted DEF AbsentFault
  <2>3. /\ present_blocks' = present_blocks \cup {b}
        /\ \A x \in Blocks : stash_files[x] = None => stash_files'[x] = None
        /\ UNCHANGED <<disk, blocks_ids, m_version_metadata_path, call>>
    BY <2>1, <2>2 DEF AbsentFault
  <2> QED
    BY <2>3 DEF OpenVersion, Mapped, disk, call
(* ... and the calls. *)
<1>8. CASE Msync \/ Close
  BY <1>8 DEF Msync, Close, StartMsync, OpenVersion, Mapped, disk, fields
<1>9. CASE \E v \in Versions : Snapshot(v)
  BY <1>9 DEF Snapshot, StartMsync, OpenVersion, Mapped, region, IInv, ControlInv, CallState
<1>10. CASE \E b \in Blocks : StoreBlock(b)
  <2>1. PICK b \in Blocks : StoreBlock(b)
    BY <1>10
  <2>2. b \in present_blocks
    BY <2>1 DEF StoreBlock, IInv, ListInv, LruPartition, Unsaved
  <2>3. \A x \in Blocks : x # b => blocks_ids'[x] = blocks_ids[x]
    BY <2>1 DEF StoreBlock, IInv, TypeOK
  <2> QED
    BY <2>1, <2>2, <2>3 DEF StoreBlock, OpenVersion, Mapped
<1>11. CASE ClearDirty
  BY <1>11 DEF ClearDirty, OpenVersion, Mapped, disk, region
<1>12. CASE \E b \in Blocks : CommitStashBlock(b)
  <2>1. PICK b \in Blocks : CommitStashBlock(b)
    BY <1>12
  <2>2. Mapped /\ b \in present_blocks
    <3>1. stash_files[b] # None
      BY <2>1 DEF CommitStashBlock, IInv, DataInv, StashCurrent, Stashed
    <3> QED
      BY <2>1, <3>1 DEF CommitStashBlock, Mapped
  <2>3. \A x \in Blocks : x # b => blocks_ids'[x] = blocks_ids[x] /\ stash_files'[x] = stash_files[x]
    BY <2>1 DEF CommitStashBlock, IInv, TypeOK
  <2> QED
    BY <2>1, <2>2, <2>3 DEF CommitStashBlock, OpenVersion, Mapped
<1>13. CASE UpdateMetadata
  <2>1. /\ Mapped /\ OpenVersion \in Versions /\ OpenVersion' = OpenVersion
        /\ UNCHANGED <<present_blocks, stash_files, blocks_ids>>
    BY <1>13 DEF UpdateMetadata, Return, RestoredPath, OpenVersion, Mapped, IInv,
       ControlInv, CallState, VersionPaths
  <2>2. \A b \in Blocks : metadata'[OpenVersion][b] \in {metadata[OpenVersion][b], blocks_ids[b]}
    BY <1>13, <2>1 DEF UpdateMetadata, IInv, TypeOK
  <2> QED
    BY <2>1, <2>2
<1>14. CASE UNCHANGED vars
  BY <1>14 DEF vars, disk, fields, call, OpenVersion, Mapped
<1> QED
  BY <1>1, <1>2, <1>3, <1>4, <1>5, <1>6, <1>7, <1>8, <1>9, <1>10, <1>11, <1>12,
     <1>13, <1>14 DEF Next, ReadOnlyWriteFault, Unmap, Crash

(* When all blocks fit in memory, the version holds the region's contents  *)
(* once msync() or close() has written the metadata: what is present is    *)
(* written, and the entries of the other blocks were right before.         *)
THEOREM MsyncDurableCorrect ==
  ASSUME NumBlocks <= MaxMemBlocks
  PROVE  Spec => MsyncDurable
<1> DEFINE Durable ==
      UpdateMetadata /\ op # "snapshot" =>
        \A b \in Blocks :
          FileContents(metadata'[m_version_metadata_path][b]) = Contents(b)
<1>1. Init => AbsentUntouched
  BY DEF Init, AbsentUntouched, Mapped
<1>2. IInv /\ AbsentUntouched /\ [Next]_vars => AbsentUntouched'
  BY AbsentUntouchedNext
<1>3. IInv /\ AbsentUntouched /\ [Next]_vars => [Durable]_vars
  <2> SUFFICES ASSUME IInv, AbsentUntouched, UpdateMetadata, op # "snapshot", NEW b \in Blocks
               PROVE  FileContents(metadata'[m_version_metadata_path][b]) = Contents(b)
    OBVIOUS
  <2>1. CASE InMetadataRange(b)
    BY <2>1, WrittenEntryDurable
  <2>2. CASE ~InMetadataRange(b)
    <3>1. /\ Mapped /\ OpenVersion = m_version_metadata_path
          /\ m_version_metadata_path \in Versions
      BY DEF UpdateMetadata, Mapped, OpenVersion, IInv, ControlInv, VersionPaths
    <3>2. b \notin present_blocks
      BY <2>2 DEF InMetadataRange, Blocks
    <3>3. metadata'[m_version_metadata_path][b] = blocks_ids[b] /\ stash_files[b] = None
      BY <2>2, <3>1, <3>2 DEF UpdateMetadata, IInv, TypeOK, AbsentUntouched
    <3> QED
      BY <3>2, <3>3 DEF IInv, DataInv, CleanIsDisposable, FileContents, Contents, BackingBlock
  <2> QED
    BY <2>1, <2>2
<1> QED
  BY <1>1, <1>2, <1>3, Inductive, PTL DEF Spec, MsyncDurable

-------------------------------------------------------------------------------
(* SigactionVmm implements RegionStore, for all values of the constants:   *)
(* each of its steps, seen through the refinement mapping, is a step of    *)
(* RegionStore or changes nothing.                                         *)

(* The mapped variables, under the names RegionStore gives them. *)
Data == IF Mapped THEN [b \in Blocks |-> Contents(b)] ELSE None
Current == IF Mapped THEN OpenVersion ELSE None
Making == IF op = "snapshot" THEN version_metadata_path ELSE None
Saved == [v \in Versions |-> [b \in Blocks |-> FileContents(metadata[v][b])]]
Openable == {v \in Versions : files[v] = VersionFile}
Mapping == <<Data, Current, Making, Saved, Openable>>

(* A mapped region is never mistaken for none. *)
LEMMA DataType ==
  ASSUME IInv
  PROVE  /\ \A b \in Blocks : Contents(b) \in Values
         /\ Mapped => Data # None
         /\ Current = None <=> ~Mapped
<1>1. ASSUME NEW b \in Blocks PROVE Contents(b) \in Values
  BY DEF IInv, TypeOK, DataInv, IdsBacked, Contents, BackingBlock
<1>2. Mapped => Data # None
  <2>1. [b \in Blocks |-> Contents(b)] \in [Blocks -> Values]
    BY <1>1
  <2> QED
    BY <2>1, ValueAssumption DEF Data
<1>3. Current = None <=> ~Mapped
  BY ValueAssumption DEF IInv, ControlInv, VersionPaths, OpenVersion, Current, Mapped
<1> QED
  BY <1>1, <1>2, <1>3

(* An absent block reads as its saved copy; a clean one does too. *)
LEMMA ContentsSaved ==
  ASSUME IInv, NEW b \in Blocks, b \notin Unsaved
  PROVE  Contents(b) = SavedCopy(b)
BY DEF IInv, DataInv, CleanIsDisposable, SavedCopy, FileContents, Contents, BackingBlock

(* Writing block files changes neither a version nor what a load returns.  *)
LEMMA FilesOnlyAdded ==
  ASSUME IInv, NEW contents \in Values, AddBlockFile(contents)
  PROVE  /\ \A h \in Hashes : block_files[h] # None => block_files'[h] = block_files[h]
         /\ block_files'[compute_hash[contents]] = contents
         /\ compute_hash[contents] # EMPTY_BLOCK_HASH
<1>1. compute_hash[contents] \in Hashes \ {EMPTY_BLOCK_HASH}
  BY HashAssumption
<1>2. \A h \in Hashes : block_files[h] # None => block_files'[h] = block_files[h]
  BY DEF IInv, TypeOK, AddBlockFile
<1>3. block_files'[compute_hash[contents]] = contents
  BY <1>1, HashAssumption DEF IInv, TypeOK, DataInv, ContentAddressed, AddBlockFile
<1> QED
  BY <1>1, <1>2, <1>3

LEMMA SavedUnchanged ==
  ASSUME IInv, UNCHANGED metadata,
         \A h \in Hashes : block_files[h] # None => block_files'[h] = block_files[h]
  PROVE  Saved' = Saved
<1>1. ASSUME NEW v \in Versions, NEW b \in Blocks
      PROVE  FileContents(metadata[v][b])' = FileContents(metadata[v][b])
  BY DEF IInv, TypeOK, DataInv, MetadataBacked, FileContents
<1> QED
  BY <1>1 DEF Saved

-------------------------------------------------------------------------------
LEMMA InitMaps == Init => Region!Init
<1> SUFFICES ASSUME Init PROVE Region!Init
  OBVIOUS
<1>1. ~Mapped /\ op = "none"
  BY DEF Init, Mapped
<1>2. \A v \in Versions, b \in Blocks : FileContents(metadata[v][b]) = Zero
  BY DEF Init, NoBlocks, FileContents
<1>3. \A v \in Versions : files[v] # VersionFile
  BY DEF Init, VersionFile
<1> QED
  BY <1>1, <1>2, <1>3 DEF Region!Init, Region!ZeroImage

(* close() and the end of the process. *)
LEMMA EndRegionMaps == ASSUME IInv, EndRegion PROVE Region!Stop
<1>1. ~Mapped' /\ op' = "none"
  BY DEF EndRegion, Mapped
<1>2. Saved' = Saved /\ Openable' = Openable
  BY DEF EndRegion, disk, Saved, Openable, FileContents
<1> QED
  BY <1>1, <1>2 DEF Region!Stop, Saved, Openable

LEMMA CreateMaps ==
  ASSUME IInv, NEW v \in Versions, NEW flag \in BOOLEAN, Create(v, flag)
  PROVE  Region!Create(v)
<1>1. ~Mapped /\ ~Mapped' /\ op = "none" /\ op' = "create"
  BY DEF Create, Mapped, IInv, ControlInv, CallState
<1>2. Saved' = [Saved EXCEPT ![v] = [b \in Blocks |-> Zero]]
  BY DEF IInv, TypeOK, Create, Saved, FileContents, NoBlocks
<1>3. Openable' = Openable \ {v}
  BY DEF IInv, TypeOK, Create, Openable, VersionFile
<1> QED
  BY <1>1, <1>2, <1>3 DEF Region!Create, Region!ZeroImage, Saved, Openable

LEMMA OpenMaps ==
  ASSUME IInv, NEW v \in Versions, NEW flag \in BOOLEAN, Open(v, flag)
  PROVE  Region!Open(v)
<1>1. ~Mapped /\ Mapped' /\ op = "none" /\ op' = "none" /\ OpenVersion' = v
  BY DEF Open, Return, Mapped, OpenVersion, IInv, ControlInv, CallState
<1>2. Saved' = Saved /\ Openable' = Openable /\ v \in Openable
  BY DEF Open, disk, Saved, Openable, FileContents
<1>3. ASSUME NEW b \in Blocks PROVE Contents(b)' = FileContents(metadata[v][b])
  <2>1. /\ b \notin present_blocks' /\ stash_files'[b] = None /\ mem'[b] = Zero
        /\ blocks_ids' = metadata[v] /\ block_files' = block_files
    BY <1>1 DEF Open, disk, region, IInv, ControlInv, NoRegionState
  <2> QED
    BY <2>1 DEF Contents, BackingBlock, FileContents
<1>4. Data' = Saved[v]
  BY <1>1, <1>3 DEF Data, Saved
<1> QED
  BY <1>1, <1>2, <1>4 DEF Region!Open, Data, Saved, Openable

LEMMA MapRegionMaps ==
  ASSUME IInv, MapRegion
  PROVE  Region!Open(version_metadata_path)
<1> DEFINE v == version_metadata_path
<1>1. /\ ~Mapped /\ Mapped' /\ op = "create" /\ op' = "none" /\ OpenVersion' = v
      /\ v \in Versions /\ files[v] = VersionFile /\ metadata[v] = NoBlocks
  BY DEF MapRegion, Return, Mapped, OpenVersion, IInv, ControlInv, CallState, VersionPaths,
     VersionFiles
<1>2. Saved' = Saved /\ Openable' = Openable /\ v \in Openable
  BY <1>1 DEF MapRegion, disk, Saved, Openable, FileContents
<1>3. ASSUME NEW b \in Blocks PROVE Contents(b)' = FileContents(metadata[v][b])
  <2>1. /\ b \notin present_blocks' /\ stash_files'[b] = None /\ mem'[b] = Zero
        /\ blocks_ids' = metadata[v] /\ block_files' = block_files
    BY <1>1 DEF MapRegion, disk, region, IInv, ControlInv, NoRegionState
  <2> QED
    BY <2>1 DEF Contents, BackingBlock, FileContents
<1>4. Data' = Saved[v]
  BY <1>1, <1>3 DEF Data, Saved
<1> QED
  BY <1>1, <1>2, <1>4 DEF Region!Open, Data, Saved, Openable

LEMMA WriteVersionFileMaps ==
  ASSUME IInv, WriteVersionFile
  PROVE  Region!Publish(version_metadata_path) \/ UNCHANGED Mapping
<1> DEFINE v == version_metadata_path
<1>1. /\ v \in Versions /\ op \in {"create", "snapshot"}
      /\ files' = [files EXCEPT ![v] = @ \cup {pc}]
  BY DEF WriteVersionFile, IInv, ControlInv, CallState, VersionPaths
<1>2. Saved' = Saved
  BY DEF WriteVersionFile, Saved, FileContents
<1>3. Openable' = Openable \/ Openable' = Openable \cup {v}
  BY <1>1 DEF IInv, TypeOK, WriteVersionFile, Openable, VersionFile
<1>4. Data' = Data /\ Current' = Current
  <2>1. /\ Mapped' <=> Mapped
        /\ Mapped => OpenVersion' = OpenVersion
    BY DEF WriteVersionFile, Return, fields, Mapped, OpenVersion, IInv, ControlInv, CallState
  <2>2. \A b \in Blocks : Contents(b)' = Contents(b)
    BY DEF WriteVersionFile, fields, region, Contents, BackingBlock
  <2> QED
    BY <2>1, <2>2 DEF Data, Current
<1>5. CASE pc = "_capacity" /\ op = "snapshot"
  <2>1. Making = v /\ Making' = None
    BY <1>5 DEF WriteVersionFile, Return, Making
  <2>2. files'[v] = VersionFile
    BY <1>1, <1>5 DEF IInv, TypeOK, ControlInv, VersionFiles, VersionFile
  <2>3. Openable' = Openable \cup {v}
    BY <1>1, <1>3, <2>2 DEF Openable
  <2> QED
    BY <1>2, <1>4, <2>1, <2>3
       DEF Region!Publish, Data, Current, Making, Saved, Openable
<1>6. CASE ~(pc = "_capacity" /\ op = "snapshot")
  <2>1. Making' = Making /\ (op = "snapshot" => Making = v)
    BY <1>6 DEF WriteVersionFile, Making
  <2>2. op = "create" => Data = None
    BY DEF Data, Mapped, WriteVersionFile
  <2>3. CASE Openable' = Openable
    BY <1>2, <1>4, <2>1, <2>3 DEF Mapping
  <2>4. CASE Openable' = Openable \cup {v}
    BY <1>1, <1>2, <1>4, <2>1, <2>2, <2>4
       DEF Region!Publish, Data, Current, Making, Saved, Openable
  <2> QED
    BY <1>3, <2>3, <2>4
<1> QED
  BY <1>5, <1>6

-------------------------------------------------------------------------------
LEMMA StoreMaps ==
  ASSUME IInv, NEW b \in Blocks, NEW value \in Values, Store(b, value)
  PROVE  Region!Write(b, value)
<1>1. Mapped /\ Mapped' /\ op = "none" /\ op' = "none" /\ OpenVersion' = OpenVersion
  BY DEF Store, call, fields, Mapped, OpenVersion, IInv, ControlInv, CallState
<1>2. b \in present_blocks
  BY DEF Store, IInv, ListInv, WriteBarrier
<1>3. ASSUME NEW x \in Blocks
      PROVE  Contents(x)' = IF x = b THEN value ELSE Contents(x)
  BY <1>2 DEF Store, disk, fields, IInv, TypeOK, Contents, BackingBlock
<1>4. Data' = [Data EXCEPT ![b] = value]
  BY <1>1, <1>3 DEF Data
<1>5. Saved' = Saved /\ Openable' = Openable
  BY DEF Store, disk, Saved, Openable, FileContents
<1> QED
  BY <1>1, <1>4, <1>5, DataType DEF Region!Write, Data, Current, Making, Saved, Openable

LEMMA PresentWriteFaultMaps ==
  ASSUME IInv, NEW b \in Blocks, PresentWriteFault(b)
  PROVE  UNCHANGED Mapping
<1>1. Mapped' = Mapped /\ OpenVersion' = OpenVersion
  BY DEF PresentWriteFault, call, Mapped, OpenVersion
<1>2. ASSUME NEW x \in Blocks PROVE Contents(x)' = Contents(x)
  BY DEF PresentWriteFault, disk, IInv, TypeOK, Contents, BackingBlock
<1> QED
  BY <1>1, <1>2
     DEF PresentWriteFault, disk, call, Mapping, Data, Current, Making, Saved, Openable,
         FileContents

(* A fault and its eviction: a block that comes in holds its saved copy, a *)
(* clean one that goes has one and a dirty one that goes gets one.         *)
LEMMA AbsentFaultMaps ==
  ASSUME IInv, NEW b \in Blocks, NEW is_write_fault \in BOOLEAN,
         AbsentFault(b, is_write_fault)
  PROVE  UNCHANGED Mapping
<1> USE DEF AbsentFault, disk, call
<1> DEFINE outdated == IF is_write_fault THEN OutdatedStash(b) ELSE {}
<1>1. Mapped' = Mapped /\ OpenVersion' = OpenVersion
  BY DEF Mapped, OpenVersion
<1>2. /\ to_evict \subseteq present_blocks
      /\ stashed = to_evict \cap ToSet(dirty_lru)
      /\ Unsaved = ToSet(dirty_lru)
      /\ b \notin present_blocks
  BY EvictionFindsVictim DEF Unsaved
<1>3. /\ outdated \subseteq {b}
      /\ stash_files' = [x \in Blocks |-> IF x \in stashed THEN mem[x]
                                          ELSE IF x \in outdated THEN None
                                          ELSE stash_files[x]]
  BY DEF OutdatedStash
<1> HIDE DEF outdated
<1>4. ASSUME NEW x \in Blocks PROVE Contents(x)' = Contents(x)
  <2>1. mem'[x] = IF x \in to_evict THEN Zero ELSE IF x = b THEN BackingBlock(b) ELSE mem[x]
    BY DEF IInv, TypeOK
  <2>2. /\ x \in present_blocks' <=> (x \in present_blocks /\ x \notin to_evict) \/ x = b
        /\ mem[x] # None
    BY ValueAssumption DEF IInv, TypeOK
  <2>3. CASE x = b
    BY <1>2, <2>1, <2>2, <2>3 DEF Contents
  <2>4. CASE x \in stashed
    <3>1. stash_files'[x] = mem[x]
      BY <1>3, <2>4
    <3> QED
      BY <1>2, <2>2, <2>4, <3>1 DEF Contents, BackingBlock
  <2>5. CASE x \in to_evict \ stashed
    <3>1. x # b /\ stash_files'[x] = stash_files[x]
      BY <1>2, <1>3, <2>5
    <3>2. Contents(x) = SavedCopy(x)
      BY <1>2, <2>5, ContentsSaved
    <3> QED
      BY <1>2, <2>1, <2>2, <2>5, <3>1, <3>2 DEF Contents, BackingBlock, SavedCopy, FileContents
  <2>6. CASE x # b /\ x \notin to_evict
    <3>1. x \notin stashed /\ stash_files'[x] = stash_files[x]
      BY <1>2, <1>3, <2>6
    <3> QED
      BY <2>1, <2>2, <2>6, <3>1 DEF Contents, BackingBlock
  <2> QED
    BY <1>2, <2>3, <2>4, <2>5, <2>6
<1> QED
  BY <1>1, <1>4 DEF Mapping, Data, Current, Making, Saved, Openable, FileContents

-------------------------------------------------------------------------------
LEMMA StartMsyncMaps == ASSUME IInv, Msync \/ Close PROVE UNCHANGED Mapping
<1>1. /\ Mapped /\ Mapped' /\ op = "none" /\ op' \in {"msync", "close"}
      /\ OpenVersion' = OpenVersion
  BY DEF Msync, Close, StartMsync, fields, Mapped, OpenVersion, IInv, ControlInv, CallState
<1>2. \A x \in Blocks : Contents(x)' = Contents(x)
  BY DEF Msync, Close, disk, fields, region, Contents, BackingBlock
<1> QED
  BY <1>1, <1>2
     DEF Msync, Close, disk, Mapping, Data, Current, Making, Saved, Openable, FileContents

LEMMA SnapshotMaps ==
  ASSUME IInv, NEW v \in Versions, Snapshot(v)
  PROVE  Region!StartSnapshot(v)
<1>1. /\ Mapped /\ Mapped' /\ op = "none" /\ op' = "snapshot"
      /\ OpenVersion' = OpenVersion
  BY DEF Snapshot, StartMsync, Mapped, OpenVersion, IInv, ControlInv, CallState
<1>2. \A x \in Blocks : Contents(x)' = Contents(x)
  BY DEF Snapshot, region, Contents, BackingBlock
<1>3. v \notin Openable /\ Openable' \in {Openable, Openable \cup {v}}
  BY DEF Snapshot, IInv, TypeOK, Openable, VersionFile
<1>4. Saved' = Saved /\ Data' = Data /\ Current' = Current /\ Making' = v
  BY <1>1, <1>2 DEF Snapshot, Saved, Data, Current, Making, FileContents
<1>5. Data # None
  BY <1>1, DataType
<1> QED
  BY <1>3, <1>4, <1>5 DEF Region!StartSnapshot, Data, Current, Making, Saved, Openable

LEMMA StoreBlockMaps ==
  ASSUME IInv, NEW b \in Blocks, StoreBlock(b)
  PROVE  UNCHANGED Mapping
<1>1. Mapped' = Mapped /\ OpenVersion' = OpenVersion
  BY DEF StoreBlock, Mapped, OpenVersion
<1>2. /\ \A h \in Hashes : block_files[h] # None => block_files'[h] = block_files[h]
      /\ b \in present_blocks
  BY FilesOnlyAdded DEF StoreBlock, IInv, TypeOK, ListInv, LruPartition, Unsaved
<1>3. ASSUME NEW x \in Blocks PROVE Contents(x)' = Contents(x)
  BY <1>2 DEF StoreBlock, IInv, TypeOK, DataInv, IdsBacked, Contents, BackingBlock
<1>4. Saved' = Saved
  BY <1>2, SavedUnchanged DEF StoreBlock
<1> QED
  BY <1>1, <1>3, <1>4 DEF StoreBlock, Mapping, Data, Current, Making, Openable

LEMMA ClearDirtyMaps == ASSUME IInv, ClearDirty PROVE UNCHANGED Mapping
<1>1. Mapped' = Mapped /\ OpenVersion' = OpenVersion
  BY DEF ClearDirty, Mapped, OpenVersion
<1>2. \A x \in Blocks : Contents(x)' = Contents(x)
  BY DEF ClearDirty, disk, region, Contents, BackingBlock
<1> QED
  BY <1>1, <1>2
     DEF ClearDirty, disk, Mapping, Data, Current, Making, Saved, Openable, FileContents

LEMMA CommitStashBlockMaps ==
  ASSUME IInv, NEW b \in Blocks, CommitStashBlock(b)
  PROVE  UNCHANGED Mapping
<1>1. Mapped' = Mapped /\ OpenVersion' = OpenVersion
  BY DEF CommitStashBlock, Mapped, OpenVersion
<1>2. stash_files[b] \in Values /\ stash_files[b] # None
  BY ValueAssumption DEF CommitStashBlock, IInv, TypeOK, DataInv, StashCurrent, Stashed
<1>3. /\ \A h \in Hashes : block_files[h] # None => block_files'[h] = block_files[h]
      /\ block_files'[compute_hash[stash_files[b]]] = stash_files[b]
      /\ compute_hash[stash_files[b]] # EMPTY_BLOCK_HASH
  BY <1>2, FilesOnlyAdded DEF CommitStashBlock
<1>4. ASSUME NEW x \in Blocks PROVE Contents(x)' = Contents(x)
  BY <1>2, <1>3
     DEF CommitStashBlock, region, IInv, TypeOK, DataInv, IdsBacked, Contents, BackingBlock
<1>5. Saved' = Saved
  BY <1>3, SavedUnchanged DEF CommitStashBlock
<1> QED
  BY <1>1, <1>4, <1>5 DEF CommitStashBlock, Mapping, Data, Current, Making, Openable

(* The written entries name the current contents, the others stay. *)
LEMMA UpdateMetadataMaps ==
  ASSUME IInv, UpdateMetadata
  PROVE  Region!Commit(m_version_metadata_path)
<1> DEFINE v == m_version_metadata_path
           image == [b \in Blocks |-> FileContents(metadata'[v][b])]
<1>1. /\ Mapped /\ Mapped' /\ v \in Versions /\ v \in {Current, Making}
      /\ Making' = Making /\ OpenVersion' = OpenVersion
      /\ pc = "commit" /\ todo = {}
  BY DEF UpdateMetadata, Return, RestoredPath, Mapped, OpenVersion, Current, Making,
     IInv, ControlInv, CallState, VersionPaths
<1>2. ASSUME NEW b \in Blocks
      PROVE  Contents(b) = FileContents(blocks_ids[b])
  <2>1. b \notin Unsaved /\ stash_files[b] = None
    BY <1>1, ToSetEmpty
       DEF IInv, ControlInv, CallState, DataInv, StashCurrent, Stashed, Unsaved
  <2> QED
    BY <2>1, ContentsSaved DEF SavedCopy
<1>3. ASSUME NEW b \in Blocks
      PROVE  image[b] \in Values /\ image[b] \in {Saved[v][b], Contents(b)}
  <2>1. metadata'[v][b] = IF InMetadataRange(b) THEN blocks_ids[b] ELSE metadata[v][b]
    BY <1>1 DEF UpdateMetadata, IInv, TypeOK
  <2>2. /\ FileContents(blocks_ids[b]) \in Values
        /\ FileContents(metadata[v][b]) \in Values
    BY <1>1, ValueAssumption
       DEF IInv, TypeOK, DataInv, IdsBacked, MetadataBacked, FileContents
  <2> QED
    BY <1>1, <1>2, <2>1, <2>2 DEF Saved
<1>4. image \in [Blocks -> Values]
  BY <1>3
<1>5. Saved' = [Saved EXCEPT ![v] = image]
  <2>1. ASSUME NEW w \in Versions, w # v PROVE metadata'[w] = metadata[w]
    BY <1>1, <2>1 DEF UpdateMetadata, IInv, TypeOK
  <2>2. block_files' = block_files
    BY DEF UpdateMetadata
  <2>3. ASSUME NEW w \in Versions, NEW b \in Blocks
        PROVE  FileContents(metadata[w][b])' = IF w = v THEN image[b] ELSE Saved[w][b]
    BY <2>1, <2>2 DEF Saved, FileContents
  <2> HIDE DEF image
  <2> QED
    BY <1>1, <1>4, <2>3 DEF Saved
<1>6. \A b \in Blocks : Contents(b)' = Contents(b)
  BY DEF UpdateMetadata, region, Contents, BackingBlock
<1>7. Data' = Data /\ Current' = Current /\ Openable' = Openable /\ Data # None
  BY <1>1, <1>6, DataType DEF UpdateMetadata, Data, Current, Openable
<1>8. \A b \in Blocks : image[b] \in {Saved[v][b], Data[b]}
  BY <1>1, <1>3 DEF Data
<1> HIDE DEF image
<1> QED
  BY <1>1, <1>4, <1>5, <1>7, <1>8
     DEF Region!Commit, Region!Image, Data, Current, Making, Saved, Openable

-------------------------------------------------------------------------------
LEMMA NextMaps == IInv /\ [Next]_vars => [Region!Next]_(Region!vars)
<1> SUFFICES ASSUME IInv, [Next]_vars PROVE Region!Next \/ UNCHANGED Region!vars
  OBVIOUS
<1>1. CASE \E v \in Versions, flag \in BOOLEAN : Create(v, flag)
  BY <1>1, CreateMaps DEF Region!Next
<1>2. CASE \E v \in Versions, flag \in BOOLEAN : Open(v, flag)
  BY <1>2, OpenMaps DEF Region!Next
<1>3. CASE \E v \in Versions : Snapshot(v)
  BY <1>3, SnapshotMaps DEF Region!Next
<1>4. CASE \E b \in Blocks, value \in Values : Store(b, value)
  BY <1>4, StoreMaps DEF Region!Next
<1>5. CASE (\E b \in Blocks : ReadOnlyWriteFault(b)) \/ Unmap \/ Crash
  BY <1>5, EndRegionMaps DEF ReadOnlyWriteFault, Unmap, Crash, Region!Next
<1>6. CASE MapRegion
  BY <1>6, MapRegionMaps DEF Region!Next, MapRegion, IInv, ControlInv, CallState, VersionPaths
<1>7. CASE UpdateMetadata
  <2>1. m_version_metadata_path \in Versions
    BY <1>7 DEF UpdateMetadata, Mapped, IInv, ControlInv, VersionPaths
  <2> QED
    BY <1>7, <2>1, UpdateMetadataMaps DEF Region!Next
<1>8. CASE WriteVersionFile
  <2>1. version_metadata_path \in Versions
    BY <1>8 DEF WriteVersionFile, IInv, ControlInv, CallState, VersionPaths
  <2>2. CASE Region!Publish(version_metadata_path)
    <3>1. \E v \in Versions : Region!Publish(v)
      BY <2>1, <2>2 DEF Region!Publish
    <3> QED
      BY <3>1 DEF Region!Next
  <2>3. CASE UNCHANGED Mapping
    BY <2>3 DEF Region!vars, Mapping, Data, Current, Making, Saved, Openable
  <2> QED
    BY <1>8, <2>2, <2>3, WriteVersionFileMaps
<1>9. CASE UNCHANGED Mapping
  BY <1>9 DEF Region!vars, Mapping, Data, Current, Making, Saved, Openable
<1>10. CASE \/ \E b \in Blocks, is_write_fault \in BOOLEAN : AbsentFault(b, is_write_fault)
            \/ \E b \in Blocks : PresentWriteFault(b) \/ StoreBlock(b) \/ CommitStashBlock(b)
            \/ Msync \/ Close \/ ClearDirty
  BY <1>9, <1>10, AbsentFaultMaps, PresentWriteFaultMaps, StoreBlockMaps,
     CommitStashBlockMaps, StartMsyncMaps, ClearDirtyMaps
<1>11. CASE UNCHANGED vars
  BY <1>9, <1>11
     DEF vars, disk, fields, region, call, Mapping, Data, Current, Making, Saved, Openable,
         Mapped, OpenVersion, Contents, BackingBlock, FileContents
<1> QED
  BY <1>1, <1>2, <1>3, <1>4, <1>5, <1>6, <1>7, <1>8, <1>10, <1>11 DEF Next

(* The region is an array that only stores change, and a version holds     *)
(* what was saved in it and nothing else, through every fault, eviction,   *)
(* save and crash.                                                         *)
THEOREM Implements == Spec => ImplementsRegionStore
<1>1. Spec => []IInv
  BY Inductive
<1> QED
  BY <1>1, InitMaps, NextMaps, PTL DEF Spec, ImplementsRegionStore, Region!Spec
===============================================================================
