----------------------------- MODULE UffdVmmQuiet ------------------------------
(***************************************************************************)
(* Proofs about UffdVmm for an application as PrivateerTest.cpp has it,    *)
(* with all its blocks within the memory limit.  For any such application, *)
(* and any number of handler and msync() threads, no store escapes the     *)
(* dirty lists, and msync() saves the region.                              *)
(*                                                                         *)
(* It adds to UffdVmmFaults what is true as long as nothing is evicted:    *)
(* whatever has pages is present, so that update_metadata() writes its id, *)
(* and the version is behind the manager's ids only in present blocks that *)
(* msync() has yet to come to.                                             *)
(***************************************************************************)
EXTENDS UffdVmmFaults

QuietSettings == OwnSettings /\ NumBlocks <= MaxMemBlocks

(* Nothing is ever evicted. *)
RoomInv ==
  /\ \A i \in SubRegions : stash_set[i] = {}
  /\ \A b \in Blocks : Resident(b) => b \in present_blocks[sub_region(b)]

(* The version that is open names what the manager names, but for blocks   *)
(* that are present, which msync() has yet to write.                       *)
Unwritten(b) ==
  b \in present_blocks[sub_region(b)] /\ (op = "msync" => sub_region(b) >= sync.sub)

VersionInv ==
  Open =>
    /\ LET path == IF op = "snapshot" THEN m_temp_current_metadata_path
                   ELSE m_version_metadata_path
       IN  \A b \in Blocks : metadata[path][b] # blocks_ids[b] => Unwritten(b)
    /\ op = "snapshot" => m_temp_current_metadata_path # m_version_metadata_path

(* WriteBarrier, in fewer words. *)
Recorded(b) == b \in ToSet(dirty_lru[sub_region(b)]) \/ Enlisting(b)
BarrierInv == \A b \in Blocks : mapped[b] = "rw" => Recorded(b)

FitsInv == RoomInv /\ VersionInv /\ BarrierInv
WInv == op # "close" => FitsInv

LEMMA BarrierForm == op # "close" => (WriteBarrier <=> BarrierInv)
  BY DEF WriteBarrier, BarrierInv, Recorded, Enlisting

-------------------------------------------------------------------------------
(* A manager just made, or none at all. *)
LEMMA ManagerFits ==
  ASSUME NEW ids, NEW path, NEW active, FreshManager(ids, path, active),
         pc' \in {"closed", "exited"} \/ metadata'[path] = ids
  PROVE  FitsInv'
<1>1. \A b \in Blocks : mapped'[b] = "missing"
  BY DEF FreshManager
<1>2. RoomInv'
  BY <1>1 DEF FreshManager, RoomInv, Resident
<1>3. VersionInv'
  BY DEF FreshManager, VersionInv, Open
<1>4. BarrierInv'
  BY <1>1 DEF BarrierInv
<1> QED
  BY <1>2, <1>3, <1>4 DEF FitsInv

LEMMA ExitFits == Exit => FitsInv'
  BY Zenon, ManagerFits DEF Exit

LEMMA CreateFits ==
  ASSUME IInv, NEW v \in Versions, Create(v) \/ OpenVersion(v)
  PROVE  FitsInv'
<1>1. metadata \in [Versions -> Image \cup {None}]
  BY DEF IInv, TypeOK
<1>2. CASE Create(v)
  <2>1. FreshManager(ZeroImage, v, TRUE) /\ metadata' = [metadata EXCEPT ![v] = ZeroImage]
    BY <1>2 DEF Create
  <2>2. metadata'[v] = ZeroImage
    BY <1>1, <2>1
  <2> QED
    BY <2>1, <2>2, ManagerFits
<1>3. CASE OpenVersion(v)
  <2>1. FreshManager(metadata[v], v, TRUE) /\ metadata' = metadata
    BY <1>3 DEF OpenVersion
  <2> QED
    BY <2>1, ManagerFits
<1> QED
  BY <1>2, <1>3

LEMMA InitFits == Init => FitsInv
<1> SUFFICES ASSUME Init PROVE FitsInv
  OBVIOUS
<1>1. \A b \in Blocks : mapped[b] = "missing"
  BY DEF Init
<1> QED
  BY <1>1 DEF Init, FitsInv, RoomInv, VersionInv, BarrierInv, Resident, Open

-------------------------------------------------------------------------------
(* Steps that leave pages, records and ids as they are. *)
LEMMA FitsStays ==
  ASSUME FitsInv,
         UNCHANGED <<metadata, mapped, present_blocks, dirty_lru, stash_set, blocks_ids,
                     m_version_metadata_path, m_temp_current_metadata_path, pc, op, sync>>,
         \A b \in Blocks : Enlisting(b)' = Enlisting(b)
  PROVE  FitsInv'
<1> USE SameBlocks
<1>1. RoomInv'
  BY DEF FitsInv, RoomInv, Resident
<1>2. VersionInv'
  BY DEF FitsInv, VersionInv, Unwritten, Open
<1>3. BarrierInv'
  BY DEF FitsInv, BarrierInv, Recorded
<1> QED
  BY <1>1, <1>2, <1>3 DEF FitsInv

(* Handler steps do not touch versions. *)
LEMMA VersionStays ==
  ASSUME VersionInv,
         UNCHANGED <<metadata, blocks_ids, m_version_metadata_path,
                     m_temp_current_metadata_path, pc, op, sync>>,
         \A i \in SubRegions : present_blocks[i] \subseteq present_blocks'[i]
  PROVE  VersionInv'
<1>1. \A b \in Blocks : Unwritten(b) => Unwritten(b)'
  BY SameBlocks, SubRegionOfBlock DEF Unwritten
<1> QED
  BY <1>1 DEF VersionInv, Open

LEMMA EnlistingStays ==
  ASSUME IInv, NEW i \in SubRegions, handlers[i].pc # "enlist", handlers'[i].pc # "enlist",
         \A j \in SubRegions : j # i => handlers'[j] = handlers[j]
  PROVE  \A b \in Blocks : Enlisting(b)' = Enlisting(b)
<1>1. \A j \in SubRegions : /\ HandlerAt(j, "enlist")' <=> HandlerAt(j, "enlist")
                            /\ HandlerAt(j, "enlist") => Handling(j)' = Handling(j)
  BY SameBlocks DEF HandlerAt, Handling
<1> QED
  BY <1>1, SameBlocks, SubRegionOfBlock DEF Enlisting

LEMMA GotoElsewhere ==
  ASSUME IInv, NEW i \in SubRegions, NEW where \in Places, handlers[i].pc # "enlist",
         where # "enlist", Goto(i, where)
  PROVE  \A b \in Blocks : Enlisting(b)' = Enlisting(b)
<1>1. /\ handlers'[i].pc = where
      /\ \A j \in SubRegions : j # i => handlers'[j] = handlers[j]
  BY DEF Goto, IInv, TypeOK
<1> QED
  BY <1>1, EnlistingStays

-------------------------------------------------------------------------------
(* A store to a clean block puts it on record before it lets the store in. *)
LEMMA HandleWpFits ==
  ASSUME IInv, LiveInv, FitsInv, NEW i \in SubRegions, HandleWp(i)
  PROVE  FitsInv'
<1>1. CASE Exit
  BY <1>1, ExitFits
<1>2. ASSUME ~Exit PROVE FitsInv'
  <2> DEFINE b == Handling(i)
  <2>1. /\ handlers[i].pc = "handle" /\ dirty_lru' = PushFront(dirty_lru, i, b)
        /\ stash_set' = [stash_set EXCEPT ![i] = @ \ {b}] /\ Goto(i, "unprotect")
        /\ UNCHANGED <<metadata, mapped, present_blocks, blocks_ids, m_version_metadata_path,
                       m_temp_current_metadata_path, pc, op, sync>>
    BY <1>2 DEF HandleWp, HandlerAt, DirtyWith, call
  <2>2. \A c \in Blocks : Enlisting(c)' = Enlisting(c)
    BY <2>1, GotoElsewhere DEF Places
  <2>3. b \in Blocks
    BY <2>1, HandlingBlock DEF IInv
  <2> HIDE DEF b
  <2> USE SameBlocks
  <2>4. \A j \in SubRegions : ToSet(dirty_lru[j]) \subseteq ToSet(dirty_lru'[j])
    <3>1. dirty_lru \in [SubRegions -> Seq(Blocks)]
      BY DEF IInv, TypeOK
    <3>2. ToSet(Cons(b, dirty_lru[i])) = ToSet(dirty_lru[i]) \cup {b}
      BY <2>3, <3>1, ConsProperties
    <3> QED
      BY <2>1, <3>1, <3>2 DEF PushFront
  <2>5. RoomInv'
    <3>1. \A j \in SubRegions : stash_set'[j] = {}
      BY <2>1 DEF FitsInv, RoomInv, IInv, TypeOK
    <3> QED
      BY <2>1, <2>2, <3>1 DEF FitsInv, RoomInv, Resident
  <2>6. VersionInv'
    BY <2>1, VersionStays DEF FitsInv
  <2>7. BarrierInv'
    BY <2>1, <2>2, <2>4, SubRegionOfBlock DEF FitsInv, BarrierInv, Recorded
  <2> QED
    BY <2>5, <2>6, <2>7 DEF FitsInv
<1> QED
  BY <1>1, <1>2

LEMMA UnprotectFits ==
  ASSUME IInv, LiveInv, FitsInv, NEW i \in SubRegions, Unprotect(i)
  PROVE  FitsInv'
<1>1. CASE Exit
  BY <1>1, ExitFits
<1>2. ASSUME ~Exit PROVE FitsInv'
  <2> DEFINE b == Handling(i)
  <2>1. /\ handlers[i].pc = "unprotect" /\ Goto(i, "processed")
        /\ mapped' = [mapped EXCEPT ![b] = IF @ = "wp" THEN "rw" ELSE @]
        /\ UNCHANGED <<metadata, present_blocks, dirty_lru, stash_set, blocks_ids,
                       m_version_metadata_path, m_temp_current_metadata_path, pc, op, sync>>
    BY <1>2 DEF Unprotect, HandlerAt, lists, call
  <2>2. \A c \in Blocks : Enlisting(c)' = Enlisting(c)
    BY <2>1, GotoElsewhere DEF Places
  <2>3. AtWork(i)
    BY <2>1 DEF AtWork
  <2>4. b \in ToSet(dirty_lru[i]) /\ sub_region(b) = i
    BY <2>1, <2>3 DEF LiveInv, PagesInv, PlacesInv, OwnersInv
  <2>5. \A c \in Blocks : /\ mapped'[c] # "missing" <=> mapped[c] # "missing"
                          /\ mapped'[c] = "rw" => mapped[c] = "rw" \/ c = b
    BY <2>1 DEF IInv, TypeOK
  <2> HIDE DEF b
  <2> USE SameBlocks
  <2>6. RoomInv'
    BY <2>1, <2>2, <2>5 DEF FitsInv, RoomInv, Resident
  <2>7. VersionInv'
    BY <2>1, VersionStays DEF FitsInv
  <2>8. BarrierInv'
    BY <2>1, <2>2, <2>4, <2>5 DEF FitsInv, BarrierInv, Recorded
  <2> QED
    BY <2>6, <2>7, <2>8 DEF FitsInv
<1> QED
  BY <1>1, <1>2

(* There is room: nothing is evicted. *)
LEMMA HandleAbsentFits ==
  ASSUME QuietSettings, IInv, LiveInv, FitsInv, NEW i \in SubRegions, HandleAbsent(i)
  PROVE  FitsInv'
<1>1. handlers[i].pc = "handle" /\ Handling(i) \notin present_blocks[i]
  BY DEF HandleAbsent, HandlerAt
<1>2. ~EvictionNeeded(i)
  <2>1. Handling(i) \in Blocks
    BY <1>1, HandlingBlock DEF IInv
  <2> QED
    BY <1>1, <2>1, NoEviction DEF QuietSettings
<1>3. /\ Goto(i, "copy")
      /\ UNCHANGED <<metadata, mapped, present_blocks, dirty_lru, stash_set, blocks_ids,
                     m_version_metadata_path, m_temp_current_metadata_path, pc, op, sync>>
  BY <1>2 DEF HandleAbsent, lists, call
<1>4. \A c \in Blocks : Enlisting(c)' = Enlisting(c)
  BY <1>1, <1>3, GotoElsewhere DEF Places
<1> QED
  BY <1>3, <1>4, FitsStays

(* A block that is filled is about to be put on record, ...                *)
LEMMA CopyFits ==
  ASSUME IInv, LiveInv, FitsInv, NEW i \in SubRegions, Copy(i)
  PROVE  FitsInv'
<1>1. CASE Exit
  BY <1>1, ExitFits
<1>2. ASSUME ~Exit PROVE FitsInv'
  <2> DEFINE b == Handling(i)
  <2>1. /\ handlers[i].pc = "copy" /\ Goto(i, "enlist") /\ mapped[b] = "missing"
        /\ mapped' = [mapped EXCEPT ![b] =
                        IF handlers[i].fevent.is_write_fault THEN "rw" ELSE "wp"]
        /\ UNCHANGED <<metadata, present_blocks, dirty_lru, stash_set, blocks_ids,
                       m_version_metadata_path, m_temp_current_metadata_path, pc, op, sync>>
    BY <1>2 DEF Copy, HandlerAt, lists, call
  <2>2. AtWork(i)
    BY <2>1 DEF AtWork
  <2>3. \A c \in Blocks : Enlisting(c)' <=> IF c = b THEN TRUE ELSE Enlisting(c)
    BY <2>1, <2>2, Onward DEF Places
  <2>4. \A c \in Blocks : c # b => mapped'[c] = mapped[c]
    BY <2>1 DEF IInv, TypeOK
  <2> HIDE DEF b
  <2> USE SameBlocks
  <2>5. RoomInv'
    BY <2>1, <2>3, <2>4 DEF FitsInv, RoomInv, Resident
  <2>6. VersionInv'
    BY <2>1, VersionStays DEF FitsInv
  <2>7. BarrierInv'
    BY <2>1, <2>3, <2>4 DEF FitsInv, BarrierInv, Recorded
  <2> QED
    BY <2>5, <2>6, <2>7 DEF FitsInv
<1> QED
  BY <1>1, <1>2

(* ... and then is. *)
LEMMA EnlistFits ==
  ASSUME IInv, LiveInv, FitsInv, NEW i \in SubRegions, Enlist(i)
  PROVE  FitsInv'
<1> DEFINE b == Handling(i)
           write == handlers[i].fevent.is_write_fault
<1>1. /\ handlers[i].pc = "enlist" /\ Goto(i, "wake")
      /\ IF write THEN dirty_lru' = PushFront(dirty_lru, i, b) ELSE dirty_lru' = dirty_lru
      /\ present_blocks' = [present_blocks EXCEPT ![i] = @ \cup {b}]
      /\ UNCHANGED <<metadata, mapped, stash_set, blocks_ids, m_version_metadata_path,
                     m_temp_current_metadata_path, pc, op, sync>>
  BY DEF Enlist, HandlerAt, call
<1>2. AtWork(i)
  BY <1>1 DEF AtWork
<1>3. /\ b \in Blocks /\ sub_region(b) = i
      /\ mapped[b] = IF write THEN "rw" ELSE "wp"
  BY <1>1, <1>2, AtWorkFacts DEF LiveInv, PagesInv, PlacesInv
<1>4. \A c \in Blocks : Enlisting(c)' <=> IF c = b THEN FALSE ELSE Enlisting(c)
  BY <1>1, <1>2, Onward DEF Places
<1> HIDE DEF b, write
<1>5. /\ \A j \in SubRegions : ToSet(dirty_lru[j]) \subseteq ToSet(dirty_lru'[j])
      /\ write => b \in ToSet(dirty_lru'[i])
      /\ \A j \in SubRegions : present_blocks[j] \subseteq present_blocks'[j]
      /\ b \in present_blocks'[i]
  <2>1. /\ dirty_lru \in [SubRegions -> Seq(Blocks)]
        /\ present_blocks \in [SubRegions -> SUBSET Blocks]
    BY DEF IInv, TypeOK
  <2>2. ToSet(Cons(b, dirty_lru[i])) = ToSet(dirty_lru[i]) \cup {b}
    BY <1>3, <2>1, ConsProperties
  <2> QED
    BY <1>1, <2>1, <2>2 DEF PushFront
<1> USE SameBlocks
<1>6. RoomInv'
  BY <1>1, <1>3, <1>4, <1>5, SubRegionOfBlock DEF FitsInv, RoomInv, Resident
<1>7. VersionInv'
  BY <1>1, <1>5, VersionStays DEF FitsInv
<1>8. BarrierInv'
  BY <1>1, <1>3, <1>4, <1>5, SubRegionOfBlock DEF FitsInv, BarrierInv, Recorded
<1> QED
  BY <1>6, <1>7, <1>8 DEF FitsInv

LEMMA HandlerFits ==
  ASSUME QuietSettings, IInv, LiveInv, FitsInv, NEW i \in SubRegions, handler(i)
  PROVE  FitsInv'
<1>1. CASE Dequeue(i)
  <2>1. /\ UNCHANGED <<metadata, mapped, present_blocks, dirty_lru, stash_set, blocks_ids,
                       m_version_metadata_path, m_temp_current_metadata_path, pc, op, sync>>
        /\ handlers[i].pc = "dequeue"
    BY <1>1 DEF Dequeue, HandlerAt, lists, call
  <2>2. /\ handlers'[i].pc = "handle"
        /\ \A j \in SubRegions : j # i => handlers'[j] = handlers[j]
    BY <1>1, DequeueMessages DEF LiveInv, IInv
  <2> QED
    BY <2>1, <2>2, EnlistingStays, FitsStays
<1>2. CASE RemoveProcessed(i)
  <2>1. /\ UNCHANGED <<metadata, mapped, present_blocks, dirty_lru, stash_set, blocks_ids,
                       m_version_metadata_path, m_temp_current_metadata_path, pc, op, sync>>
        /\ handlers[i].pc = "processed" /\ Goto(i, NextEvent)
        /\ NextEvent \in Places /\ NextEvent # "enlist"
    BY <1>2 DEF RemoveProcessed, HandlerAt, lists, call, NextEvent, Places
  <2> QED
    BY <2>1, GotoElsewhere, FitsStays
<1>3. CASE Wake(i)
  <2>1. /\ UNCHANGED <<metadata, mapped, present_blocks, dirty_lru, stash_set, blocks_ids,
                       m_version_metadata_path, m_temp_current_metadata_path, pc, op, sync>>
        /\ handlers[i].pc = "wake" /\ Goto(i, NextEvent)
        /\ NextEvent \in Places /\ NextEvent # "enlist"
    BY <1>3 DEF Wake, HandlerAt, lists, call, NextEvent, Places
  <2> QED
    BY <2>1, GotoElsewhere, FitsStays
<1> QED
  BY <1>1, <1>2, <1>3, SkipPresentLive, HandleWpFits, UnprotectFits, HandleAbsentFits,
     CopyFits, EnlistFits DEF handler

-------------------------------------------------------------------------------
(* A snapshot goes to a version of its own. *)
LEMMA StartCallFits ==
  ASSUME OwnSettings, IInv, LiveInv, FitsInv,
         StartMsync \/ \E v \in Versions : StartSnapshot(v)
  PROVE  FitsInv'
<1>1. /\ UNCHANGED <<mapped, handlers, present_blocks, dirty_lru, stash_set, blocks_ids>>
      /\ pc = "idle" /\ StartSubRegion(0)
      /\ \/ /\ op' = "msync"
            /\ UNCHANGED <<metadata, m_version_metadata_path, m_temp_current_metadata_path>>
         \/ \E v \in Versions :
              /\ op' = "snapshot" /\ metadata[v] = None
              /\ metadata' = [metadata EXCEPT ![v] = ZeroImage]
              /\ m_temp_current_metadata_path' = m_version_metadata_path
              /\ m_version_metadata_path' = v
  BY DEF StartMsync, StartSnapshot, MayCall, threads, lists
<1>2. op = "none" /\ Open
  BY <1>1 DEF IInv, CallInv, Open
<1>3. 0 \in SubRegions /\ \A i \in SubRegions : i >= 0
  BY UffdAssumption DEF SubRegions
<1>4. sync'.sub = 0
  BY <1>1, <1>3, StartSubRegionSync DEF IInv
<1> USE SameBlocks, SameStages
<1>5. RoomInv' /\ BarrierInv'
  BY <1>1 DEF FitsInv, RoomInv, Resident, BarrierInv, Recorded
<1>6. VersionInv'
  <2>1. \A b \in Blocks : Unwritten(b) => Unwritten(b)'
    BY <1>1, <1>2, <1>3, <1>4, SubRegionOfBlock DEF Unwritten
  <2>2. CASE op' = "msync"
    BY <1>1, <1>2, <2>1, <2>2 DEF FitsInv, VersionInv
  <2>3. CASE op' = "snapshot"
    <3>1. PICK v \in Versions :
            /\ metadata[v] = None
            /\ metadata' = [metadata EXCEPT ![v] = ZeroImage]
            /\ m_temp_current_metadata_path' = m_version_metadata_path
            /\ m_version_metadata_path' = v
      BY <1>1, <2>3
    <3>2. /\ m_version_metadata_path \in Versions /\ metadata[m_version_metadata_path] # None
          /\ metadata \in [Versions -> Image \cup {None}]
      BY <1>2 DEF IInv, CallInv, TypeOK
    <3>3. /\ metadata'[m_version_metadata_path] = metadata[m_version_metadata_path]
          /\ m_version_metadata_path # v
      BY <3>1, <3>2
    <3> QED
      BY <1>1, <1>2, <2>1, <2>3, <3>1, <3>3 DEF FitsInv, VersionInv
  <2> QED
    BY <1>1, <2>2, <2>3
<1> QED
  BY <1>5, <1>6 DEF FitsInv

(* The version falls behind in a block that msync() has yet to write.      *)
LEMMA StoreBlockFits ==
  ASSUME IInv, LiveInv, FitsInv, op # "close", StoreBlock
  PROVE  FitsInv'
<1>1. PICK e \in sync.todo :
        /\ blocks_ids' = IdsWith(e[2])
        /\ sync' = [sync EXCEPT !.todo = @ \ {e}, !.stored = @ \cup {e}]
  BY Zenon DEF StoreBlock
<1> DEFINE b == e[2]
<1>2. /\ pc = "store"
      /\ UNCHANGED <<metadata, mapped, handlers, present_blocks, dirty_lru, stash_set, pc, op,
                     m_version_metadata_path, m_temp_current_metadata_path>>
  BY DEF StoreBlock, threads, lists
<1>3. op \in {"msync", "snapshot"} /\ sync.sub \in SubRegions
  BY <1>2, CallFacts
<1>4. b \in Blocks /\ sub_region(b) = sync.sub /\ b \in present_blocks[sync.sub]
  <2>1. b \in Blocks
    BY DEF IInv, TypeOK
  <2>2. b \in ToSet(dirty_lru[sync.sub])
    BY <1>2 DEF LiveInv, SyncInv
  <2>3. sub_region(b) = sync.sub /\ Resident(b)
    BY <1>3, <2>2 DEF LiveInv, BooksInv, RecordsInv
  <2> QED
    BY <2>1, <2>3 DEF FitsInv, RoomInv
<1>5. \A c \in Blocks : blocks_ids'[c] = IF c = b THEN mem[b] ELSE blocks_ids[c]
  BY <1>1, <1>4 DEF IInv, TypeOK, Image, IdsWith
<1>6. sync'.sub = sync.sub
  BY <1>1 DEF IInv, TypeOK
<1> HIDE DEF b
<1> USE SameBlocks, SameStages
<1>7. RoomInv' /\ BarrierInv'
  BY <1>2 DEF FitsInv, RoomInv, Resident, BarrierInv, Recorded
<1>8. VersionInv'
  <2>1. \A c \in Blocks : Unwritten(c)' <=> Unwritten(c)
    BY <1>2, <1>6 DEF Unwritten
  <2>2. \A c \in Blocks : c = b => Unwritten(c)
    <3>1. sync.sub >= sync.sub
      BY <1>3 DEF SubRegions
    <3> QED
      BY <1>4, <3>1 DEF Unwritten
  <2> QED
    BY <1>2, <1>5, <2>1, <2>2 DEF FitsInv, VersionInv, Open
<1> QED
  BY <1>7, <1>8 DEF FitsInv

LEMMA ProtectBlockFits ==
  ASSUME IInv, LiveInv, FitsInv, op # "close", ProtectBlock
  PROVE  FitsInv'
<1>1. CASE Exit
  BY <1>1, ExitFits
<1>2. ASSUME ~Exit PROVE FitsInv'
  <2>1. PICK e \in sync.stored :
          /\ mapped' = Protected(e[2])
          /\ sync' = [sync EXCEPT !.stored = @ \ {e}]
    BY <1>2 DEF ProtectBlock
  <2>2. UNCHANGED <<metadata, handlers, present_blocks, dirty_lru, stash_set, blocks_ids,
                    pc, op, m_version_metadata_path, m_temp_current_metadata_path>>
    BY <1>2 DEF ProtectBlock, threads
  <2>3. sync'.sub = sync.sub
    BY <2>1 DEF IInv, TypeOK
  <2>4. \A c \in Blocks : /\ mapped'[c] # "missing" <=> mapped[c] # "missing"
                          /\ mapped'[c] = "rw" => mapped[c] = "rw"
    BY <2>1 DEF IInv, TypeOK, Protected
  <2> USE SameBlocks, SameStages
  <2>5. RoomInv' /\ BarrierInv'
    BY <2>2, <2>4 DEF FitsInv, RoomInv, Resident, BarrierInv, Recorded
  <2>6. VersionInv'
    BY <2>2, <2>3 DEF FitsInv, VersionInv, Unwritten, Open
  <2> QED
    BY <2>5, <2>6 DEF FitsInv
<1> QED
  BY <1>1, <1>2

(* What goes off the dirty list is protected. *)
LEMMA ClearDirtyFits ==
  ASSUME IInv, LiveInv, FitsInv, op # "close", ClearDirty
  PROVE  FitsInv'
<1>1. /\ pc = "store" /\ sync.todo = {} /\ sync.stored = {} /\ pc' = "commit"
      /\ dirty_lru' = [dirty_lru EXCEPT ![sync.sub] = <<>>]
      /\ sync' = [sync EXCEPT !.todo = {0} \X stash_set[sync.sub]]
      /\ UNCHANGED <<metadata, mapped, handlers, present_blocks, stash_set, blocks_ids, op,
                     m_version_metadata_path, m_temp_current_metadata_path>>
  BY DEF ClearDirty, DirtyEmptied, threads
<1>2. sync.sub \in SubRegions
  BY <1>1, CallFacts
<1>3. \A i \in SubRegions : i # sync.sub => dirty_lru'[i] = dirty_lru[i]
  BY <1>1 DEF IInv, TypeOK
<1>4. \A c \in ToSet(dirty_lru[sync.sub]) : mapped[c] = "wp"
  BY <1>1 DEF LiveInv, SyncInv, Synced, Pending
<1>5. sync'.sub = sync.sub
  BY <1>1 DEF IInv, TypeOK
<1> USE SameBlocks, SameStages
<1>6. RoomInv'
  BY <1>1 DEF FitsInv, RoomInv, Resident
<1>7. BarrierInv'
  BY <1>1, <1>3, <1>4, SubRegionOfBlock DEF FitsInv, BarrierInv, Recorded
<1>8. VersionInv'
  BY <1>1, <1>5 DEF FitsInv, VersionInv, Unwritten, Open
<1> QED
  BY <1>6, <1>7, <1>8 DEF FitsInv

(* There is never a stashed block to commit. *)
LEMMA CommitBlockFits ==
  ASSUME IInv, LiveInv, FitsInv, op # "close"
  PROVE  ~CommitBlock
<1> SUFFICES ASSUME CommitBlock PROVE FALSE
  OBVIOUS
<1>1. pc = "commit" /\ sync.todo # {}
  BY DEF CommitBlock
<1>2. sync.sub \in SubRegions
  BY <1>1, CallFacts
<1> QED
  BY <1>1, <1>2 DEF LiveInv, BooksInv, StashInv, FitsInv, RoomInv

(* update_metadata(i) reaches each present block of its sub-region. *)
LEMMA EndSubRegionFits ==
  ASSUME QuietSettings, IInv, LiveInv, FitsInv, op # "close", EndSubRegion
  PROVE  /\ FitsInv'
         /\ op = "msync" /\ op' = "none" =>
              \A b \in Blocks : metadata'[m_version_metadata_path][b] = Contents(b)
<1> DEFINE i == sync.sub
<1>1. /\ pc = "commit" /\ stash_set' = [stash_set EXCEPT ![i] = {}] /\ update_metadata(i)
      /\ UNCHANGED <<mapped, mem, handlers, present_blocks, dirty_lru, blocks_ids, stash_file>>
  BY DEF EndSubRegion, StashEmptied, threads
<1>2. /\ op \in {"msync", "snapshot"} /\ i \in SubRegions
      /\ \A b \in Blocks : ~Enlisting(b)
  BY <1>1, CallFacts
<1>3. \/ /\ i + 1 \in SubRegions /\ StartSubRegion(i + 1)
         /\ UNCHANGED <<op, m_version_metadata_path, m_temp_current_metadata_path>>
      \/ /\ i + 1 \notin SubRegions
         /\ pc' = "idle" /\ op' = "none" /\ m_temp_current_metadata_path' = None
         /\ m_version_metadata_path' =
              IF op = "snapshot" THEN m_temp_current_metadata_path ELSE m_version_metadata_path
  BY <1>2 DEF EndSubRegion
<1>4. m_version_metadata_path \in Versions /\ metadata[m_version_metadata_path] # None
  BY <1>1 DEF IInv, CallInv, Open
<1>5. /\ \A v \in Versions : v # m_version_metadata_path => metadata'[v] = metadata[v]
      /\ \A b \in Blocks : metadata'[m_version_metadata_path][b] =
           IF b \in Written(i) THEN blocks_ids[b] ELSE metadata[m_version_metadata_path][b]
  BY <1>1, <1>2, <1>4, UpdateMetadata DEF IInv
<1>6. \A b \in Blocks : b \in present_blocks[i] => b \in Written(i)
  <2>1. \A b \in Blocks : b <= b
    BY DEF Blocks
  <2> QED
    BY <2>1 DEF Written
<1>7. \A b \in Blocks : metadata'[m_version_metadata_path][b] # blocks_ids[b] =>
        /\ metadata[m_version_metadata_path][b] # blocks_ids[b]
        /\ b \notin present_blocks[i]
  BY <1>5, <1>6
<1>8. /\ op = "msync" => \A b \in Blocks :
           metadata[m_version_metadata_path][b] # blocks_ids[b] =>
             b \in present_blocks[sub_region(b)] /\ sub_region(b) >= i
      /\ op = "snapshot" =>
           /\ m_temp_current_metadata_path # m_version_metadata_path
           /\ \A b \in Blocks : metadata[m_temp_current_metadata_path][b] # blocks_ids[b] =>
                                  b \in present_blocks[sub_region(b)]
  BY <1>1 DEF FitsInv, VersionInv, Unwritten, Open
<1>9. \A b \in Blocks : sub_region(b) \in SubRegions /\ (sub_region(b) >= i =>
        sub_region(b) = i \/ (i + 1 \in SubRegions /\ sub_region(b) >= i + 1))
  <2>1. ASSUME NEW s \in SubRegions, s >= i PROVE s = i \/ (i + 1 \in SubRegions /\ s >= i + 1)
    BY <1>2, <2>1, UffdAssumption DEF SubRegions
  <2> QED
    BY <2>1, SubRegionOfBlock
<1>10. op = "msync" => \A b \in Blocks :
         metadata'[m_version_metadata_path][b] # blocks_ids[b] =>
           /\ b \in present_blocks[sub_region(b)]
           /\ i + 1 \in SubRegions /\ sub_region(b) >= i + 1
  BY <1>7, <1>8, <1>9
<1>11. op = "snapshot" =>
         /\ m_temp_current_metadata_path \in Versions
         /\ metadata'[m_temp_current_metadata_path] = metadata[m_temp_current_metadata_path]
  BY <1>5, <1>8 DEF IInv, CallInv
<1>12. \A j \in SubRegions : j < i \/ j = i => dirty_lru[j] = <<>>
  BY <1>1, <1>2 DEF LiveInv, SyncInv
<1> USE SameBlocks, SameStages
<1>13. RoomInv' /\ BarrierInv'
  <2>1. stash_set' = stash_set
    BY <1>1, <1>2 DEF FitsInv, RoomInv, IInv, TypeOK
  <2> QED
    BY <1>1, <2>1 DEF FitsInv, RoomInv, Resident, BarrierInv, Recorded
<1>14. CASE i + 1 \in SubRegions
  <2>1. /\ pc' = "store" /\ sync'.sub = i + 1
        /\ UNCHANGED <<op, m_version_metadata_path, m_temp_current_metadata_path>>
    BY <1>3, <1>14, StartSubRegionSync DEF IInv
  <2> HIDE DEF i
  <2>2. VersionInv'
    <3>1. CASE op = "msync"
      BY <1>1, <1>10, <2>1, <3>1 DEF VersionInv, Unwritten
    <3>2. CASE op = "snapshot"
      BY <1>1, <1>8, <1>11, <2>1, <3>2 DEF VersionInv, Unwritten
    <3> QED
      BY <1>2, <3>1, <3>2
  <2> QED
    BY <1>2, <1>13, <2>1, <2>2 DEF FitsInv
<1>15. CASE i + 1 \notin SubRegions
  <2>1. /\ pc' = "idle" /\ op' = "none"
        /\ m_version_metadata_path' =
             IF op = "snapshot" THEN m_temp_current_metadata_path ELSE m_version_metadata_path
    BY <1>3, <1>15
  <2> HIDE DEF i
  <2>2. op = "msync" => \A b \in Blocks : metadata'[m_version_metadata_path][b] = blocks_ids[b]
    BY <1>10, <1>15
  <2>3. VersionInv'
    <3>1. CASE op = "msync"
      BY <1>1, <2>1, <2>2, <3>1 DEF VersionInv, Unwritten
    <3>2. CASE op = "snapshot"
      BY <1>1, <1>8, <1>11, <2>1, <3>2 DEF VersionInv, Unwritten
    <3> QED
      BY <1>2, <3>1, <3>2
  <2>4. ASSUME op = "msync", NEW b \in Blocks
        PROVE  metadata'[m_version_metadata_path][b] = Contents(b)
    <3>1. Backing(b) = blocks_ids[b]
      <4>1. stash_file[b] = None
        <5>1. stash_set[sub_region(b)] = {}
          BY SubRegionOfBlock DEF FitsInv, RoomInv
        <5>2. ~Stashed(b)
          BY <1>2, <5>1 DEF Stashed, LiveInv, BooksInv, StashInv, FitsInv, RoomInv, i
        <5> QED
          BY <5>2 DEF LiveInv, BooksInv, StashInv
      <4> QED
        BY <4>1 DEF Backing
    <3>2. dirty_lru[sub_region(b)] = <<>> /\ ToSet(<<>>) = {}
      BY <1>2, <1>9, <1>12, <1>15, ToSetEmpty, UffdAssumption DEF SubRegions
    <3>3. mapped[b] # "rw"
      BY <1>2, <3>2 DEF FitsInv, BarrierInv, Recorded
    <3>4. mapped[b] = "wp" => mem[b] = Backing(b)
      BY <3>2 DEF LiveInv, BooksInv, CleanSaved
    <3>5. mapped[b] \in {"missing", "wp", "rw"}
      BY DEF IInv, TypeOK
    <3> QED
      BY <2>2, <2>4, <3>1, <3>3, <3>4, <3>5 DEF Contents
  <2> QED
    BY <1>13, <2>3, <2>4 DEF FitsInv
<1> QED
  BY <1>14, <1>15

-------------------------------------------------------------------------------
(* The destructor's steps lead to a new manager, or on. *)
LEMMA ClosingFits ==
  ASSUME IInv, op = "close", [Next]_vars
  PROVE  WInv'
<1>1. pc \notin {"closed", "exited", "idle"}
  BY DEF IInv, CallInv
<1>2. CASE op' = op
  BY <1>2 DEF WInv
<1>3. CASE Exit
  BY <1>3, ExitFits DEF WInv
<1>4. SUFFICES ASSUME op' # op, ~Exit PROVE WInv'
  BY <1>2, <1>3
<1> USE <1>4 DEF call
<1>5. ~UNCHANGED vars
  BY DEF vars
<1>6. ASSUME NEW v \in Versions PROVE ~(Create(v) \/ OpenVersion(v) \/ StartSnapshot(v))
  BY <1>1 DEF Create, OpenVersion, StartSnapshot, MayCall, Open
<1>7. ASSUME NEW t \in Threads PROVE ~(BeginAccess(t) \/ FinishAccess(t) \/ PageFault(t))
  BY DEF BeginAccess, FinishAccess, PageFault
<1>8. ~(Listener \/ StartMsync \/ UnregisterRegion)
  BY <1>1 DEF Listener, Poll, Read, Dispatch, StartMsync, UnregisterRegion, MayCall
<1>9. ASSUME NEW i \in SubRegions PROVE ~handler(i)
  <2>1. ~(Dequeue(i) \/ SkipPresent(i) \/ RemoveProcessed(i) \/ Enlist(i) \/ Wake(i))
    BY DEF Dequeue, SkipPresent, RemoveProcessed, Enlist, Wake
  <2>2. ~(HandleWp(i) \/ Unprotect(i) \/ HandleAbsent(i) \/ Copy(i))
    BY DEF HandleWp, Unprotect, HandleAbsent, Copy
  <2> QED
    BY <2>1, <2>2 DEF handler
<1>10. CASE Caller
  <2>1. CASE JoinHandlers
    BY <2>1, ManagerFits DEF JoinHandlers, WInv
  <2>2. ~(StoreBlock \/ ProtectBlock \/ ClearDirty \/ CommitBlock \/ EndSubRegion
            \/ JoinListener \/ Unmap)
    BY DEF StoreBlock, ProtectBlock, ClearDirty, CommitBlock, EndSubRegion, JoinListener, Unmap
  <2> QED
    BY <1>10, <2>1, <2>2 DEF Caller
<1> QED
  BY <1>5, <1>6, <1>7, <1>8, <1>9, <1>10 DEF Next

LEMMA FitsStep ==
  ASSUME QuietSettings, IInv, LiveInv, FitsInv, op # "close", [Next]_vars
  PROVE  /\ WInv'
         /\ op = "msync" /\ op' = "none" /\ pc' = "idle" =>
              \A b \in Blocks : metadata'[m_version_metadata_path][b] = Contents(b)
<1>1. CASE UNCHANGED vars
  <2>1. /\ UNCHANGED <<metadata, mapped, handlers, present_blocks, dirty_lru, stash_set,
                       blocks_ids, m_version_metadata_path, m_temp_current_metadata_path,
                       pc, op, sync>>
    BY <1>1 DEF vars, threads, lists, call
  <2> QED
    BY <2>1, SameStages, FitsStays DEF WInv
<1>2. ASSUME NEW v \in Versions, Create(v) \/ OpenVersion(v)
      PROVE  WInv' /\ op = "none"
  BY <1>2, CreateFits DEF WInv, Create, OpenVersion, Open, IInv, CallInv
<1>3. ASSUME NEW t \in Threads, BeginAccess(t) \/ FinishAccess(t) \/ PageFault(t)
      PROVE  WInv' /\ op' = op
  <2>1. UNCHANGED <<metadata, mapped, handlers, present_blocks, dirty_lru, stash_set,
                    blocks_ids, m_version_metadata_path, m_temp_current_metadata_path,
                    pc, op, sync>>
    BY <1>3 DEF BeginAccess, FinishAccess, PageFault, threads, lists, call
  <2> QED
    BY <2>1, SameStages, FitsStays DEF WInv
<1>4. CASE Listener
  <2>1. CASE Exit
    BY <2>1, ExitFits DEF WInv, Exit
  <2>2. ASSUME ~Exit PROVE WInv' /\ op' = op
    <3>1. UNCHANGED <<metadata, mapped, handlers, present_blocks, dirty_lru, stash_set,
                      blocks_ids, m_version_metadata_path, m_temp_current_metadata_path,
                      pc, op, sync>>
      BY <1>4, <2>2 DEF Listener, Poll, Read, Dispatch, lists, call
    <3> QED
      BY <3>1, SameStages, FitsStays DEF WInv
  <2> QED
    BY <2>1, <2>2 DEF Exit
<1>5. ASSUME NEW i \in SubRegions, handler(i)
      PROVE  WInv' /\ (op' = op \/ pc' = "exited")
  BY <1>5, HandlerFits, HandlerLive DEF WInv, QuietSettings, Exit
<1>6. ASSUME StartMsync \/ \E v \in Versions : StartSnapshot(v)
      PROVE  WInv' /\ op = "none"
  BY <1>6, StartCallFits DEF WInv, QuietSettings, StartMsync, StartSnapshot, MayCall, IInv, CallInv
<1>7. CASE UnregisterRegion
  BY <1>7 DEF UnregisterRegion, WInv
<1>8. CASE Caller
  <2>1. CASE StoreBlock
    BY <2>1, StoreBlockFits DEF WInv, StoreBlock
  <2>2. CASE ProtectBlock
    BY <2>2, ProtectBlockFits DEF WInv, ProtectBlock, Exit
  <2>3. CASE ClearDirty
    BY <2>3, ClearDirtyFits DEF WInv, ClearDirty
  <2>4. CASE EndSubRegion
    BY <2>4, EndSubRegionFits DEF WInv
  <2>5. ~(JoinListener \/ Unmap \/ JoinHandlers \/ CommitBlock)
    BY CommitBlockFits DEF JoinListener, Unmap, JoinHandlers, IInv, CallInv
  <2> QED
    BY <1>8, <2>1, <2>2, <2>3, <2>4, <2>5 DEF Caller
<1> QED
  BY <1>1, <1>2, <1>3, <1>4, <1>5, <1>6, <1>7, <1>8 DEF Next

LEMMA QuietInductive ==
  ASSUME QuietSettings PROVE Spec => [](IInv /\ QInv /\ WInv)
<1>1. Init => WInv
  BY InitFits DEF WInv
<1>2. IInv /\ QInv /\ WInv /\ [Next]_vars => WInv'
  BY ClosingFits, FitsStep DEF QInv, WInv
<1>3. Spec => [](IInv /\ QInv)
  BY FaultsInductive DEF QuietSettings
<1> QED
  BY <1>1, <1>2, <1>3, PTL DEF Spec

-------------------------------------------------------------------------------
(* No store escapes msync(): a block that is writable is on the dirty list *)
(* of its sub-region, or about to be.                                      *)
THEOREM WriteBarrierCorrect ==
  ASSUME QuietSettings PROVE Spec => []WriteBarrier
<1>1. WInv => WriteBarrier
  BY BarrierForm DEF WInv, FitsInv, WriteBarrier
<1> QED
  BY <1>1, QuietInductive, PTL

(* When msync() returns, the version holds what the application reads.     *)
THEOREM MsyncDurableCorrect ==
  ASSUME QuietSettings PROVE Spec => MsyncDurable
<1>1. IInv /\ QInv /\ WInv /\ [Next]_vars =>
        (op = "msync" /\ op' = "none" /\ pc' = "idle" =>
           \A b \in Blocks : metadata'[m_version_metadata_path][b] = Contents(b))
  BY FitsStep DEF QInv, WInv
<1> QED
  BY <1>1, QuietInductive, PTL DEF Spec, MsyncDurable
===============================================================================
