------------------------------- MODULE UffdVmm --------------------------------
(***************************************************************************)
(* The userfaultfd-driven virtual memory manager                           *)
(* (src/src/privateer/uffd_virtual_memory_manager.cpp) with the listener   *)
(* that feeds it (src/include/privateer/utility/UFFD.hpp).  Application    *)
(* threads load and store; the kernel suspends a thread that faults and    *)
(* posts a message; the listener reads the messages and hands each to the  *)
(* queue of one sub-region (block index modulo num_handling_threads); the  *)
(* handler thread of the sub-region fills or unprotects the block and      *)
(* wakes the thread; an application thread that calls msync(), snapshot()  *)
(* or the destructor works on the same lists and takes no lock the handler *)
(* threads take.                                                           *)
(*                                                                         *)
(* Abstractions.  A page address is the number of the page, from 1; 0 is   *)
(* the null address of the stop event.  The pages of a block share one     *)
(* contents.  A block id is the contents it names (ContentStore's          *)
(* promise), EMPTY_BLOCK_HASH is Zero, and a call of the block storage is  *)
(* one step.  A version directory is the contents its _metadata names.     *)
(* One region at a time, opened for writing; one public call at a time,    *)
(* beside any number of loads and stores.                                  *)
(*                                                                         *)
(* A definition marked "seeded fault" is no part of the model: PROJECT.json*)
(* names the property that fails when it takes the next one's place.       *)
(***************************************************************************)
EXTENDS Integers, Sequences, FiniteSets, SequencesExt, EventQueue

CONSTANTS
  Threads,               (* application threads that load and store *)
  NumBlocks,             (* m_region_max_capacity / m_block_size *)
  NumPages,              (* pages of a block *)
  Values, Zero,          (* contents; those of an untouched block *)
  Stores,                (* bound: the contents each application thread stores *)
  None,
  Versions,              (* version directories *)
  MaxMemBlocks,          (* m_max_mem_size / m_block_size *)
  num_handling_threads,
  num_msync_threads,
  BlocksOf,              (* the blocks each application thread touches *)
  Calls,                 (* the public calls the application makes ... *)
  Quiet,                 (* ... if TRUE, only while no thread is in the region *)
  MaxListed              (* bound: no call once the first clean list is longer *)

Blocks == 0 .. (NumBlocks - 1)
Pages == 1 .. (NumBlocks * NumPages)
Addresses == Pages \cup {0}
SubRegions == 0 .. (num_handling_threads - 1)

ASSUME UffdAssumption ==
  /\ NumBlocks \in Nat \ {0} /\ NumPages \in Nat \ {0}
  /\ MaxMemBlocks \in Nat \ {0}
  /\ num_handling_threads \in Nat \ {0} /\ num_msync_threads \in Nat \ {0}
  /\ Zero \in Values /\ Stores \in [Threads -> SUBSET Values]
  /\ BlocksOf \in [Threads -> SUBSET Blocks]
  /\ MaxListed \in Nat
  /\ Calls \subseteq {"msync", "snapshot", "close"}
  /\ Quiet \in BOOLEAN

Image == [Blocks -> Values]
Access == [page : Pages, value : Values \cup {None}]   (* None: a load *)

ASSUME NoneAssumption ==
  None \notin Values \cup Versions \cup Image \cup Access \cup Event(Pages)

VARIABLES
  (* On disk. *)
  metadata,            (* the image each version holds, None: no such directory *)
  (* Application threads and the kernel. *)
  acc,                 (* the load or store each thread is making, or None *)
  blocked,             (* the fault a thread is suspended on, or None *)
  uffd,                (* threads whose message has not been read, in order *)
  mapped, mem,         (* page-table state and contents of each block *)
  registered,          (* the region is registered with userfaultfd *)
  (* The listener and the handler threads. *)
  listener,            (* its program counter and the messages it has read, m_events *)
  events_queues, handlers,
  uffd_active,
  (* The manager's fields. *)
  present_blocks, clean_lru, dirty_lru, stash_set,
  blocks_ids,
  stash_file,          (* contents of the block's stash file, or None *)
  m_version_metadata_path,
  (* The public call under way. *)
  pc, op, sync,
  m_temp_current_metadata_path

app == <<acc, blocked, uffd>>
threads == <<listener, events_queues, handlers, uffd_active>>
lists == <<present_blocks, clean_lru, dirty_lru, stash_set>>
call == <<pc, op, sync, m_version_metadata_path, m_temp_current_metadata_path>>
vars == <<metadata, app, mapped, mem, registered, threads, lists, blocks_ids,
          stash_file, call>>

Open == pc \notin {"closed", "exited"}

TypeOK ==
  /\ metadata \in [Versions -> Image \cup {None}]
  /\ acc \in [Threads -> Access \cup {None}]
  /\ blocked \in [Threads -> Event(Pages) \cup {None}]
  /\ uffd \in Seq(Threads)
  /\ mapped \in [Blocks -> {"missing", "wp", "rw"}]
  /\ mem \in Image
  /\ registered \in BOOLEAN
  /\ listener \in [pc : {"poll", "read", "dispatch", "done"}, m_events : Seq(Event(Pages))]
  /\ events_queues \in [SubRegions -> EventQueue(Addresses)]
  /\ handlers \in [SubRegions ->
       [pc : {"dequeue", "handle", "unprotect", "processed", "copy", "enlist",
              "wake", "stopped"}, fevent : Event(Addresses)]]
  /\ uffd_active \in BOOLEAN
  /\ present_blocks \in [SubRegions -> SUBSET Blocks]
  /\ clean_lru \in [SubRegions -> Seq(Blocks)]
  /\ dirty_lru \in [SubRegions -> Seq(Blocks)]
  /\ stash_set \in [SubRegions -> SUBSET Blocks]
  /\ blocks_ids \in Image
  /\ stash_file \in [Blocks -> Values \cup {None}]
  /\ m_version_metadata_path \in Versions \cup {None}
  /\ pc \in {"closed", "exited", "idle", "stop_listener", "store", "commit",
             "unmap", "join"}
  /\ op \in Calls \cup {"none"}
  /\ sync \in [sub : SubRegions, todo : SUBSET (Nat \X Blocks), stored : SUBSET (Nat \X Blocks)]
  /\ m_temp_current_metadata_path \in Versions \cup {None}

-------------------------------------------------------------------------------
get_block(page) == (page - 1) \div NumPages
sub_region(b) == b % num_handling_threads

(* msync() files a block by its address instead: addresses are multiples   *)
(* of the page size, and so of the number of threads while that is a       *)
(* power of two up to it.                                                  *)
sub_region_of_address(b) == 0

(* A sequence without the elements that are in a set, as list.remove()     *)
(* leaves it (a recursive function, so that it can be proved about).       *)
Without(s, gone) ==
  LET kept[k \in 0 .. Len(s)] ==
        IF k = 0 THEN <<>>
        ELSE IF s[k] \in gone THEN kept[k - 1] ELSE Append(kept[k - 1], s[k])
  IN  kept[Len(s)]

ZeroImage == [b \in Blocks |-> Zero]
EmptySync == [sub |-> 0, todo |-> {}, stored |-> {}]

(* What loading a block brings in: the stash file, or the file of its id.  *)
Backing(b) == IF stash_file[b] # None THEN stash_file[b] ELSE blocks_ids[b]

(* The manager that follows (or none, or one that a constructor made).     *)
FreshManager(ids, path, active) ==
  /\ acc' = [t \in Threads |-> None] /\ blocked' = [t \in Threads |-> None]
  /\ uffd' = <<>>
  /\ mapped' = [b \in Blocks |-> "missing"] /\ mem' = ZeroImage
  /\ registered' = active
  /\ listener' = [pc |-> IF active THEN "poll" ELSE "done", m_events |-> <<>>]
  /\ events_queues' = [i \in SubRegions |-> Empty]
  /\ handlers' = [i \in SubRegions |->
                   [pc |-> IF active THEN "dequeue" ELSE "stopped", fevent |-> StopEvent]]
  /\ uffd_active' = active
  /\ present_blocks' = [i \in SubRegions |-> {}]
  /\ clean_lru' = [i \in SubRegions |-> <<>>]
  /\ dirty_lru' = [i \in SubRegions |-> <<>>]
  /\ stash_set' = [i \in SubRegions |-> {}]
  /\ blocks_ids' = ids
  /\ stash_file' = [b \in Blocks |-> None]
  /\ m_version_metadata_path' = path
  /\ op' = "none" /\ sync' = EmptySync
  /\ m_temp_current_metadata_path' = None

Init ==
  /\ metadata = [v \in Versions |-> None]
  /\ acc = [t \in Threads |-> None] /\ blocked = [t \in Threads |-> None]
  /\ uffd = <<>>
  /\ mapped = [b \in Blocks |-> "missing"] /\ mem = ZeroImage
  /\ registered = FALSE
  /\ listener = [pc |-> "done", m_events |-> <<>>]
  /\ events_queues = [i \in SubRegions |-> Empty]
  /\ handlers = [i \in SubRegions |-> [pc |-> "stopped", fevent |-> StopEvent]]
  /\ uffd_active = FALSE
  /\ present_blocks = [i \in SubRegions |-> {}]
  /\ clean_lru = [i \in SubRegions |-> <<>>] /\ dirty_lru = [i \in SubRegions |-> <<>>]
  /\ stash_set = [i \in SubRegions |-> {}]
  /\ blocks_ids = ZeroImage /\ stash_file = [b \in Blocks |-> None]
  /\ m_version_metadata_path = None
  /\ pc = "closed" /\ op = "none" /\ sync = EmptySync
  /\ m_temp_current_metadata_path = None

(* exit(-1), on whatever thread: the process is gone, the disk stays.      *)
Exit ==
  /\ pc' = "exited"
  /\ FreshManager(ZeroImage, None, FALSE)
  /\ UNCHANGED metadata

(* Privateer::create() and open(): the constructor starts the handler      *)
(* threads, init_uffd() the listener, and the region is registered.        *)
Create(v) ==
  /\ ~Open
  /\ metadata[v] = None
  /\ metadata' = [metadata EXCEPT ![v] = ZeroImage]
  /\ pc' = "idle"
  /\ FreshManager(ZeroImage, v, TRUE)

OpenVersion(v) ==
  /\ ~Open
  /\ metadata[v] # None
  /\ pc' = "idle"
  /\ FreshManager(metadata[v], v, TRUE)
  /\ UNCHANGED metadata

-------------------------------------------------------------------------------
(* The application's threads and the kernel.                               *)

BeginAccess(t) ==
  /\ Open /\ op # "close"
  /\ Quiet => op = "none"
  /\ acc[t] = None
  /\ \E page \in Pages, value \in Stores[t] \cup {None} :
       /\ get_block(page) \in BlocksOf[t]
       /\ acc' = [acc EXCEPT ![t] = [page |-> page, value |-> value]]
  /\ UNCHANGED <<metadata, blocked, uffd, mapped, mem, registered, threads, lists,
                 blocks_ids, stash_file, call>>

Allowed(access) ==
  \/ mapped[get_block(access.page)] = "rw"
  \/ mapped[get_block(access.page)] = "wp" /\ access.value = None

(* The access goes through without the manager's help. *)
FinishAccess(t) ==
  /\ acc[t] # None /\ blocked[t] = None
  /\ Allowed(acc[t])
  /\ mem' = IF acc[t].value = None THEN mem
            ELSE [mem EXCEPT ![get_block(acc[t].page)] = acc[t].value]
  /\ acc' = [acc EXCEPT ![t] = None]
  /\ UNCHANGED <<metadata, blocked, uffd, mapped, registered, threads, lists,
                 blocks_ids, stash_file, call>>

(* It does not: the kernel suspends the thread and posts a message.  A     *)
(* store to a write-protected page is a write-protect fault.               *)
PageFault(t) ==
  /\ acc[t] # None /\ blocked[t] = None
  /\ ~Allowed(acc[t])
  /\ LET missing == mapped[get_block(acc[t].page)] = "missing"
     IN  blocked' = [blocked EXCEPT ![t] =
                      [address |-> acc[t].page,
                       is_wp_fault |-> ~missing,
                       is_write_fault |-> missing /\ acc[t].value # None]]
  /\ uffd' = Append(uffd, t)
  /\ UNCHANGED <<metadata, acc, mapped, mem, registered, threads, lists, blocks_ids,
                 stash_file, call>>

(* Waking a range resumes every thread suspended in it; the messages of    *)
(* those among them that nobody has read are gone.                         *)
NotifiedOne(b) ==
  LET waiters == {t \in Threads : blocked[t] # None /\ get_block(blocked[t].address) = b}
  IN  IF waiters = {} THEN {} ELSE {CHOOSE t \in waiters : TRUE} \* seeded fault
Woken(b) == {t \in Threads : blocked[t] # None /\ get_block(blocked[t].address) = b}

WakeBlock(b) ==
  /\ blocked' = [t \in Threads |-> IF t \in Woken(b) THEN None ELSE blocked[t]]
  /\ uffd' = Without(uffd, Woken(b))

-------------------------------------------------------------------------------
(* The listener, UFFD::handler().                                          *)

(* poll() returns: there is a message, or stop_uffd() has written "bye".   *)
Poll ==
  /\ listener.pc = "poll"
  /\ \/ /\ pc = "stop_listener"
        /\ listener' = [listener EXCEPT !.pc = "done"]
     \/ /\ pc # "stop_listener"
        /\ uffd # <<>>
        /\ listener' = [listener EXCEPT !.pc = "read"]
  /\ UNCHANGED <<metadata, app, mapped, mem, registered, events_queues, handlers,
                 uffd_active, lists, blocks_ids, stash_file, call>>

(* All messages are read at once; they may have gone since poll(), and the *)
(* descriptor is O_NONBLOCK: read() fails then, and the process exits.     *)
Read ==
  /\ listener.pc = "read"
  /\ \/ uffd = <<>> /\ Exit
     \/ /\ uffd # <<>>
        /\ listener' = [pc |-> "dispatch",
                        m_events |-> [k \in DOMAIN uffd |-> blocked[uffd[k]]]]
        /\ uffd' = <<>>
        /\ UNCHANGED <<metadata, acc, blocked, mapped, mem, registered, events_queues,
                       handlers, uffd_active, lists, blocks_ids, stash_file, call>>

(* A message is a new event unless one at that address is being processed. *)
add_page_fault_event(q, fevent) == IF found(q, fevent) THEN q ELSE enqueue(q, fevent)

(* search_and_dispatch_vmm() exits when the region is not registered.      *)
Dispatch ==
  /\ listener.pc = "dispatch"
  /\ \/ ~registered /\ Exit
     \/ /\ registered
        /\ LET fevent == Head(listener.m_events)
           IN  events_queues' = [events_queues EXCEPT
                 ![sub_region(get_block(fevent.address))] = add_page_fault_event(@, fevent)]
        /\ listener' = [pc |-> IF Len(listener.m_events) = 1 THEN "poll" ELSE "dispatch",
                        m_events |-> Tail(listener.m_events)]
        /\ UNCHANGED <<metadata, app, mapped, mem, registered, handlers, uffd_active,
                       lists, blocks_ids, stash_file, call>>

Listener == Poll \/ Read \/ Dispatch
-------------------------------------------------------------------------------
(* A handler thread, handler(i).                                           *)

HandlerAt(i, where) == handlers[i].pc = where
Handling(i) == get_block(handlers[i].fevent.address)
Goto(i, where) == handlers' = [handlers EXCEPT ![i].pc = where]
NextEvent == IF uffd_active THEN "dequeue" ELSE "stopped"

PushPage(lru, i, b) == [lru EXCEPT ![i] = Cons(b * NumPages + 1, @)] \* seeded fault
PushFront(lru, i, b) == [lru EXCEPT ![i] = Cons(b, @)]

Kept(i) == events_queues \* seeded fault
Forgotten(i) == [events_queues EXCEPT ![i] = remove_processed(@, handlers[i].fevent)]

Dequeue(i) ==
  /\ HandlerAt(i, "dequeue")
  /\ CanDequeue(events_queues[i])
  /\ LET fevent == front(events_queues[i])
     IN  handlers' = [handlers EXCEPT ![i] =
           [pc |-> IF fevent.address = 0 THEN "stopped" ELSE "handle", fevent |-> fevent]]
  /\ events_queues' = [events_queues EXCEPT ![i] = dequeue(@)]
  /\ UNCHANGED <<metadata, app, mapped, mem, registered, listener, uffd_active, lists,
                 blocks_ids, stash_file, call>>

(* The block has become present since: nothing to do.  The event stays in  *)
(* m_processing.                                                           *)
SkipPresent(i) ==
  /\ HandlerAt(i, "handle")
  /\ ~handlers[i].fevent.is_wp_fault
  /\ Handling(i) \in present_blocks[i]
  /\ Goto(i, NextEvent)
  /\ UNCHANGED <<metadata, app, mapped, mem, registered, listener, events_queues,
                 uffd_active, lists, blocks_ids, stash_file, call>>

CleanKept(i, b) == clean_lru \* seeded fault
CleanWithout(i, b) == [clean_lru EXCEPT ![i] = Without(@, {b})]
DirtyKept(i, b) == dirty_lru \* seeded fault
DirtyWith(i, b) == PushFront(dirty_lru, i, b)

(* A store to a clean block: it is put on record as dirty, its stash file  *)
(* goes, ...                                                               *)
HandleWp(i) ==
  /\ HandlerAt(i, "handle")
  /\ handlers[i].fevent.is_wp_fault
  /\ LET b == Handling(i)
     IN  \/ /\ b \in stash_set[i] /\ stash_file[b] = None
            /\ Exit
         \/ /\ b \notin stash_set[i] \/ stash_file[b] # None
            /\ clean_lru' = CleanWithout(i, b)
            /\ dirty_lru' = DirtyWith(i, b)
            /\ stash_file' = IF b \in stash_set[i] THEN [stash_file EXCEPT ![b] = None]
                             ELSE stash_file
            /\ stash_set' = [stash_set EXCEPT ![i] = @ \ {b}]
            /\ Goto(i, "unprotect")
            /\ UNCHANGED <<metadata, app, mapped, mem, registered, listener, events_queues,
                           uffd_active, present_blocks, blocks_ids, call>>

(* ... UFFDIO_WRITEPROTECT lifts the protection and wakes the block's      *)
(* threads, ...                                                            *)
Unprotect(i) ==
  /\ HandlerAt(i, "unprotect")
  /\ \/ ~registered /\ Exit
     \/ /\ registered
        /\ mapped' = [mapped EXCEPT ![Handling(i)] = IF @ = "wp" THEN "rw" ELSE @]
        /\ WakeBlock(Handling(i))
        /\ Goto(i, "processed")
        /\ UNCHANGED <<metadata, acc, mem, registered, listener, events_queues,
                       uffd_active, lists, blocks_ids, stash_file, call>>

(* ... and only then is the event forgotten.                               *)
RemoveProcessed(i) ==
  /\ HandlerAt(i, "processed")
  /\ events_queues' = Forgotten(i)
  /\ Goto(i, NextEvent)
  /\ UNCHANGED <<metadata, app, mapped, mem, registered, listener, uffd_active, lists,
                 blocks_ids, stash_file, call>>

(* evict_if_needed(): a clean block, else a dirty one that is stashed      *)
(* first.  The mmap() that should drop its pages has no MAP_FIXED: the     *)
(* kernel makes the mapping elsewhere and the pages stay as they are.      *)
(* back() of an empty list is undefined: the process dies.                 *)
EvictClean(i) ==
  /\ clean_lru[i] # <<>>
  /\ clean_lru' = [clean_lru EXCEPT ![i] = Front(@)]
  /\ present_blocks' = [present_blocks EXCEPT ![i] = @ \ {Last(clean_lru[i])}]
  /\ UNCHANGED <<dirty_lru, stash_set, stash_file>>

EvictDirty(i) ==
  /\ clean_lru[i] = <<>> /\ dirty_lru[i] # <<>>
  /\ LET b == Last(dirty_lru[i])
     IN  /\ stash_file' = [stash_file EXCEPT ![b] = mem[b]]
         /\ stash_set' = [stash_set EXCEPT ![i] = @ \cup {b}]
         /\ present_blocks' = [present_blocks EXCEPT ![i] = @ \ {b}]
  /\ dirty_lru' = [dirty_lru EXCEPT ![i] = Front(@)]
  /\ UNCHANGED clean_lru

EvictionOneEarly(i) == Cardinality(present_blocks[i]) + 1 >= MaxMemBlocks \* seeded fault
EvictionNeeded(i) == Cardinality(present_blocks[i]) >= MaxMemBlocks

(* A fault on an absent block: make room, ...                              *)
HandleAbsent(i) ==
  /\ HandlerAt(i, "handle")
  /\ ~handlers[i].fevent.is_wp_fault
  /\ Handling(i) \notin present_blocks[i]
  /\ \/ /\ EvictionNeeded(i)
        /\ clean_lru[i] = <<>> /\ dirty_lru[i] = <<>>
        /\ Exit
     \/ /\ \/ ~EvictionNeeded(i) /\ UNCHANGED <<lists, stash_file>>
           \/ EvictionNeeded(i) /\ (EvictClean(i) \/ EvictDirty(i))
        /\ Goto(i, "copy")
        /\ UNCHANGED <<metadata, app, mapped, mem, registered, listener, events_queues,
                       uffd_active, blocks_ids, call>>

ZeroPage(b) == Zero \* seeded fault
CopiedIn(b) == Backing(b)

(* ... UFFDIO_COPY or ZEROPAGE the contents in without waking anybody      *)
(* (EEXIST when the pages are there), ...                                  *)
Copy(i) ==
  /\ HandlerAt(i, "copy")
  /\ LET b == Handling(i)
     IN  \/ (mapped[b] # "missing" \/ ~registered) /\ Exit
         \/ /\ mapped[b] = "missing" /\ registered
            /\ mem' = [mem EXCEPT ![b] = CopiedIn(b)]
            /\ mapped' = [mapped EXCEPT ![b] =
                            IF handlers[i].fevent.is_write_fault THEN "rw" ELSE "wp"]
            /\ Goto(i, "enlist")
            /\ UNCHANGED <<metadata, app, registered, listener, events_queues,
                           uffd_active, lists, blocks_ids, stash_file, call>>

(* ... put it on record and forget the event, ...                          *)
Enlist(i) ==
  /\ HandlerAt(i, "enlist")
  /\ LET b == Handling(i)
     IN  /\ IF handlers[i].fevent.is_write_fault
            THEN dirty_lru' = PushFront(dirty_lru, i, b) /\ UNCHANGED clean_lru
            ELSE clean_lru' = PushFront(clean_lru, i, b) /\ UNCHANGED dirty_lru
         /\ present_blocks' = [present_blocks EXCEPT ![i] = @ \cup {b}]
  /\ events_queues' = Forgotten(i)
  /\ Goto(i, "wake")
  /\ UNCHANGED <<metadata, app, mapped, mem, registered, listener, uffd_active,
                 stash_set, blocks_ids, stash_file, call>>

(* ... and wake the threads that wait for the block.                       *)
Wake(i) ==
  /\ HandlerAt(i, "wake")
  /\ WakeBlock(Handling(i))
  /\ Goto(i, NextEvent)
  /\ UNCHANGED <<metadata, acc, mapped, mem, registered, listener, events_queues,
                 uffd_active, lists, blocks_ids, stash_file, call>>

handler(i) ==
  \/ Dequeue(i) \/ SkipPresent(i)
  \/ HandleWp(i) \/ Unprotect(i) \/ RemoveProcessed(i)
  \/ HandleAbsent(i) \/ Copy(i) \/ Enlist(i) \/ Wake(i)

-------------------------------------------------------------------------------
(* msync(), snapshot() and close(), on an application thread.              *)

MayCall(which) ==
  /\ which \in Calls
  /\ pc = "idle"
  /\ which # "close" => Len(clean_lru[0]) <= MaxListed
  /\ (Quiet \/ which = "close") => \A t \in Threads : acc[t] = None

Entries(list) == {<<k, list[k]>> : k \in DOMAIN list}

(* msync(i) works on a copy of the dirty list made when it begins.         *)
StartSubRegion(i) ==
  /\ pc' = "store"
  /\ sync' = [sub |-> i, todo |-> Entries(dirty_lru[i]), stored |-> {}]

StartMsync ==
  /\ MayCall("msync")
  /\ op' = "msync"
  /\ StartSubRegion(0)
  /\ UNCHANGED <<metadata, app, mapped, mem, registered, threads, lists, blocks_ids,
                 stash_file, m_version_metadata_path, m_temp_current_metadata_path>>

(* snapshot() returns at once when the version exists; otherwise it makes  *)
(* the directory and runs msync() with the version path replaced.          *)
StartSnapshot(v) ==
  /\ MayCall("snapshot")
  /\ metadata[v] = None
  /\ metadata' = [metadata EXCEPT ![v] = ZeroImage]
  /\ op' = "snapshot"
  /\ m_temp_current_metadata_path' = m_version_metadata_path
  /\ m_version_metadata_path' = v
  /\ StartSubRegion(0)
  /\ UNCHANGED <<app, mapped, mem, registered, threads, lists, blocks_ids, stash_file>>

IdsOfNewBlocks(b) ==
  IF blocks_ids[b] # Zero THEN blocks_ids ELSE [blocks_ids EXCEPT ![b] = mem[b]] \* seeded fault
IdsWith(b) == [blocks_ids EXCEPT ![b] = mem[b]]

(* The parallel loop over the dirty blocks: a block is stored, ...         *)
StoreBlock ==
  /\ pc = "store"
  /\ Cardinality(sync.stored) < num_msync_threads
  /\ \E e \in sync.todo :
       /\ blocks_ids' = IdsWith(e[2])
       /\ sync' = [sync EXCEPT !.todo = @ \ {e}, !.stored = @ \cup {e}]
  /\ UNCHANGED <<metadata, app, mapped, mem, registered, threads, lists, stash_file,
                 pc, op, m_version_metadata_path, m_temp_current_metadata_path>>

NotProtected(b) == mapped \* seeded fault
Protected(b) == [mapped EXCEPT ![b] = IF @ = "rw" THEN "wp" ELSE @]

(* ... then write-protected and listed as clean.                           *)
ProtectBlock ==
  /\ pc = "store"
  /\ sync.stored # {}
  /\ \/ ~registered /\ Exit
     \/ /\ registered
        /\ \E e \in sync.stored :
             /\ mapped' = Protected(e[2])
             /\ clean_lru' = PushFront(clean_lru, sub_region_of_address(e[2]), e[2])
             /\ sync' = [sync EXCEPT !.stored = @ \ {e}]
        /\ UNCHANGED <<metadata, app, mem, registered, threads, present_blocks, dirty_lru,
                       stash_set, blocks_ids, stash_file, pc, op, m_version_metadata_path,
                       m_temp_current_metadata_path>>

DirtyEmptied == [dirty_lru EXCEPT ![sync.sub] = <<>>]

(* The dirty list, as it is by now, is emptied; the stashed blocks follow. *)
ClearDirty ==
  /\ pc = "store"
  /\ sync.todo = {} /\ sync.stored = {}
  /\ dirty_lru' = DirtyEmptied
  /\ pc' = "commit"
  /\ sync' = [sync EXCEPT !.todo = {0} \X stash_set[sync.sub]]
  /\ UNCHANGED <<metadata, app, mapped, mem, registered, threads, present_blocks,
                 clean_lru, stash_set, blocks_ids, stash_file, op,
                 m_version_metadata_path, m_temp_current_metadata_path>>

(* commit_stash_block() finds nothing to commit when the file is gone.     *)
CommitBlock ==
  /\ pc = "commit"
  /\ \E e \in sync.todo :
       \/ stash_file[e[2]] = None /\ Exit
       \/ /\ stash_file[e[2]] # None
          /\ blocks_ids' = [blocks_ids EXCEPT ![e[2]] = stash_file[e[2]]]
          /\ stash_file' = [stash_file EXCEPT ![e[2]] = None]
          /\ sync' = [sync EXCEPT !.todo = @ \ {e}]
          /\ UNCHANGED <<metadata, app, mapped, mem, registered, threads, lists, pc, op,
                         m_version_metadata_path, m_temp_current_metadata_path>>

(* update_metadata(i) writes the ids up to the sub-region's highest        *)
(* present block.                                                          *)
WrittenByFirst(i) == {b \in Blocks : \E top \in present_blocks[0] : i = 0 /\ b <= top} \* seeded fault
BelowTop(i) == {b \in Blocks : \E top \in present_blocks[i] : b < top} \* seeded fault
Written(i) == {b \in Blocks : \E top \in present_blocks[i] : b <= top}

update_metadata(i) ==
  metadata' = [metadata EXCEPT ![m_version_metadata_path] =
                [b \in Blocks |-> IF b \in Written(i) THEN blocks_ids[b] ELSE @[b]]]

StashEmptied == [stash_set EXCEPT ![sync.sub] = {}]

(* The end of msync(i): on to the next sub-region, or back to what called. *)
EndSubRegion ==
  /\ pc = "commit" /\ sync.todo = {}
  /\ stash_set' = StashEmptied
  /\ update_metadata(sync.sub)
  /\ \/ /\ sync.sub + 1 \in SubRegions
        /\ StartSubRegion(sync.sub + 1)
        /\ UNCHANGED <<op, m_version_metadata_path, m_temp_current_metadata_path>>
     \/ /\ sync.sub + 1 \notin SubRegions
        /\ sync' = EmptySync
        /\ pc' = IF op = "close" THEN "unmap" ELSE "idle"
        /\ op' = IF op = "close" THEN "close" ELSE "none"
        /\ m_version_metadata_path' =
              IF op = "snapshot" THEN m_temp_current_metadata_path ELSE m_version_metadata_path
        /\ m_temp_current_metadata_path' = None
  /\ UNCHANGED <<app, mapped, mem, registered, threads, present_blocks, clean_lru,
                 dirty_lru, blocks_ids, stash_file>>

OneStopEvent == [events_queues EXCEPT ![0] = enqueue(@, StopEvent)] \* seeded fault
StopEvents == [i \in SubRegions |-> enqueue(events_queues[i], StopEvent)]

(* ~Privateer(): the region is unregistered, which lifts its protection    *)
(* and wakes its threads, and each queue is given a stop event, ...        *)
UnregisterRegion ==
  /\ MayCall("close")
  /\ op' = "close" /\ pc' = "stop_listener"
  /\ registered' = FALSE
  /\ mapped' = [b \in Blocks |-> IF mapped[b] = "wp" THEN "rw" ELSE mapped[b]]
  /\ blocked' = [t \in Threads |-> None] /\ uffd' = <<>>
  /\ events_queues' = StopEvents
  /\ UNCHANGED <<metadata, acc, mem, listener, handlers, uffd_active, lists, blocks_ids,
                 stash_file, sync, m_version_metadata_path, m_temp_current_metadata_path>>

(* ... the listener is told to stop and waited for, then close() begins,   *)
JoinListener ==
  /\ pc = "stop_listener"
  /\ listener.pc = "done"
  /\ StartSubRegion(0)
  /\ UNCHANGED <<metadata, app, mapped, mem, registered, threads, lists, blocks_ids,
                 stash_file, op, m_version_metadata_path, m_temp_current_metadata_path>>

StoppedForAll(q) ==
  [q EXCEPT !.m_queue = @ \o [k \in 1 .. num_handling_threads |-> StopEvent]]

(* which unmaps the present blocks after its msync(), and posts one more   *)
(* stop event per handler thread, all of them to the first queue: the      *)
(* region's start address is the null pointer by then.                     *)
Unmap ==
  /\ pc = "unmap"
  /\ mapped' = [b \in Blocks |-> IF b \in present_blocks[sub_region(b)] THEN "missing"
                                ELSE mapped[b]]
  /\ uffd_active' = FALSE
  /\ events_queues' = [events_queues EXCEPT ![0] = StoppedForAll(@)]
  /\ pc' = "join"
  /\ UNCHANGED <<metadata, app, mem, registered, listener, handlers, lists, blocks_ids,
                 stash_file, op, sync, m_version_metadata_path, m_temp_current_metadata_path>>

JoinHandlers ==
  /\ pc = "join"
  /\ \A i \in SubRegions : HandlerAt(i, "stopped")
  /\ pc' = "closed"
  /\ FreshManager(ZeroImage, None, FALSE)
  /\ UNCHANGED metadata

Caller ==
  \/ StoreBlock \/ ProtectBlock \/ ClearDirty \/ CommitBlock \/ EndSubRegion
  \/ JoinListener \/ Unmap \/ JoinHandlers

-------------------------------------------------------------------------------
Next ==
  \/ \E v \in Versions : Create(v) \/ OpenVersion(v) \/ StartSnapshot(v)
  \/ \E t \in Threads : BeginAccess(t) \/ FinishAccess(t) \/ PageFault(t)
  \/ Listener
  \/ \E i \in SubRegions : handler(i)
  \/ StartMsync \/ UnregisterRegion
  \/ Caller

(* Every thread that can run does run: the listener, each handler thread,  *)
(* the thread in a public call, and a thread that has begun an access.     *)
(* Nobody has to begin an access or a call.                                *)
Fairness ==
  /\ WF_vars(Listener)
  /\ \A i \in SubRegions : WF_vars(handler(i))
  /\ \A t \in Threads : WF_vars(FinishAccess(t) \/ PageFault(t))
  /\ WF_vars(Caller)

Spec == Init /\ [][Next]_vars /\ Fairness
-------------------------------------------------------------------------------
(* What a load of the block returns, now or after a fault.                 *)
Contents(b) == IF mapped[b] = "missing" THEN Backing(b) ELSE mem[b]

(* WriteBarrier: a block that takes stores without a fault is on record as *)
(* dirty, in its own sub-region's list, or the handler that has just let   *)
(* the store in is about to put it there.  msync() saves what is on that   *)
(* list and nothing else.                                                  *)
WriteBarrier ==
  (op # "close") =>
    \A b \in Blocks :
      mapped[b] = "rw" =>
        LET i == sub_region(b)
        IN  \/ b \in ToSet(dirty_lru[i])
            \/ HandlerAt(i, "enlist") /\ Handling(i) = b

(* CleanSaved: a write-protected block that is not on record as dirty      *)
(* equals its stash file or the file its id names: dropping it loses       *)
(* nothing, and neither does an msync() that passes it by.                 *)
CleanSaved ==
  \A b \in Blocks :
    mapped[b] = "wp" /\ b \notin ToSet(dirty_lru[sub_region(b)]) => mem[b] = Backing(b)

(* ResidentListed: each present block is exactly once in the LRU lists of  *)
(* its sub-region, but for the moment between msync()'s listing it as      *)
(* clean and its emptying the dirty list: the lists are not empty at the   *)
(* limit, and a block taken off its list is on no other.  They may name    *)
(* more: an evicted block keeps its pages, and a store to them lists it as *)
(* dirty while it is not present, from where it can be the next victim.    *)
ResidentListed ==
  \A i \in SubRegions, b \in Blocks :
    b \in present_blocks[i] /\ pc # "store" =>
      Cardinality({k \in DOMAIN clean_lru[i] : clean_lru[i][k] = b})
        + Cardinality({k \in DOMAIN dirty_lru[i] : dirty_lru[i][k] = b}) = 1

(* MemoryBound: no sub-region has more blocks present than its limit.      *)
MemoryBound == \A i \in SubRegions : Cardinality(present_blocks[i]) <= MaxMemBlocks

(* NeverExits: no ioctl, read or storage call fails for a reason of the    *)
(* manager's own making; every such failure ends the process.              *)
NeverExits == pc # "exited"

(* MsyncDurable: when msync() returns, the open version names exactly what *)
(* the application would read.                                             *)
MsyncDurable ==
  [][op = "msync" /\ op' = "none" /\ pc' = "idle" =>
       \A b \in Blocks : metadata'[m_version_metadata_path][b] = Contents(b)]_vars

(* SavesCurrent: at each write of _metadata every entry stays or becomes   *)
(* what the application reads, so that a death leaves no other contents.   *)
SavesCurrent ==
  [][\A v \in Versions, b \in Blocks :
       metadata[v] # None /\ op # "close" =>
         metadata'[v][b] \in {metadata[v][b], Contents(b)}]_vars

(* CloseSaves: a version holds what the application last saw when the      *)
(* Privateer object is gone.                                               *)
CloseSaves ==
  [][op = "close" /\ op' = "none" =>
       pc' = "closed" /\ \A b \in Blocks :
         metadata'[m_version_metadata_path][b] = Contents(b)]_vars

(* OnlyStoresChange: faults, evictions, the handler threads' copies and    *)
(* the steps of msync() and snapshot() never change what a load returns.   *)
OnlyStoresChange ==
  [][Open /\ Open' /\ op # "close" =>
       \A b \in Blocks :
         Contents(b)' # Contents(b) =>
           \E t \in Threads : /\ acc[t] # None /\ acc'[t] = None
                             /\ get_block(acc[t].page) = b
                             /\ Contents(b)' = acc[t].value]_vars

(* AccessCompletes: a thread that loads or stores gets to the end of it:   *)
(* every fault is answered, and every answer wakes the threads it concerns.*)
AccessCompletes == \A t \in Threads : acc[t] # None ~> acc[t] = None

(* MissingServed: a thread that is suspended because the block is not      *)
(* there is woken by whichever handler brings the block in, also if its    *)
(* own message was dropped as a duplicate or never read; or the process    *)
(* ends, as at an exhausted list.                                          *)
MissingServed ==
  \A t \in Threads :
    blocked[t] # None /\ ~blocked[t].is_wp_fault ~> blocked[t] = None

(* CloseCompletes: the destructor of an object with nothing left to save   *)
(* returns, and does not end the process: the listener and every handler   *)
(* thread stop, whatever they were doing.  (With a block left to save      *)
(* close() ends the process: see CloseSaves.)                              *)
CloseCompletes ==
  op = "close" /\ (\A i \in SubRegions : dirty_lru[i] = <<>>) ~> pc = "closed"
===============================================================================
