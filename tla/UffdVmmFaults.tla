----------------------------- MODULE UffdVmmFaults -----------------------------
(***************************************************************************)
(* Proofs about UffdVmm for an application as PrivateerTest.cpp has it:    *)
(* each thread in blocks of its own, msync() and snapshot() while no       *)
(* thread is in the region.  For any such application, any memory limit    *)
(* and any number of handler and msync() threads: what is clean is saved,  *)
(* through every eviction; eviction always finds a victim on its lists;    *)
(* and until the destructor is called, no call of the manager's fails.     *)
(*                                                                         *)
(* The argument follows a fault on its way.  A thread that waits has its   *)
(* message in at most one place, and there is no message without a thread  *)
(* that waits: hence nothing is on its way when msync() begins, and        *)
(* nothing that a handler thread does was decided on stale grounds.  And a *)
(* block on a dirty list is writable, so it is not put there twice; one    *)
(* that has been evicted keeps its pages, and comes back at most as dirty. *)
(***************************************************************************)
EXTENDS UffdVmmProofs, FiniteSetTheorems

OwnSettings ==
  /\ Quiet
  /\ \A t, u \in Threads : t # u => BlocksOf[t] \cap BlocksOf[u] = {}

(* Where the manager's own lists agree with one another: msync() files     *)
(* what it has saved in the first clean list, whatever the sub-region.     *)
OneList == num_handling_threads = 1 \/ Calls \cap {"msync", "snapshot"} = {}

(* The handler thread works for a thread that waits. *)
AtWork(i) == handlers[i].pc \in {"handle", "unprotect", "copy", "enlist", "wake"}

Block(fevent) == get_block(fevent.address)
Waits(fevent) == fevent # None /\ \E t \in Threads : blocked[t] = fevent
Queue(i) == events_queues[i].m_queue

(* Who waits, for what, and that every message is of one who waits. *)
OwnersInv ==
  /\ \A t \in Threads : acc[t] # None => get_block(acc[t].page) \in BlocksOf[t]
  /\ \A t \in Threads : blocked[t] # None =>
       acc[t] # None /\ blocked[t].address = acc[t].page
  /\ \A e \in ToSet(listener.m_events) : Waits(e)
  /\ \A i \in SubRegions : \A e \in ToSet(Queue(i)) : Waits(e) /\ sub_region(Block(e)) = i
  /\ \A i \in SubRegions : AtWork(i) =>
       Waits(handlers[i].fevent) /\ sub_region(Handling(i)) = i

(* A message is in one place, once. *)
OnceInv ==
  /\ IsInjective(uffd) /\ IsInjective(listener.m_events)
  /\ \A i \in SubRegions : IsInjective(Queue(i))
  /\ \A t \in ToSet(uffd) :
       /\ blocked[t] \notin ToSet(listener.m_events)
       /\ \A i \in SubRegions : /\ blocked[t] \notin ToSet(Queue(i))
                                /\ AtWork(i) => handlers[i].fevent # blocked[t]
  /\ \A e \in ToSet(listener.m_events), i \in SubRegions :
       e \notin ToSet(Queue(i)) /\ (AtWork(i) => handlers[i].fevent # e)
  /\ \A i \in SubRegions : AtWork(i) => handlers[i].fevent \notin ToSet(Queue(i))
  /\ listener.pc = "read" => uffd # <<>>

(* What msync() has yet to do for a block of its copy of the dirty list,   *)
(* and the blocks of the list that it has done with.                       *)
Pending(b) == \E e \in sync.todo \cup sync.stored : e[2] = b
Synced(i, b) == pc = "store" /\ i = sync.sub /\ ~Pending(b)

Enlisting(b) == HandlerAt(sub_region(b), "enlist") /\ Handling(sub_region(b)) = b
Unprotecting(b) == HandlerAt(sub_region(b), "unprotect") /\ Handling(sub_region(b)) = b

(* What a thread waits for is still so, unless its handler thread has been *)
(* there already.                                                          *)
WaitersInv ==
  \A t \in Threads : blocked[t] # None =>
    LET b == Block(blocked[t])
        i == sub_region(b)
    IN  /\ blocked[t].is_wp_fault => mapped[b] = "wp"
        /\ ~blocked[t].is_wp_fault =>
             \/ mapped[b] = "missing"
             \/ handlers[i].pc \in {"enlist", "wake"} /\ handlers[i].fevent = blocked[t]

(* Each place of a handler thread is about pages as it has left them.      *)
PlacesInv ==
  \A i \in SubRegions :
    /\ handlers[i].pc = "unprotect" =>
         handlers[i].fevent.is_wp_fault /\ Handling(i) \in ToSet(dirty_lru[i])
    /\ handlers[i].pc \in {"copy", "enlist", "wake"} => ~handlers[i].fevent.is_wp_fault
    /\ handlers[i].pc = "copy" => mapped[Handling(i)] = "missing"
    /\ handlers[i].pc = "enlist" =>
         mapped[Handling(i)] = IF handlers[i].fevent.is_write_fault THEN "rw" ELSE "wp"

PagesInv == WaitersInv /\ PlacesInv

(* What is on record is there, in its own sub-region's books; a dirty      *)
(* block is writable, is about to be, or has just been saved; a block that *)
(* was stashed is writable and off the dirty list.                         *)
Resident(b) == mapped[b] # "missing" /\ ~Enlisting(b)

RecordsInv ==
  /\ \A i \in SubRegions :
       \A b \in ToSet(dirty_lru[i]) \cup present_blocks[i] \cup stash_set[i] :
         sub_region(b) = i /\ Resident(b)
  /\ \A i \in SubRegions : \A b \in ToSet(clean_lru[i]) : Resident(b)
  /\ \A i \in SubRegions : IsInjective(dirty_lru[i])
  /\ \A i \in SubRegions : \A b \in ToSet(dirty_lru[i]) :
       mapped[b] = "rw" \/ Unprotecting(b) \/ Synced(i, b)
  /\ \A i \in SubRegions : \A b \in stash_set[i] :
       mapped[b] = "rw" /\ b \notin ToSet(dirty_lru[i])

(* There is a stash file for each block that is stashed and not committed. *)
Stashed(b) ==
  IF pc = "commit" /\ sub_region(b) = sync.sub THEN <<0, b>> \in sync.todo
  ELSE b \in stash_set[sub_region(b)]

StashInv ==
  /\ \A b \in Blocks : stash_file[b] # None <=> Stashed(b)
  /\ pc = "commit" => sync.todo \subseteq {0} \X stash_set[sync.sub]

(* A present block is in its sub-region's clean list or dirty list, and in *)
(* both only while msync() is at it.                                       *)
ListedInv ==
  /\ \A i \in SubRegions : IsInjective(clean_lru[i])
  /\ \A i \in SubRegions : present_blocks[i] \subseteq ToSet(clean_lru[i]) \cup ToSet(dirty_lru[i])
  /\ \A i \in SubRegions : \A b \in ToSet(dirty_lru[i]) :
       b \in ToSet(clean_lru[i]) <=> Synced(i, b)

BooksInv == RecordsInv /\ StashInv /\ CleanSaved /\ (OneList => ListedInv)

RegisteredInv ==
  /\ Open => registered
  /\ ~registered => listener.pc = "done" /\ \A i \in SubRegions : HandlerAt(i, "stopped")

(* How far msync() has come. *)
SyncInv ==
  /\ op # "none" => \A t \in Threads : acc[t] = None
  /\ pc \in {"store", "commit"} => op # "none"
  /\ pc = "store" =>
       /\ \A e \in sync.todo \cup sync.stored : e[2] \in ToSet(dirty_lru[sync.sub])
       /\ \A e, f \in sync.todo \cup sync.stored : e[2] = f[2] => e = f
       /\ sync.todo \cap sync.stored = {}
       /\ \A e \in sync.stored : blocks_ids[e[2]] = mem[e[2]]
       /\ \A b \in ToSet(dirty_lru[sync.sub]) :
            Synced(sync.sub, b) => mapped[b] = "wp" /\ blocks_ids[b] = mem[b]
  /\ op # "none" => \A i \in SubRegions :
       (i < sync.sub \/ (pc = "commit" /\ i = sync.sub)) => dirty_lru[i] = <<>>

LiveInv == OwnersInv /\ OnceInv /\ PagesInv /\ BooksInv /\ RegisteredInv /\ SyncInv

(* Once the region is unregistered, nothing is protected any more, nobody  *)
(* is in it, and the handler threads are given nothing but stop events.    *)
ClosingInv ==
  /\ ~registered /\ \A b \in Blocks : mapped[b] # "wp"
  /\ \A t \in Threads : acc[t] = None
  /\ \A i \in SubRegions : ~AtWork(i) /\ \A e \in ToSet(Queue(i)) : e.address = 0
  /\ \A i \in SubRegions : IsInjective(dirty_lru[i])
  /\ OneList => ListedInv

QInv == IF op = "close" THEN ClosingInv ELSE LiveInv

-------------------------------------------------------------------------------
(* Threads that wait, wait for different blocks. *)
LEMMA OneWaiter ==
  ASSUME OwnSettings, TypeOK, OwnersInv, NEW t \in Threads, NEW u \in Threads,
         blocked[t] # None, blocked[u] # None, Block(blocked[t]) = Block(blocked[u])
  PROVE  t = u
<1>1. /\ Block(blocked[t]) \in BlocksOf[t]
      /\ Block(blocked[u]) \in BlocksOf[u]
  BY DEF OwnersInv, Block
<1> QED
  BY <1>1 DEF OwnSettings

LEMMA WaitedFor ==
  ASSUME TypeOK, NEW e, Waits(e)
  PROVE  /\ e \in Event(Pages) /\ e # None /\ e.address \in Pages /\ e.address # 0
         /\ Block(e) \in Blocks
  BY BlockOfPage, UffdAssumption DEF Waits, TypeOK, Event, Pages, Block

(* A call begins when nobody is in the region, and nobody comes. *)
LEMMA NothingUnderWay ==
  ASSUME OwnersInv, SyncInv, op # "none"
  PROVE  /\ \A t \in Threads : acc[t] = None /\ blocked[t] = None
         /\ \A i \in SubRegions : ~AtWork(i)
  BY DEF OwnersInv, SyncInv, Waits

(* Whoever a handler thread works for, no call is under way. *)
LEMMA WorkMeansNoCall ==
  ASSUME OwnersInv, SyncInv, NEW i \in SubRegions, AtWork(i)
  PROVE  op = "none"
  BY NothingUnderWay

-------------------------------------------------------------------------------
(* Block numbers do not change, nor do the settings. *)
LEMMA SameBlocks ==
  /\ \A x : /\ get_block(x)' = get_block(x) /\ sub_region(x)' = sub_region(x)
            /\ Block(x)' = Block(x)
  /\ OneList' <=> OneList
  BY DEF get_block, sub_region, Block, OneList

(* How often a sequence without repetitions has an element. *)
LEMMA Occurrences ==
  ASSUME NEW s, NEW b, IsInjective(s)
  PROVE  Cardinality({k \in DOMAIN s : s[k] = b}) = IF b \in ToSet(s) THEN 1 ELSE 0
<1> DEFINE at == {k \in DOMAIN s : s[k] = b}
<1>1. CASE b \in ToSet(s)
  <2>1. PICK k \in DOMAIN s : s[k] = b
    BY <1>1 DEF ToSet
  <2>2. at = {k}
    BY <2>1 DEF IsInjective
  <2>3. Cardinality({k}) = 1
    BY FS_Singleton
  <2> QED
    BY <1>1, <2>2, <2>3
<1>2. CASE b \notin ToSet(s)
  <2>1. at = {}
    BY <1>2 DEF ToSet
  <2>2. Cardinality({}) = 0
    BY FS_EmptySet
  <2> QED
    BY <1>2, <2>1, <2>2
<1> QED
  BY <1>1, <1>2

(* With no msync() at its lists, and stashed files only in their sets. *)
LEMMA IdleBooks ==
  /\ pc \notin {"store", "commit"} =>
       /\ \A i, b : ~Synced(i, b)
       /\ \A b : Stashed(b) <=> b \in stash_set[sub_region(b)]
  /\ pc' \notin {"store", "commit"} =>
       /\ \A i, b : ~Synced(i, b)'
       /\ \A b : Stashed(b)' <=> b \in stash_set'[sub_region(b)]
  BY SameBlocks DEF Synced, Stashed

-------------------------------------------------------------------------------
(* A manager just made, or none at all. *)
Fresh ==
  /\ \A i \in SubRegions : /\ dirty_lru[i] = <<>> /\ clean_lru[i] = <<>>
                           /\ present_blocks[i] = {} /\ stash_set[i] = {}
                           /\ handlers[i].pc \in {"dequeue", "stopped"}
                           /\ events_queues[i].m_queue = <<>>
  /\ \A b \in Blocks : mapped[b] = "missing" /\ stash_file[b] = None
  /\ \A t \in Threads : acc[t] = None /\ blocked[t] = None
  /\ uffd = <<>> /\ listener.m_events = <<>> /\ listener.pc \in {"poll", "done"}
  /\ pc \notin {"store", "commit"} /\ op = "none"
  /\ RegisteredInv

LEMMA FreshLive == Fresh => QInv
<1> SUFFICES ASSUME Fresh PROVE LiveInv
  BY DEF Fresh, QInv
<1> USE DEF Fresh
<1>1. ToSet(<<>>) = {} /\ IsInjective(<<>>)
  BY ToSetEmpty
<1>2. \A i \in SubRegions : ~AtWork(i)
  BY DEF AtWork
<1>3. OwnersInv
  BY <1>1, <1>2 DEF OwnersInv, Queue
<1>4. OnceInv
  BY <1>1, <1>2 DEF OnceInv, Queue
<1>5. PagesInv
  BY <1>1 DEF PagesInv, WaitersInv, PlacesInv
<1>6. RecordsInv /\ (OneList => ListedInv)
  BY <1>1 DEF RecordsInv, ListedInv
<1>7. StashInv /\ CleanSaved
  BY IdleBooks, SubRegionOfBlock DEF StashInv, CleanSaved
<1>8. RegisteredInv /\ SyncInv
  BY DEF SyncInv
<1> QED
  BY <1>3, <1>4, <1>5, <1>6, <1>7, <1>8 DEF LiveInv, BooksInv

LEMMA FreshNext == Fresh' => QInv'
  BY FreshLive, PTL

LEMMA ManagerFresh ==
  ASSUME NEW ids, NEW path, NEW active, FreshManager(ids, path, active),
         pc' \in {"closed", "exited"} \/ (pc' = "idle" /\ active)
  PROVE  QInv'
<1>1. Fresh'
  BY DEF FreshManager, Fresh, Empty, RegisteredInv, Open, HandlerAt
<1> QED
  BY <1>1, FreshNext

LEMMA ExitFresh == Exit => QInv'
  BY Zenon, ManagerFresh DEF Exit

LEMMA CreateFresh ==
  ASSUME NEW v \in Versions, Create(v) \/ OpenVersion(v)
  PROVE  QInv'
  BY ManagerFresh DEF Create, OpenVersion

LEMMA InitFresh == Init => QInv
<1>1. Init => Fresh
  BY DEF Init, Fresh, Empty, RegisteredInv, Open, HandlerAt
<1> QED
  BY <1>1, FreshLive

-------------------------------------------------------------------------------
(* Steps that leave the messages alone, and the steps of a message.        *)

LEMMA MessagesStay ==
  ASSUME OwnersInv, OnceInv,
         UNCHANGED <<acc, blocked, uffd, listener, events_queues, handlers>>
  PROVE  OwnersInv' /\ OnceInv'
<1>1. \A e : (Waits(e)' <=> Waits(e)) /\ Block(e)' = Block(e)
  BY DEF Waits, Block, get_block
<1>2. \A i \in SubRegions : /\ AtWork(i)' <=> AtWork(i)
                            /\ Queue(i)' = Queue(i) /\ Handling(i)' = Handling(i)
  BY DEF AtWork, Queue, Handling, get_block
<1>3. OwnersInv'
  BY <1>1, <1>2 DEF OwnersInv
<1>4. OnceInv'
  BY <1>1, <1>2 DEF OnceInv
<1> QED
  BY <1>3, <1>4

LEMMA AccessMessages ==
  ASSUME TypeOK, OwnersInv, OnceInv, NEW t \in Threads, BeginAccess(t) \/ FinishAccess(t)
  PROVE  OwnersInv' /\ OnceInv'
<1>1. /\ UNCHANGED <<blocked, uffd, listener, events_queues, handlers>>
      /\ blocked[t] = None
      /\ \A u \in Threads : u # t => acc'[u] = acc[u]
      /\ acc'[t] # None => get_block(acc'[t].page) \in BlocksOf[t]
  <2>1. CASE BeginAccess(t)
    <3>1. blocked[t] = None
      BY <2>1 DEF BeginAccess, OwnersInv
    <3> QED
      BY <2>1, <3>1 DEF BeginAccess, threads, TypeOK
  <2>2. CASE FinishAccess(t)
    BY <2>2 DEF FinishAccess, threads, TypeOK
  <2> QED
    BY <2>1, <2>2
<1>2. \A e : (Waits(e)' <=> Waits(e)) /\ Block(e)' = Block(e)
  BY <1>1 DEF Waits, Block, get_block
<1>3. \A i \in SubRegions : /\ AtWork(i)' <=> AtWork(i)
                            /\ Queue(i)' = Queue(i) /\ Handling(i)' = Handling(i)
  BY <1>1 DEF AtWork, Queue, Handling, get_block
<1>4. \A page : get_block(page)' = get_block(page)
  BY DEF get_block
<1>5. OwnersInv'
  BY <1>1, <1>2, <1>3, <1>4 DEF OwnersInv
<1>6. OnceInv'
  BY <1>1, <1>2, <1>3 DEF OnceInv
<1> QED
  BY <1>5, <1>6

(* The fault of a thread is a message of its own: it is for a block that   *)
(* no other thread touches.                                                *)
LEMMA PageFaultMessages ==
  ASSUME OwnSettings, TypeOK, EventsInv, OwnersInv, OnceInv,
         NEW t \in Threads, PageFault(t)
  PROVE  OwnersInv' /\ OnceInv'
<1> DEFINE fevent == [address |-> acc[t].page,
                      is_wp_fault |-> mapped[get_block(acc[t].page)] # "missing",
                      is_write_fault |-> /\ mapped[get_block(acc[t].page)] = "missing"
                                         /\ acc[t].value # None]
<1>1. /\ acc[t] # None /\ blocked[t] = None
      /\ blocked' = [blocked EXCEPT ![t] = fevent] /\ uffd' = Append(uffd, t)
      /\ UNCHANGED <<acc, listener, events_queues, handlers>>
  BY DEF PageFault, threads
<1>2. /\ fevent \in Event(Pages) /\ fevent # None /\ fevent.address = acc[t].page
      /\ get_block(fevent.address) \in BlocksOf[t]
  <2>1. acc[t] \in Access
    BY <1>1 DEF TypeOK
  <2>2. fevent \in Event(Pages)
    BY <2>1 DEF Access, Event
  <2> QED
    BY <1>1, <2>2, NoneAssumption DEF OwnersInv
<1> HIDE DEF fevent
<1>3. /\ blocked'[t] = fevent
      /\ \A u \in Threads : u # t => blocked'[u] = blocked[u]
  BY <1>1 DEF TypeOK
<1>4. \A e : Waits(e) => e # fevent
  <2>1. SUFFICES ASSUME Waits(fevent) PROVE FALSE
    OBVIOUS
  <2>2. PICK u \in Threads : blocked[u] = fevent
    BY <2>1 DEF Waits
  <2>3. u # t /\ get_block(fevent.address) \in BlocksOf[u]
    BY <1>1, <1>2, <2>2 DEF OwnersInv
  <2> QED
    BY <1>2, <2>3 DEF OwnSettings
<1>5. \A e : (Waits(e) => Waits(e)') /\ Block(e)' = Block(e)
  BY <1>1, <1>3 DEF Waits, Block, get_block
<1>6. \A i \in SubRegions : /\ AtWork(i)' <=> AtWork(i)
                            /\ Queue(i)' = Queue(i) /\ Handling(i)' = Handling(i)
  BY <1>1 DEF AtWork, Queue, Handling, get_block
<1>7. OwnersInv'
  <2>1. \A page : get_block(page)' = get_block(page)
    BY DEF get_block
  <2>2. \A u \in Threads : blocked'[u] # None =>
          acc'[u] # None /\ blocked'[u].address = acc'[u].page
    BY <1>1, <1>2, <1>3 DEF OwnersInv
  <2> QED
    BY <1>1, <1>5, <1>6, <2>1, <2>2 DEF OwnersInv
<1>8. OnceInv'
  <2>1. /\ t \notin ToSet(uffd) /\ ToSet(uffd') = ToSet(uffd) \cup {t}
        /\ IsInjective(uffd') /\ uffd' # <<>>
    <3>1. t \notin ToSet(uffd)
      BY <1>1 DEF EventsInv
    <3>2. uffd \in Seq(Threads)
      BY DEF TypeOK
    <3>3. ToSet(uffd') # {}
      BY <1>1, <3>2, AppendElements
    <3> QED
      BY <1>1, <3>1, <3>2, <3>3, AppendElements, ToSetEmpty DEF OnceInv
  <2>2. /\ fevent \notin ToSet(listener.m_events)
        /\ \A i \in SubRegions : /\ fevent \notin ToSet(Queue(i))
                                 /\ AtWork(i) => handlers[i].fevent # fevent
    BY <1>4 DEF OwnersInv
  <2>3. \A u \in ToSet(uffd') :
          /\ blocked'[u] \notin ToSet(listener.m_events)
          /\ \A i \in SubRegions : /\ blocked'[u] \notin ToSet(Queue(i))
                                   /\ AtWork(i) => handlers[i].fevent # blocked'[u]
    <3>1. ASSUME NEW u \in ToSet(uffd), u # t
          PROVE  blocked'[u] = blocked[u]
      BY <1>3, <3>1, ToSetElements DEF TypeOK
    <3> QED
      BY <1>3, <2>1, <2>2, <3>1 DEF OnceInv
  <2> QED
    BY <1>1, <1>6, <2>1, <2>3 DEF OnceInv
<1> QED
  BY <1>7, <1>8

LEMMA PollMessages ==
  ASSUME TypeOK, OwnersInv, OnceInv, Poll
  PROVE  OwnersInv' /\ OnceInv'
<1>1. /\ UNCHANGED <<acc, blocked, uffd, events_queues, handlers>>
      /\ listener'.m_events = listener.m_events
      /\ listener'.pc = "read" => uffd # <<>>
  BY DEF Poll, app, TypeOK
<1>2. \A e : (Waits(e)' <=> Waits(e)) /\ Block(e)' = Block(e)
  BY <1>1 DEF Waits, Block, get_block
<1>3. \A i \in SubRegions : /\ AtWork(i)' <=> AtWork(i)
                            /\ Queue(i)' = Queue(i) /\ Handling(i)' = Handling(i)
  BY <1>1 DEF AtWork, Queue, Handling, get_block
<1>4. \A page : get_block(page)' = get_block(page)
  BY DEF get_block
<1>5. OwnersInv'
  BY <1>1, <1>2, <1>3, <1>4 DEF OwnersInv
<1>6. OnceInv'
  BY <1>1, <1>2, <1>3 DEF OnceInv
<1> QED
  BY <1>5, <1>6

(* What the listener reads is what the threads in the queue wait for.      *)
LEMMA ReadMessages ==
  ASSUME OwnSettings, TypeOK, EventsInv, OwnersInv, OnceInv, Read, uffd # <<>>
  PROVE  OwnersInv' /\ OnceInv'
<1> DEFINE m == [k \in DOMAIN uffd |-> blocked[uffd[k]]]
<1>1. /\ UNCHANGED <<acc, blocked, events_queues, handlers>>
      /\ listener'.m_events = m /\ listener'.pc = "dispatch" /\ uffd' = <<>>
  BY DEF Read
<1>2. /\ m \in Seq(Event(Pages)) /\ Len(m) = Len(uffd)
      /\ \A e \in ToSet(m) : \E t \in ToSet(uffd) : e = blocked[t]
  BY ReadEvents
<1>3. /\ uffd \in Seq(Threads) /\ DOMAIN uffd = 1 .. Len(uffd)
      /\ \A k \in DOMAIN uffd : uffd[k] \in Threads /\ uffd[k] \in ToSet(uffd)
  BY ToSetElements DEF TypeOK
<1>4. IsInjective(m)
  <2>1. ASSUME NEW k \in DOMAIN m, NEW l \in DOMAIN m, m[k] = m[l]
        PROVE  k = l
    <3>1. /\ k \in DOMAIN uffd /\ l \in DOMAIN uffd
          /\ blocked[uffd[k]] = blocked[uffd[l]]
      BY <2>1
    <3>2. blocked[uffd[k]] # None /\ blocked[uffd[l]] # None
      BY <1>3, <3>1 DEF EventsInv
    <3>3. uffd[k] = uffd[l]
      BY <1>3, <3>1, <3>2, OneWaiter
    <3> QED
      BY <3>1, <3>3 DEF OnceInv, IsInjective
  <2> QED
    BY <2>1 DEF IsInjective
<1> HIDE DEF m
<1>5. \A e : (Waits(e)' <=> Waits(e)) /\ Block(e)' = Block(e)
  BY <1>1 DEF Waits, Block, get_block
<1>6. \A i \in SubRegions : /\ AtWork(i)' <=> AtWork(i)
                            /\ Queue(i)' = Queue(i) /\ Handling(i)' = Handling(i)
  BY <1>1 DEF AtWork, Queue, Handling, get_block
<1>7. OwnersInv'
  <2>1. \A page : get_block(page)' = get_block(page)
    BY DEF get_block
  <2>2. \A e \in ToSet(m) : Waits(e)
    BY <1>2, <1>3, ToSetElements DEF EventsInv, Waits
  <2> QED
    BY <1>1, <1>5, <1>6, <2>1, <2>2 DEF OwnersInv
<1>8. OnceInv'
  <2>1. ToSet(uffd') = {} /\ IsInjective(uffd')
    BY <1>1, ToSetEmpty
  <2>2. \A e \in ToSet(m), i \in SubRegions :
          e \notin ToSet(Queue(i)) /\ (AtWork(i) => handlers[i].fevent # e)
    BY <1>2 DEF OnceInv
  <2> QED
    BY <1>1, <1>4, <1>6, <2>1, <2>2 DEF OnceInv
<1> QED
  BY <1>7, <1>8

LEMMA DispatchMessages ==
  ASSUME TypeOK, EventsInv, OwnersInv, OnceInv, Dispatch, registered
  PROVE  OwnersInv' /\ OnceInv'
<1> DEFINE fevent == Head(listener.m_events)
           n == sub_region(get_block(fevent.address))
           added == add_page_fault_event(events_queues[n], fevent)
<1>1. /\ listener.pc = "dispatch"
      /\ events_queues' = [events_queues EXCEPT ![n] = added]
      /\ listener' = [pc |-> IF Len(listener.m_events) = 1 THEN "poll" ELSE "dispatch",
                      m_events |-> Tail(listener.m_events)]
      /\ UNCHANGED <<acc, blocked, uffd, handlers>>
  BY DEF Dispatch, app
<1>2. /\ listener.m_events \in Seq(Event(Pages)) /\ listener.m_events # <<>>
      /\ events_queues \in [SubRegions -> EventQueue(Addresses)]
  BY <1>1 DEF TypeOK, EventsInv
<1>3. /\ fevent \in ToSet(listener.m_events) /\ fevent \in Event(Pages)
      /\ fevent \in Event(Addresses)
      /\ ToSet(listener.m_events) = ToSet(Tail(listener.m_events)) \cup {fevent}
      /\ IsInjective(Tail(listener.m_events)) /\ fevent \notin ToSet(Tail(listener.m_events))
  <2>1. fevent \in ToSet(listener.m_events) /\ fevent \in Event(Pages)
    BY <1>2, HeadTailElements, ToSetElements
  <2>2. fevent \in Event(Addresses)
    BY <2>1 DEF Event, Addresses
  <2> QED
    BY <1>2, <2>1, <2>2, HeadTailElements DEF OnceInv
<1>4. n \in SubRegions
  BY <1>3, BlockOfPage, SubRegionOfBlock DEF Event
<1>5. Waits(fevent) /\ sub_region(Block(fevent)) = n
  BY <1>3 DEF OwnersInv, Block
<1> HIDE DEF fevent, n
<1>6. \A i \in SubRegions :
        /\ \A e \in ToSet(Queue(i)') : e \in ToSet(Queue(i)) \/ (e = fevent /\ i = n)
        /\ IsInjective(Queue(i)')
  <2>1. events_queues[n].m_queue \in Seq(Event(Addresses))
    BY <1>2, <1>4 DEF EventQueue
  <2>2. fevent \notin ToSet(events_queues[n].m_queue) /\ IsInjective(events_queues[n].m_queue)
    BY <1>3, <1>4 DEF OnceInv, Queue
  <2>3. added.m_queue \in {events_queues[n].m_queue, Append(events_queues[n].m_queue, fevent)}
    BY DEF add_page_fault_event, enqueue
  <2>4. /\ ToSet(added.m_queue) \subseteq ToSet(events_queues[n].m_queue) \cup {fevent}
        /\ IsInjective(added.m_queue)
    <3> DEFINE q == events_queues[n].m_queue
    <3>1. /\ ToSet(Append(q, fevent)) = ToSet(q) \cup {fevent}
          /\ IsInjective(Append(q, fevent))
      <4> HIDE DEF q
      <4> QED
        BY <1>3, <2>1, <2>2, AppendElements DEF q
    <3> HIDE DEF added
    <3> QED
      BY <2>2, <2>3, <3>1, Zenon
  <2> HIDE DEF added
  <2>5. ASSUME NEW i \in SubRegions
        PROVE  Queue(i)' = IF i = n THEN added.m_queue ELSE Queue(i)
    BY <1>1, <1>2, <1>4 DEF Queue
  <2> QED
    BY <2>2, <2>4, <2>5 DEF Queue, OnceInv
<1>7. \A e : (Waits(e)' <=> Waits(e)) /\ Block(e)' = Block(e)
  BY <1>1 DEF Waits, Block, get_block
<1>8. \A i \in SubRegions : (AtWork(i)' <=> AtWork(i)) /\ Handling(i)' = Handling(i)
  BY <1>1 DEF AtWork, Handling, get_block
<1>9. listener'.m_events = Tail(listener.m_events) /\ listener'.pc # "read"
  BY <1>1
<1>10. OwnersInv'
  <2>1. \A page : get_block(page)' = get_block(page)
    BY DEF get_block
  <2>2. \A i \in SubRegions : \A e \in ToSet(Queue(i)') : Waits(e) /\ sub_region(Block(e)) = i
    BY <1>5, <1>6 DEF OwnersInv
  <2>3. \A b : sub_region(b)' = sub_region(b)
    BY DEF sub_region
  <2> QED
    BY <1>1, <1>3, <1>7, <1>8, <1>9, <2>1, <2>2, <2>3 DEF OwnersInv
<1>11. OnceInv'
  <2>1. \A i \in SubRegions : \A e \in ToSet(Queue(i)') : e \in ToSet(Queue(i)) \/ e = fevent
    BY <1>6
  <2>2. \A i \in SubRegions : IsInjective(Queue(i)')
    BY <1>6 DEF OnceInv
  <2>3. \A i \in SubRegions : AtWork(i) => handlers[i].fevent \notin ToSet(Queue(i)')
    BY <1>3, <2>1 DEF OnceInv
  <2>4. \A t \in ToSet(uffd), i \in SubRegions : blocked[t] \notin ToSet(Queue(i)')
    BY <1>3, <2>1 DEF OnceInv
  <2>5. \A e \in ToSet(Tail(listener.m_events)), i \in SubRegions : e \notin ToSet(Queue(i)')
    BY <1>3, <2>1 DEF OnceInv
  <2> QED
    BY <1>1, <1>3, <1>8, <1>9, <2>2, <2>3, <2>4, <2>5 DEF OnceInv
<1> QED
  BY <1>10, <1>11

LEMMA DequeueMessages ==
  ASSUME TypeOK, OwnersInv, OnceInv, NEW i \in SubRegions, Dequeue(i)
  PROVE  /\ OwnersInv' /\ OnceInv'
         /\ handlers'[i].pc = "handle" /\ Waits(handlers'[i].fevent)
         /\ ~AtWork(i)
         /\ \A j \in SubRegions : j # i => handlers'[j] = handlers[j]
<1> DEFINE q == events_queues[i].m_queue
           fevent == Head(q)
<1>1. /\ q # <<>> /\ q \in Seq(Event(Addresses)) /\ handlers[i].pc = "dequeue"
      /\ handlers' = [handlers EXCEPT ![i] =
            [pc |-> IF fevent.address = 0 THEN "stopped" ELSE "handle", fevent |-> fevent]]
      /\ events_queues' = [events_queues EXCEPT ![i] = dequeue(@)]
      /\ UNCHANGED <<acc, blocked, uffd, listener>>
  BY DEF Dequeue, HandlerAt, app, TypeOK, EventQueue, CanDequeue, front
<1>2. /\ fevent \in ToSet(q) /\ ToSet(q) = ToSet(Tail(q)) \cup {fevent}
      /\ IsInjective(q) => IsInjective(Tail(q)) /\ fevent \notin ToSet(Tail(q))
  BY <1>1, HeadTailElements
<1>3. IsInjective(q)
  BY DEF OnceInv, Queue
<1>4. Waits(fevent) /\ sub_region(Block(fevent)) = i
  BY <1>2 DEF OwnersInv, Queue
<1>5. fevent.address # 0
  BY <1>4, WaitedFor
<1>6. ASSUME NEW j \in SubRegions
      PROVE  events_queues'[j].m_queue = IF j = i THEN Tail(q) ELSE events_queues[j].m_queue
  BY <1>1 DEF dequeue, TypeOK, EventQueue
<1>7. ASSUME NEW j \in SubRegions
      PROVE  handlers'[j] = IF j = i THEN [pc |-> "handle", fevent |-> fevent] ELSE handlers[j]
  BY <1>1, <1>5 DEF TypeOK
<1> HIDE DEF q, fevent
<1>8. \A e : (Waits(e)' <=> Waits(e)) /\ Block(e)' = Block(e)
  BY <1>1 DEF Waits, Block, get_block
<1>9. \A j \in SubRegions : /\ j # i => (AtWork(j)' <=> AtWork(j)) /\ Handling(j)' = Handling(j)
                            /\ Queue(j)' = IF j = i THEN Tail(q) ELSE Queue(j)
  BY <1>6, <1>7 DEF AtWork, Handling, get_block, Queue
<1>10. Handling(i)' = Block(fevent) /\ handlers'[i].fevent = fevent
  BY <1>7 DEF Handling, Block, get_block
<1>11. Queue(i) = q
  BY DEF q, Queue
<1>12. \A j \in SubRegions : \A e \in ToSet(Queue(j)') : e \in ToSet(Queue(j)) /\ (j = i => e # fevent)
  BY <1>2, <1>3, <1>9, <1>11
<1>13. OwnersInv'
  <2>1. \A page : get_block(page)' = get_block(page)
    BY DEF get_block
  <2>2. \A b : sub_region(b)' = sub_region(b)
    BY DEF sub_region
  <2>3. \A j \in SubRegions : \A e \in ToSet(Queue(j)') : Waits(e) /\ sub_region(Block(e)) = j
    BY <1>12 DEF OwnersInv
  <2>4. \A j \in SubRegions : AtWork(j)' => Waits(handlers'[j].fevent) /\ sub_region(Handling(j)') = j
    BY <1>4, <1>7, <1>9, <1>10 DEF OwnersInv
  <2> QED
    BY <1>1, <1>8, <2>1, <2>2, <2>3, <2>4 DEF OwnersInv
<1>14. OnceInv'
  <2>1. \A j \in SubRegions : IsInjective(Queue(j)')
    BY <1>2, <1>3, <1>9 DEF OnceInv
  <2>2. \A t \in ToSet(uffd), j \in SubRegions :
          /\ blocked[t] \notin ToSet(Queue(j)')
          /\ AtWork(j)' => handlers'[j].fevent # blocked[t]
    BY <1>2, <1>7, <1>9, <1>11, <1>12 DEF OnceInv
  <2>3. \A e \in ToSet(listener.m_events), j \in SubRegions :
          e \notin ToSet(Queue(j)') /\ (AtWork(j)' => handlers'[j].fevent # e)
    BY <1>2, <1>7, <1>9, <1>11, <1>12 DEF OnceInv
  <2>4. \A j \in SubRegions : AtWork(j)' => handlers'[j].fevent \notin ToSet(Queue(j)')
    BY <1>7, <1>9, <1>12 DEF OnceInv
  <2> QED
    BY <1>1, <2>1, <2>2, <2>3, <2>4 DEF OnceInv
<1> QED
  BY <1>1, <1>4, <1>7, <1>13, <1>14 DEF AtWork

(* A handler thread goes on with its event, or has done with it. *)
LEMMA GoOnMessages ==
  ASSUME OwnersInv, OnceInv, UNCHANGED <<acc, blocked, uffd, listener>>,
         \A i \in SubRegions : /\ events_queues'[i].m_queue = events_queues[i].m_queue
                               /\ handlers'[i].fevent = handlers[i].fevent
                               /\ AtWork(i)' => AtWork(i)
  PROVE  OwnersInv' /\ OnceInv'
<1>1. \A e : (Waits(e)' <=> Waits(e)) /\ Block(e)' = Block(e)
  BY DEF Waits, Block, get_block
<1>2. \A i \in SubRegions : Queue(i)' = Queue(i) /\ Handling(i)' = Handling(i)
  BY DEF Queue, Handling, get_block
<1>3. \A page : get_block(page)' = get_block(page) /\ sub_region(page)' = sub_region(page)
  BY DEF get_block, sub_region
<1>4. OwnersInv'
  BY <1>1, <1>2, <1>3 DEF OwnersInv
<1>5. OnceInv'
  BY <1>1, <1>2 DEF OnceInv
<1> QED
  BY <1>4, <1>5

(* A wake-up resumes the one thread whose fault has been handled, and no   *)
(* message is lost by it.                                                  *)
LEMMA WakeMessages ==
  ASSUME OwnSettings, TypeOK, EventsInv, OwnersInv, OnceInv, NEW i \in SubRegions,
         AtWork(i), ~AtWork(i)', WakeBlock(Handling(i)),
         UNCHANGED <<acc, listener, events_queues>>,
         \A j \in SubRegions : /\ handlers'[j].fevent = handlers[j].fevent
                               /\ AtWork(j)' => AtWork(j)
  PROVE  /\ OwnersInv' /\ OnceInv'
         /\ \A t \in Threads : blocked'[t] # None => /\ blocked'[t] = blocked[t]
                                                     /\ Block(blocked[t]) # Handling(i)
<1>1. PICK t \in Threads : blocked[t] = handlers[i].fevent /\ blocked[t] # None
  BY DEF OwnersInv, Waits
<1>2. Block(blocked[t]) = Handling(i)
  BY <1>1 DEF Block, Handling
<1>3. Woken(Handling(i)) = {t}
  <2>1. \A u \in Threads : u \in Woken(Handling(i)) <=> u = t
    BY <1>1, <1>2, OneWaiter DEF Woken, Block
  <2>2. Woken(Handling(i)) \subseteq Threads
    BY DEF Woken
  <2> QED
    BY <2>1, <2>2
<1>4. t \notin ToSet(uffd)
  <2>1. \A u \in ToSet(uffd), j \in SubRegions : AtWork(j) => handlers[j].fevent # blocked[u]
    BY DEF OnceInv
  <2> QED
    BY <1>1, <2>1
<1>5. /\ ToSet(uffd') = ToSet(uffd) /\ IsInjective(uffd')
      /\ \A u \in Threads : blocked'[u] = IF u = t THEN None ELSE blocked[u]
  <2>1. IsInjective(uffd)
    BY DEF OnceInv
  <2>2. /\ ToSet(uffd') = ToSet(uffd) \ Woken(Handling(i))
        /\ IsInjective(uffd) => IsInjective(uffd')
        /\ \A u \in Threads :
             blocked'[u] = IF u \in Woken(Handling(i)) THEN None ELSE blocked[u]
    BY WakeThreads
  <2> QED
    BY <1>3, <1>4, <2>1, <2>2
<1>6. ASSUME NEW e, Waits(e), e # handlers[i].fevent
      PROVE  Waits(e)'
  BY <1>1, <1>5, <1>6 DEF Waits
<1>7. \A j \in SubRegions : Queue(j)' = Queue(j) /\ Handling(j)' = Handling(j)
  BY DEF Queue, Handling, get_block
<1>8. \A e : get_block(e)' = get_block(e) /\ sub_region(e)' = sub_region(e) /\ Block(e)' = Block(e)
  BY DEF get_block, sub_region, Block
<1>9. \A j \in SubRegions : AtWork(j) /\ j # i => handlers[j].fevent # handlers[i].fevent
  BY DEF OwnersInv, Handling
<1>10. OwnersInv'
  <2>1. \A e \in ToSet(listener.m_events) : Waits(e) /\ e # handlers[i].fevent
    BY DEF OwnersInv, OnceInv
  <2>2. \A j \in SubRegions : \A e \in ToSet(Queue(j)) :
          Waits(e) /\ sub_region(Block(e)) = j /\ e # handlers[i].fevent
    <3>1. \A j \in SubRegions : \A e \in ToSet(Queue(j)) : Waits(e) /\ sub_region(Block(e)) = j
      BY DEF OwnersInv
    <3>2. sub_region(Block(handlers[i].fevent)) = i
      BY DEF OwnersInv, Handling, Block
    <3>3. handlers[i].fevent \notin ToSet(Queue(i))
      BY DEF OnceInv
    <3> QED
      BY <3>1, <3>2, <3>3
  <2>3. \A j \in SubRegions : AtWork(j)' =>
          /\ Waits(handlers[j].fevent) /\ sub_region(Handling(j)) = j
          /\ handlers[j].fevent # handlers[i].fevent
    BY <1>9 DEF OwnersInv
  <2>4. \A u \in Threads : blocked'[u] # None =>
          acc[u] # None /\ blocked'[u].address = acc[u].page
    BY <1>5 DEF OwnersInv
  <2>5. \A u \in Threads : acc[u] # None => get_block(acc[u].page) \in BlocksOf[u]
    BY DEF OwnersInv
  <2> QED
    BY <1>6, <1>7, <1>8, <2>1, <2>2, <2>3, <2>4, <2>5 DEF OwnersInv
<1>11. OnceInv'
  <2>1. uffd # <<>> => uffd' # <<>>
    <3>1. uffd \in Seq(Threads)
      BY DEF TypeOK
    <3>2. uffd # <<>> => Len(uffd) # 0
      BY <3>1
    <3>3. uffd # <<>> => ToSet(uffd) # {}
      BY <3>1, <3>2, ToSetElements
    <3> QED
      BY <1>5, <3>3, ToSetEmpty
  <2>2. \A u \in ToSet(uffd) : blocked'[u] = blocked[u]
    BY <1>4, <1>5, ToSetElements DEF TypeOK
  <2> QED
    BY <1>5, <1>7, <2>1, <2>2 DEF OnceInv
<1>12. \A u \in Threads : u # t /\ blocked[u] # None => Block(blocked[u]) # Handling(i)
  BY <1>1, <1>2, OneWaiter
<1> QED
  BY <1>5, <1>10, <1>11, <1>12

-------------------------------------------------------------------------------
(* Steps that leave the books as they are, and the application's.          *)

LEMMA BookedBlocks ==
  ASSUME TypeOK, NEW i \in SubRegions
  PROVE  /\ dirty_lru[i] \in Seq(Blocks) /\ ToSet(dirty_lru[i]) \subseteq Blocks
         /\ clean_lru[i] \in Seq(Blocks) /\ ToSet(clean_lru[i]) \subseteq Blocks
         /\ present_blocks[i] \subseteq Blocks /\ stash_set[i] \subseteq Blocks
  BY ToSetElements DEF TypeOK

LEMMA BooksStay ==
  ASSUME TypeOK, BooksInv,
         UNCHANGED <<mapped, present_blocks, clean_lru, dirty_lru, stash_set, stash_file,
                     blocks_ids, pc, sync>>,
         \A b \in Blocks : mapped[b] # "rw" => mem'[b] = mem[b],
         \A b \in Blocks : Enlisting(b)' = Enlisting(b) /\ Unprotecting(b)' = Unprotecting(b)
  PROVE  BooksInv'
<1> USE SameBlocks
<1>1. \A i, b : Synced(i, b)' = Synced(i, b)
  BY DEF Synced, Pending
<1>2. RecordsInv'
  <2>1. \A b \in Blocks : Resident(b)' = Resident(b)
    BY DEF Resident
  <2> QED
    BY <1>1, <2>1, BookedBlocks DEF BooksInv, RecordsInv
<1>3. StashInv'
  BY DEF BooksInv, StashInv, Stashed
<1>4. CleanSaved'
  <2>1. \A b \in Blocks : Backing(b)' = Backing(b)
    BY DEF Backing
  <2> QED
    BY <2>1 DEF BooksInv, CleanSaved
<1>5. OneList => ListedInv'
  BY <1>1 DEF BooksInv, ListedInv
<1> QED
  BY <1>2, <1>3, <1>4, <1>5 DEF BooksInv

(* While no call is under way, and none begins. *)
LEMMA IdleSync ==
  ASSUME SyncInv, op = "none", op' = op, pc' = pc
  PROVE  SyncInv'
  BY DEF SyncInv

LEMMA SameStages ==
  ASSUME UNCHANGED handlers
  PROVE  /\ \A i : Handling(i)' = Handling(i) /\ (AtWork(i)' <=> AtWork(i))
         /\ \A b : Enlisting(b)' = Enlisting(b) /\ Unprotecting(b)' = Unprotecting(b)
  BY SameBlocks DEF Handling, AtWork, Enlisting, Unprotecting, HandlerAt

LEMMA RestStays ==
  ASSUME TypeOK, LiveInv,
         UNCHANGED <<blocked, mapped, mem, registered, handlers, present_blocks, clean_lru,
                     dirty_lru, stash_set, blocks_ids, stash_file, pc, op, sync>>,
         acc' = acc \/ op = "none",
         registered \/ listener'.pc = "done"
  PROVE  PagesInv' /\ BooksInv' /\ RegisteredInv' /\ SyncInv'
<1> USE SameBlocks, SameStages
<1>1. PagesInv'
  BY DEF LiveInv, PagesInv, WaitersInv, PlacesInv
<1>2. BooksInv'
  BY BooksStay DEF LiveInv
<1>3. RegisteredInv'
  BY DEF LiveInv, RegisteredInv, Open, HandlerAt
<1>4. SyncInv'
  BY DEF LiveInv, SyncInv, Synced, Pending
<1> QED
  BY <1>1, <1>2, <1>3, <1>4

(* Who has begun an access keeps calls away. *)
LEMMA AccessMeansNoCall ==
  ASSUME LiveInv, NEW t \in Threads, acc[t] # None
  PROVE  op = "none" /\ pc \notin {"store", "commit"}
  BY DEF LiveInv, SyncInv

LEMMA StutterLive ==
  ASSUME IInv, LiveInv, UNCHANGED vars
  PROVE  LiveInv' /\ UNCHANGED <<pc, op>>
<1>1. /\ UNCHANGED <<acc, blocked, uffd, mapped, mem, registered, listener, events_queues,
                     handlers, present_blocks, clean_lru, dirty_lru, stash_set, blocks_ids,
                     stash_file, pc, op, sync>>
      /\ registered \/ listener.pc = "done"
  BY DEF vars, app, threads, lists, call, LiveInv, RegisteredInv
<1>2. OwnersInv' /\ OnceInv'
  BY <1>1, MessagesStay DEF LiveInv
<1>3. PagesInv' /\ BooksInv' /\ RegisteredInv' /\ SyncInv'
  BY <1>1, RestStays DEF IInv
<1> QED
  BY <1>1, <1>2, <1>3 DEF LiveInv

LEMMA BeginAccessLive ==
  ASSUME OwnSettings, IInv, LiveInv, NEW t \in Threads, BeginAccess(t)
  PROVE  LiveInv'
<1>1. /\ UNCHANGED <<blocked, mapped, mem, registered, listener, handlers, present_blocks,
                     clean_lru, dirty_lru, stash_set, blocks_ids, stash_file, pc, op, sync>>
      /\ op = "none"
      /\ registered \/ listener.pc = "done"
  BY DEF BeginAccess, threads, lists, call, OwnSettings, LiveInv, RegisteredInv
<1>2. OwnersInv' /\ OnceInv'
  BY AccessMessages DEF IInv, LiveInv
<1>3. PagesInv' /\ BooksInv' /\ RegisteredInv' /\ SyncInv'
  BY <1>1, RestStays DEF IInv
<1> QED
  BY <1>2, <1>3 DEF LiveInv

(* The listener finds what poll() told it of, and the region registered.   *)
LEMMA ListenerLive ==
  ASSUME OwnSettings, IInv, LiveInv, Listener
  PROVE  LiveInv' /\ UNCHANGED <<pc, op>>
<1>1. /\ listener.pc \in {"poll", "read", "dispatch"} => registered
      /\ listener.pc = "read" => uffd # <<>>
  BY DEF LiveInv, RegisteredInv, OnceInv
<1>2. TypeOK /\ EventsInv /\ OwnersInv /\ OnceInv
  BY DEF IInv, LiveInv
<1>3. /\ OwnersInv' /\ OnceInv' /\ registered
      /\ UNCHANGED <<acc, blocked, mapped, mem, registered, handlers, present_blocks,
                     clean_lru, dirty_lru, stash_set, blocks_ids, stash_file, pc, op, sync>>
  <2>1. CASE Poll
    BY <1>1, <1>2, <2>1, PollMessages DEF Poll, app, lists, call
  <2>2. CASE Read
    <3>1. registered /\ uffd # <<>>
      BY <1>1, <2>2 DEF Read
    <3> QED
      BY <1>2, <2>2, <3>1, ReadMessages DEF Read, lists, call
  <2>3. CASE Dispatch
    <3>1. registered
      BY <1>1, <2>3 DEF Dispatch
    <3> QED
      BY <1>2, <2>3, <3>1, DispatchMessages DEF Dispatch, app, lists, call
  <2> QED
    BY <2>1, <2>2, <2>3 DEF Listener
<1>4. PagesInv' /\ BooksInv' /\ RegisteredInv' /\ SyncInv'
  BY <1>3, RestStays DEF IInv
<1> QED
  BY <1>3, <1>4 DEF LiveInv

(* A store goes to a block that is writable and so is not clean. *)
LEMMA FinishAccessLive ==
  ASSUME OwnSettings, IInv, LiveInv, NEW t \in Threads, FinishAccess(t)
  PROVE  LiveInv'
<1> DEFINE b == get_block(acc[t].page)
<1>1. /\ UNCHANGED <<blocked, mapped, registered, listener, handlers, present_blocks,
                     clean_lru, dirty_lru, stash_set, blocks_ids, stash_file, pc, op, sync>>
      /\ acc[t] # None
      /\ mem' = IF acc[t].value = None THEN mem ELSE [mem EXCEPT ![b] = acc[t].value]
      /\ acc[t].value # None => mapped[b] = "rw"
  BY DEF FinishAccess, Allowed, threads, lists, call
<1>2. \A c \in Blocks : mapped[c] # "rw" => mem'[c] = mem[c]
  <2>1. mem \in [Blocks -> Values]
    BY DEF IInv, TypeOK, Image
  <2> HIDE DEF b
  <2> QED
    BY <1>1, <2>1
<1> HIDE DEF b
<1> USE SameBlocks, SameStages
<1>3. OwnersInv' /\ OnceInv'
  BY AccessMessages DEF IInv, LiveInv
<1>4. PagesInv'
  BY <1>1 DEF LiveInv, PagesInv, WaitersInv, PlacesInv
<1>5. BooksInv'
  BY <1>1, <1>2, BooksStay DEF LiveInv, IInv
<1>6. RegisteredInv'
  BY <1>1 DEF LiveInv, RegisteredInv, Open, HandlerAt
<1>7. SyncInv'
  BY <1>1, AccessMeansNoCall, IdleSync DEF LiveInv
<1> QED
  BY <1>3, <1>4, <1>5, <1>6, <1>7 DEF LiveInv

LEMMA PageFaultLive ==
  ASSUME OwnSettings, IInv, LiveInv, NEW t \in Threads, PageFault(t)
  PROVE  LiveInv'
<1> DEFINE b == get_block(acc[t].page)
<1>1. /\ UNCHANGED <<acc, mapped, mem, registered, listener, handlers, present_blocks,
                     clean_lru, dirty_lru, stash_set, blocks_ids, stash_file, pc, op, sync>>
      /\ acc[t] # None /\ ~Allowed(acc[t])
      /\ blocked' = [blocked EXCEPT ![t] =
                       [address |-> acc[t].page,
                        is_wp_fault |-> mapped[b] # "missing",
                        is_write_fault |-> mapped[b] = "missing" /\ acc[t].value # None]]
  BY DEF PageFault, threads, lists, call
<1>2. b \in Blocks /\ (mapped[b] # "missing" => mapped[b] = "wp")
  <2>1. acc[t] \in Access
    BY <1>1 DEF IInv, TypeOK
  <2>2. b \in Blocks
    BY <2>1, BlockOfPage DEF Access
  <2>3. mapped[b] \in {"missing", "wp", "rw"}
    BY <2>2 DEF IInv, TypeOK
  <2> QED
    BY <1>1, <2>2, <2>3 DEF Allowed
<1>3. /\ Block(blocked'[t]) = b
      /\ blocked'[t].is_wp_fault <=> mapped[b] # "missing"
      /\ \A u \in Threads : u # t => blocked'[u] = blocked[u]
  BY <1>1 DEF IInv, TypeOK, Block
<1> HIDE DEF b
<1>4. OwnersInv' /\ OnceInv'
  BY PageFaultMessages DEF IInv, LiveInv
<1> USE SameBlocks, SameStages
<1>5. PagesInv'
  <2>1. \A u \in Threads : blocked'[u] # None =>
          /\ blocked'[u].is_wp_fault => mapped[Block(blocked'[u])] = "wp"
          /\ ~blocked'[u].is_wp_fault =>
               \/ mapped[Block(blocked'[u])] = "missing"
               \/ LET i == sub_region(Block(blocked'[u]))
                  IN  handlers[i].pc \in {"enlist", "wake"} /\ handlers[i].fevent = blocked'[u]
    BY <1>2, <1>3 DEF LiveInv, PagesInv, WaitersInv
  <2> QED
    BY <1>1, <2>1 DEF LiveInv, PagesInv, WaitersInv, PlacesInv
<1>6. BooksInv'
  BY <1>1, BooksStay DEF LiveInv, IInv
<1>7. RegisteredInv'
  BY <1>1 DEF LiveInv, RegisteredInv, Open, HandlerAt
<1>8. SyncInv'
  BY <1>1, AccessMeansNoCall, IdleSync DEF LiveInv
<1> QED
  BY <1>4, <1>5, <1>6, <1>7, <1>8 DEF LiveInv

-------------------------------------------------------------------------------
(* What a handler thread knows of the fault it works on. *)
LEMMA AtWorkFacts ==
  ASSUME IInv, LiveInv, NEW i \in SubRegions, AtWork(i)
  PROVE  /\ op = "none" /\ pc \notin {"store", "commit"} /\ registered
         /\ Handling(i) \in Blocks /\ sub_region(Handling(i)) = i
         /\ handlers[i].fevent \in Event(Pages)
         /\ \E t \in Threads : blocked[t] = handlers[i].fevent /\ blocked[t] # None
         /\ handlers[i].pc \notin {"enlist", "wake"} =>
              mapped[Handling(i)] = IF handlers[i].fevent.is_wp_fault THEN "wp" ELSE "missing"
<1>1. op = "none" /\ pc \notin {"store", "commit"}
  BY WorkMeansNoCall DEF LiveInv, SyncInv
<1>2. registered
  BY DEF LiveInv, RegisteredInv, HandlerAt, AtWork
<1>3. Waits(handlers[i].fevent) /\ sub_region(Handling(i)) = i
  BY DEF LiveInv, OwnersInv
<1>4. PICK t \in Threads : blocked[t] = handlers[i].fevent /\ blocked[t] # None
  BY <1>3 DEF Waits
<1>5. Block(blocked[t]) = Handling(i)
  BY <1>4 DEF Block, Handling
<1>6. handlers[i].fevent.is_wp_fault \in BOOLEAN
  BY <1>3, WaitedFor DEF IInv, Event
<1>7. handlers[i].pc \notin {"enlist", "wake"} =>
        mapped[Handling(i)] = IF handlers[i].fevent.is_wp_fault THEN "wp" ELSE "missing"
  BY <1>3, <1>4, <1>5, <1>6 DEF LiveInv, PagesInv, WaitersInv
<1> QED
  BY <1>1, <1>2, <1>3, <1>4, <1>7, HandlingBlock, WaitedFor DEF AtWork, IInv

(* A handler thread goes from one place in its work to the next. *)
LEMMA Onward ==
  ASSUME IInv, LiveInv, NEW i \in SubRegions, NEW where \in Places, AtWork(i), Goto(i, where)
  PROVE  /\ \A j \in SubRegions :
              /\ handlers'[j].fevent = handlers[j].fevent /\ Handling(j)' = Handling(j)
              /\ handlers'[j].pc = IF j = i THEN where ELSE handlers[j].pc
              /\ AtWork(j)' => AtWork(j)
              /\ AtWork(j) => sub_region(Handling(j)) = j /\ Handling(j) \in Blocks
         /\ \A c \in Blocks :
              /\ Enlisting(c)' <=> IF c = Handling(i) THEN where = "enlist" ELSE Enlisting(c)
              /\ Unprotecting(c)' <=>
                   IF c = Handling(i) THEN where = "unprotect" ELSE Unprotecting(c)
         /\ \A t \in Threads : blocked[t] # None =>
              Block(blocked[t]) \in Blocks /\ sub_region(Block(blocked[t])) \in SubRegions
<1>1. \A j \in SubRegions : /\ handlers'[j].fevent = handlers[j].fevent
                            /\ handlers'[j].pc = IF j = i THEN where ELSE handlers[j].pc
  BY GotoHandlers DEF IInv
<1>2. \A j \in SubRegions : Handling(j)' = Handling(j)
  BY <1>1, SameBlocks DEF Handling
<1>3. \A j \in SubRegions : AtWork(j)' => AtWork(j)
  BY <1>1 DEF AtWork
<1>4. \A j \in SubRegions : AtWork(j) => sub_region(Handling(j)) = j /\ Handling(j) \in Blocks
  BY HandlingBlock DEF LiveInv, OwnersInv, AtWork
<1>5. \A t \in Threads : blocked[t] # None =>
        Block(blocked[t]) \in Blocks /\ sub_region(Block(blocked[t])) \in SubRegions
  BY BlockOfPage, SubRegionOfBlock DEF IInv, TypeOK, Event, Block
<1>6. sub_region(Handling(i)) = i
  BY <1>4
<1>7. \A c \in Blocks :
        /\ Enlisting(c)' <=> IF c = Handling(i) THEN where = "enlist" ELSE Enlisting(c)
        /\ Unprotecting(c)' <=> IF c = Handling(i) THEN where = "unprotect" ELSE Unprotecting(c)
  BY <1>1, <1>2, <1>6, SameBlocks, SubRegionOfBlock DEF Enlisting, Unprotecting, HandlerAt
<1> QED
  BY <1>1, <1>2, <1>3, <1>4, <1>5, <1>7

(* Handler steps at no call's cost. *)
LEMMA HandlerRest ==
  ASSUME LiveInv, registered, UNCHANGED <<registered, pc, op>>,
         op = "none" \/ UNCHANGED <<acc, mapped, mem, dirty_lru, blocks_ids, sync>>
  PROVE  RegisteredInv' /\ SyncInv'
<1>1. RegisteredInv'
  BY DEF LiveInv, RegisteredInv, Open
<1>2. SyncInv'
  <2>1. CASE op = "none"
    BY <2>1, IdleSync DEF LiveInv
  <2>2. CASE UNCHANGED <<acc, mapped, mem, dirty_lru, blocks_ids, sync>>
    BY <2>2 DEF LiveInv, SyncInv, Synced, Pending
  <2> QED
    BY <2>1, <2>2
<1> QED
  BY <1>1, <1>2

LEMMA DequeueLive ==
  ASSUME OwnSettings, IInv, LiveInv, NEW i \in SubRegions, Dequeue(i)
  PROVE  LiveInv' /\ UNCHANGED <<pc, op>>
<1>1. /\ UNCHANGED <<acc, blocked, mapped, mem, registered, present_blocks, clean_lru,
                     dirty_lru, stash_set, blocks_ids, stash_file, pc, op, sync>>
      /\ HandlerAt(i, "dequeue")
  BY DEF Dequeue, app, lists, call
<1>2. /\ OwnersInv' /\ OnceInv'
      /\ handlers'[i].pc = "handle"
      /\ \A j \in SubRegions : j # i => handlers'[j] = handlers[j]
  BY DequeueMessages DEF LiveInv, IInv
<1>3. registered
  BY <1>1 DEF LiveInv, RegisteredInv, HandlerAt
<1>4. RegisteredInv' /\ SyncInv'
  BY <1>1, <1>3, HandlerRest
<1> USE SameBlocks
<1>5. \A j \in SubRegions : j # i => Handling(j)' = Handling(j)
  BY <1>2 DEF Handling
<1>6. \A b \in Blocks : Enlisting(b)' = Enlisting(b) /\ Unprotecting(b)' = Unprotecting(b)
  BY <1>1, <1>2, <1>5, SubRegionOfBlock DEF Enlisting, Unprotecting, HandlerAt
<1>7. PagesInv'
  <2>1. \A t \in Threads : blocked[t] # None => sub_region(Block(blocked[t])) \in SubRegions
    BY BlockOfPage, SubRegionOfBlock DEF IInv, TypeOK, Event, Block
  <2>2. PlacesInv'
    BY <1>1, <1>2, <1>5 DEF LiveInv, PagesInv, PlacesInv
  <2>3. WaitersInv'
    BY <1>1, <1>2, <2>1 DEF LiveInv, PagesInv, WaitersInv, HandlerAt
  <2> QED
    BY <2>2, <2>3 DEF PagesInv
<1>8. BooksInv'
  BY <1>1, <1>6, BooksStay DEF LiveInv, IInv
<1> QED
  BY <1>1, <1>2, <1>4, <1>7, <1>8 DEF LiveInv

(* Nothing has come in between: no thread has the same block. *)
LEMMA SkipPresentLive ==
  ASSUME IInv, LiveInv, NEW i \in SubRegions
  PROVE  ~SkipPresent(i)
<1> SUFFICES ASSUME SkipPresent(i) PROVE FALSE
  OBVIOUS
<1>1. /\ handlers[i].pc = "handle" /\ ~handlers[i].fevent.is_wp_fault
      /\ Handling(i) \in present_blocks[i]
  BY DEF SkipPresent, HandlerAt
<1>2. mapped[Handling(i)] = "missing"
  BY <1>1, AtWorkFacts DEF AtWork
<1> QED
  BY <1>1, <1>2 DEF LiveInv, BooksInv, RecordsInv, Resident

LEMMA RemoveProcessedLive ==
  ASSUME OwnSettings, IInv, LiveInv, NEW i \in SubRegions, RemoveProcessed(i)
  PROVE  LiveInv' /\ UNCHANGED <<pc, op>>
<1>1. /\ UNCHANGED <<acc, blocked, uffd, mapped, mem, registered, listener, present_blocks,
                     clean_lru, dirty_lru, stash_set, blocks_ids, stash_file, pc, op, sync>>
      /\ HandlerAt(i, "processed") /\ Goto(i, NextEvent)
      /\ \A j \in SubRegions : events_queues'[j].m_queue = events_queues[j].m_queue
  BY ForgottenQueues DEF RemoveProcessed, app, lists, call, IInv
<1>2. /\ NextEvent \in {"dequeue", "stopped"}
      /\ \A j \in SubRegions : /\ handlers'[j].fevent = handlers[j].fevent
                               /\ handlers'[j].pc = IF j = i THEN NextEvent ELSE handlers[j].pc
  BY <1>1, GotoHandlers DEF IInv, NextEvent, Places
<1>3. OwnersInv' /\ OnceInv'
  <2>1. \A j \in SubRegions : AtWork(j)' => AtWork(j)
    BY <1>2 DEF AtWork
  <2> QED
    BY <1>1, <1>2, <2>1, GoOnMessages DEF LiveInv
<1>4. registered
  BY <1>1 DEF LiveInv, RegisteredInv, HandlerAt
<1>5. RegisteredInv' /\ SyncInv'
  BY <1>1, <1>4, HandlerRest
<1> USE SameBlocks
<1>6. \A j \in SubRegions : Handling(j)' = Handling(j)
  BY <1>2 DEF Handling
<1>7. \A b \in Blocks : Enlisting(b)' = Enlisting(b) /\ Unprotecting(b)' = Unprotecting(b)
  BY <1>1, <1>2, <1>6, SubRegionOfBlock DEF Enlisting, Unprotecting, HandlerAt
<1>8. PagesInv'
  <2>1. \A t \in Threads : blocked[t] # None => sub_region(Block(blocked[t])) \in SubRegions
    BY BlockOfPage, SubRegionOfBlock DEF IInv, TypeOK, Event, Block
  <2>2. PlacesInv'
    BY <1>1, <1>2, <1>6 DEF LiveInv, PagesInv, PlacesInv
  <2>3. WaitersInv'
    BY <1>1, <1>2, <2>1 DEF LiveInv, PagesInv, WaitersInv, HandlerAt
  <2> QED
    BY <2>2, <2>3 DEF PagesInv
<1>9. BooksInv'
  BY <1>1, <1>7, BooksStay DEF LiveInv, IInv
<1> QED
  BY <1>1, <1>3, <1>5, <1>8, <1>9 DEF LiveInv

(* A protected block is on no dirty list yet, and there is no stash file   *)
(* of it.                                                                  *)
LEMMA HandleWpLive ==
  ASSUME OwnSettings, IInv, LiveInv, NEW i \in SubRegions, HandleWp(i)
  PROVE  LiveInv' /\ UNCHANGED <<pc, op>>
<1> DEFINE b == Handling(i)
<1>1. handlers[i].pc = "handle" /\ handlers[i].fevent.is_wp_fault /\ AtWork(i)
  BY DEF HandleWp, HandlerAt, AtWork
<1>2. /\ op = "none" /\ pc \notin {"store", "commit"} /\ registered
      /\ b \in Blocks /\ sub_region(b) = i /\ mapped[b] = "wp"
  BY <1>1, AtWorkFacts
<1>3. b \notin stash_set[i]
  BY <1>2 DEF LiveInv, BooksInv, RecordsInv
<1>4. /\ clean_lru' = CleanWithout(i, b) /\ dirty_lru' = DirtyWith(i, b)
      /\ stash_file' = stash_file /\ stash_set' = [stash_set EXCEPT ![i] = @ \ {b}]
      /\ Goto(i, "unprotect")
      /\ UNCHANGED <<acc, blocked, uffd, mapped, mem, registered, listener, events_queues,
                     present_blocks, blocks_ids, pc, op, sync>>
  BY <1>3 DEF HandleWp, app, call
<1>5. stash_set' = stash_set
  BY <1>3, <1>4 DEF IInv, TypeOK
<1>6. /\ Enlisting(b) <=> FALSE
      /\ Unprotecting(b) <=> FALSE
      /\ b \notin ToSet(dirty_lru[i])
  <2>1. ~Enlisting(b) /\ ~Unprotecting(b)
    BY <1>1, <1>2 DEF Enlisting, Unprotecting, HandlerAt
  <2>2. ~Synced(i, b)
    BY <1>2, IdleBooks
  <2> QED
    BY <1>2, <2>1, <2>2 DEF LiveInv, BooksInv, RecordsInv
<1>7. /\ ToSet(dirty_lru'[i]) = ToSet(dirty_lru[i]) \cup {b} /\ IsInjective(dirty_lru'[i])
      /\ \A j \in SubRegions : j # i => dirty_lru'[j] = dirty_lru[j]
      /\ ToSet(clean_lru'[i]) = ToSet(clean_lru[i]) \ {b}
      /\ IsInjective(clean_lru[i]) => IsInjective(clean_lru'[i])
      /\ \A j \in SubRegions : j # i => clean_lru'[j] = clean_lru[j]
  <2>1. dirty_lru \in [SubRegions -> Seq(Blocks)] /\ clean_lru \in [SubRegions -> Seq(Blocks)]
    BY DEF IInv, TypeOK
  <2>2. IsInjective(dirty_lru[i])
    BY DEF LiveInv, BooksInv, RecordsInv
  <2> HIDE DEF b
  <2>3. ToSet(Cons(b, dirty_lru[i])) = ToSet(dirty_lru[i]) \cup {b} /\ IsInjective(Cons(b, dirty_lru[i]))
    BY <1>2, <1>6, <2>1, <2>2, ConsProperties
  <2>4. /\ ToSet(Without(clean_lru[i], {b})) = ToSet(clean_lru[i]) \ {b}
        /\ IsInjective(clean_lru[i]) => IsInjective(Without(clean_lru[i], {b}))
    BY <2>1, WithoutElements
  <2> QED
    BY <1>4, <2>1, <2>3, <2>4 DEF DirtyWith, PushFront, CleanWithout
<1>8. /\ \A j \in SubRegions :
           /\ handlers'[j].fevent = handlers[j].fevent /\ Handling(j)' = Handling(j)
           /\ handlers'[j].pc = IF j = i THEN "unprotect" ELSE handlers[j].pc
           /\ AtWork(j)' => AtWork(j)
      /\ \A c \in Blocks : /\ Enlisting(c)' <=> Enlisting(c)
                           /\ Unprotecting(c)' <=> Unprotecting(c) \/ c = b
      /\ \A t \in Threads : blocked[t] # None => sub_region(Block(blocked[t])) \in SubRegions
  BY <1>1, <1>4, <1>6, Onward DEF Places
<1> HIDE DEF b
<1> USE SameBlocks
<1>9. OwnersInv' /\ OnceInv'
  BY <1>4, <1>8, GoOnMessages DEF LiveInv
<1>10. RegisteredInv' /\ SyncInv' /\ UNCHANGED <<pc, op>>
  BY <1>2, <1>4, HandlerRest
<1>11. PagesInv'
  <2>1. PlacesInv'
    BY <1>1, <1>4, <1>7, <1>8 DEF LiveInv, PagesInv, PlacesInv, b
  <2>2. WaitersInv'
    BY <1>1, <1>4, <1>8 DEF LiveInv, PagesInv, WaitersInv
  <2> QED
    BY <2>1, <2>2 DEF PagesInv
<1>12. RecordsInv'
  <2>1. \A c \in Blocks : Resident(c)' = Resident(c)
    BY <1>4, <1>8 DEF Resident
  <2>2. Resident(b)
    BY <1>2, <1>6 DEF Resident
  <2>3. \A j \in SubRegions : /\ ToSet(dirty_lru[j]) \subseteq Blocks
                              /\ ToSet(clean_lru[j]) \subseteq Blocks
                              /\ present_blocks[j] \subseteq Blocks /\ stash_set[j] \subseteq Blocks
    BY BookedBlocks DEF IInv
  <2>4. \A j \in SubRegions : /\ \A c \in ToSet(dirty_lru'[j]) : c \in ToSet(dirty_lru[j]) \/ (j = i /\ c = b)
                              /\ ToSet(clean_lru'[j]) \subseteq ToSet(clean_lru[j])
                              /\ IsInjective(dirty_lru'[j])
    BY <1>7 DEF LiveInv, BooksInv, RecordsInv
  <2>5. \A j, c : ~Synced(j, c)
    BY <1>2, IdleBooks
  <2>6. \A j \in SubRegions :
          \A c \in ToSet(dirty_lru'[j]) \cup present_blocks[j] \cup stash_set[j] :
            sub_region(c) = j /\ Resident(c)'
    BY <1>2, <2>1, <2>2, <2>3, <2>4 DEF LiveInv, BooksInv, RecordsInv
  <2>7. \A j \in SubRegions : \A c \in ToSet(clean_lru'[j]) : Resident(c)'
    BY <2>1, <2>3, <2>4 DEF LiveInv, BooksInv, RecordsInv
  <2>8. \A j \in SubRegions : \A c \in ToSet(dirty_lru'[j]) :
          mapped[c] = "rw" \/ Unprotecting(c)'
    BY <1>2, <1>8, <2>3, <2>4, <2>5 DEF LiveInv, BooksInv, RecordsInv
  <2>9. \A j \in SubRegions : \A c \in stash_set[j] :
          mapped[c] = "rw" /\ c \notin ToSet(dirty_lru'[j])
    BY <1>3, <2>4 DEF LiveInv, BooksInv, RecordsInv
  <2> QED
    BY <1>4, <1>5, <2>4, <2>6, <2>7, <2>8, <2>9 DEF RecordsInv
<1>13. StashInv' /\ CleanSaved'
  <2>1. \A c \in Blocks : c \in ToSet(dirty_lru[sub_region(c)]) =>
                            c \in ToSet(dirty_lru'[sub_region(c)])
    BY <1>7, SubRegionOfBlock
  <2> QED
    BY <1>4, <1>5, <2>1 DEF LiveInv, BooksInv, StashInv, Stashed, CleanSaved, Backing
<1>14. OneList => ListedInv'
  <2>1. \A j, c : ~Synced(j, c) /\ ~Synced(j, c)'
    BY <1>2, <1>4, IdleBooks
  <2> QED
    BY <1>4, <1>7, <2>1 DEF LiveInv, BooksInv, ListedInv
<1> QED
  BY <1>9, <1>10, <1>11, <1>12, <1>13, <1>14 DEF LiveInv, BooksInv

LEMMA UnprotectLive ==
  ASSUME OwnSettings, IInv, LiveInv, NEW i \in SubRegions, Unprotect(i)
  PROVE  LiveInv' /\ UNCHANGED <<pc, op>>
<1> DEFINE b == Handling(i)
<1>1. handlers[i].pc = "unprotect" /\ AtWork(i)
  BY DEF Unprotect, HandlerAt, AtWork
<1>2. /\ op = "none" /\ pc \notin {"store", "commit"} /\ registered
      /\ b \in Blocks /\ sub_region(b) = i
      /\ b \in ToSet(dirty_lru[i]) /\ mapped[b] = "wp"
  BY <1>1, AtWorkFacts DEF LiveInv, PagesInv, PlacesInv
<1>3. /\ mapped' = [mapped EXCEPT ![b] = IF @ = "wp" THEN "rw" ELSE @]
      /\ WakeBlock(b) /\ Goto(i, "processed")
      /\ UNCHANGED <<acc, mem, registered, listener, events_queues, present_blocks,
                     clean_lru, dirty_lru, stash_set, blocks_ids, stash_file, pc, op, sync>>
  BY <1>2 DEF Unprotect, lists, call
<1>4. \A c \in Blocks : mapped'[c] = IF c = b THEN "rw" ELSE mapped[c]
  BY <1>2, <1>3 DEF IInv, TypeOK
<1>5. /\ \A j \in SubRegions :
           /\ handlers'[j].fevent = handlers[j].fevent /\ Handling(j)' = Handling(j)
           /\ handlers'[j].pc = IF j = i THEN "processed" ELSE handlers[j].pc
           /\ AtWork(j)' => AtWork(j)
           /\ AtWork(j) => sub_region(Handling(j)) = j /\ Handling(j) \in Blocks
      /\ \A c \in Blocks : /\ Enlisting(c)' <=> Enlisting(c) /\ c # b
                           /\ Unprotecting(c)' <=> Unprotecting(c) /\ c # b
      /\ \A t \in Threads : blocked[t] # None =>
           Block(blocked[t]) \in Blocks /\ sub_region(Block(blocked[t])) \in SubRegions
  BY <1>1, <1>3, Onward DEF Places
<1>6. ~AtWork(i)'
  BY <1>5 DEF AtWork
<1>7. /\ OwnersInv' /\ OnceInv'
      /\ \A t \in Threads : blocked'[t] # None =>
           blocked'[t] = blocked[t] /\ Block(blocked[t]) # b
  BY <1>1, <1>3, <1>5, <1>6, WakeMessages DEF LiveInv, IInv
<1>8. RegisteredInv' /\ SyncInv' /\ UNCHANGED <<pc, op>>
  BY <1>2, <1>3, HandlerRest
<1> HIDE DEF b
<1> USE SameBlocks
<1>9. PagesInv'
  <2>1. PlacesInv'
    <3>1. \A j \in SubRegions : AtWork(j) /\ j # i => mapped'[Handling(j)] = mapped[Handling(j)]
      BY <1>2, <1>4, <1>5
    <3> QED
      BY <1>3, <1>5, <3>1 DEF LiveInv, PagesInv, PlacesInv, AtWork
  <2>2. WaitersInv'
    BY <1>1, <1>3, <1>4, <1>5, <1>7 DEF LiveInv, PagesInv, WaitersInv
  <2> QED
    BY <2>1, <2>2 DEF PagesInv
<1>10. RecordsInv'
  <2>1. \A c \in Blocks : /\ Resident(c) => Resident(c)'
                          /\ mapped[c] = "rw" => mapped'[c] = "rw"
                          /\ Unprotecting(c) => Unprotecting(c)' \/ mapped'[c] = "rw"
    BY <1>4, <1>5 DEF Resident
  <2>2. \A j \in SubRegions : /\ ToSet(dirty_lru[j]) \subseteq Blocks
                              /\ ToSet(clean_lru[j]) \subseteq Blocks
                              /\ present_blocks[j] \subseteq Blocks /\ stash_set[j] \subseteq Blocks
    BY BookedBlocks DEF IInv
  <2>3. \A j, c : ~Synced(j, c)
    BY <1>2, IdleBooks
  <2> QED
    BY <1>3, <2>1, <2>2, <2>3 DEF LiveInv, BooksInv, RecordsInv
<1>11. StashInv' /\ CleanSaved'
  BY <1>3, <1>4 DEF LiveInv, BooksInv, StashInv, Stashed, CleanSaved, Backing
<1>12. OneList => ListedInv'
  BY <1>3 DEF LiveInv, BooksInv, ListedInv, Synced, Pending
<1> QED
  BY <1>7, <1>8, <1>9, <1>10, <1>11, <1>12 DEF LiveInv, BooksInv

-------------------------------------------------------------------------------
(* Eviction: a clean block goes off the books, ...                         *)
LEMMA EvictCleanBooks ==
  ASSUME IInv, BooksInv, pc \notin {"store", "commit"}, NEW i \in SubRegions, EvictClean(i),
         UNCHANGED <<mapped, mem, blocks_ids, pc, sync>>,
         \A c \in Blocks : Enlisting(c)' = Enlisting(c) /\ Unprotecting(c)' = Unprotecting(c)
  PROVE  BooksInv'
<1> DEFINE b == Last(clean_lru[i])
<1>1. /\ clean_lru[i] # <<>> /\ clean_lru' = [clean_lru EXCEPT ![i] = Front(@)]
      /\ present_blocks' = [present_blocks EXCEPT ![i] = @ \ {b}]
      /\ UNCHANGED <<dirty_lru, stash_set, stash_file>>
  BY DEF EvictClean
<1>2. /\ clean_lru \in [SubRegions -> Seq(Blocks)]
      /\ present_blocks \in [SubRegions -> SUBSET Blocks]
  BY DEF IInv, TypeOK
<1>3. /\ ToSet(clean_lru'[i]) \subseteq ToSet(clean_lru[i])
      /\ IsInjective(clean_lru[i]) =>
           IsInjective(clean_lru'[i]) /\ ToSet(clean_lru'[i]) = ToSet(clean_lru[i]) \ {b}
      /\ \A j \in SubRegions : j # i => clean_lru'[j] = clean_lru[j]
      /\ \A j \in SubRegions : present_blocks'[j] =
           IF j = i THEN present_blocks[j] \ {b} ELSE present_blocks[j]
  <2>1. Len(clean_lru[i]) > 0 /\ clean_lru[i] \in Seq(Blocks)
    BY <1>1, <1>2
  <2>2. ToSet(Front(clean_lru[i])) \subseteq ToSet(clean_lru[i])
    BY <1>1, <2>1, BackElements
  <2>3. IsInjective(clean_lru[i]) =>
          /\ IsInjective(Front(clean_lru[i]))
          /\ ToSet(Front(clean_lru[i])) = ToSet(clean_lru[i]) \ {b}
    BY <2>1, FrontLastProperties
  <2> HIDE DEF b
  <2> QED
    BY <1>1, <1>2, <2>2, <2>3
<1> HIDE DEF b
<1> USE SameBlocks
<1>4. RecordsInv'
  <2>1. \A c \in Blocks : Resident(c)' = Resident(c)
    BY DEF Resident
  <2>2. \A j \in SubRegions : /\ ToSet(dirty_lru[j]) \subseteq Blocks
                              /\ ToSet(clean_lru[j]) \subseteq Blocks
                              /\ present_blocks[j] \subseteq Blocks /\ stash_set[j] \subseteq Blocks
    BY BookedBlocks DEF IInv
  <2>3. \A j \in SubRegions : /\ ToSet(clean_lru'[j]) \subseteq ToSet(clean_lru[j])
                              /\ present_blocks'[j] \subseteq present_blocks[j]
    BY <1>3
  <2>4. \A j, c : ~Synced(j, c)
    BY IdleBooks
  <2> QED
    BY <1>1, <2>1, <2>2, <2>3, <2>4 DEF BooksInv, RecordsInv
<1>5. StashInv' /\ CleanSaved'
  BY <1>1 DEF BooksInv, StashInv, Stashed, CleanSaved, Backing
<1>6. ASSUME OneList PROVE ListedInv'
  <2>1. \A j, c : ~Synced(j, c) /\ ~Synced(j, c)'
    BY IdleBooks
  <2>2. ListedInv
    BY <1>6 DEF BooksInv
  <2>3. \A j \in SubRegions : IsInjective(clean_lru'[j])
    BY <1>3, <2>2 DEF ListedInv
  <2>4. \A j \in SubRegions : present_blocks'[j] \subseteq ToSet(clean_lru'[j]) \cup ToSet(dirty_lru[j])
    <3>1. ASSUME NEW j \in SubRegions, j = i
          PROVE  present_blocks'[j] \subseteq ToSet(clean_lru'[j]) \cup ToSet(dirty_lru[j])
      BY <1>3, <2>2, <3>1 DEF ListedInv
    <3> QED
      BY <1>3, <2>2, <3>1 DEF ListedInv
  <2>5. \A j \in SubRegions : \A c \in ToSet(dirty_lru[j]) : c \notin ToSet(clean_lru'[j])
    BY <1>3, <2>1, <2>2 DEF ListedInv
  <2> QED
    BY <1>1, <2>1, <2>3, <2>4, <2>5 DEF ListedInv
<1> QED
  BY <1>4, <1>5, <1>6 DEF BooksInv

(* ... and a dirty one leaves a stash file, and stays writable.            *)
LEMMA EvictDirtyBooks ==
  ASSUME IInv, BooksInv, pc \notin {"store", "commit"}, NEW i \in SubRegions, EvictDirty(i),
         ~HandlerAt(i, "unprotect"), UNCHANGED <<mapped, mem, blocks_ids, pc, sync>>,
         \A c \in Blocks : Enlisting(c)' = Enlisting(c) /\ Unprotecting(c)' = Unprotecting(c)
  PROVE  BooksInv'
<1> DEFINE b == Last(dirty_lru[i])
<1>1. /\ clean_lru[i] = <<>> /\ dirty_lru[i] # <<>>
      /\ stash_file' = [stash_file EXCEPT ![b] = mem[b]]
      /\ stash_set' = [stash_set EXCEPT ![i] = @ \cup {b}]
      /\ present_blocks' = [present_blocks EXCEPT ![i] = @ \ {b}]
      /\ dirty_lru' = [dirty_lru EXCEPT ![i] = Front(@)]
      /\ UNCHANGED clean_lru
  BY DEF EvictDirty
<1>2. /\ dirty_lru \in [SubRegions -> Seq(Blocks)]
      /\ present_blocks \in [SubRegions -> SUBSET Blocks]
      /\ stash_set \in [SubRegions -> SUBSET Blocks]
      /\ stash_file \in [Blocks -> Values \cup {None}] /\ mem \in [Blocks -> Values]
  BY DEF IInv, TypeOK, Image
<1>3. /\ b \in ToSet(dirty_lru[i]) /\ b \in Blocks
      /\ IsInjective(dirty_lru'[i]) /\ ToSet(dirty_lru'[i]) = ToSet(dirty_lru[i]) \ {b}
      /\ \A j \in SubRegions : j # i => dirty_lru'[j] = dirty_lru[j]
  <2>1. Len(dirty_lru[i]) > 0 /\ dirty_lru[i] \in Seq(Blocks) /\ IsInjective(dirty_lru[i])
    BY <1>1, <1>2 DEF BooksInv, RecordsInv
  <2>2. /\ b \in ToSet(dirty_lru[i])
        /\ IsInjective(Front(dirty_lru[i]))
        /\ ToSet(Front(dirty_lru[i])) = ToSet(dirty_lru[i]) \ {b}
    BY <2>1, FrontLastProperties
  <2>3. b \in Blocks
    BY <2>1, <2>2, ToSetElements
  <2> HIDE DEF b
  <2> QED
    BY <1>1, <1>2, <2>2, <2>3
<1> HIDE DEF b
<1>4. /\ \A j \in SubRegions : /\ present_blocks'[j] =
                                    IF j = i THEN present_blocks[j] \ {b} ELSE present_blocks[j]
                               /\ stash_set'[j] =
                                    IF j = i THEN stash_set[j] \cup {b} ELSE stash_set[j]
      /\ \A c \in Blocks : stash_file'[c] = IF c = b THEN mem[b] ELSE stash_file[c]
      /\ mem[b] # None
  <2>1. mem[b] \in Values
    BY <1>2, <1>3
  <2> QED
    BY <1>1, <1>2, <2>1, NoneAssumption
<1>5. sub_region(b) = i /\ Resident(b) /\ mapped[b] = "rw"
  <2>1. ~Synced(i, b)
    BY IdleBooks
  <2>2. sub_region(b) = i /\ Resident(b)
    BY <1>3 DEF BooksInv, RecordsInv
  <2>3. ~Unprotecting(b)
    BY <2>2 DEF Unprotecting
  <2> QED
    BY <1>3, <2>1, <2>2, <2>3 DEF BooksInv, RecordsInv
<1> USE SameBlocks
<1>6. RecordsInv'
  <2>1. \A c \in Blocks : Resident(c)' = Resident(c)
    BY DEF Resident
  <2>2. \A j \in SubRegions : /\ ToSet(dirty_lru[j]) \subseteq Blocks
                              /\ ToSet(clean_lru[j]) \subseteq Blocks
                              /\ present_blocks[j] \subseteq Blocks /\ stash_set[j] \subseteq Blocks
    BY BookedBlocks DEF IInv
  <2>3. \A j \in SubRegions :
          /\ ToSet(dirty_lru'[j]) \subseteq ToSet(dirty_lru[j]) /\ IsInjective(dirty_lru'[j])
          /\ present_blocks'[j] \subseteq present_blocks[j]
          /\ \A c \in stash_set'[j] : c \in stash_set[j] \/ (c = b /\ j = i)
          /\ j = i => b \notin ToSet(dirty_lru'[j])
    <3>1. \A j \in SubRegions : IsInjective(dirty_lru[j])
      BY DEF BooksInv, RecordsInv
    <3> QED
      BY <1>3, <1>4, <3>1
  <2>4. \A j, c : ~Synced(j, c)
    BY IdleBooks
  <2>5. \A j \in SubRegions :
          \A c \in ToSet(dirty_lru'[j]) \cup present_blocks'[j] \cup stash_set'[j] :
            sub_region(c) = j /\ Resident(c)'
    BY <1>3, <1>5, <2>1, <2>2, <2>3 DEF BooksInv, RecordsInv
  <2>6. \A j \in SubRegions : \A c \in ToSet(dirty_lru'[j]) :
          mapped[c] = "rw" \/ Unprotecting(c)'
    BY <2>2, <2>3, <2>4 DEF BooksInv, RecordsInv
  <2>7. \A j \in SubRegions : \A c \in stash_set'[j] :
          mapped[c] = "rw" /\ c \notin ToSet(dirty_lru'[j])
    BY <1>5, <2>3 DEF BooksInv, RecordsInv
  <2>8. \A j \in SubRegions : \A c \in ToSet(clean_lru[j]) : Resident(c)'
    BY <2>1, <2>2 DEF BooksInv, RecordsInv
  <2> QED
    BY <1>1, <2>3, <2>5, <2>6, <2>7, <2>8 DEF RecordsInv
<1>7. StashInv'
  <2>1. \A c \in Blocks : stash_file'[c] # None <=> c \in stash_set'[sub_region(c)]
    BY <1>4, <1>5, SubRegionOfBlock, IdleBooks DEF BooksInv, StashInv
  <2> QED
    BY <2>1, IdleBooks DEF StashInv
<1>8. CleanSaved'
  <2>1. \A c \in Blocks : c # b => Backing(c)' = Backing(c)
    BY <1>4 DEF Backing
  <2>2. \A c \in Blocks : c # b /\ c \in ToSet(dirty_lru[sub_region(c)]) =>
                            c \in ToSet(dirty_lru'[sub_region(c)])
    BY <1>3, SubRegionOfBlock
  <2> QED
    BY <1>5, <2>1, <2>2 DEF BooksInv, CleanSaved
<1>9. ASSUME OneList PROVE ListedInv'
  <2>1. \A j, c : ~Synced(j, c) /\ ~Synced(j, c)'
    BY IdleBooks
  <2>2. ListedInv
    BY <1>9 DEF BooksInv
  <2>3. \A j \in SubRegions : present_blocks'[j] \subseteq ToSet(clean_lru[j]) \cup ToSet(dirty_lru'[j])
    <3>1. ASSUME NEW j \in SubRegions, j = i
          PROVE  present_blocks'[j] \subseteq ToSet(clean_lru[j]) \cup ToSet(dirty_lru'[j])
      BY <1>3, <1>4, <2>2, <3>1 DEF ListedInv
    <3> QED
      BY <1>3, <1>4, <2>2, <3>1 DEF ListedInv
  <2>4. \A j \in SubRegions : ToSet(dirty_lru'[j]) \subseteq ToSet(dirty_lru[j])
    BY <1>3
  <2> QED
    BY <1>1, <2>1, <2>2, <2>3, <2>4 DEF ListedInv
<1> QED
  BY <1>6, <1>7, <1>8, <1>9 DEF BooksInv

(* Making room touches the lists and the stash files, and nothing that a   *)
(* thread waits for; at worst there is nothing on the lists to evict.      *)
LEMMA HandleAbsentLive ==
  ASSUME OwnSettings, IInv, LiveInv, NEW i \in SubRegions, HandleAbsent(i)
  PROVE  \/ LiveInv' /\ UNCHANGED <<pc, op>>
         \/ /\ Exit /\ EvictionNeeded(i) /\ clean_lru[i] = <<>> /\ dirty_lru[i] = <<>>
            /\ Handling(i) \in Blocks /\ Handling(i) \notin present_blocks[i]
<1>1. /\ handlers[i].pc = "handle" /\ ~handlers[i].fevent.is_wp_fault /\ AtWork(i)
      /\ Handling(i) \notin present_blocks[i]
  BY DEF HandleAbsent, HandlerAt, AtWork
<1>2. /\ op = "none" /\ pc \notin {"store", "commit"} /\ registered
      /\ Handling(i) \in Blocks /\ sub_region(Handling(i)) = i
      /\ mapped[Handling(i)] = "missing"
  BY <1>1, AtWorkFacts
<1>3. CASE EvictionNeeded(i) /\ clean_lru[i] = <<>> /\ dirty_lru[i] = <<>> /\ Exit
  BY <1>1, <1>2, <1>3
<1>4. ASSUME \/ UNCHANGED <<lists, stash_file>>
             \/ EvictClean(i) \/ EvictDirty(i),
             Goto(i, "copy"),
             UNCHANGED <<app, mapped, mem, registered, listener, events_queues, blocks_ids, call>>
      PROVE  LiveInv' /\ UNCHANGED <<pc, op>>
  <2>1. UNCHANGED <<acc, blocked, uffd, mapped, mem, registered, listener, events_queues,
                    blocks_ids, pc, op, sync>>
    BY <1>4 DEF app, call
  <2> USE SameBlocks
  <2>2. /\ \A j \in SubRegions :
             /\ handlers'[j].fevent = handlers[j].fevent /\ Handling(j)' = Handling(j)
             /\ handlers'[j].pc = IF j = i THEN "copy" ELSE handlers[j].pc
             /\ AtWork(j)' => AtWork(j)
        /\ \A c \in Blocks :
             /\ Enlisting(c)' <=> IF c = Handling(i) THEN FALSE ELSE Enlisting(c)
             /\ Unprotecting(c)' <=> IF c = Handling(i) THEN FALSE ELSE Unprotecting(c)
        /\ \A t \in Threads : blocked[t] # None => sub_region(Block(blocked[t])) \in SubRegions
    BY <1>1, <1>4, Onward DEF Places
  <2>3. ~Enlisting(Handling(i)) /\ ~Unprotecting(Handling(i)) /\ ~HandlerAt(i, "unprotect")
    BY <1>1, <1>2 DEF Enlisting, Unprotecting, HandlerAt
  <2>4. \A c \in Blocks : Enlisting(c)' = Enlisting(c) /\ Unprotecting(c)' = Unprotecting(c)
    BY <2>2, <2>3 DEF Enlisting, Unprotecting, HandlerAt
  <2>5. BooksInv'
    <3>1. CASE UNCHANGED <<lists, stash_file>>
      BY <2>1, <2>4, <3>1, BooksStay DEF LiveInv, IInv, lists
    <3>2. CASE EvictClean(i)
      BY <1>2, <2>1, <2>4, <3>2, EvictCleanBooks DEF LiveInv
    <3>3. CASE EvictDirty(i)
      BY <1>2, <2>1, <2>3, <2>4, <3>3, EvictDirtyBooks DEF LiveInv
    <3> QED
      BY <1>4, <3>1, <3>2, <3>3
  <2>6. OwnersInv' /\ OnceInv'
    BY <2>1, <2>2, GoOnMessages DEF LiveInv
  <2>7. RegisteredInv' /\ SyncInv'
    BY <1>2, <2>1, HandlerRest
  <2>8. \A j \in SubRegions : j # i => dirty_lru'[j] = dirty_lru[j]
    BY <1>4 DEF lists, EvictClean, EvictDirty, IInv, TypeOK
  <2>9. PlacesInv'
    BY <1>1, <1>2, <2>1, <2>2, <2>8 DEF LiveInv, PagesInv, PlacesInv
  <2>10. WaitersInv'
    BY <1>1, <2>1, <2>2 DEF LiveInv, PagesInv, WaitersInv
  <2> QED
    BY <2>1, <2>5, <2>6, <2>7, <2>9, <2>10 DEF LiveInv, PagesInv
<1> QED
  BY <1>3, <1>4 DEF HandleAbsent

(* With room for all blocks, the one that is missing makes room for itself. *)
LEMMA NoEviction ==
  ASSUME NumBlocks <= MaxMemBlocks, IInv, NEW i \in SubRegions,
         Handling(i) \in Blocks, Handling(i) \notin present_blocks[i]
  PROVE  ~EvictionNeeded(i)
<1>1. present_blocks[i] \in SUBSET Blocks
  BY DEF IInv, TypeOK
<1>2. NumBlocks \in Nat \ {0} /\ MaxMemBlocks \in Nat \ {0}
  BY UffdAssumption
<1>3. IsFiniteSet(Blocks) /\ Cardinality(Blocks) = NumBlocks
  <2>1. 0 \in Int /\ NumBlocks - 1 \in Int /\ 0 <= NumBlocks - 1
    BY <1>2
  <2> QED
    BY <1>2, <2>1, FS_Interval DEF Blocks
<1> DEFINE Others == Blocks \ {Handling(i)}
<1>4. IsFiniteSet(Others) /\ Cardinality(Others) = NumBlocks - 1
  BY <1>3, FS_RemoveElement
<1>5. present_blocks[i] \subseteq Others
  BY <1>1
<1> HIDE DEF Others
<1>6. /\ Cardinality(present_blocks[i]) <= NumBlocks - 1
      /\ Cardinality(present_blocks[i]) \in Nat
  BY <1>4, <1>5, FS_Subset, FS_CardinalityType
<1> QED
  BY <1>2, <1>6 DEF EvictionNeeded

(* At the limit something is present, and what is present is listed.       *)
LEMMA VictimListed ==
  ASSUME OneList, IInv, LiveInv, NEW i \in SubRegions, EvictionNeeded(i)
  PROVE  clean_lru[i] # <<>> \/ dirty_lru[i] # <<>>
<1>1. present_blocks[i] # {}
  <2>1. Cardinality({}) = 0 /\ MaxMemBlocks \in Nat \ {0}
    BY UffdAssumption, FS_EmptySet
  <2> QED
    BY <2>1 DEF EvictionNeeded
<1>2. present_blocks[i] \subseteq ToSet(clean_lru[i]) \cup ToSet(dirty_lru[i])
  BY DEF LiveInv, BooksInv, ListedInv
<1> QED
  BY <1>1, <1>2, ToSetEmpty

(* The pages of a missing block are filled from its file, and nobody else  *)
(* has a hand in them.                                                     *)
LEMMA CopyLive ==
  ASSUME OwnSettings, IInv, LiveInv, NEW i \in SubRegions, Copy(i)
  PROVE  LiveInv' /\ UNCHANGED <<pc, op>>
<1> DEFINE b == Handling(i)
           to == IF handlers[i].fevent.is_write_fault THEN "rw" ELSE "wp"
<1>1. handlers[i].pc = "copy" /\ ~handlers[i].fevent.is_wp_fault /\ AtWork(i)
  BY DEF Copy, HandlerAt, AtWork, LiveInv, PagesInv, PlacesInv
<1>2. /\ op = "none" /\ pc \notin {"store", "commit"} /\ registered
      /\ b \in Blocks /\ sub_region(b) = i /\ mapped[b] = "missing"
  BY <1>1, AtWorkFacts
<1>3. PICK t \in Threads : blocked[t] = handlers[i].fevent /\ blocked[t] # None
  BY <1>1, AtWorkFacts
<1>4. /\ mem' = [mem EXCEPT ![b] = CopiedIn(b)] /\ mapped' = [mapped EXCEPT ![b] = to]
      /\ Goto(i, "enlist")
      /\ UNCHANGED <<acc, blocked, uffd, registered, listener, events_queues, present_blocks,
                     clean_lru, dirty_lru, stash_set, blocks_ids, stash_file, pc, op, sync>>
  BY <1>2 DEF Copy, app, lists, call
<1>5. \A c \in Blocks : /\ mapped'[c] = IF c = b THEN to ELSE mapped[c]
                        /\ mem'[c] = IF c = b THEN Backing(b) ELSE mem[c]
  BY <1>2, <1>4 DEF IInv, TypeOK, Image, CopiedIn
<1>6. /\ \A j \in SubRegions :
           /\ handlers'[j].fevent = handlers[j].fevent /\ Handling(j)' = Handling(j)
           /\ handlers'[j].pc = IF j = i THEN "enlist" ELSE handlers[j].pc
           /\ AtWork(j)' => AtWork(j)
           /\ AtWork(j) => sub_region(Handling(j)) = j /\ Handling(j) \in Blocks
      /\ \A c \in Blocks : c # b => /\ Enlisting(c)' <=> Enlisting(c)
                                    /\ Unprotecting(c)' <=> Unprotecting(c)
      /\ \A u \in Threads : blocked[u] # None =>
           Block(blocked[u]) \in Blocks /\ sub_region(Block(blocked[u])) \in SubRegions
  BY <1>1, <1>4, Onward DEF Places
<1>7. OwnersInv' /\ OnceInv'
  BY <1>4, <1>6, GoOnMessages DEF LiveInv
<1>8. RegisteredInv' /\ SyncInv' /\ UNCHANGED <<pc, op>>
  BY <1>2, <1>4, HandlerRest
<1>9. \A u \in Threads : u # t /\ blocked[u] # None => Block(blocked[u]) # b
  BY <1>3, OneWaiter DEF Block, Handling, LiveInv, IInv
<1>10. Block(blocked[t]) = b
  BY <1>3 DEF Block, Handling
<1> HIDE DEF b
<1> USE SameBlocks
<1>11. PagesInv'
  <2>1. PlacesInv'
    <3>1. \A j \in SubRegions : AtWork(j) /\ j # i => mapped'[Handling(j)] = mapped[Handling(j)]
      BY <1>2, <1>5, <1>6
    <3>2. mapped'[Handling(i)] = to
      BY <1>2, <1>5 DEF b
    <3> QED
      BY <1>1, <1>4, <1>6, <3>1, <3>2 DEF LiveInv, PagesInv, PlacesInv, AtWork
  <2>2. WaitersInv'
    <3>1. ASSUME NEW u \in Threads, blocked[u] # None, u # t
          PROVE  /\ blocked[u].is_wp_fault => mapped'[Block(blocked[u])] = "wp"
                 /\ ~blocked[u].is_wp_fault =>
                      \/ mapped'[Block(blocked[u])] = "missing"
                      \/ LET j == sub_region(Block(blocked[u]))
                         IN  handlers'[j].pc \in {"enlist", "wake"} /\ handlers'[j].fevent = blocked[u]
      BY <1>1, <1>5, <1>6, <1>9, <3>1 DEF LiveInv, PagesInv, WaitersInv
    <3> QED
      BY <1>1, <1>2, <1>3, <1>4, <1>6, <1>10, <3>1 DEF WaitersInv
  <2> QED
    BY <2>1, <2>2 DEF PagesInv
<1>12. \A j \in SubRegions :
         \A c \in ToSet(dirty_lru[j]) \cup ToSet(clean_lru[j]) \cup present_blocks[j] \cup stash_set[j] :
           c \in Blocks /\ c # b
  <2>1. ~Resident(b)
    BY <1>2 DEF Resident
  <2>2. \A j \in SubRegions : /\ ToSet(dirty_lru[j]) \subseteq Blocks
                              /\ ToSet(clean_lru[j]) \subseteq Blocks
                              /\ present_blocks[j] \subseteq Blocks /\ stash_set[j] \subseteq Blocks
    BY BookedBlocks DEF IInv
  <2> QED
    BY <2>1, <2>2 DEF LiveInv, BooksInv, RecordsInv
<1>13. RecordsInv'
  <2>1. \A c \in Blocks : c # b => /\ Resident(c) => Resident(c)'
                                   /\ mapped'[c] = mapped[c]
                                   /\ Unprotecting(c) => Unprotecting(c)'
    BY <1>5, <1>6 DEF Resident
  <2>2. \A j, c : ~Synced(j, c)
    BY <1>2, IdleBooks
  <2>3. RecordsInv
    BY DEF LiveInv, BooksInv
  <2>4. \A j \in SubRegions :
          \A c \in ToSet(dirty_lru[j]) \cup present_blocks[j] \cup stash_set[j] :
            sub_region(c) = j /\ Resident(c)'
    BY <1>12, <2>1, <2>3 DEF RecordsInv
  <2>5. \A j \in SubRegions : \A c \in ToSet(clean_lru[j]) : Resident(c)'
    BY <1>12, <2>1, <2>3 DEF RecordsInv
  <2>6. \A j \in SubRegions : \A c \in ToSet(dirty_lru[j]) :
          mapped'[c] = "rw" \/ Unprotecting(c)'
    BY <1>12, <2>1, <2>2, <2>3 DEF RecordsInv
  <2>7. \A j \in SubRegions : \A c \in stash_set[j] :
          mapped'[c] = "rw" /\ c \notin ToSet(dirty_lru[j])
    BY <1>12, <2>1, <2>3 DEF RecordsInv
  <2> QED
    BY <1>4, <2>3, <2>4, <2>5, <2>6, <2>7 DEF RecordsInv
<1>14. StashInv'
  BY <1>4 DEF LiveInv, BooksInv, StashInv, Stashed
<1>15. CleanSaved'
  <2>1. \A c \in Blocks : Backing(c)' = Backing(c)
    BY <1>4 DEF Backing
  <2> QED
    BY <1>4, <1>5, <2>1 DEF LiveInv, BooksInv, CleanSaved
<1>16. OneList => ListedInv'
  BY <1>4 DEF LiveInv, BooksInv, ListedInv, Synced, Pending
<1> QED
  BY <1>7, <1>8, <1>11, <1>13, <1>14, <1>15, <1>16 DEF LiveInv, BooksInv

(* The block goes on record, and was on none before. *)
LEMMA EnlistLive ==
  ASSUME OwnSettings, IInv, LiveInv, NEW i \in SubRegions, Enlist(i)
  PROVE  LiveInv' /\ UNCHANGED <<pc, op>>
<1> DEFINE b == Handling(i)
           write == handlers[i].fevent.is_write_fault
<1>1. handlers[i].pc = "enlist" /\ ~handlers[i].fevent.is_wp_fault /\ AtWork(i)
  BY DEF Enlist, HandlerAt, AtWork, LiveInv, PagesInv, PlacesInv
<1>2. /\ op = "none" /\ pc \notin {"store", "commit"} /\ registered
      /\ b \in Blocks /\ sub_region(b) = i
      /\ mapped[b] = IF write THEN "rw" ELSE "wp"
  BY <1>1, AtWorkFacts DEF LiveInv, PagesInv, PlacesInv
<1>3. /\ IF write THEN dirty_lru' = PushFront(dirty_lru, i, b) /\ clean_lru' = clean_lru
         ELSE clean_lru' = PushFront(clean_lru, i, b) /\ dirty_lru' = dirty_lru
      /\ present_blocks' = [present_blocks EXCEPT ![i] = @ \cup {b}]
      /\ events_queues' = Forgotten(i) /\ Goto(i, "wake")
      /\ UNCHANGED <<acc, blocked, uffd, mapped, mem, registered, listener, stash_set,
                     blocks_ids, stash_file, pc, op, sync>>
  BY DEF Enlist, app, call
<1>4. Enlisting(b) /\ ~Resident(b)
  BY <1>1, <1>2 DEF Enlisting, Resident, HandlerAt
<1>5. \A j \in SubRegions :
        \A c \in ToSet(dirty_lru[j]) \cup ToSet(clean_lru[j]) \cup present_blocks[j] \cup stash_set[j] :
          c \in Blocks /\ c # b /\ Resident(c)
  <2>1. \A j \in SubRegions : /\ ToSet(dirty_lru[j]) \subseteq Blocks
                              /\ ToSet(clean_lru[j]) \subseteq Blocks
                              /\ present_blocks[j] \subseteq Blocks /\ stash_set[j] \subseteq Blocks
    BY BookedBlocks DEF IInv
  <2>2. \A j \in SubRegions :
          \A c \in ToSet(dirty_lru[j]) \cup ToSet(clean_lru[j]) \cup present_blocks[j] \cup stash_set[j] :
            Resident(c)
    BY DEF LiveInv, BooksInv, RecordsInv
  <2> HIDE DEF b
  <2> QED
    BY <1>4, <2>1, <2>2
<1>6. /\ \A j \in SubRegions : present_blocks'[j] =
           IF j = i THEN present_blocks[j] \cup {b} ELSE present_blocks[j]
      /\ \A j \in SubRegions : /\ j # i => dirty_lru'[j] = dirty_lru[j]
                               /\ j # i => clean_lru'[j] = clean_lru[j]
      /\ ToSet(dirty_lru'[i]) =
           IF write THEN ToSet(dirty_lru[i]) \cup {b} ELSE ToSet(dirty_lru[i])
      /\ ToSet(clean_lru'[i]) =
           IF write THEN ToSet(clean_lru[i]) ELSE ToSet(clean_lru[i]) \cup {b}
      /\ IsInjective(dirty_lru[i]) => IsInjective(dirty_lru'[i])
      /\ IsInjective(clean_lru[i]) => IsInjective(clean_lru'[i])
  <2>1. /\ dirty_lru \in [SubRegions -> Seq(Blocks)] /\ clean_lru \in [SubRegions -> Seq(Blocks)]
        /\ present_blocks \in [SubRegions -> SUBSET Blocks]
    BY DEF IInv, TypeOK
  <2>2. b \notin ToSet(dirty_lru[i]) /\ b \notin ToSet(clean_lru[i])
    BY <1>5
  <2> HIDE DEF b
  <2>3. /\ ToSet(Cons(b, dirty_lru[i])) = ToSet(dirty_lru[i]) \cup {b}
        /\ IsInjective(dirty_lru[i]) => IsInjective(Cons(b, dirty_lru[i]))
    BY <1>2, <2>1, <2>2, ConsProperties
  <2>4. /\ ToSet(Cons(b, clean_lru[i])) = ToSet(clean_lru[i]) \cup {b}
        /\ IsInjective(clean_lru[i]) => IsInjective(Cons(b, clean_lru[i]))
    BY <1>2, <2>1, <2>2, ConsProperties
  <2> QED
    BY <1>3, <2>1, <2>3, <2>4 DEF PushFront
<1>7. \A j \in SubRegions : events_queues'[j].m_queue = events_queues[j].m_queue
  BY <1>3, ForgottenQueues DEF IInv
<1>8. /\ \A j \in SubRegions :
           /\ handlers'[j].fevent = handlers[j].fevent /\ Handling(j)' = Handling(j)
           /\ handlers'[j].pc = IF j = i THEN "wake" ELSE handlers[j].pc
           /\ AtWork(j)' => AtWork(j)
      /\ \A c \in Blocks : /\ Enlisting(c)' <=> IF c = b THEN FALSE ELSE Enlisting(c)
                           /\ Unprotecting(c)' <=> IF c = b THEN FALSE ELSE Unprotecting(c)
      /\ \A u \in Threads : blocked[u] # None => sub_region(Block(blocked[u])) \in SubRegions
  BY <1>1, <1>3, Onward DEF Places
<1>9. OwnersInv' /\ OnceInv'
  BY <1>3, <1>7, <1>8, GoOnMessages DEF LiveInv
<1>10. RegisteredInv' /\ SyncInv' /\ UNCHANGED <<pc, op>>
  BY <1>2, <1>3, HandlerRest
<1> USE SameBlocks
<1>11. PagesInv'
  <2>1. \A j \in SubRegions : ToSet(dirty_lru[j]) \subseteq ToSet(dirty_lru'[j])
    BY <1>6
  <2>2. PlacesInv'
    BY <1>1, <1>3, <1>8, <2>1 DEF LiveInv, PagesInv, PlacesInv
  <2>3. WaitersInv'
    BY <1>1, <1>3, <1>8 DEF LiveInv, PagesInv, WaitersInv
  <2> QED
    BY <2>2, <2>3 DEF PagesInv
<1> HIDE DEF b, write
<1>12. RecordsInv'
  <2>1. \A c \in Blocks : /\ c = b \/ Resident(c) => Resident(c)'
                          /\ c # b /\ Unprotecting(c) => Unprotecting(c)'
    BY <1>2, <1>3, <1>8 DEF Resident
  <2>2. RecordsInv /\ \A j, c : ~Synced(j, c)
    BY <1>2, IdleBooks DEF LiveInv, BooksInv
  <2>3. \A j \in SubRegions :
          /\ \A c \in ToSet(dirty_lru'[j]) :
               c \in ToSet(dirty_lru[j]) \/ (c = b /\ j = i /\ mapped[b] = "rw")
          /\ \A c \in ToSet(clean_lru'[j]) : c \in ToSet(clean_lru[j]) \/ c = b
          /\ \A c \in present_blocks'[j] : c \in present_blocks[j] \/ (c = b /\ j = i)
    BY <1>2, <1>6
  <2>4. \A j \in SubRegions :
          \A c \in ToSet(dirty_lru[j]) \cup ToSet(clean_lru[j]) \cup present_blocks[j] \cup stash_set[j] :
            Resident(c)' /\ (Unprotecting(c) => Unprotecting(c)')
    BY <1>5, <2>1
  <2>5. \A j \in SubRegions :
          \A c \in ToSet(dirty_lru'[j]) \cup present_blocks'[j] \cup stash_set[j] :
            sub_region(c) = j /\ Resident(c)'
    <3>1. \A j \in SubRegions :
            \A c \in ToSet(dirty_lru'[j]) \cup present_blocks'[j] \cup stash_set[j] :
              /\ c \in Blocks /\ sub_region(c) = j
              /\ c = b \/ Resident(c)
      BY <1>2, <1>5, <2>2, <2>3 DEF RecordsInv
    <3> QED
      BY <2>1, <3>1
  <2>6. \A j \in SubRegions : \A c \in ToSet(clean_lru'[j]) : Resident(c)'
    BY <1>2, <1>5, <2>1, <2>3
  <2>7. \A j \in SubRegions : IsInjective(dirty_lru'[j])
    BY <1>6, <2>2 DEF RecordsInv
  <2>8. \A j \in SubRegions : \A c \in ToSet(dirty_lru'[j]) :
          mapped[c] = "rw" \/ Unprotecting(c)'
    BY <2>2, <2>3, <2>4 DEF RecordsInv
  <2>9. \A j \in SubRegions : \A c \in stash_set[j] :
          mapped[c] = "rw" /\ c \notin ToSet(dirty_lru'[j])
    BY <1>5, <2>2, <2>3 DEF RecordsInv
  <2> QED
    BY <1>3, <2>5, <2>6, <2>7, <2>8, <2>9 DEF RecordsInv
<1>13. StashInv' /\ CleanSaved'
  <2>1. \A c \in Blocks : c \in ToSet(dirty_lru[sub_region(c)]) =>
                            c \in ToSet(dirty_lru'[sub_region(c)])
    BY <1>6, SubRegionOfBlock
  <2> QED
    BY <1>3, <2>1 DEF LiveInv, BooksInv, StashInv, Stashed, CleanSaved, Backing
<1>14. ASSUME OneList PROVE ListedInv'
  <2>1. ListedInv /\ \A j, c : ~Synced(j, c) /\ ~Synced(j, c)'
    BY <1>2, <1>3, <1>14, IdleBooks DEF LiveInv, BooksInv
  <2>2. \A j \in SubRegions : IsInjective(clean_lru'[j])
    BY <1>6, <2>1 DEF ListedInv
  <2>3. \A j \in SubRegions : present_blocks'[j] \subseteq ToSet(clean_lru'[j]) \cup ToSet(dirty_lru'[j])
    <3>1. ASSUME NEW j \in SubRegions, j = i
          PROVE  present_blocks'[j] \subseteq ToSet(clean_lru'[j]) \cup ToSet(dirty_lru'[j])
      BY <1>6, <2>1, <3>1 DEF ListedInv
    <3> QED
      BY <1>6, <2>1, <3>1 DEF ListedInv
  <2>4. \A j \in SubRegions : \A c \in ToSet(dirty_lru'[j]) : c \notin ToSet(clean_lru'[j])
    BY <1>5, <1>6, <2>1 DEF ListedInv
  <2> QED
    BY <2>1, <2>2, <2>3, <2>4 DEF ListedInv
<1> QED
  BY <1>9, <1>10, <1>11, <1>12, <1>13, <1>14 DEF LiveInv, BooksInv

LEMMA WakeLive ==
  ASSUME OwnSettings, IInv, LiveInv, NEW i \in SubRegions, Wake(i)
  PROVE  LiveInv' /\ UNCHANGED <<pc, op>>
<1>1. handlers[i].pc = "wake" /\ AtWork(i)
  BY DEF Wake, HandlerAt, AtWork
<1>2. op = "none" /\ registered /\ sub_region(Handling(i)) = i
  BY <1>1, AtWorkFacts
<1>3. /\ WakeBlock(Handling(i)) /\ Goto(i, NextEvent)
      /\ UNCHANGED <<acc, mapped, mem, registered, listener, events_queues, present_blocks,
                     clean_lru, dirty_lru, stash_set, blocks_ids, stash_file, pc, op, sync>>
      /\ NextEvent \in {"dequeue", "stopped"}
  BY DEF Wake, NextEvent, lists, call
<1>4. /\ \A j \in SubRegions :
           /\ handlers'[j].fevent = handlers[j].fevent /\ Handling(j)' = Handling(j)
           /\ handlers'[j].pc = IF j = i THEN NextEvent ELSE handlers[j].pc
           /\ AtWork(j)' => AtWork(j)
      /\ \A t \in Threads : blocked[t] # None =>
           Block(blocked[t]) \in Blocks /\ sub_region(Block(blocked[t])) \in SubRegions
  BY <1>1, <1>3, Onward DEF Places
<1>5. ~AtWork(i)'
  BY <1>3, <1>4 DEF AtWork
<1>6. /\ OwnersInv' /\ OnceInv'
      /\ \A t \in Threads : blocked'[t] # None =>
           blocked'[t] = blocked[t] /\ Block(blocked[t]) # Handling(i)
  BY <1>1, <1>3, <1>4, <1>5, WakeMessages DEF LiveInv, IInv
<1>7. RegisteredInv' /\ SyncInv' /\ UNCHANGED <<pc, op>>
  BY <1>2, <1>3, HandlerRest
<1> USE SameBlocks
<1>8. \A c \in Blocks : Enlisting(c)' = Enlisting(c) /\ Unprotecting(c)' = Unprotecting(c)
  BY <1>1, <1>3, <1>4, SubRegionOfBlock DEF Enlisting, Unprotecting, HandlerAt
<1>9. PagesInv'
  <2>1. PlacesInv'
    BY <1>3, <1>4 DEF LiveInv, PagesInv, PlacesInv
  <2>2. WaitersInv'
    <3>1. \A t \in Threads : blocked'[t] # None => handlers[i].fevent # blocked[t]
      BY <1>6 DEF Block, Handling
    <3> QED
      BY <1>3, <1>4, <1>6, <3>1 DEF LiveInv, PagesInv, WaitersInv
  <2> QED
    BY <2>1, <2>2 DEF PagesInv
<1>10. BooksInv'
  BY <1>3, <1>8, BooksStay DEF LiveInv, IInv
<1> QED
  BY <1>6, <1>7, <1>9, <1>10 DEF LiveInv

(* Nothing that a handler thread does fails, but making room may. *)
LEMMA HandlerLive ==
  ASSUME OwnSettings, IInv, LiveInv, NEW i \in SubRegions, handler(i)
  PROVE  \/ LiveInv' /\ UNCHANGED <<pc, op>>
         \/ /\ Exit /\ EvictionNeeded(i) /\ clean_lru[i] = <<>> /\ dirty_lru[i] = <<>>
            /\ Handling(i) \in Blocks /\ Handling(i) \notin present_blocks[i]
  BY DequeueLive, SkipPresentLive, HandleWpLive, UnprotectLive, RemoveProcessedLive,
     HandleAbsentLive, CopyLive, EnlistLive, WakeLive DEF handler

-------------------------------------------------------------------------------
(* A call works on pages that nobody else touches. *)
LEMMA CallFacts ==
  ASSUME IInv, LiveInv, op # "close", pc \in {"store", "commit"}
  PROVE  /\ op \in {"msync", "snapshot"} /\ op \in Calls /\ registered
         /\ sync.sub \in SubRegions
         /\ \A t \in Threads : acc[t] = None /\ blocked[t] = None
         /\ \A i \in SubRegions : ~AtWork(i)
         /\ \A b \in Blocks : ~Enlisting(b) /\ ~Unprotecting(b)
<1>1. op # "none" /\ registered
  BY DEF LiveInv, SyncInv, RegisteredInv, Open
<1>2. /\ \A t \in Threads : acc[t] = None /\ blocked[t] = None
      /\ \A i \in SubRegions : ~AtWork(i)
  BY <1>1, NothingUnderWay DEF LiveInv
<1>3. \A b \in Blocks : ~Enlisting(b) /\ ~Unprotecting(b)
  BY <1>2, SubRegionOfBlock DEF Enlisting, Unprotecting, HandlerAt, AtWork
<1>4. op \in {"msync", "snapshot"} /\ op \in Calls /\ sync.sub \in SubRegions
  BY <1>1, UffdAssumption DEF IInv, TypeOK
<1> QED
  BY <1>1, <1>2, <1>3, <1>4

(* No handler thread is anywhere between two of its steps: what is left of *)
(* the invariant is the books and how far the call has come.               *)
LEMMA CallRest ==
  ASSUME LiveInv, \A i \in SubRegions : ~AtWork(i),
         \A t \in Threads : acc[t] = None /\ blocked[t] = None,
         UNCHANGED <<acc, blocked, uffd, registered, listener, events_queues, handlers>>,
         registered
  PROVE  OwnersInv' /\ OnceInv' /\ PagesInv' /\ RegisteredInv'
<1>1. OwnersInv' /\ OnceInv'
  BY MessagesStay DEF LiveInv
<1>2. \A i \in SubRegions : handlers[i].pc \notin {"handle", "unprotect", "copy", "enlist", "wake"}
  BY DEF AtWork
<1>3. PagesInv'
  BY <1>2 DEF PagesInv, WaitersInv, PlacesInv
<1>4. RegisteredInv'
  BY DEF RegisteredInv
<1> QED
  BY <1>1, <1>3, <1>4

(* msync(i) has each block of the dirty list yet to do, and each once.     *)
LEMMA AllPending ==
  ASSUME TypeOK, NEW i \in SubRegions, StartSubRegion(i), dirty_lru' = dirty_lru,
         IsInjective(dirty_lru[i])
  PROVE  /\ pc' = "store" /\ sync'.sub = i /\ sync'.stored = {}
         /\ \A e \in sync'.todo : e[2] \in ToSet(dirty_lru[i])
         /\ \A e, f \in sync'.todo : e[2] = f[2] => e = f
         /\ \A j \in SubRegions : \A c \in ToSet(dirty_lru[j]) : ~Synced(j, c)'
<1>1. /\ pc' = "store" /\ sync'.sub = i /\ sync'.stored = {}
      /\ \A e \in sync'.todo : e[2] \in ToSet(dirty_lru[i])
      /\ \A b \in ToSet(dirty_lru[i]) : \E e \in sync'.todo : e[2] = b
  BY StartSubRegionSync
<1>2. \A e, f \in sync'.todo : e[2] = f[2] => e = f
  <2>1. sync'.todo = {<<k, dirty_lru[i][k]>> : k \in DOMAIN dirty_lru[i]}
    BY DEF StartSubRegion, Entries
  <2> QED
    BY <2>1 DEF IsInjective
<1>3. \A j \in SubRegions : \A c \in ToSet(dirty_lru[j]) : ~Synced(j, c)'
  BY <1>1 DEF Synced, Pending
<1> QED
  BY <1>1, <1>2, <1>3

(* From one sub-region to the next, in or out of msync(). *)
LEMMA BooksTurn ==
  ASSUME IInv, BooksInv, StashInv',
         UNCHANGED <<mapped, mem, present_blocks, clean_lru, dirty_lru, blocks_ids,
                     stash_file, handlers>>,
         \A j \in SubRegions : stash_set'[j] \subseteq stash_set[j],
         \A j \in SubRegions : \A c \in ToSet(dirty_lru[j]) : ~Synced(j, c) /\ ~Synced(j, c)'
  PROVE  BooksInv'
<1> USE SameBlocks, SameStages
<1>1. \A c \in Blocks : Resident(c)' = Resident(c)
  BY DEF Resident
<1>2. RecordsInv'
  BY <1>1, BookedBlocks DEF IInv, BooksInv, RecordsInv
<1>3. CleanSaved'
  BY DEF BooksInv, CleanSaved, Backing
<1>4. OneList => ListedInv'
  BY DEF BooksInv, ListedInv
<1> QED
  BY <1>2, <1>3, <1>4 DEF BooksInv

LEMMA StartCallLive ==
  ASSUME OwnSettings, IInv, LiveInv,
         StartMsync \/ \E v \in Versions : StartSnapshot(v)
  PROVE  LiveInv' /\ op' # "close" /\ pc' # "exited"
<1>1. /\ UNCHANGED <<acc, blocked, uffd, mapped, mem, registered, listener, events_queues,
                     handlers, present_blocks, clean_lru, dirty_lru, stash_set, blocks_ids,
                     stash_file>>
      /\ pc = "idle" /\ StartSubRegion(0) /\ op' \in {"msync", "snapshot"}
      /\ \A t \in Threads : acc[t] = None
  BY DEF StartMsync, StartSnapshot, MayCall, OwnSettings, app, threads, lists
<1>2. op = "none" /\ registered
  BY <1>1 DEF IInv, CallInv, LiveInv, RegisteredInv, Open
<1>3. 0 \in SubRegions /\ \A i \in SubRegions : ~(i < 0)
  BY UffdAssumption DEF SubRegions
<1>4. /\ pc' = "store" /\ sync'.sub = 0 /\ sync'.stored = {}
      /\ \A e \in sync'.todo : e[2] \in ToSet(dirty_lru[0])
      /\ \A e, f \in sync'.todo : e[2] = f[2] => e = f
      /\ \A j \in SubRegions : \A c \in ToSet(dirty_lru[j]) : ~Synced(j, c)'
  <2>1. IsInjective(dirty_lru[0])
    BY <1>3 DEF LiveInv, BooksInv, RecordsInv
  <2> QED
    BY <1>1, <1>3, <2>1, AllPending DEF IInv
<1>5. OwnersInv' /\ OnceInv' /\ PagesInv' /\ RegisteredInv'
  <2>1. /\ \A t \in Threads : blocked[t] = None
        /\ \A i \in SubRegions : ~AtWork(i)
    BY <1>1 DEF LiveInv, OwnersInv, Waits
  <2> QED
    BY <1>1, <1>2, <2>1, CallRest
<1> USE SameBlocks
<1>6. BooksInv'
  <2>1. StashInv'
    BY <1>1, <1>4 DEF LiveInv, BooksInv, StashInv, Stashed
  <2> QED
    BY <1>1, <1>4, <2>1, IdleBooks, BooksTurn DEF LiveInv
<1>7. SyncInv'
  BY <1>1, <1>3, <1>4 DEF SyncInv
<1> QED
  BY <1>1, <1>4, <1>5, <1>6, <1>7 DEF LiveInv

(* A block is stored as it is: what was clean stays saved. *)
LEMMA StoreBlockLive ==
  ASSUME OwnSettings, IInv, LiveInv, op # "close", StoreBlock
  PROVE  LiveInv' /\ op' = op /\ pc' = pc
<1>1. PICK e \in sync.todo :
        /\ blocks_ids' = IdsWith(e[2])
        /\ sync' = [sync EXCEPT !.todo = @ \ {e}, !.stored = @ \cup {e}]
  BY Zenon DEF StoreBlock
<1> DEFINE b == e[2]
<1>2. /\ pc = "store"
      /\ UNCHANGED <<acc, blocked, uffd, mapped, mem, registered, listener, events_queues,
                     handlers, present_blocks, clean_lru, dirty_lru, stash_set, stash_file,
                     pc, op>>
  BY DEF StoreBlock, app, threads, lists
<1>3. /\ op \in {"msync", "snapshot"} /\ registered /\ sync.sub \in SubRegions
      /\ \A t \in Threads : acc[t] = None /\ blocked[t] = None
      /\ \A i \in SubRegions : ~AtWork(i)
  BY <1>2, CallFacts
<1>4. b \in Blocks /\ b \in ToSet(dirty_lru[sync.sub]) /\ sub_region(b) = sync.sub
  <2>1. b \in Blocks
    BY DEF IInv, TypeOK
  <2>2. b \in ToSet(dirty_lru[sync.sub])
    BY <1>2 DEF LiveInv, SyncInv
  <2> HIDE DEF b
  <2> QED
    BY <1>3, <2>1, <2>2 DEF LiveInv, BooksInv, RecordsInv
<1>5. \A c \in Blocks : blocks_ids'[c] = IF c = b THEN mem[b] ELSE blocks_ids[c]
  BY <1>1, <1>4 DEF IInv, TypeOK, Image, IdsWith
<1>6. sync'.sub = sync.sub /\ sync'.todo = sync.todo \ {e} /\ sync'.stored = sync.stored \cup {e}
  BY <1>1 DEF IInv, TypeOK
<1>7. OwnersInv' /\ OnceInv' /\ PagesInv' /\ RegisteredInv'
  BY <1>2, <1>3, CallRest
<1>8. /\ sync'.todo \cup sync'.stored = sync.todo \cup sync.stored
      /\ \A j, c : Synced(j, c)' <=> Synced(j, c)
      /\ \A c : Pending(c)' <=> Pending(c)
  <2>1. sync'.todo \cup sync'.stored = sync.todo \cup sync.stored
    BY <1>6
  <2> QED
    BY <1>2, <1>6, <2>1 DEF Synced, Pending
<1> USE SameBlocks, SameStages
<1>9. RecordsInv'
  <2>1. \A c \in Blocks : Resident(c)' = Resident(c)
    BY <1>2 DEF Resident
  <2> QED
    BY <1>2, <1>8, <2>1, BookedBlocks DEF IInv, LiveInv, BooksInv, RecordsInv
<1>10. StashInv'
  BY <1>2 DEF LiveInv, BooksInv, StashInv, Stashed
<1>11. CleanSaved'
  <2>1. \A c \in Blocks : c # b => Backing(c)' = Backing(c)
    BY <1>2, <1>5 DEF Backing
  <2> QED
    BY <1>2, <1>4, <2>1 DEF LiveInv, BooksInv, CleanSaved
<1>12. OneList => ListedInv'
  BY <1>2, <1>8 DEF LiveInv, BooksInv, ListedInv
<1>13. SyncInv'
  <2>1. /\ \A d \in sync.todo \cup sync.stored :
             d[2] \in Blocks /\ d[2] \in ToSet(dirty_lru[sync.sub])
        /\ \A d, f \in sync.todo \cup sync.stored : d[2] = f[2] => d = f
        /\ sync.todo \cap sync.stored = {}
        /\ \A d \in sync.stored : blocks_ids[d[2]] = mem[d[2]]
        /\ \A c \in ToSet(dirty_lru[sync.sub]) :
             ~Pending(c) => mapped[c] = "wp" /\ blocks_ids[c] = mem[c]
    BY <1>2 DEF LiveInv, SyncInv, Synced, IInv, TypeOK
  <2>2. \A d \in sync'.stored : blocks_ids'[d[2]] = mem[d[2]]
    BY <1>5, <1>6, <2>1
  <2>3. ToSet(dirty_lru[sync.sub]) \subseteq Blocks
    BY <1>3, BookedBlocks DEF IInv
  <2>4. \A c \in ToSet(dirty_lru[sync.sub]) :
          ~Pending(c)' => mapped[c] = "wp" /\ blocks_ids'[c] = mem[c]
    BY <1>5, <1>8, <2>1, <2>3
  <2>5. \A i \in SubRegions : i < sync.sub => dirty_lru[i] = <<>>
    BY <1>3 DEF LiveInv, SyncInv
  <2>6. sync'.todo \cap sync'.stored = {}
    BY <1>6, <2>1
  <2> HIDE DEF b
  <2> QED
    BY <1>2, <1>3, <1>6, <1>8, <2>1, <2>2, <2>4, <2>5, <2>6 DEF SyncInv, Synced
<1> QED
  BY <1>2, <1>7, <1>9, <1>10, <1>11, <1>12, <1>13 DEF LiveInv, BooksInv

(* A block that has been stored is protected and, as long as there is one  *)
(* list, clean where it was dirty.                                         *)
LEMMA ProtectBlockLive ==
  ASSUME OwnSettings, IInv, LiveInv, op # "close", ProtectBlock
  PROVE  LiveInv' /\ op' = op /\ pc' = pc
<1>1. pc = "store"
  BY DEF ProtectBlock
<1>2. /\ op \in {"msync", "snapshot"} /\ op \in Calls /\ registered /\ sync.sub \in SubRegions
      /\ \A t \in Threads : acc[t] = None /\ blocked[t] = None
      /\ \A i \in SubRegions : ~AtWork(i)
      /\ \A c \in Blocks : ~Enlisting(c) /\ ~Unprotecting(c)
  BY <1>1, CallFacts
<1>3. PICK e \in sync.stored :
        /\ mapped' = Protected(e[2])
        /\ clean_lru' = PushFront(clean_lru, 0, e[2])
        /\ sync' = [sync EXCEPT !.stored = @ \ {e}]
  BY <1>2 DEF ProtectBlock, sub_region_of_address
<1> DEFINE b == e[2]
<1>4. UNCHANGED <<acc, blocked, uffd, mem, registered, listener, events_queues, handlers,
                  present_blocks, dirty_lru, stash_set, blocks_ids, stash_file, pc, op>>
  BY <1>2 DEF ProtectBlock, app, threads
<1>5. /\ b \in Blocks /\ b \in ToSet(dirty_lru[sync.sub]) /\ sub_region(b) = sync.sub
      /\ blocks_ids[b] = mem[b] /\ mapped[b] # "missing" /\ Pending(b)
      /\ \A d \in sync.todo \cup sync.stored : d[2] = b => d = e
  <2>1. b \in Blocks
    BY DEF IInv, TypeOK
  <2>2. b \in ToSet(dirty_lru[sync.sub]) /\ blocks_ids[b] = mem[b]
    BY <1>1 DEF LiveInv, SyncInv
  <2>3. \A d \in sync.todo \cup sync.stored : d[2] = b => d = e
    BY <1>1 DEF LiveInv, SyncInv
  <2>4. Pending(b)
    BY DEF Pending
  <2> HIDE DEF b
  <2> QED
    BY <1>2, <2>1, <2>2, <2>3, <2>4 DEF LiveInv, BooksInv, RecordsInv, Resident
<1>6. \A c \in Blocks : mapped'[c] = IF c = b THEN "wp" ELSE mapped[c]
  BY <1>3, <1>5 DEF IInv, TypeOK, Protected
<1>7. sync'.sub = sync.sub /\ sync'.todo = sync.todo /\ sync'.stored = sync.stored \ {e}
  BY <1>3 DEF IInv, TypeOK
<1>8. sync.todo \cap sync.stored = {}
  BY <1>1 DEF LiveInv, SyncInv
<1>9. \A c \in Blocks : Pending(c)' <=> Pending(c) /\ c # b
  BY <1>5, <1>7, <1>8 DEF Pending
<1>10. /\ 0 \in SubRegions
       /\ ToSet(clean_lru'[0]) = ToSet(clean_lru[0]) \cup {b}
       /\ \A i \in SubRegions : i # 0 => clean_lru'[i] = clean_lru[i]
       /\ IsInjective(clean_lru[0]) /\ b \notin ToSet(clean_lru[0]) => IsInjective(clean_lru'[0])
  <2>1. 0 \in SubRegions /\ clean_lru \in [SubRegions -> Seq(Blocks)]
    BY UffdAssumption DEF SubRegions, IInv, TypeOK
  <2> HIDE DEF b
  <2>2. /\ ToSet(Cons(b, clean_lru[0])) = ToSet(clean_lru[0]) \cup {b}
        /\ IsInjective(clean_lru[0]) /\ b \notin ToSet(clean_lru[0]) =>
             IsInjective(Cons(b, clean_lru[0]))
    BY <1>5, <2>1, ConsProperties
  <2>3. clean_lru' = [clean_lru EXCEPT ![0] = Cons(b, clean_lru[0])]
    BY <1>3 DEF PushFront, b
  <2> QED
    BY <2>1, <2>2, <2>3
<1>11. OwnersInv' /\ OnceInv' /\ PagesInv' /\ RegisteredInv'
  BY <1>2, <1>4, CallRest
<1> HIDE DEF b
<1> USE SameBlocks, SameStages
<1>12. \A i \in SubRegions : \A c \in ToSet(dirty_lru[i]) :
         c \in Blocks /\ sub_region(c) = i /\ (c = b => i = sync.sub)
  <2>1. \A i \in SubRegions : ToSet(dirty_lru[i]) \subseteq Blocks
    BY BookedBlocks DEF IInv
  <2> QED
    BY <1>5, <2>1 DEF LiveInv, BooksInv, RecordsInv
<1>13. \A i \in SubRegions : \A c \in ToSet(dirty_lru[i]) :
         Synced(i, c)' <=> Synced(i, c) \/ c = b
  BY <1>1, <1>4, <1>7, <1>9, <1>12 DEF Synced
<1>14. RecordsInv'
  <2>1. \A c \in Blocks : Resident(c) => Resident(c)'
    BY <1>2, <1>4, <1>6 DEF Resident
  <2>2. Resident(b) /\ RecordsInv
    BY <1>2, <1>5 DEF Resident, LiveInv, BooksInv
  <2>3. \A j \in SubRegions : /\ ToSet(dirty_lru[j]) \subseteq Blocks
                              /\ ToSet(clean_lru[j]) \subseteq Blocks
                              /\ present_blocks[j] \subseteq Blocks /\ stash_set[j] \subseteq Blocks
    BY BookedBlocks DEF IInv
  <2>4. \A j \in SubRegions :
          \A c \in ToSet(dirty_lru[j]) \cup present_blocks[j] \cup stash_set[j] :
            sub_region(c) = j /\ Resident(c)'
    BY <2>1, <2>2, <2>3 DEF RecordsInv
  <2>5. \A j \in SubRegions : \A c \in ToSet(clean_lru'[j]) : Resident(c)'
    <3>1. \A j \in SubRegions : \A c \in ToSet(clean_lru'[j]) : c \in Blocks /\ Resident(c)
      BY <1>5, <1>10, <2>2, <2>3 DEF RecordsInv
    <3> QED
      BY <2>1, <3>1
  <2>6. \A j \in SubRegions : \A c \in ToSet(dirty_lru[j]) : mapped'[c] = "rw" \/ Synced(j, c)'
    BY <1>2, <1>6, <1>12, <1>13, <2>2 DEF RecordsInv
  <2>7. \A j \in SubRegions : \A c \in stash_set[j] :
          mapped'[c] = "rw" /\ c \notin ToSet(dirty_lru[j])
    BY <1>5, <1>6, <2>2, <2>3 DEF RecordsInv
  <2> QED
    BY <1>4, <2>2, <2>4, <2>5, <2>6, <2>7 DEF RecordsInv
<1>15. StashInv'
  BY <1>1, <1>4 DEF LiveInv, BooksInv, StashInv, Stashed
<1>16. CleanSaved'
  BY <1>4, <1>5, <1>6 DEF LiveInv, BooksInv, CleanSaved, Backing
<1>17. ASSUME OneList PROVE ListedInv'
  <2>1. SubRegions = {0}
    BY <1>2, <1>17 DEF OneList, SubRegions
  <2>2. ListedInv
    BY <1>17 DEF LiveInv, BooksInv
  <2>3. sync.sub = 0 /\ b \notin ToSet(clean_lru[0])
    BY <1>2, <1>5, <2>1, <2>2 DEF ListedInv, Synced
  <2>4. \A c \in ToSet(dirty_lru[0]) : c \in ToSet(clean_lru'[0]) <=> Synced(0, c)'
    BY <1>10, <1>13, <2>2 DEF ListedInv
  <2> QED
    BY <1>4, <1>10, <2>1, <2>2, <2>3, <2>4 DEF ListedInv
<1>18. SyncInv'
  <2>1. /\ \A d \in sync.todo \cup sync.stored : d[2] \in ToSet(dirty_lru[sync.sub])
        /\ \A d, f \in sync.todo \cup sync.stored : d[2] = f[2] => d = f
        /\ \A d \in sync.stored : blocks_ids[d[2]] = mem[d[2]]
        /\ \A c \in ToSet(dirty_lru[sync.sub]) :
             ~Pending(c) => mapped[c] = "wp" /\ blocks_ids[c] = mem[c]
    BY <1>1 DEF LiveInv, SyncInv, Synced
  <2>2. \A c \in ToSet(dirty_lru[sync.sub]) :
          ~Pending(c)' => mapped'[c] = "wp" /\ blocks_ids[c] = mem[c]
    BY <1>2, <1>5, <1>6, <1>9, <1>12, <2>1
  <2>3. \A i \in SubRegions : i < sync.sub => dirty_lru[i] = <<>>
    BY <1>2 DEF LiveInv, SyncInv
  <2>4. sync'.todo \cup sync'.stored \subseteq sync.todo \cup sync.stored
    BY <1>7
  <2> QED
    BY <1>1, <1>2, <1>4, <1>7, <1>8, <2>1, <2>2, <2>3, <2>4 DEF SyncInv, Synced
<1> QED
  BY <1>4, <1>11, <1>14, <1>15, <1>16, <1>17, <1>18 DEF LiveInv, BooksInv

(* The dirty list goes when each block on it is protected and saved. *)
LEMMA ClearDirtyLive ==
  ASSUME OwnSettings, IInv, LiveInv, op # "close", ClearDirty
  PROVE  LiveInv' /\ op' = op /\ pc' = "commit"
<1>1. /\ pc = "store" /\ sync.todo = {} /\ sync.stored = {}
      /\ dirty_lru' = [dirty_lru EXCEPT ![sync.sub] = <<>>] /\ pc' = "commit"
      /\ sync' = [sync EXCEPT !.todo = {0} \X stash_set[sync.sub]]
      /\ UNCHANGED <<acc, blocked, uffd, mapped, mem, registered, listener, events_queues,
                     handlers, present_blocks, clean_lru, stash_set, blocks_ids, stash_file,
                     op>>
  BY DEF ClearDirty, DirtyEmptied, app, threads
<1>2. /\ op \in {"msync", "snapshot"} /\ registered /\ sync.sub \in SubRegions
      /\ \A t \in Threads : acc[t] = None /\ blocked[t] = None
      /\ \A i \in SubRegions : ~AtWork(i)
  BY <1>1, CallFacts
<1>3. /\ \A i \in SubRegions : dirty_lru'[i] = IF i = sync.sub THEN <<>> ELSE dirty_lru[i]
      /\ dirty_lru'[sync.sub] = <<>> /\ ToSet(<<>>) = {} /\ IsInjective(<<>>)
  BY <1>1, <1>2, ToSetEmpty DEF IInv, TypeOK
<1>4. sync'.sub = sync.sub /\ sync'.todo = {0} \X stash_set[sync.sub] /\ sync'.stored = {}
  BY <1>1 DEF IInv, TypeOK
<1>5. \A c \in ToSet(dirty_lru[sync.sub]) :
        Synced(sync.sub, c) /\ mapped[c] = "wp" /\ blocks_ids[c] = mem[c]
  <2>1. \A c : Synced(sync.sub, c)
    BY <1>1 DEF Synced, Pending
  <2> QED
    BY <1>1, <2>1 DEF LiveInv, SyncInv
<1>6. \A i \in SubRegions : ToSet(dirty_lru'[i]) \subseteq ToSet(dirty_lru[i])
  BY <1>3
<1>7. OwnersInv' /\ OnceInv' /\ PagesInv' /\ RegisteredInv'
  BY <1>1, <1>2, CallRest
<1> USE SameBlocks, SameStages
<1>8. /\ \A i, c : ~Synced(i, c)'
      /\ \A i, c : Synced(i, c) => i = sync.sub
  BY <1>1 DEF Synced
<1>9. RecordsInv /\ StashInv /\ CleanSaved /\ SyncInv /\ (OneList => ListedInv)
  BY DEF LiveInv, BooksInv
<1>10. RecordsInv'
  <2>1. \A c \in Blocks : Resident(c)' = Resident(c)
    BY <1>1 DEF Resident
  <2>2. \A j \in SubRegions : /\ ToSet(dirty_lru[j]) \subseteq Blocks
                              /\ ToSet(clean_lru[j]) \subseteq Blocks
                              /\ present_blocks[j] \subseteq Blocks /\ stash_set[j] \subseteq Blocks
    BY BookedBlocks DEF IInv
  <2>3. \A j \in SubRegions :
          \A c \in ToSet(dirty_lru'[j]) \cup present_blocks[j] \cup stash_set[j] :
            sub_region(c) = j /\ Resident(c)'
    BY <1>6, <1>9, <2>1, <2>2 DEF RecordsInv
  <2>4. \A j \in SubRegions : \A c \in ToSet(clean_lru[j]) : Resident(c)'
    BY <1>9, <2>1, <2>2 DEF RecordsInv
  <2>5. \A j \in SubRegions : IsInjective(dirty_lru'[j])
    BY <1>3, <1>9 DEF RecordsInv
  <2>6. \A j \in SubRegions : \A c \in ToSet(dirty_lru'[j]) : mapped[c] = "rw" \/ Unprotecting(c)'
    BY <1>1, <1>3, <1>8, <1>9, <2>2 DEF RecordsInv
  <2>7. \A j \in SubRegions : \A c \in stash_set[j] :
          mapped[c] = "rw" /\ c \notin ToSet(dirty_lru'[j])
    BY <1>6, <1>9 DEF RecordsInv
  <2> QED
    BY <1>1, <2>3, <2>4, <2>5, <2>6, <2>7 DEF RecordsInv
<1>11. StashInv'
  BY <1>1, <1>4, <1>9 DEF StashInv, Stashed
<1>12. CleanSaved'
  <2>1. \A c \in Blocks : Backing(c)' = Backing(c)
    BY <1>1 DEF Backing
  <2>2. ASSUME NEW c \in Blocks, c \in ToSet(dirty_lru[sync.sub])
        PROVE  mem[c] = Backing(c)
    <3>1. c \notin stash_set[sync.sub] /\ sub_region(c) = sync.sub
      BY <1>2, <1>9, <2>2 DEF RecordsInv
    <3>2. stash_file[c] = None
      BY <1>1, <1>9, <3>1 DEF StashInv, Stashed
    <3> QED
      BY <1>5, <2>2, <3>2 DEF Backing
  <2>3. \A c \in Blocks : c \in ToSet(dirty_lru[sub_region(c)]) =>
          c \in ToSet(dirty_lru'[sub_region(c)]) \/ c \in ToSet(dirty_lru[sync.sub])
    BY <1>3, SubRegionOfBlock
  <2> QED
    BY <1>1, <1>9, <2>1, <2>2, <2>3 DEF CleanSaved
<1>13. ASSUME OneList PROVE ListedInv'
  <2>1. ListedInv
    BY <1>9, <1>13
  <2>2. ToSet(dirty_lru[sync.sub]) \subseteq ToSet(clean_lru[sync.sub])
    BY <1>2, <1>5, <2>1 DEF ListedInv
  <2>3. \A j \in SubRegions : present_blocks[j] \subseteq ToSet(clean_lru[j]) \cup ToSet(dirty_lru'[j])
    BY <1>3, <2>1, <2>2 DEF ListedInv
  <2>4. \A j \in SubRegions : \A c \in ToSet(dirty_lru'[j]) : c \notin ToSet(clean_lru[j])
    BY <1>3, <1>8, <2>1 DEF ListedInv
  <2> QED
    BY <1>1, <1>8, <2>1, <2>3, <2>4 DEF ListedInv
<1>14. SyncInv'
  <2>1. \A i \in SubRegions : i < sync.sub => dirty_lru[i] = <<>>
    BY <1>2, <1>9 DEF SyncInv
  <2> QED
    BY <1>1, <1>2, <1>3, <1>4, <2>1 DEF SyncInv
<1> QED
  BY <1>1, <1>7, <1>10, <1>11, <1>12, <1>13, <1>14 DEF LiveInv, BooksInv

(* Each stashed block has its file, which becomes the file of its id.      *)
LEMMA CommitBlockLive ==
  ASSUME OwnSettings, IInv, LiveInv, op # "close", CommitBlock
  PROVE  LiveInv' /\ op' = op /\ pc' = pc
<1>1. PICK e \in sync.todo :
        \/ stash_file[e[2]] = None
        \/ /\ stash_file[e[2]] # None
           /\ blocks_ids' = [blocks_ids EXCEPT ![e[2]] = stash_file[e[2]]]
           /\ stash_file' = [stash_file EXCEPT ![e[2]] = None]
           /\ sync' = [sync EXCEPT !.todo = @ \ {e}]
           /\ UNCHANGED <<app, mapped, mem, registered, threads, lists, pc, op>>
  BY DEF CommitBlock
<1>2. pc = "commit"
  BY DEF CommitBlock
<1>3. /\ op \in {"msync", "snapshot"} /\ registered /\ sync.sub \in SubRegions
      /\ \A t \in Threads : acc[t] = None /\ blocked[t] = None
      /\ \A i \in SubRegions : ~AtWork(i)
  BY <1>2, CallFacts
<1>4. RecordsInv /\ StashInv /\ CleanSaved /\ SyncInv /\ (OneList => ListedInv)
  BY DEF LiveInv, BooksInv
<1> DEFINE b == e[2]
<1>5. /\ e = <<0, b>> /\ b \in stash_set[sync.sub] /\ b \in Blocks
      /\ sub_region(b) = sync.sub /\ stash_file[b] # None
  <2>1. e = <<0, b>> /\ b \in stash_set[sync.sub]
    BY <1>2, <1>4 DEF StashInv
  <2>2. stash_set[sync.sub] \subseteq Blocks
    BY <1>3, BookedBlocks DEF IInv
  <2>3. sub_region(b) = sync.sub
    BY <1>3, <1>4, <2>1 DEF RecordsInv
  <2> QED
    BY <1>2, <1>4, <2>1, <2>2, <2>3 DEF StashInv, Stashed
<1>6. UNCHANGED <<acc, blocked, uffd, mapped, mem, registered, listener, events_queues,
                  handlers, present_blocks, clean_lru, dirty_lru, stash_set, pc, op>>
  BY <1>1, <1>5 DEF app, threads, lists
<1>7. /\ \A c \in Blocks : blocks_ids'[c] = IF c = b THEN stash_file[b] ELSE blocks_ids[c]
      /\ \A c \in Blocks : stash_file'[c] = IF c = b THEN None ELSE stash_file[c]
      /\ sync'.sub = sync.sub /\ sync'.todo = sync.todo \ {<<0, b>>}
  <2>1. /\ sync \in [sub : SubRegions, todo : SUBSET (Nat \X Blocks), stored : SUBSET (Nat \X Blocks)]
        /\ blocks_ids \in [Blocks -> Values] /\ stash_file \in [Blocks -> Values \cup {None}]
    BY DEF IInv, TypeOK, Image
  <2> QED
    BY <1>1, <1>5, <2>1
<1> HIDE DEF b
<1>8. OwnersInv' /\ OnceInv' /\ PagesInv' /\ RegisteredInv'
  BY <1>3, <1>6, CallRest
<1> USE SameBlocks, SameStages
<1>9. \A i, c : ~Synced(i, c) /\ ~Synced(i, c)'
  BY <1>2, <1>6 DEF Synced
<1>10. RecordsInv'
  <2>1. \A c \in Blocks : Resident(c)' = Resident(c)
    BY <1>6 DEF Resident
  <2> QED
    BY <1>4, <1>6, <1>9, <2>1, BookedBlocks DEF IInv, RecordsInv
<1>11. StashInv'
  <2>1. \A c \in Blocks : <<0, c>> \in sync'.todo <=> <<0, c>> \in sync.todo /\ c # b
    BY <1>7
  <2>2. \A c \in Blocks : Stashed(c)' <=> Stashed(c) /\ c # b
    BY <1>2, <1>5, <1>6, <1>7, <2>1 DEF Stashed
  <2> QED
    BY <1>2, <1>4, <1>6, <1>7, <2>2 DEF StashInv
<1>12. CleanSaved'
  <2>1. \A c \in Blocks : Backing(c)' = Backing(c)
    BY <1>5, <1>7 DEF Backing
  <2> QED
    BY <1>4, <1>6, <2>1 DEF CleanSaved
<1>13. OneList => ListedInv'
  BY <1>4, <1>6, <1>9 DEF ListedInv
<1>14. SyncInv'
  BY <1>2, <1>3, <1>4, <1>6, <1>7 DEF SyncInv
<1> QED
  BY <1>6, <1>8, <1>10, <1>11, <1>12, <1>13, <1>14 DEF LiveInv, BooksInv

LEMMA EndSubRegionLive ==
  ASSUME OwnSettings, IInv, LiveInv, op # "close", EndSubRegion
  PROVE  LiveInv' /\ op' # "close" /\ pc' # "exited"
<1> DEFINE i == sync.sub
<1>1. /\ pc = "commit" /\ sync.todo = {} /\ stash_set' = [stash_set EXCEPT ![i] = {}]
      /\ UNCHANGED <<acc, blocked, uffd, mapped, mem, registered, listener, events_queues,
                     handlers, present_blocks, clean_lru, dirty_lru, blocks_ids, stash_file>>
  BY DEF EndSubRegion, StashEmptied, app, threads
<1>2. /\ op \in {"msync", "snapshot"} /\ registered /\ i \in SubRegions
      /\ \A t \in Threads : acc[t] = None /\ blocked[t] = None
      /\ \A j \in SubRegions : ~AtWork(j)
  BY <1>1, CallFacts
<1>3. \A j \in SubRegions : stash_set'[j] = IF j = i THEN {} ELSE stash_set[j]
  BY <1>1, <1>2 DEF IInv, TypeOK
<1>4. \/ i + 1 \in SubRegions /\ StartSubRegion(i + 1) /\ op' = op
      \/ pc' = "idle" /\ op' = "none"
  BY <1>2 DEF EndSubRegion
<1>5. RecordsInv /\ StashInv /\ SyncInv /\ BooksInv
  BY DEF LiveInv, BooksInv
<1>6. OwnersInv' /\ OnceInv' /\ PagesInv' /\ RegisteredInv'
  BY <1>1, <1>2, CallRest
<1> USE SameBlocks
<1>7. pc' # "commit" => StashInv'
  <2>1. \A c \in Blocks : stash_file[c] # None <=> c \in stash_set'[sub_region(c)]
    BY <1>1, <1>3, <1>5, SubRegionOfBlock DEF StashInv, Stashed
  <2> QED
    BY <1>1, <2>1 DEF StashInv, Stashed
<1>8. \A j, c : ~Synced(j, c)
  BY <1>1 DEF Synced
<1>9. \A j \in SubRegions : j <= i => dirty_lru[j] = <<>>
  <2>1. \A j \in SubRegions : j <= i => j < i \/ j = i
    BY <1>2 DEF SubRegions
  <2> QED
    BY <1>1, <1>2, <1>5, <2>1 DEF SyncInv
<1>10. CASE i + 1 \in SubRegions /\ StartSubRegion(i + 1) /\ op' = op
  <2>1. /\ pc' = "store" /\ sync'.sub = i + 1 /\ sync'.stored = {}
        /\ \A e \in sync'.todo : e[2] \in ToSet(dirty_lru[i + 1])
        /\ \A e, f \in sync'.todo : e[2] = f[2] => e = f
        /\ \A j \in SubRegions : \A c \in ToSet(dirty_lru[j]) : ~Synced(j, c)'
    <3>1. IsInjective(dirty_lru[i + 1])
      BY <1>5, <1>10 DEF RecordsInv
    <3> HIDE DEF i
    <3> QED
      BY <1>1, <1>10, <3>1, AllPending DEF IInv
  <2>2. BooksInv'
    BY <1>1, <1>3, <1>5, <1>7, <1>8, <2>1, BooksTurn
  <2>3. SyncInv'
    <3>1. \A j \in SubRegions : j < i + 1 => j <= i
      BY <1>2 DEF SubRegions
    <3> HIDE DEF i
    <3> QED
      BY <1>1, <1>2, <1>9, <1>10, <2>1, <3>1 DEF SyncInv
  <2> QED
    BY <1>2, <1>6, <1>10, <2>1, <2>2, <2>3 DEF LiveInv
<1>11. CASE pc' = "idle" /\ op' = "none"
  <2>1. \A j, c : ~Synced(j, c)'
    BY <1>11 DEF Synced
  <2>2. BooksInv'
    BY <1>1, <1>3, <1>5, <1>7, <1>8, <1>11, <2>1, BooksTurn
  <2>3. SyncInv'
    BY <1>11 DEF SyncInv
  <2> QED
    BY <1>6, <1>11, <2>2, <2>3 DEF LiveInv
<1> QED
  BY <1>4, <1>10, <1>11

-------------------------------------------------------------------------------
(* The destructor's call leaves nothing protected and nobody to serve; the *)
(* next manager is a new one.                                              *)
LEMMA ListedStays ==
  ASSUME OneList => ListedInv, UNCHANGED <<present_blocks, clean_lru, dirty_lru>>,
         \A i \in SubRegions : \A c \in ToSet(dirty_lru[i]) : Synced(i, c)' <=> Synced(i, c)
  PROVE  OneList => ListedInv'
  BY DEF ListedInv

LEMMA UnregisterRegionClosing ==
  ASSUME OwnSettings, IInv, LiveInv, UnregisterRegion
  PROVE  op' = "close" /\ ClosingInv' /\ pc' # "exited"
<1>1. /\ pc = "idle" /\ op' = "close" /\ pc' = "stop_listener" /\ registered' = FALSE
      /\ mapped' = [b \in Blocks |-> IF mapped[b] = "wp" THEN "rw" ELSE mapped[b]]
      /\ events_queues' = StopEvents
      /\ \A t \in Threads : acc[t] = None
      /\ UNCHANGED <<acc, handlers, present_blocks, clean_lru, dirty_lru>>
  BY DEF UnregisterRegion, MayCall, lists
<1>2. \A t \in Threads : blocked[t] = None
  BY <1>1 DEF LiveInv, OwnersInv
<1>3. /\ \A i \in SubRegions : ~AtWork(i) /\ ToSet(Queue(i)) = {}
      /\ \A i \in SubRegions : AtWork(i)' <=> AtWork(i)
  BY <1>1, <1>2 DEF LiveInv, OwnersInv, Waits, AtWork
<1>4. ASSUME NEW i \in SubRegions
      PROVE  \A e \in ToSet(Queue(i)') : e.address = 0
  <2>1. Queue(i) \in Seq(Event(Addresses)) /\ StopEvent \in Event(Addresses) /\ StopEvent.address = 0
    BY DEF Queue, StopEvent, Event, Addresses, IInv, TypeOK, EventQueue
  <2>2. Queue(i)' = Append(Queue(i), StopEvent)
    BY <1>1 DEF StopEvents, enqueue, Queue
  <2> QED
    BY <1>3, <2>1, <2>2, AppendElements
<1>5. OneList => ListedInv'
  <2>1. \A i, c : Synced(i, c)' <=> Synced(i, c)
    BY <1>1 DEF Synced
  <2> QED
    BY <1>1, <2>1, ListedStays DEF LiveInv, BooksInv
<1>6. \A i \in SubRegions : IsInjective(dirty_lru'[i])
  BY <1>1 DEF LiveInv, BooksInv, RecordsInv
<1>7. \A b \in Blocks : mapped'[b] # "wp"
  BY <1>1
<1> QED
  BY <1>1, <1>3, <1>4, <1>5, <1>6, <1>7 DEF ClosingInv

(* Handler threads that are given nothing but stop events. *)
LEMMA ClosingHandler ==
  ASSUME IInv, op = "close", ClosingInv, NEW i \in SubRegions, handler(i)
  PROVE  ClosingInv' /\ op' = op
<1>1. Dequeue(i) \/ RemoveProcessed(i)
  BY DEF handler, SkipPresent, HandleWp, Unprotect, HandleAbsent, Copy, Enlist, Wake,
         HandlerAt, ClosingInv, AtWork
<1>2. UNCHANGED <<acc, mapped, registered, present_blocks, clean_lru, dirty_lru, pc, op, sync>>
  BY <1>1 DEF Dequeue, RemoveProcessed, app, lists, call
<1>3. OneList => ListedInv'
  <2>1. \A j, c : Synced(j, c)' <=> Synced(j, c)
    BY <1>2 DEF Synced, Pending
  <2> QED
    BY <1>2, <2>1, ListedStays DEF ClosingInv
<1>4. \A j \in SubRegions : ~AtWork(j)' /\ \A e \in ToSet(Queue(j)') : e.address = 0
  <2>1. CASE Dequeue(i)
    <3> DEFINE q == events_queues[i].m_queue
    <3>1. /\ q # <<>> /\ q \in Seq(Event(Addresses))
          /\ handlers' = [handlers EXCEPT ![i] =
               [pc |-> IF Head(q).address = 0 THEN "stopped" ELSE "handle", fevent |-> Head(q)]]
          /\ events_queues' = [events_queues EXCEPT ![i] = dequeue(@)]
      BY <2>1 DEF Dequeue, IInv, TypeOK, EventQueue, CanDequeue, front
    <3>2. Head(q) \in ToSet(q) /\ ToSet(Tail(q)) \subseteq ToSet(q)
      BY <3>1, HeadTailElements
    <3>3. Head(q).address = 0
      BY <3>2 DEF ClosingInv, Queue
    <3>4. \A j \in SubRegions : /\ handlers'[j].pc = IF j = i THEN "stopped" ELSE handlers[j].pc
                                /\ Queue(j)' = IF j = i THEN Tail(q) ELSE Queue(j)
      <4>1. events_queues[i] \in EventQueue(Addresses)
        BY DEF IInv, TypeOK
      <4>2. dequeue(events_queues[i]).m_queue = Tail(q)
        BY <4>1 DEF dequeue, EventQueue
      <4> HIDE DEF q
      <4> QED
        BY <3>1, <3>3, <4>2 DEF IInv, TypeOK, Queue
    <3>5. q = Queue(i)
      BY DEF Queue
    <3> HIDE DEF q
    <3> QED
      BY <3>2, <3>4, <3>5 DEF ClosingInv, AtWork
  <2>2. CASE RemoveProcessed(i)
    <3>1. /\ \A j \in SubRegions : events_queues'[j].m_queue = events_queues[j].m_queue
          /\ Goto(i, NextEvent)
      BY <2>2, ForgottenQueues DEF RemoveProcessed, IInv
    <3>2. \A j \in SubRegions :
            handlers'[j].pc = IF j = i THEN NextEvent ELSE handlers[j].pc
      BY <3>1, GotoHandlers DEF IInv, NextEvent, Places
    <3> QED
      BY <3>1, <3>2 DEF ClosingInv, AtWork, Queue, NextEvent
  <2> QED
    BY <1>1, <2>1, <2>2
<1> QED
  BY <1>2, <1>3, <1>4 DEF ClosingInv

(* The rest of the destructor, which saves what the lists still say. *)
LEMMA ClosingCaller ==
  ASSUME IInv, op = "close", ClosingInv, Caller
  PROVE  QInv'
<1>1. CASE JoinHandlers
  BY <1>1, ManagerFresh DEF JoinHandlers
<1>2. CASE Exit
  BY <1>2, ExitFresh
<1>3. SUFFICES ASSUME ~JoinHandlers, ~Exit PROVE QInv'
  BY <1>1, <1>2
<1>4. ASSUME UNCHANGED <<acc, mapped, registered, handlers, events_queues, dirty_lru, op>>,
             OneList => ListedInv'
      PROVE  QInv'
  <2>1. \A i \in SubRegions : (AtWork(i)' <=> AtWork(i)) /\ Queue(i)' = Queue(i)
    BY <1>4 DEF AtWork, Queue
  <2> QED
    BY <1>4, <2>1 DEF QInv, ClosingInv
<1>5. CASE StoreBlock
  <2>1. PICK e \in sync.todo : sync' = [sync EXCEPT !.todo = @ \ {e}, !.stored = @ \cup {e}]
    BY <1>5, Zenon DEF StoreBlock
  <2>2. /\ sync'.sub = sync.sub
        /\ sync'.todo \cup sync'.stored = sync.todo \cup sync.stored
    BY <2>1 DEF IInv, TypeOK
  <2>3. UNCHANGED <<acc, mapped, registered, handlers, events_queues, present_blocks,
                    clean_lru, dirty_lru, pc, op>>
    BY <1>5 DEF StoreBlock, app, threads, lists
  <2>4. \A i, c : Synced(i, c)' <=> Synced(i, c)
    BY <2>2, <2>3 DEF Synced, Pending
  <2> QED
    BY <1>4, <2>3, <2>4, ListedStays DEF ClosingInv
<1>6. ~ProtectBlock
  BY <1>3 DEF ProtectBlock, ClosingInv
<1>7. CASE ClearDirty
  <2>1. /\ pc = "store" /\ sync.todo = {} /\ sync.stored = {}
        /\ dirty_lru' = [dirty_lru EXCEPT ![sync.sub] = <<>>] /\ pc' = "commit"
        /\ UNCHANGED <<acc, mapped, registered, handlers, events_queues, present_blocks,
                       clean_lru, op>>
    BY <1>7 DEF ClearDirty, DirtyEmptied, app, threads
  <2>2. /\ \A i \in SubRegions : dirty_lru'[i] = IF i = sync.sub THEN <<>> ELSE dirty_lru[i]
        /\ ToSet(<<>>) = {} /\ IsInjective(<<>>)
    BY <2>1, ToSetEmpty DEF IInv, TypeOK
  <2>3. /\ \A i, c : ~Synced(i, c)'
        /\ \A i, c : Synced(i, c) <=> i = sync.sub
    BY <2>1 DEF Synced, Pending
  <2>4. ASSUME OneList PROVE ListedInv'
    <3>1. ListedInv
      BY <2>4 DEF ClosingInv
    <3>2. \A j \in SubRegions : present_blocks[j] \subseteq ToSet(clean_lru[j]) \cup ToSet(dirty_lru'[j])
      BY <2>2, <2>3, <3>1 DEF ListedInv
    <3>3. \A j \in SubRegions : \A c \in ToSet(dirty_lru'[j]) : c \notin ToSet(clean_lru[j])
      BY <2>2, <2>3, <3>1 DEF ListedInv
    <3> QED
      BY <2>1, <2>3, <3>1, <3>2, <3>3 DEF ListedInv
  <2>5. \A i \in SubRegions : IsInjective(dirty_lru'[i])
    BY <2>2 DEF ClosingInv
  <2>6. \A i \in SubRegions : (AtWork(i)' <=> AtWork(i)) /\ Queue(i)' = Queue(i)
    BY <2>1 DEF AtWork, Queue
  <2> QED
    BY <2>1, <2>4, <2>5, <2>6 DEF QInv, ClosingInv
<1>8. CASE CommitBlock
  <2>1. /\ pc = "commit"
        /\ UNCHANGED <<acc, mapped, registered, handlers, events_queues, present_blocks,
                       clean_lru, dirty_lru, pc, op>>
    BY <1>3, <1>8 DEF CommitBlock, app, threads, lists
  <2>2. \A i, c : Synced(i, c)' <=> Synced(i, c)
    BY <2>1 DEF Synced
  <2> QED
    BY <1>4, <2>1, <2>2, ListedStays DEF ClosingInv
<1>9. ASSUME NEW i \in SubRegions, StartSubRegion(i), pc # "store",
             UNCHANGED <<acc, mapped, registered, handlers, events_queues, present_blocks,
                         clean_lru, dirty_lru, op>>
      PROVE  QInv'
  <2>1. IsInjective(dirty_lru[i])
    BY DEF ClosingInv
  <2>2. \A j \in SubRegions : \A c \in ToSet(dirty_lru[j]) : ~Synced(j, c)'
    BY <1>9, <2>1, AllPending DEF IInv
  <2>3. \A j, c : ~Synced(j, c)
    BY <1>9 DEF Synced
  <2> QED
    BY <1>4, <1>9, <2>2, <2>3, ListedStays DEF ClosingInv
<1>10. CASE EndSubRegion
  <2>1. /\ pc = "commit"
        /\ UNCHANGED <<acc, mapped, registered, handlers, events_queues, present_blocks,
                       clean_lru, dirty_lru>>
        /\ \/ sync.sub + 1 \in SubRegions /\ StartSubRegion(sync.sub + 1) /\ op' = op
           \/ pc' = "unmap" /\ op' = op
    BY <1>10 DEF EndSubRegion, app, threads
  <2>2. CASE sync.sub + 1 \in SubRegions /\ StartSubRegion(sync.sub + 1) /\ op' = op
    BY <1>9, <2>1, <2>2
  <2>3. CASE pc' = "unmap" /\ op' = op
    <3>1. \A i, c : Synced(i, c)' <=> Synced(i, c)
      BY <2>1, <2>3 DEF Synced
    <3> QED
      BY <1>4, <2>1, <2>3, <3>1, ListedStays DEF ClosingInv
  <2> QED
    BY <2>1, <2>2, <2>3
<1>11. CASE JoinListener
  <2>1. 0 \in SubRegions
    BY UffdAssumption DEF SubRegions
  <2> QED
    BY <1>9, <1>11, <2>1 DEF JoinListener, app, threads, lists
<1>12. CASE Unmap
  <2>1. /\ pc = "unmap" /\ pc' = "join"
        /\ events_queues' = [events_queues EXCEPT ![0] = StoppedForAll(@)]
        /\ \A b \in Blocks : mapped'[b] \in {mapped[b], "missing"}
        /\ UNCHANGED <<acc, registered, handlers, present_blocks, clean_lru, dirty_lru, op>>
    BY <1>12 DEF Unmap, app, lists
  <2>2. OneList => ListedInv'
    <3>1. \A i, c : Synced(i, c)' <=> Synced(i, c)
      BY <2>1 DEF Synced
    <3> QED
      BY <2>1, <3>1, ListedStays DEF ClosingInv
  <2>3. ASSUME NEW i \in SubRegions PROVE \A e \in ToSet(Queue(i)') : e.address = 0
    <3> DEFINE stops == [k \in 1 .. num_handling_threads |-> StopEvent]
    <3>1. /\ stops \in Seq(Event(Addresses)) /\ \A k \in DOMAIN stops : stops[k].address = 0
          /\ Queue(i) \in Seq(Event(Addresses))
      <4>1. StopEvent \in Event(Addresses) /\ StopEvent.address = 0
        BY DEF StopEvent, Event, Addresses
      <4>2. Queue(i) \in Seq(Event(Addresses))
        BY DEF IInv, TypeOK, EventQueue, Queue
      <4>3. num_handling_threads \in Nat
        BY UffdAssumption
      <4>4. stops \in Seq(Event(Addresses))
        BY <4>1, <4>3
      <4>5. \A k \in DOMAIN stops : stops[k].address = 0
        BY <4>1
      <4> QED
        BY <4>2, <4>4, <4>5
    <3>2. StoppedForAll(events_queues[i]) = [events_queues[i] EXCEPT !.m_queue = @ \o stops]
      BY DEF StoppedForAll
    <3> HIDE DEF stops
    <3>5. Queue(i)' \in {Queue(i), Queue(i) \o stops}
      <4>1. /\ events_queues[i] \in EventQueue(Addresses)
            /\ events_queues \in [SubRegions -> EventQueue(Addresses)]
        BY DEF IInv, TypeOK
      <4>2. StoppedForAll(events_queues[i]).m_queue = Queue(i) \o stops
        BY <3>2, <4>1 DEF EventQueue, Queue
      <4>3. events_queues'[i] \in {events_queues[i], StoppedForAll(events_queues[i])}
        BY <2>1, <4>1
      <4> QED
        BY <4>2, <4>3 DEF Queue
    <3>3. \A e \in ToSet(Queue(i)) : e.address = 0
      BY DEF ClosingInv
    <3>4. \A k \in DOMAIN (Queue(i) \o stops) : (Queue(i) \o stops)[k].address = 0
      <4>1. \A k \in 1 .. Len(Queue(i)) : Queue(i)[k].address = 0
        BY <3>1, <3>3 DEF ToSet
      <4> QED
        BY <3>1, <4>1
    <3> QED
      BY <3>3, <3>4, <3>5 DEF ToSet
  <2>4. \A i \in SubRegions : AtWork(i)' <=> AtWork(i)
    BY <2>1 DEF AtWork
  <2> QED
    BY <2>1, <2>2, <2>3, <2>4 DEF QInv, ClosingInv
<1> QED
  BY <1>3, <1>5, <1>6, <1>7, <1>8, <1>10, <1>11, <1>12 DEF Caller

LEMMA Closing ==
  ASSUME IInv, op = "close", ClosingInv, [Next]_vars
  PROVE  QInv'
<1>1. pc \notin {"closed", "exited", "idle"}
  BY DEF IInv, CallInv
<1>2. ASSUME UNCHANGED <<acc, mapped, registered, handlers, events_queues, present_blocks,
                         clean_lru, dirty_lru, pc, op, sync>>
      PROVE  QInv'
  <2>1. \A i \in SubRegions : (AtWork(i)' <=> AtWork(i)) /\ Queue(i)' = Queue(i)
    BY <1>2 DEF AtWork, Queue
  <2>2. \A i, c : Synced(i, c)' <=> Synced(i, c)
    BY <1>2 DEF Synced, Pending
  <2>3. OneList => ListedInv'
    BY <1>2, <2>2, ListedStays DEF ClosingInv
  <2> QED
    BY <1>2, <2>1, <2>3 DEF QInv, ClosingInv
<1>3. CASE UNCHANGED vars
  BY <1>2, <1>3 DEF vars, app, threads, lists, call
<1>4. ASSUME NEW v \in Versions PROVE ~(Create(v) \/ OpenVersion(v) \/ StartSnapshot(v))
  BY <1>1 DEF Create, OpenVersion, StartSnapshot, MayCall, Open
<1>5. ASSUME NEW t \in Threads PROVE ~(BeginAccess(t) \/ FinishAccess(t) \/ PageFault(t))
  BY DEF BeginAccess, FinishAccess, PageFault, ClosingInv
<1>6. CASE Listener
  <2>1. CASE Exit
    BY <2>1, ExitFresh
  <2>2. CASE Poll
    BY <1>2, <2>2 DEF Poll, app, lists, call
  <2>3. CASE Read
    BY <1>2, <2>1, <2>3 DEF Read, lists, call
  <2>4. CASE Dispatch
    BY <2>1, <2>4 DEF Dispatch, ClosingInv
  <2> QED
    BY <1>6, <2>2, <2>3, <2>4 DEF Listener
<1>7. ASSUME NEW i \in SubRegions, handler(i) PROVE QInv'
  BY <1>7, ClosingHandler DEF QInv
<1>8. ~(StartMsync \/ UnregisterRegion)
  BY <1>1 DEF StartMsync, UnregisterRegion, MayCall
<1>9. CASE Caller
  BY <1>9, ClosingCaller
<1> QED
  BY <1>3, <1>4, <1>5, <1>6, <1>7, <1>8, <1>9 DEF Next

-------------------------------------------------------------------------------
(* Only where eviction finds both lists empty does the process die. *)
NoVictim(i) ==
  /\ EvictionNeeded(i) /\ clean_lru[i] = <<>> /\ dirty_lru[i] = <<>>
  /\ Handling(i) \in Blocks /\ Handling(i) \notin present_blocks[i]

LEMMA LiveStep ==
  ASSUME OwnSettings, IInv, LiveInv, op # "close", [Next]_vars
  PROVE  QInv' /\ (pc' = "exited" => pc = "exited" \/ \E i \in SubRegions : NoVictim(i))
<1>1. ASSUME LiveInv', UNCHANGED <<pc, op>>
      PROVE  QInv' /\ (pc' = "exited" => pc = "exited")
  BY <1>1 DEF QInv
<1>2. CASE UNCHANGED vars
  BY <1>1, <1>2, StutterLive
<1>3. ASSUME NEW v \in Versions, Create(v) \/ OpenVersion(v)
      PROVE  QInv' /\ pc' = "idle"
  BY <1>3, CreateFresh DEF Create, OpenVersion
<1>4. ASSUME NEW t \in Threads, BeginAccess(t) \/ FinishAccess(t) \/ PageFault(t)
      PROVE  QInv' /\ UNCHANGED <<pc, op>>
  <2>1. UNCHANGED <<pc, op>>
    BY <1>4 DEF BeginAccess, FinishAccess, PageFault, call
  <2> QED
    BY <1>1, <1>4, <2>1, BeginAccessLive, FinishAccessLive, PageFaultLive
<1>5. CASE Listener
  BY <1>1, <1>5, ListenerLive
<1>6. ASSUME NEW i \in SubRegions, handler(i)
      PROVE  QInv' /\ (pc' = "exited" => pc = "exited" \/ NoVictim(i))
  BY <1>1, <1>6, HandlerLive, ExitFresh DEF NoVictim
<1>7. ASSUME StartMsync \/ \E v \in Versions : StartSnapshot(v)
      PROVE  QInv' /\ pc' # "exited"
  BY <1>7, StartCallLive DEF QInv
<1>8. CASE UnregisterRegion
  BY <1>8, UnregisterRegionClosing DEF QInv
<1>9. CASE Caller
  <2>1. CASE StoreBlock
    BY <1>1, <2>1, StoreBlockLive
  <2>2. CASE ProtectBlock
    BY <1>1, <2>2, ProtectBlockLive
  <2>3. CASE ClearDirty
    BY <2>3, ClearDirtyLive DEF QInv
  <2>4. CASE CommitBlock
    BY <1>1, <2>4, CommitBlockLive
  <2>5. CASE EndSubRegion
    BY <2>5, EndSubRegionLive DEF QInv
  <2>6. ~(JoinListener \/ Unmap \/ JoinHandlers)
    BY DEF JoinListener, Unmap, JoinHandlers, IInv, CallInv
  <2> QED
    BY <1>9, <2>1, <2>2, <2>3, <2>4, <2>5, <2>6 DEF Caller
<1> QED
  BY <1>2, <1>3, <1>4, <1>5, <1>6, <1>7, <1>8, <1>9 DEF Next

LEMMA FaultsInductive ==
  ASSUME OwnSettings PROVE Spec => [](IInv /\ QInv)
<1>1. Init => IInv /\ QInv
  BY InitInv, InitFresh
<1>2. IInv /\ QInv /\ [Next]_vars => IInv' /\ QInv'
  BY NextInv, Closing, LiveStep DEF QInv
<1> QED
  BY <1>1, <1>2, PTL DEF Spec

-------------------------------------------------------------------------------
(* A write-protected block that is on no dirty list equals its stash file  *)
(* or the file of its id, through any number of evictions: dropping it     *)
(* loses nothing, and neither does an msync() that passes it by.           *)
THEOREM CleanSavedCorrect ==
  ASSUME OwnSettings PROVE Spec => []CleanSaved
<1>1. IInv /\ QInv => CleanSaved
  BY DEF QInv, LiveInv, BooksInv, ClosingInv, CleanSaved
<1> QED
  BY <1>1, FaultsInductive, PTL

(* A present block is once in the lists of its sub-region, until msync()   *)
(* is between listing it as clean and emptying the dirty list.             *)
THEOREM ResidentListedCorrect ==
  ASSUME OwnSettings, OneList PROVE Spec => []ResidentListed
<1>1. ASSUME QInv PROVE ResidentListed
  <2>1. /\ ListedInv
        /\ \A i \in SubRegions : IsInjective(dirty_lru[i])
    BY <1>1 DEF QInv, LiveInv, BooksInv, RecordsInv, ClosingInv
  <2> SUFFICES ASSUME NEW i \in SubRegions, NEW b \in Blocks, b \in present_blocks[i],
                      pc # "store"
               PROVE  Cardinality({k \in DOMAIN clean_lru[i] : clean_lru[i][k] = b})
                        + Cardinality({k \in DOMAIN dirty_lru[i] : dirty_lru[i][k] = b}) = 1
    BY DEF ResidentListed
  <2>2. ~Synced(i, b)
    BY DEF Synced
  <2>3. b \in ToSet(clean_lru[i]) <=> b \notin ToSet(dirty_lru[i])
    BY <2>1, <2>2 DEF ListedInv
  <2>4. /\ Cardinality({k \in DOMAIN clean_lru[i] : clean_lru[i][k] = b}) =
             IF b \in ToSet(clean_lru[i]) THEN 1 ELSE 0
        /\ Cardinality({k \in DOMAIN dirty_lru[i] : dirty_lru[i][k] = b}) =
             IF b \in ToSet(dirty_lru[i]) THEN 1 ELSE 0
    BY <2>1, Occurrences DEF ListedInv
  <2> QED
    BY <2>3, <2>4
<1> QED
  BY <1>1, FaultsInductive, PTL

(* Until the destructor is called, no ioctl, read or storage call fails,   *)
(* whatever the threads' order, and eviction finds a victim: either the    *)
(* manager's lists agree with one another or nothing is ever evicted.      *)
THEOREM NeverExitsCorrect ==
  ASSUME OwnSettings, "close" \notin Calls, OneList \/ NumBlocks <= MaxMemBlocks
  PROVE  Spec => []NeverExits
<1>1. Init => NeverExits
  BY DEF Init, NeverExits
<1>2. ASSUME IInv, QInv, NeverExits, [Next]_vars PROVE NeverExits'
  <2>1. op # "close" /\ LiveInv
    BY <1>2 DEF IInv, TypeOK, QInv
  <2>2. \A i \in SubRegions : ~NoVictim(i)
    BY <1>2, <2>1, VictimListed, NoEviction DEF NoVictim
  <2> QED
    BY <1>2, <2>1, <2>2, LiveStep DEF NeverExits
<1> QED
  BY <1>1, <1>2, FaultsInductive, PTL DEF Spec
===============================================================================
