----------------------------- MODULE UffdVmmProofs -----------------------------
(***************************************************************************)
(* Proofs about UffdVmm, for any threads, blocks, pages, limits and        *)
(* numbers of handler and msync() threads, whatever blocks the application *)
(* threads share and whenever they call msync().                           *)
(*                                                                         *)
(* That only stores change contents leans on one fact: whatever names a    *)
(* block other than by a fault for want of it (a list, an entry of an      *)
(* msync() under way, a write-protect fault on any of its four stages)     *)
(* names one whose pages are there, and none go while the region lives.    *)
(***************************************************************************)
EXTENDS UffdVmm, LruLemmas, WellFoundedInduction, NaturalsInduction

Less == {p \in Nat \X Nat : p[1] < p[2]}

(* A set of natural numbers has a smallest member. *)
LEMMA SmallestExists ==
  ASSUME NEW T, T \subseteq Nat, T # {}
  PROVE  \E x \in T : \A y \in T : x <= y
<1>1. IsWellFoundedOn(Less, Nat)
  BY NatLessThanWellFounded, Zenon DEF OpToRel, Less
<1>2. PICK x \in T : \A y \in T : <<y, x>> \notin Less
  BY <1>1, WFMin
<1>3. ASSUME NEW y \in T PROVE x <= y
  <2>1. y \in Nat /\ x \in Nat /\ <<y, x>>[1] = y /\ <<y, x>>[2] = x
    OBVIOUS
  <2>2. y < x => <<y, x>> \in Less
    BY <2>1 DEF Less
  <2> QED
    BY <1>2, <2>1, <2>2
<1> QED
  BY <1>3

(* The functions that Without is defined with. *)
Keeps(f, s, gone, n) ==
  f = [k \in 0 .. n |->
        IF k = 0 THEN <<>>
        ELSE IF s[k] \in gone THEN f[k - 1] ELSE Append(f[k - 1], s[k])]

LEMMA KeepsExists ==
  ASSUME NEW s, NEW gone, NEW n \in Nat
  PROVE  \E f : Keeps(f, s, gone, n)
<1> DEFINE T == {m \in Nat : ~ \E f : Keeps(f, s, gone, m)}
<1>1. SUFFICES ASSUME T # {} PROVE FALSE
  OBVIOUS
<1>2. PICK m \in T : \A y \in T : m <= y
  BY <1>1, SmallestExists
<1>3. m \in Nat \ {0}
  <2>1. Keeps([k \in {0} |-> <<>>], s, gone, 0)
    BY DEF Keeps
  <2> QED
    BY <2>1, <1>2
<1>4. PICK f : Keeps(f, s, gone, m - 1)
  BY <1>2, <1>3
<1> DEFINE g == [k \in 0 .. m |->
                  IF k < m THEN f[k]
                  ELSE IF s[m] \in gone THEN f[m - 1] ELSE Append(f[m - 1], s[m])]
<1>5. \A k \in 0 .. (m - 1) :
        f[k] = IF k = 0 THEN <<>>
               ELSE IF s[k] \in gone THEN f[k - 1] ELSE Append(f[k - 1], s[k])
  BY <1>4, <1>3 DEF Keeps
<1>6. ASSUME NEW k \in 0 .. m
      PROVE  g[k] = IF k = 0 THEN <<>>
                    ELSE IF s[k] \in gone THEN g[k - 1] ELSE Append(g[k - 1], s[k])
  BY <1>3, <1>5
<1>7. g = [k \in 0 .. m |-> g[k]]
  OBVIOUS
<1> HIDE DEF g
<1>8. Keeps(g, s, gone, m)
  BY <1>6, <1>7 DEF Keeps
<1> QED
  BY <1>8, <1>2

(* list.remove(): what is left, in a list that holds nothing twice, if     *)
(* the list did not.                                                       *)
LEMMA WithoutElements ==
  ASSUME NEW S, NEW s \in Seq(S), NEW gone
  PROVE  /\ Without(s, gone) \in Seq(S)
         /\ ToSet(Without(s, gone)) = ToSet(s) \ gone
         /\ IsInjective(s) => IsInjective(Without(s, gone))
<1> DEFINE f == CHOOSE f : Keeps(f, s, gone, Len(s))
<1>1. Len(s) \in Nat /\ DOMAIN s = 1 .. Len(s) /\ \A k \in 1 .. Len(s) : s[k] \in S
  OBVIOUS
<1>2. Without(s, gone) = f[Len(s)]
  BY DEF Without, Keeps
<1>3. Keeps(f, s, gone, Len(s))
  BY <1>1, KeepsExists
<1> HIDE DEF f
<1>4. \A k \in 0 .. Len(s) :
        f[k] = IF k = 0 THEN <<>>
               ELSE IF s[k] \in gone THEN f[k - 1] ELSE Append(f[k - 1], s[k])
  BY <1>1, <1>3 DEF Keeps
<1> DEFINE Upto(n) == {s[k] : k \in 1 .. n}
           Right(n) == /\ f[n] \in Seq(S) /\ ToSet(f[n]) = Upto(n) \ gone
                       /\ IsInjective(s) => IsInjective(f[n])
           T == {n \in 0 .. Len(s) : ~ Right(n)}
<1> HIDE DEF Right
<1>5. T = {}
  <2>1. SUFFICES ASSUME T # {} PROVE FALSE
    OBVIOUS
  <2>2. PICK n \in T : \A y \in T : n <= y
    <3>1. T \subseteq Nat
      BY <1>1
    <3> HIDE DEF T
    <3> QED
      BY <2>1, <3>1, SmallestExists
  <2>3. n # 0
    <3>1. f[0] = <<>> /\ Upto(0) = {}
      <4>1. 0 \in 0 .. Len(s) /\ 1 .. 0 = {}
        BY <1>1
      <4> QED
        BY <4>1, <1>4
    <3>2. Right(0)
      BY <3>1, ToSetEmpty DEF Right
    <3> QED
      BY <3>2, <2>2
  <2>4. n \in 1 .. Len(s) /\ n - 1 \in 0 .. Len(s) /\ n - 1 < n /\ s[n] \in S
    BY <2>2, <2>3, <1>1
  <2>5. Right(n - 1)
    BY <2>2, <2>4
  <2>6. f[n] = IF s[n] \in gone THEN f[n - 1] ELSE Append(f[n - 1], s[n])
    BY <1>4, <2>3, <2>4
  <2>7. Upto(n) = Upto(n - 1) \cup {s[n]}
    <3>1. \A k \in Int : k \in 1 .. n <=> k \in 1 .. (n - 1) \/ k = n
      BY <2>4
    <3> QED
      BY <3>1, <2>4
  <2>8. IsInjective(s) => s[n] \notin Upto(n - 1)
    BY <1>1, <2>4 DEF IsInjective
  <2>9. Right(n)
    <3> HIDE DEF Upto
    <3>1. CASE s[n] \in gone
      BY <3>1, <2>5, <2>6, <2>7 DEF Right
    <3>2. CASE s[n] \notin gone
      <4>1. /\ Append(f[n - 1], s[n]) \in Seq(S)
            /\ ToSet(Append(f[n - 1], s[n])) = ToSet(f[n - 1]) \cup {s[n]}
            /\ IsInjective(f[n - 1]) /\ s[n] \notin ToSet(f[n - 1])
                 => IsInjective(Append(f[n - 1], s[n]))
        BY <2>4, <2>5, AppendElements DEF Right
      <4> QED
        BY <4>1, <3>2, <2>5, <2>6, <2>7, <2>8 DEF Right
    <3> QED
      BY <3>1, <3>2
  <2> QED
    BY <2>2, <2>9
<1>6. Right(Len(s))
  BY <1>1, <1>5
<1>7. Upto(Len(s)) = ToSet(s)
  BY <1>1 DEF ToSet
<1> QED
  BY <1>2, <1>6, <1>7 DEF Right

-------------------------------------------------------------------------------
(* The kernel and the threads agree on who waits for what.                 *)
EventsInv ==
  /\ \A t \in ToSet(uffd) : blocked[t] # None
  /\ listener.pc = "dispatch" => listener.m_events # <<>>
  /\ \A i \in SubRegions : handlers[i].pc \notin {"dequeue", "stopped"} =>
       handlers[i].fevent.address \in Pages

(* Where a public call can be, and the version it writes to.               *)
CallInv ==
  /\ pc \in {"closed", "exited", "idle"} => op = "none"
  /\ pc \in {"stop_listener", "unmap", "join"} => op = "close"
  /\ Open => m_version_metadata_path \in Versions /\ metadata[m_version_metadata_path] # None
  /\ op = "snapshot" =>
       m_temp_current_metadata_path \in Versions /\ metadata[m_temp_current_metadata_path] # None

(* A write-protect fault is about pages that are there. *)
Sound(fevent) ==
  fevent.is_wp_fault =>
    fevent.address \in Pages /\ mapped[get_block(fevent.address)] # "missing"

(* So are the lists of dirty blocks and what msync() works on. *)
MappedInv ==
  op # "close" =>
    /\ \A i \in SubRegions : \A b \in ToSet(dirty_lru[i]) : mapped[b] # "missing"
    /\ pc = "store" => \A e \in sync.todo \cup sync.stored : mapped[e[2]] # "missing"
    /\ \A t \in Threads : blocked[t] # None => Sound(blocked[t])
    /\ \A e \in ToSet(listener.m_events) : Sound(e)
    /\ \A i \in SubRegions : \A e \in ToSet(events_queues[i].m_queue) : Sound(e)
    /\ \A i \in SubRegions : handlers[i].pc \notin {"dequeue", "stopped"} => Sound(handlers[i].fevent)
    /\ \A i \in SubRegions : HandlerAt(i, "enlist") => mapped[Handling(i)] # "missing"

IInv == TypeOK /\ EventsInv /\ CallInv /\ MappedInv

-------------------------------------------------------------------------------
(* A number of a block from the number of one of its pages. *)
LEMMA DivBounds ==
  ASSUME NEW n \in Nat \ {0}, NEW m \in Nat \ {0}, NEW x \in 0 .. (m * n - 1)
  PROVE  (x \div n) \in 0 .. (m - 1)
<1> DEFINE q == x \div n
<1>1. q \in Int /\ x \in Int /\ n \in Int /\ m \in Int
  OBVIOUS
<1>2. n * q <= x /\ x < n * q + n
  OBVIOUS
<1> HIDE DEF q
<1>3. q >= 0
  <2>1. SUFFICES ASSUME q <= -1 PROVE FALSE
    BY <1>1
  <2>2. n * q <= n * (-1)
    BY <1>1, <2>1
  <2> QED
    BY <2>2, <1>1, <1>2
<1>4. q < m
  <2>1. SUFFICES ASSUME q >= m PROVE FALSE
    BY <1>1
  <2>2. n * q >= n * m
    BY <1>1, <2>1
  <2> QED
    BY <2>2, <1>1, <1>2
<1> QED
  BY <1>1, <1>3, <1>4 DEF q

LEMMA BlockOfPage ==
  ASSUME NEW page \in Pages
  PROVE  get_block(page) \in Blocks
<1>1. NumBlocks \in Nat \ {0} /\ NumPages \in Nat \ {0}
  BY UffdAssumption
<1>2. page - 1 \in 0 .. (NumBlocks * NumPages - 1)
  BY <1>1 DEF Pages
<1> QED
  BY <1>1, <1>2, DivBounds DEF get_block, Blocks

LEMMA SubRegionOfBlock ==
  ASSUME NEW b \in Blocks
  PROVE  sub_region(b) \in SubRegions /\ sub_region_of_address(b) \in SubRegions
  BY UffdAssumption DEF sub_region, sub_region_of_address, SubRegions, Blocks

Places == {"dequeue", "handle", "unprotect", "processed", "copy", "enlist", "wake", "stopped"}

(* What the steps of a handler thread have in common. *)
LEMMA GotoHandlers ==
  ASSUME TypeOK, NEW i \in SubRegions, NEW where \in Places, Goto(i, where)
  PROVE  /\ handlers' \in [SubRegions -> [pc : Places, fevent : Event(Addresses)]]
         /\ \A j \in SubRegions : /\ handlers'[j].fevent = handlers[j].fevent
                                  /\ handlers'[j].pc = IF j = i THEN where ELSE handlers[j].pc
<1>1. handlers \in [SubRegions -> [pc : Places, fevent : Event(Addresses)]]
  BY DEF TypeOK, Places
<1>2. handlers' = [handlers EXCEPT ![i] = [@ EXCEPT !.pc = where]]
  BY <1>1 DEF Goto
<1> QED
  BY <1>1, <1>2

(* The threads that wait for a block are resumed, and the others are not. *)
LEMMA WakeThreads ==
  ASSUME TypeOK, NEW b, WakeBlock(b)
  PROVE  /\ blocked' \in [Threads -> Event(Pages) \cup {None}]
         /\ uffd' \in Seq(Threads)
         /\ ToSet(uffd') = ToSet(uffd) \ Woken(b)
         /\ IsInjective(uffd) => IsInjective(uffd')
         /\ \A t \in Threads : blocked'[t] = IF t \in Woken(b) THEN None ELSE blocked[t]
<1>1. uffd \in Seq(Threads) /\ blocked \in [Threads -> Event(Pages) \cup {None}]
  BY DEF TypeOK
<1> QED
  BY <1>1, WithoutElements DEF WakeBlock

(* A manager just made, or none at all. *)
LEMMA FreshInv ==
  ASSUME NEW ids \in Image, NEW path \in Versions \cup {None}, NEW active \in BOOLEAN,
         FreshManager(ids, path, active),
         metadata' \in [Versions -> Image \cup {None}],
         \/ pc' \in {"closed", "exited"}
         \/ pc' = "idle" /\ path # None /\ metadata'[path] # None
  PROVE  IInv'
<1> USE UffdAssumption DEF FreshManager
<1>1. Zero \in Values /\ ZeroImage \in Image /\ 0 \in SubRegions /\ StopEvent \in Event(Addresses)
  BY DEF ZeroImage, Image, SubRegions, StopEvent, Event, Addresses
<1>2. ToSet(<<>>) = {}
  BY ToSetEmpty
<1>3. TypeOK'
  <2>1. /\ acc' \in [Threads -> Access \cup {None}]
        /\ blocked' \in [Threads -> Event(Pages) \cup {None}]
        /\ uffd' \in Seq(Threads) /\ mapped' \in [Blocks -> {"missing", "wp", "rw"}]
        /\ mem' \in Image /\ registered' \in BOOLEAN
    BY <1>1
  <2>2. /\ listener' \in [pc : {"poll", "read", "dispatch", "done"}, m_events : Seq(Event(Pages))]
        /\ events_queues' \in [SubRegions -> EventQueue(Addresses)]
        /\ handlers' \in [SubRegions -> [pc : Places, fevent : Event(Addresses)]]
        /\ uffd_active' \in BOOLEAN
    BY <1>1 DEF Empty, EventQueue, Places
  <2>3. /\ present_blocks' \in [SubRegions -> SUBSET Blocks]
        /\ clean_lru' \in [SubRegions -> Seq(Blocks)]
        /\ dirty_lru' \in [SubRegions -> Seq(Blocks)]
        /\ stash_set' \in [SubRegions -> SUBSET Blocks]
        /\ blocks_ids' \in Image
        /\ stash_file' \in [Blocks -> Values \cup {None}]
    BY <1>1
  <2>4. /\ m_version_metadata_path' \in Versions \cup {None}
        /\ pc' \in {"closed", "exited", "idle"} /\ op' \in Calls \cup {"none"}
        /\ sync' \in [sub : SubRegions, todo : SUBSET (Nat \X Blocks),
                      stored : SUBSET (Nat \X Blocks)]
        /\ m_temp_current_metadata_path' \in Versions \cup {None}
    BY <1>1 DEF EmptySync
  <2> QED
    BY <2>1, <2>2, <2>3, <2>4 DEF TypeOK, Places
<1>4. EventsInv'
  BY <1>2 DEF EventsInv
<1>5. CallInv'
  BY DEF CallInv, Open
<1>6. MappedInv'
  BY <1>2 DEF MappedInv, Sound, EmptySync, Empty, HandlerAt
<1> QED
  BY <1>3, <1>4, <1>5, <1>6 DEF IInv

LEMMA InitInv == Init => IInv
<1> SUFFICES ASSUME Init PROVE IInv
  OBVIOUS
<1> USE UffdAssumption DEF Init
<1>1. Zero \in Values /\ ZeroImage \in Image /\ 0 \in SubRegions /\ StopEvent \in Event(Addresses)
  BY DEF ZeroImage, Image, SubRegions, StopEvent, Event, Addresses
<1>2. ToSet(<<>>) = {}
  BY ToSetEmpty
<1>3. TypeOK
  <2>1. /\ metadata \in [Versions -> Image \cup {None}]
        /\ acc \in [Threads -> Access \cup {None}]
        /\ blocked \in [Threads -> Event(Pages) \cup {None}]
        /\ uffd \in Seq(Threads) /\ mapped \in [Blocks -> {"missing", "wp", "rw"}]
        /\ mem \in Image
    BY <1>1
  <2>2. /\ listener \in [pc : {"poll", "read", "dispatch", "done"}, m_events : Seq(Event(Pages))]
        /\ events_queues \in [SubRegions -> EventQueue(Addresses)]
        /\ handlers \in [SubRegions -> [pc : Places, fevent : Event(Addresses)]]
    BY <1>1 DEF Empty, EventQueue, Places
  <2>3. /\ present_blocks \in [SubRegions -> SUBSET Blocks]
        /\ clean_lru \in [SubRegions -> Seq(Blocks)]
        /\ dirty_lru \in [SubRegions -> Seq(Blocks)]
        /\ stash_set \in [SubRegions -> SUBSET Blocks]
        /\ blocks_ids \in Image
        /\ stash_file \in [Blocks -> Values \cup {None}]
    BY <1>1
  <2>4. /\ m_version_metadata_path \in Versions \cup {None}
        /\ pc \in {"closed", "exited", "idle"} /\ op \in Calls \cup {"none"}
        /\ sync \in [sub : SubRegions, todo : SUBSET (Nat \X Blocks),
                     stored : SUBSET (Nat \X Blocks)]
        /\ m_temp_current_metadata_path \in Versions \cup {None}
    BY <1>1 DEF EmptySync
  <2>5. registered \in BOOLEAN /\ uffd_active \in BOOLEAN
    OBVIOUS
  <2> QED
    BY <2>1, <2>2, <2>3, <2>4, <2>5 DEF TypeOK, Places
<1>4. EventsInv
  BY <1>2 DEF EventsInv
<1>5. CallInv
  BY DEF CallInv, Open
<1>6. MappedInv
  BY <1>2 DEF MappedInv, Sound, EmptySync, Empty, HandlerAt
<1> QED
  BY <1>3, <1>4, <1>5, <1>6 DEF IInv

(* A process that exits leaves the disk as it is. *)
LEMMA ExitInv ==
  ASSUME IInv, Exit
  PROVE  IInv'
<1>1. ZeroImage \in Image /\ metadata' \in [Versions -> Image \cup {None}]
  BY UffdAssumption DEF ZeroImage, Image, IInv, TypeOK, Exit
<1> QED
  BY <1>1, FreshInv DEF Exit

LEMMA CreateInv ==
  ASSUME IInv, NEW v \in Versions, Create(v)
  PROVE  IInv'
<1>1. ZeroImage \in Image /\ None \notin Versions
  BY UffdAssumption, NoneAssumption DEF ZeroImage, Image
<1>2. metadata' \in [Versions -> Image \cup {None}] /\ metadata'[v] = ZeroImage
  BY <1>1 DEF IInv, TypeOK, Create
<1>3. ZeroImage # None
  BY <1>1, NoneAssumption
<1> QED
  BY <1>1, <1>2, <1>3, FreshInv DEF Create

LEMMA OpenVersionInv ==
  ASSUME IInv, NEW v \in Versions, OpenVersion(v)
  PROVE  IInv'
<1>1. metadata[v] \in Image /\ None \notin Versions /\ metadata' = metadata
      /\ metadata \in [Versions -> Image \cup {None}]
  BY NoneAssumption DEF IInv, TypeOK, OpenVersion
<1> QED
  BY <1>1, FreshInv DEF OpenVersion

-------------------------------------------------------------------------------
(* The application's threads and the kernel.                               *)
LEMMA BeginAccessInv ==
  ASSUME IInv, NEW t \in Threads, BeginAccess(t)
  PROVE  IInv'
<1> USE DEF BeginAccess, threads, lists, call
<1>1. TypeOK'
  <2>1. PICK page \in Pages, value \in Stores[t] \cup {None} :
          acc' = [acc EXCEPT ![t] = [page |-> page, value |-> value]]
    OBVIOUS
  <2>2. [page |-> page, value |-> value] \in Access
    BY UffdAssumption DEF Access
  <2>3. acc' \in [Threads -> Access \cup {None}]
    BY <2>1, <2>2 DEF IInv, TypeOK
  <2> QED
    BY <2>3 DEF IInv, TypeOK
<1>2. EventsInv' /\ CallInv'
  BY DEF IInv, EventsInv, CallInv, Open
<1>3. MappedInv'
  BY DEF IInv, MappedInv, Sound, HandlerAt, Handling
<1> QED
  BY <1>1, <1>2, <1>3 DEF IInv

LEMMA FinishAccessInv ==
  ASSUME IInv, NEW t \in Threads, FinishAccess(t)
  PROVE  IInv'
<1> USE DEF FinishAccess, threads, lists, call
<1>1. acc[t] \in Access
  BY DEF IInv, TypeOK
<1>2. mem' \in Image
  BY <1>1 DEF IInv, TypeOK, Image, Access
<1>3. TypeOK'
  BY <1>2 DEF IInv, TypeOK
<1>4. EventsInv' /\ CallInv'
  BY DEF IInv, EventsInv, CallInv, Open
<1>5. MappedInv'
  BY DEF IInv, MappedInv, Sound, HandlerAt, Handling
<1> QED
  BY <1>3, <1>4, <1>5 DEF IInv

LEMMA PageFaultInv ==
  ASSUME IInv, NEW t \in Threads, PageFault(t)
  PROVE  IInv'
<1> USE DEF PageFault, threads, lists, call
<1>1. acc[t] \in Access /\ acc[t].page \in Pages
  BY DEF IInv, TypeOK, Access
<1>2. /\ blocked' \in [Threads -> Event(Pages) \cup {None}]
      /\ blocked'[t] \in Event(Pages) /\ blocked'[t] # None
      /\ blocked'[t].address = acc[t].page
      /\ blocked'[t].is_wp_fault => mapped[get_block(acc[t].page)] # "missing"
      /\ \A u \in Threads : u # t => blocked'[u] = blocked[u]
  <2> DEFINE missing == mapped[get_block(acc[t].page)] = "missing"
             fevent == [address |-> acc[t].page, is_wp_fault |-> ~missing,
                        is_write_fault |-> missing /\ acc[t].value # None]
  <2>1. blocked' = [blocked EXCEPT ![t] = fevent]
    OBVIOUS
  <2>2. /\ fevent \in Event(Pages) /\ fevent.address = acc[t].page
        /\ fevent.is_wp_fault <=> ~missing
    BY <1>1 DEF Event
  <2> HIDE DEF fevent
  <2>3. fevent # None
    BY <2>2, NoneAssumption
  <2>4. blocked \in [Threads -> Event(Pages) \cup {None}]
    BY DEF IInv, TypeOK
  <2>5. blocked'[t] = fevent
    BY <2>1, <2>4
  <2> QED
    BY <2>1, <2>2, <2>3, <2>4, <2>5
<1>3. uffd' \in Seq(Threads) /\ ToSet(uffd') = ToSet(uffd) \cup {t}
  BY AppendElements DEF IInv, TypeOK
<1>4. TypeOK'
  BY <1>2, <1>3 DEF IInv, TypeOK
<1>5. EventsInv'
  <2>1. ToSet(uffd) \subseteq Threads
    BY ToSetElements DEF IInv, TypeOK
  <2> QED
    BY <2>1, <1>2, <1>3 DEF IInv, EventsInv
<1>6. CallInv'
  BY DEF IInv, CallInv, Open
<1>7. MappedInv'
  <2>1. \A e : Sound(e)' <=> Sound(e)
    BY DEF Sound
  <2>2. Sound(blocked'[t])
    BY <1>1, <1>2 DEF Sound
  <2> QED
    BY <1>2, <2>1, <2>2 DEF IInv, MappedInv, HandlerAt, Handling
<1> QED
  BY <1>4, <1>5, <1>6, <1>7 DEF IInv

-------------------------------------------------------------------------------
(* The listener. *)
LEMMA PollInv ==
  ASSUME IInv, Poll
  PROVE  IInv'
<1> USE DEF Poll, app, lists, call
<1>1. /\ listener' \in [pc : {"poll", "read", "dispatch", "done"}, m_events : Seq(Event(Pages))]
      /\ listener'.pc # "dispatch" /\ listener'.m_events = listener.m_events
  BY DEF IInv, TypeOK
<1>2. TypeOK'
  BY <1>1 DEF IInv, TypeOK
<1>3. EventsInv' /\ CallInv'
  BY <1>1 DEF IInv, EventsInv, CallInv, Open
<1>4. MappedInv'
  BY <1>1 DEF IInv, MappedInv, Sound, HandlerAt, Handling
<1> QED
  BY <1>2, <1>3, <1>4 DEF IInv

(* The events the listener has read are those of the threads it read from. *)
LEMMA ReadEvents ==
  ASSUME TypeOK, EventsInv, NEW m, m = [k \in DOMAIN uffd |-> blocked[uffd[k]]]
  PROVE  /\ m \in Seq(Event(Pages)) /\ Len(m) = Len(uffd)
         /\ \A e \in ToSet(m) : \E t \in ToSet(uffd) : e = blocked[t]
<1>1. Len(uffd) \in Nat /\ DOMAIN uffd = 1 .. Len(uffd)
      /\ \A k \in 1 .. Len(uffd) : uffd[k] \in Threads /\ uffd[k] \in ToSet(uffd)
  BY ToSetElements DEF TypeOK
<1>2. \A k \in 1 .. Len(uffd) : blocked[uffd[k]] \in Event(Pages)
  BY <1>1 DEF TypeOK, EventsInv
<1>3. m = [k \in 1 .. Len(uffd) |-> blocked[uffd[k]]]
  BY <1>1
<1>4. m \in Seq(Event(Pages)) /\ Len(m) = Len(uffd)
  BY <1>1, <1>2, <1>3
<1>5. \A e \in ToSet(m) : \E k \in 1 .. Len(uffd) : e = m[k]
  BY <1>1, <1>3 DEF ToSet
<1> QED
  BY <1>1, <1>3, <1>4, <1>5

LEMMA ReadInv ==
  ASSUME IInv, Read
  PROVE  IInv'
<1>1. CASE Exit
  BY <1>1, ExitInv
<1>2. CASE ~Exit
  <2> USE DEF Read, lists, call
  <2>1. /\ uffd # <<>> /\ uffd' = <<>>
        /\ listener' = [pc |-> "dispatch", m_events |-> [k \in DOMAIN uffd |-> blocked[uffd[k]]]]
        /\ UNCHANGED <<metadata, acc, blocked, mapped, mem, registered, events_queues,
                       handlers, uffd_active, lists, blocks_ids, stash_file, call>>
    BY <1>2
  <2>2. /\ listener'.m_events \in Seq(Event(Pages))
        /\ Len(listener'.m_events) = Len(uffd)
        /\ \A e \in ToSet(listener'.m_events) : \E t \in ToSet(uffd) : e = blocked[t]
        /\ listener'.pc = "dispatch"
    BY <2>1, ReadEvents DEF IInv
  <2>3. TypeOK'
    <3>1. listener' \in [pc : {"poll", "read", "dispatch", "done"}, m_events : Seq(Event(Pages))]
      BY <2>1, <2>2
    <3> QED
      BY <2>1, <3>1 DEF IInv, TypeOK
  <2>4. EventsInv'
    <3>1. listener'.m_events # <<>>
      <4>1. Len(uffd) # 0
        BY <2>1 DEF IInv, TypeOK
      <4> QED
        BY <4>1, <2>2
    <3> QED
      BY <2>1, <3>1, ToSetEmpty DEF IInv, EventsInv
  <2>5. CallInv'
    BY <2>1 DEF IInv, CallInv, Open
  <2>6. MappedInv'
    <3>1. ASSUME op # "close", NEW e \in ToSet(listener'.m_events) PROVE Sound(e)
      <4>1. PICK t \in ToSet(uffd) : e = blocked[t]
        BY <2>2
      <4>2. t \in Threads /\ blocked[t] # None
        BY ToSetElements DEF IInv, TypeOK, EventsInv
      <4> QED
        BY <4>1, <4>2, <3>1 DEF IInv, MappedInv
    <3> QED
      BY <2>1, <3>1 DEF IInv, MappedInv, Sound, HandlerAt, Handling
  <2> QED
    BY <2>3, <2>4, <2>5, <2>6 DEF IInv
<1> QED
  BY <1>1, <1>2

LEMMA DispatchInv ==
  ASSUME IInv, Dispatch
  PROVE  IInv'
<1>1. CASE Exit
  BY <1>1, ExitInv
<1>2. CASE ~Exit
  <2> USE DEF Dispatch, app, lists, call
  <2> DEFINE fevent == Head(listener.m_events)
             i == sub_region(get_block(fevent.address))
             q == events_queues[i].m_queue
  <2>1. /\ listener.m_events \in Seq(Event(Pages)) /\ listener.m_events # <<>>
        /\ fevent \in ToSet(listener.m_events) /\ Tail(listener.m_events) \in Seq(Event(Pages))
        /\ ToSet(Tail(listener.m_events)) \subseteq ToSet(listener.m_events)
        /\ fevent \in Event(Pages) /\ i \in SubRegions
    <3>1. listener.m_events \in Seq(Event(Pages)) /\ listener.m_events # <<>>
      BY DEF IInv, TypeOK, EventsInv
    <3>2. /\ fevent \in ToSet(listener.m_events) /\ Tail(listener.m_events) \in Seq(Event(Pages))
          /\ ToSet(Tail(listener.m_events)) \subseteq ToSet(listener.m_events)
      BY <3>1, HeadTailElements
    <3>3. fevent \in Event(Pages)
      BY <3>1, <3>2, ToSetElements
    <3>4. i \in SubRegions
      BY <3>3, BlockOfPage, SubRegionOfBlock DEF Event
    <3> QED
      BY <3>1, <3>2, <3>3, <3>4
  <2>2. /\ events_queues' = [events_queues EXCEPT ![i] = add_page_fault_event(@, fevent)]
        /\ listener' = [pc |-> IF Len(listener.m_events) = 1 THEN "poll" ELSE "dispatch",
                        m_events |-> Tail(listener.m_events)]
        /\ UNCHANGED <<metadata, app, mapped, mem, registered, handlers, uffd_active,
                       lists, blocks_ids, stash_file, call>>
    BY <1>2, Zenon
  <2>3. /\ add_page_fault_event(events_queues[i], fevent) \in EventQueue(Addresses)
        /\ ToSet(add_page_fault_event(events_queues[i], fevent).m_queue)
             \subseteq ToSet(q) \cup {fevent}
    <3>1. /\ events_queues[i] \in EventQueue(Addresses) /\ q \in Seq(Event(Addresses))
          /\ fevent \in Event(Addresses) /\ fevent.address \in Addresses
      BY <2>1 DEF IInv, TypeOK, EventQueue, Event, Addresses
    <3>2. Append(q, fevent) \in Seq(Event(Addresses))
          /\ ToSet(Append(q, fevent)) = ToSet(q) \cup {fevent}
      BY <3>1, AppendElements
    <3> QED
      BY <3>1, <3>2 DEF add_page_fault_event, enqueue, EventQueue
  <2> HIDE DEF fevent, i, q
  <2> HIDE DEF Dispatch
  <2>4. TypeOK'
    <3>1. listener' \in [pc : {"poll", "read", "dispatch", "done"}, m_events : Seq(Event(Pages))]
      BY <2>1, <2>2
    <3>2. events_queues' \in [SubRegions -> EventQueue(Addresses)]
      BY <2>1, <2>2, <2>3 DEF IInv, TypeOK
    <3> QED
      BY <2>2, <3>1, <3>2 DEF IInv, TypeOK
  <2>5. EventsInv'
    <3>1. ASSUME Len(listener.m_events) # 1 PROVE Tail(listener.m_events) # <<>>
      <4>1. Len(listener.m_events) \in Nat \ {0, 1}
        BY <2>1, <3>1
      <4>2. Len(Tail(listener.m_events)) = Len(listener.m_events) - 1
        BY <2>1, <4>1
      <4>3. Len(Tail(listener.m_events)) # 0
        BY <4>1, <4>2
      <4>4. Len(<<>>) = 0
        OBVIOUS
      <4> QED
        BY <4>3, <4>4
    <3> QED
      BY <2>2, <3>1 DEF IInv, EventsInv
  <2>6. CallInv'
    BY <2>2 DEF IInv, CallInv, Open
  <2>7. MappedInv'
    <3>1. ASSUME op # "close", NEW j \in SubRegions, NEW e \in ToSet(events_queues'[j].m_queue)
          PROVE  Sound(e)
      <4>1. e \in ToSet(events_queues[j].m_queue) \/ e = fevent
        BY <2>1, <2>2, <2>3 DEF IInv, TypeOK, q
      <4> QED
        BY <4>1, <3>1, <2>1 DEF IInv, MappedInv
    <3>2. listener'.m_events = Tail(listener.m_events)
      BY <2>2
    <3> QED
      BY <2>1, <2>2, <3>1, <3>2 DEF IInv, MappedInv, Sound, HandlerAt, Handling
  <2> QED
    BY <2>4, <2>5, <2>6, <2>7 DEF IInv
<1> QED
  BY <1>1, <1>2

-------------------------------------------------------------------------------
(* A handler thread. *)
LEMMA DequeueInv ==
  ASSUME IInv, NEW i \in SubRegions, Dequeue(i)
  PROVE  IInv'
<1> USE DEF Dequeue, app, lists, call
<1> DEFINE q == events_queues[i].m_queue
           fevent == Head(q)
<1>1. /\ q \in Seq(Event(Addresses)) /\ q # <<>>
      /\ events_queues \in [SubRegions -> EventQueue(Addresses)]
  BY DEF IInv, TypeOK, EventQueue, CanDequeue
<1>2. /\ fevent \in ToSet(q) /\ fevent \in Event(Addresses)
      /\ Tail(q) \in Seq(Event(Addresses)) /\ ToSet(Tail(q)) \subseteq ToSet(q)
  BY <1>1, HeadTailElements, ToSetElements
<1>3. /\ handlers' = [handlers EXCEPT ![i] =
            [pc |-> IF fevent.address = 0 THEN "stopped" ELSE "handle", fevent |-> fevent]]
      /\ events_queues' = [events_queues EXCEPT ![i] = dequeue(@)]
  BY DEF front
<1>4. /\ events_queues' \in [SubRegions -> EventQueue(Addresses)]
      /\ events_queues'[i].m_queue = Tail(q)
      /\ \A j \in SubRegions : j # i => events_queues'[j] = events_queues[j]
  <2>1. /\ dequeue(events_queues[i]) \in EventQueue(Addresses)
        /\ dequeue(events_queues[i]).m_queue = Tail(q)
    BY <1>1, <1>2 DEF dequeue, EventQueue
  <2> QED
    BY <1>1, <1>3, <2>1
<1> HIDE DEF fevent
<1>5. /\ handlers' \in [SubRegions -> [pc : Places, fevent : Event(Addresses)]]
      /\ handlers'[i].fevent = fevent
      /\ handlers'[i].pc = IF fevent.address = 0 THEN "stopped" ELSE "handle"
      /\ \A j \in SubRegions : j # i => handlers'[j] = handlers[j]
  BY <1>2, <1>3 DEF IInv, TypeOK, Places
<1>6. TypeOK'
  BY <1>4, <1>5 DEF IInv, TypeOK, Places
<1>7. EventsInv' /\ CallInv'
  <2>1. fevent.address # 0 => fevent.address \in Pages
    BY <1>2 DEF Event, Addresses
  <2> QED
    BY <1>5, <2>1 DEF IInv, EventsInv, CallInv, Open
<1>8. MappedInv'
  <2>1. op # "close" => Sound(fevent)
    BY <1>2 DEF IInv, MappedInv
  <2> HIDE DEF q
  <2>2. ToSet(Tail(q)) \subseteq ToSet(events_queues[i].m_queue)
    BY <1>2 DEF q
  <2>3. \A e : Sound(e)' <=> Sound(e)
    BY DEF Sound
  <2> QED
    BY <1>4, <1>5, <2>1, <2>2, <2>3 DEF IInv, MappedInv, HandlerAt, Handling
<1> QED
  BY <1>6, <1>7, <1>8 DEF IInv

LEMMA SkipPresentInv ==
  ASSUME IInv, NEW i \in SubRegions, SkipPresent(i)
  PROVE  IInv'
<1> USE DEF SkipPresent, app, lists, call
<1>1. /\ handlers' \in [SubRegions -> [pc : Places, fevent : Event(Addresses)]]
      /\ \A j \in SubRegions : /\ handlers'[j].fevent = handlers[j].fevent
                               /\ handlers'[j].pc = IF j = i THEN NextEvent ELSE handlers[j].pc
      /\ NextEvent \in {"dequeue", "stopped"}
  BY GotoHandlers DEF IInv, NextEvent, Places
<1>2. TypeOK'
  BY <1>1 DEF IInv, TypeOK, Places
<1>3. EventsInv' /\ CallInv'
  BY <1>1 DEF IInv, EventsInv, CallInv, Open
<1>4. MappedInv'
  BY <1>1 DEF IInv, MappedInv, Sound, HandlerAt, Handling
<1> QED
  BY <1>2, <1>3, <1>4 DEF IInv

(* A handler that is at work works on a block of the region. *)
LEMMA HandlingBlock ==
  ASSUME IInv, NEW i \in SubRegions, handlers[i].pc \notin {"dequeue", "stopped"}
  PROVE  Handling(i) \in Blocks
  BY BlockOfPage DEF IInv, EventsInv, Handling

LEMMA HandleWpInv ==
  ASSUME IInv, NEW i \in SubRegions, HandleWp(i)
  PROVE  IInv'
<1>1. CASE Exit
  BY <1>1, ExitInv
<1>2. CASE ~Exit
  <2> USE DEF HandleWp, app, call
  <2> DEFINE b == Handling(i)
  <2>1. /\ clean_lru' = CleanWithout(i, b) /\ dirty_lru' = DirtyWith(i, b)
        /\ stash_file' = IF b \in stash_set[i] THEN [stash_file EXCEPT ![b] = None]
                         ELSE stash_file
        /\ stash_set' = [stash_set EXCEPT ![i] = @ \ {b}]
        /\ handlers[i].pc = "handle" /\ Goto(i, "unprotect")
        /\ UNCHANGED <<metadata, app, mapped, mem, registered, listener, events_queues,
                       uffd_active, present_blocks, blocks_ids, call>>
    BY <1>2 DEF HandlerAt
  <2>2. b \in Blocks /\ (op # "close" => mapped[b] # "missing")
    BY HandlingBlock DEF HandlerAt, IInv, MappedInv, Sound, Handling
  <2> HIDE DEF b
  <2> HIDE DEF HandleWp
  <2>3. /\ handlers' \in [SubRegions -> [pc : Places, fevent : Event(Addresses)]]
        /\ \A j \in SubRegions : /\ handlers'[j].fevent = handlers[j].fevent
                                 /\ handlers'[j].pc = IF j = i THEN "unprotect" ELSE handlers[j].pc
    BY <2>1, GotoHandlers DEF IInv, Places
  <2>4. clean_lru' \in [SubRegions -> Seq(Blocks)]
    <3>1. clean_lru \in [SubRegions -> Seq(Blocks)]
      BY DEF IInv, TypeOK
    <3>2. Without(clean_lru[i], {b}) \in Seq(Blocks)
      BY <3>1, WithoutElements
    <3> QED
      BY <2>1, <3>1, <3>2 DEF CleanWithout
  <2>5. /\ dirty_lru' \in [SubRegions -> Seq(Blocks)]
        /\ ToSet(dirty_lru'[i]) = ToSet(dirty_lru[i]) \cup {b}
        /\ \A j \in SubRegions : j # i => dirty_lru'[j] = dirty_lru[j]
    <3>1. dirty_lru \in [SubRegions -> Seq(Blocks)]
      BY DEF IInv, TypeOK
    <3>2. /\ Cons(b, dirty_lru[i]) \in Seq(Blocks)
          /\ ToSet(Cons(b, dirty_lru[i])) = ToSet(dirty_lru[i]) \cup {b}
      BY <2>2, <3>1, ConsProperties
    <3> QED
      BY <2>1, <3>1, <3>2 DEF DirtyWith, PushFront
  <2>6. TypeOK'
    <3>1. stash_file' \in [Blocks -> Values \cup {None}]
          /\ stash_set' \in [SubRegions -> SUBSET Blocks]
      BY <2>1 DEF IInv, TypeOK
    <3> QED
      BY <2>1, <2>3, <2>4, <2>5, <3>1, SMTT(30) DEF IInv, TypeOK, Places
  <2>7. EventsInv' /\ CallInv'
    BY <2>1, <2>3 DEF IInv, EventsInv, CallInv, Open, HandlerAt
  <2>8. MappedInv'
    <3>1. \A e : Sound(e)' <=> Sound(e)
      BY <2>1 DEF Sound
    <3>2. ASSUME op # "close", NEW j \in SubRegions
          PROVE  /\ \A c \in ToSet(dirty_lru'[j]) : mapped[c] # "missing"
                 /\ handlers'[j].pc \notin {"dequeue", "stopped"} => Sound(handlers'[j].fevent)
                 /\ handlers'[j].pc = "enlist" =>
                      mapped[get_block(handlers'[j].fevent.address)] # "missing"
      BY <2>1, <2>2, <2>3, <2>5, <3>2 DEF IInv, MappedInv, HandlerAt, Handling
    <3> QED
      BY <2>1, <3>1, <3>2 DEF IInv, MappedInv, HandlerAt, Handling, get_block
  <2> QED
    BY <2>6, <2>7, <2>8 DEF IInv
<1> QED
  BY <1>1, <1>2

(* Pages that have come in stay: what was sound about them still is. *)
StillSound ==
  /\ \A e : Sound(e) => Sound(e)'
  /\ \A i \in SubRegions : \A b \in ToSet(dirty_lru[i]) : mapped[b] # "missing" => mapped'[b] # "missing"
  /\ \A e \in sync.todo \cup sync.stored : mapped[e[2]] # "missing" => mapped'[e[2]] # "missing"
  /\ \A i \in SubRegions : HandlerAt(i, "enlist") =>
       (mapped[Handling(i)] # "missing" => mapped'[Handling(i)] # "missing")

LEMMA StaySound ==
  ASSUME IInv, \A b \in Blocks : mapped[b] # "missing" => mapped'[b] # "missing"
  PROVE  StillSound
<1>1. ASSUME NEW e, Sound(e) PROVE e.is_wp_fault => e.address \in Pages /\ mapped'[get_block(e.address)] # "missing"
  BY <1>1, BlockOfPage DEF Sound
<1>2. \A i \in SubRegions : ToSet(dirty_lru[i]) \subseteq Blocks
  BY ToSetElements DEF IInv, TypeOK
<1>3. \A e \in sync.todo \cup sync.stored : e[2] \in Blocks
  BY DEF IInv, TypeOK
<1>4. \A i \in SubRegions : HandlerAt(i, "enlist") => Handling(i) \in Blocks
  BY HandlingBlock DEF HandlerAt
<1> QED
  BY <1>1, <1>2, <1>3, <1>4 DEF StillSound, Sound

LEMMA UnprotectInv ==
  ASSUME IInv, NEW i \in SubRegions, Unprotect(i)
  PROVE  IInv'
<1>1. CASE Exit
  BY <1>1, ExitInv
<1>2. CASE ~Exit
  <2> USE DEF Unprotect, lists, call
  <2> DEFINE b == Handling(i)
  <2>1. /\ mapped' = [mapped EXCEPT ![b] = IF @ = "wp" THEN "rw" ELSE @]
        /\ handlers[i].pc = "unprotect" /\ WakeBlock(b) /\ Goto(i, "processed")
        /\ UNCHANGED <<metadata, acc, mem, registered, listener, events_queues,
                       uffd_active, lists, blocks_ids, stash_file, call>>
    BY <1>2 DEF HandlerAt
  <2> HIDE DEF b
  <2> HIDE DEF Unprotect
  <2>2. /\ handlers' \in [SubRegions -> [pc : Places, fevent : Event(Addresses)]]
        /\ \A j \in SubRegions : /\ handlers'[j].fevent = handlers[j].fevent
                                 /\ handlers'[j].pc = IF j = i THEN "processed" ELSE handlers[j].pc
    BY <2>1, GotoHandlers DEF IInv, Places
  <2>3. /\ blocked' \in [Threads -> Event(Pages) \cup {None}]
        /\ uffd' \in Seq(Threads) /\ ToSet(uffd') = ToSet(uffd) \ Woken(b)
        /\ \A t \in Threads : blocked'[t] = IF t \in Woken(b) THEN None ELSE blocked[t]
    BY <2>1, WakeThreads DEF IInv
  <2>4. /\ mapped' \in [Blocks -> {"missing", "wp", "rw"}]
        /\ \A c \in Blocks : mapped[c] # "missing" => mapped'[c] # "missing"
    BY <2>1 DEF IInv, TypeOK
  <2>5. TypeOK'
    BY <2>1, <2>2, <2>3, <2>4 DEF IInv, TypeOK, Places
  <2>6. EventsInv' /\ CallInv'
    <3>1. ToSet(uffd) \subseteq Threads
      BY ToSetElements DEF IInv, TypeOK
    <3> QED
      BY <2>1, <2>2, <2>3, <3>1 DEF IInv, EventsInv, CallInv, Open, HandlerAt
  <2>7. MappedInv'
    <3>1. op # "close" => StillSound
      BY <2>4, StaySound DEF IInv
    <3> QED
      BY <2>1, <2>2, <2>3, <2>4, <3>1 DEF IInv, MappedInv, StillSound, HandlerAt, Handling
  <2> QED
    BY <2>5, <2>6, <2>7 DEF IInv
<1> QED
  BY <1>1, <1>2

(* remove_processed() changes no queue, only the set beside it. *)
LEMMA ForgottenQueues ==
  ASSUME TypeOK, NEW i \in SubRegions, events_queues' = Forgotten(i)
  PROVE  /\ events_queues' \in [SubRegions -> EventQueue(Addresses)]
         /\ \A j \in SubRegions : events_queues'[j].m_queue = events_queues[j].m_queue
<1>1. events_queues \in [SubRegions -> EventQueue(Addresses)]
  BY DEF TypeOK
<1> QED
  BY <1>1 DEF Forgotten, remove_processed, EventQueue

LEMMA RemoveProcessedInv ==
  ASSUME IInv, NEW i \in SubRegions, RemoveProcessed(i)
  PROVE  IInv'
<1> USE DEF RemoveProcessed, app, lists, call
<1>1. /\ handlers' \in [SubRegions -> [pc : Places, fevent : Event(Addresses)]]
      /\ \A j \in SubRegions : /\ handlers'[j].fevent = handlers[j].fevent
                               /\ handlers'[j].pc = IF j = i THEN NextEvent ELSE handlers[j].pc
      /\ NextEvent \in {"dequeue", "stopped"}
  BY GotoHandlers DEF IInv, NextEvent, Places
<1>2. /\ events_queues' \in [SubRegions -> EventQueue(Addresses)]
      /\ \A j \in SubRegions : events_queues'[j].m_queue = events_queues[j].m_queue
  BY ForgottenQueues DEF IInv
<1>3. TypeOK'
  BY <1>1, <1>2 DEF IInv, TypeOK, Places
<1>4. EventsInv' /\ CallInv'
  BY <1>1 DEF IInv, EventsInv, CallInv, Open
<1>5. MappedInv'
  BY <1>1, <1>2 DEF IInv, MappedInv, Sound, HandlerAt, Handling
<1> QED
  BY <1>3, <1>4, <1>5 DEF IInv

(* Eviction takes the last of a list off it. *)
LEMMA EvictionLists ==
  ASSUME TypeOK, NEW i \in SubRegions, EvictClean(i) \/ EvictDirty(i)
  PROVE  /\ present_blocks' \in [SubRegions -> SUBSET Blocks]
         /\ clean_lru' \in [SubRegions -> Seq(Blocks)]
         /\ dirty_lru' \in [SubRegions -> Seq(Blocks)]
         /\ stash_set' \in [SubRegions -> SUBSET Blocks]
         /\ stash_file' \in [Blocks -> Values \cup {None}]
         /\ \A j \in SubRegions : ToSet(dirty_lru'[j]) \subseteq ToSet(dirty_lru[j])
         /\ \A b \in Blocks : stash_file'[b] # stash_file[b] => b \in ToSet(dirty_lru[i])
<1>1. /\ present_blocks \in [SubRegions -> SUBSET Blocks]
      /\ clean_lru \in [SubRegions -> Seq(Blocks)]
      /\ dirty_lru \in [SubRegions -> Seq(Blocks)]
      /\ stash_set \in [SubRegions -> SUBSET Blocks]
      /\ stash_file \in [Blocks -> Values \cup {None}]
      /\ mem \in [Blocks -> Values]
  BY DEF TypeOK, Image
<1>2. CASE EvictClean(i)
  <2>1. Front(clean_lru[i]) \in Seq(Blocks)
    BY <1>1, <1>2, BackElements DEF EvictClean
  <2> QED
    BY <1>1, <1>2, <2>1 DEF EvictClean
<1>3. CASE EvictDirty(i)
  <2>1. /\ Last(dirty_lru[i]) \in ToSet(dirty_lru[i]) /\ Front(dirty_lru[i]) \in Seq(Blocks)
        /\ ToSet(Front(dirty_lru[i])) \subseteq ToSet(dirty_lru[i])
    BY <1>1, <1>3, BackElements DEF EvictDirty
  <2>2. Last(dirty_lru[i]) \in Blocks
    BY <1>1, <2>1, ToSetElements
  <2> QED
    BY <1>1, <1>3, <2>1, <2>2 DEF EvictDirty
<1> QED
  BY <1>2, <1>3

LEMMA HandleAbsentInv ==
  ASSUME IInv, NEW i \in SubRegions, HandleAbsent(i)
  PROVE  IInv'
<1>1. CASE Exit
  BY <1>1, ExitInv
<1>2. CASE ~Exit
  <2> USE DEF HandleAbsent, app, call
  <2>1. /\ UNCHANGED <<lists, stash_file>> \/ EvictClean(i) \/ EvictDirty(i)
        /\ handlers[i].pc = "handle" /\ Goto(i, "copy")
        /\ UNCHANGED <<metadata, app, mapped, mem, registered, listener, events_queues,
                       uffd_active, blocks_ids, call>>
    BY <1>2 DEF HandlerAt
  <2> HIDE DEF HandleAbsent
  <2>2. /\ present_blocks' \in [SubRegions -> SUBSET Blocks]
        /\ clean_lru' \in [SubRegions -> Seq(Blocks)]
        /\ dirty_lru' \in [SubRegions -> Seq(Blocks)]
        /\ stash_set' \in [SubRegions -> SUBSET Blocks]
        /\ stash_file' \in [Blocks -> Values \cup {None}]
        /\ \A j \in SubRegions : ToSet(dirty_lru'[j]) \subseteq ToSet(dirty_lru[j])
    <3>1. CASE UNCHANGED <<lists, stash_file>>
      BY <3>1 DEF lists, IInv, TypeOK
    <3>2. CASE EvictClean(i) \/ EvictDirty(i)
      BY <3>2, EvictionLists DEF IInv
    <3> QED
      BY <2>1, <3>1, <3>2
  <2>3. /\ handlers' \in [SubRegions -> [pc : Places, fevent : Event(Addresses)]]
        /\ \A j \in SubRegions : /\ handlers'[j].fevent = handlers[j].fevent
                                 /\ handlers'[j].pc = IF j = i THEN "copy" ELSE handlers[j].pc
    BY <2>1, GotoHandlers DEF IInv, Places
  <2>4. TypeOK'
    BY <2>1, <2>2, <2>3, SMTT(30) DEF IInv, TypeOK, Places
  <2>5. EventsInv' /\ CallInv'
    BY <2>1, <2>3 DEF IInv, EventsInv, CallInv, Open, HandlerAt
  <2>6. MappedInv'
    BY <2>1, <2>2, <2>3 DEF IInv, MappedInv, Sound, HandlerAt, Handling
  <2> QED
    BY <2>4, <2>5, <2>6 DEF IInv
<1> QED
  BY <1>1, <1>2

LEMMA CopyInv ==
  ASSUME IInv, NEW i \in SubRegions, Copy(i)
  PROVE  IInv'
<1>1. CASE Exit
  BY <1>1, ExitInv
<1>2. CASE ~Exit
  <2> USE DEF Copy, app, lists, call
  <2> DEFINE b == Handling(i)
             how == IF handlers[i].fevent.is_write_fault THEN "rw" ELSE "wp"
  <2>1. /\ mem' = [mem EXCEPT ![b] = CopiedIn(b)]
        /\ mapped' = [mapped EXCEPT ![b] = how]
        /\ handlers[i].pc = "copy" /\ Goto(i, "enlist")
        /\ UNCHANGED <<metadata, app, registered, listener, events_queues, uffd_active,
                       lists, blocks_ids, stash_file, call>>
    BY <1>2 DEF HandlerAt
  <2>2. b \in Blocks
    BY HandlingBlock DEF HandlerAt
  <2> HIDE DEF Copy
  <2>3. how \in {"wp", "rw"}
    OBVIOUS
  <2> HIDE DEF how
  <2>4. /\ handlers' \in [SubRegions -> [pc : Places, fevent : Event(Addresses)]]
        /\ \A j \in SubRegions : /\ handlers'[j].fevent = handlers[j].fevent
                                 /\ handlers'[j].pc = IF j = i THEN "enlist" ELSE handlers[j].pc
    BY <2>1, GotoHandlers DEF IInv, Places
  <2>5. mem' \in Image
    BY <2>1, <2>2 DEF IInv, TypeOK, Image, CopiedIn, Backing
  <2>6. /\ mapped' \in [Blocks -> {"missing", "wp", "rw"}] /\ mapped'[b] # "missing"
        /\ \A c \in Blocks : mapped[c] # "missing" => mapped'[c] # "missing"
    BY <2>1, <2>2, <2>3 DEF IInv, TypeOK
  <2>7. TypeOK'
    BY <2>1, <2>4, <2>5, <2>6 DEF IInv, TypeOK, Places
  <2>8. EventsInv' /\ CallInv'
    BY <2>1, <2>4 DEF IInv, EventsInv, CallInv, Open, HandlerAt
  <2>9. MappedInv'
    <3>1. op # "close" => StillSound
      BY <2>6, StaySound DEF IInv
    <3> QED
      BY <2>1, <2>4, <2>6, <3>1 DEF IInv, MappedInv, StillSound, HandlerAt, Handling
  <2> QED
    BY <2>7, <2>8, <2>9 DEF IInv
<1> QED
  BY <1>1, <1>2

LEMMA EnlistInv ==
  ASSUME IInv, NEW i \in SubRegions, Enlist(i)
  PROVE  IInv'
<1> USE DEF Enlist, app, call
<1> DEFINE b == Handling(i)
<1>1. b \in Blocks /\ (op # "close" => mapped[b] # "missing")
  BY HandlingBlock DEF HandlerAt, IInv, MappedInv
<1>2. /\ handlers' \in [SubRegions -> [pc : Places, fevent : Event(Addresses)]]
      /\ \A j \in SubRegions : /\ handlers'[j].fevent = handlers[j].fevent
                               /\ handlers'[j].pc = IF j = i THEN "wake" ELSE handlers[j].pc
  BY GotoHandlers DEF IInv, Places
<1>3. /\ events_queues' \in [SubRegions -> EventQueue(Addresses)]
      /\ \A j \in SubRegions : events_queues'[j].m_queue = events_queues[j].m_queue
  BY ForgottenQueues DEF IInv
<1> HIDE DEF b
<1>4. /\ clean_lru \in [SubRegions -> Seq(Blocks)] /\ dirty_lru \in [SubRegions -> Seq(Blocks)]
      /\ present_blocks \in [SubRegions -> SUBSET Blocks]
  BY DEF IInv, TypeOK
<1>5. /\ Cons(b, dirty_lru[i]) \in Seq(Blocks) /\ Cons(b, clean_lru[i]) \in Seq(Blocks)
      /\ ToSet(Cons(b, dirty_lru[i])) = ToSet(dirty_lru[i]) \cup {b}
  BY <1>1, <1>4, ConsProperties
<1>6. /\ \/ dirty_lru' = PushFront(dirty_lru, i, b) /\ UNCHANGED clean_lru
         \/ clean_lru' = PushFront(clean_lru, i, b) /\ UNCHANGED dirty_lru
      /\ present_blocks' = [present_blocks EXCEPT ![i] = @ \cup {b}]
  BY DEF b
<1>0. /\ handlers[i].pc = "enlist"
      /\ UNCHANGED <<metadata, acc, blocked, uffd, mapped, mem, registered, listener>>
      /\ UNCHANGED <<uffd_active, stash_set, blocks_ids, stash_file, pc, op, sync>>
      /\ UNCHANGED <<m_version_metadata_path, m_temp_current_metadata_path>>
  BY DEF HandlerAt
<1> HIDE DEF Enlist, app, call
<1>7. /\ clean_lru' \in [SubRegions -> Seq(Blocks)] /\ dirty_lru' \in [SubRegions -> Seq(Blocks)]
      /\ present_blocks' \in [SubRegions -> SUBSET Blocks]
      /\ \A j \in SubRegions : ToSet(dirty_lru'[j]) \subseteq ToSet(dirty_lru[j]) \cup {b}
  <2>1. present_blocks' \in [SubRegions -> SUBSET Blocks]
    BY <1>1, <1>4, <1>6
  <2>2. CASE dirty_lru' = PushFront(dirty_lru, i, b) /\ UNCHANGED clean_lru
    BY <2>1, <2>2, <1>4, <1>5 DEF PushFront
  <2>3. CASE clean_lru' = PushFront(clean_lru, i, b) /\ UNCHANGED dirty_lru
    BY <2>1, <2>3, <1>4, <1>5 DEF PushFront
  <2> QED
    BY <1>6, <2>2, <2>3
<1>8. TypeOK'
  BY <1>0, <1>2, <1>3, <1>7, SMTT(30) DEF IInv, TypeOK, Places
<1>9. EventsInv' /\ CallInv'
  BY <1>0, <1>2 DEF IInv, EventsInv, CallInv, Open, HandlerAt
<1>10. MappedInv'
  BY <1>0, <1>1, <1>2, <1>3, <1>7 DEF IInv, MappedInv, Sound, HandlerAt, Handling
<1> QED
  BY <1>8, <1>9, <1>10 DEF IInv

LEMMA WakeInv ==
  ASSUME IInv, NEW i \in SubRegions, Wake(i)
  PROVE  IInv'
<1> USE DEF Wake, lists, call
<1>1. /\ handlers' \in [SubRegions -> [pc : Places, fevent : Event(Addresses)]]
      /\ \A j \in SubRegions : /\ handlers'[j].fevent = handlers[j].fevent
                               /\ handlers'[j].pc = IF j = i THEN NextEvent ELSE handlers[j].pc
      /\ NextEvent \in {"dequeue", "stopped"}
  BY GotoHandlers DEF IInv, NextEvent, Places
<1>2. /\ blocked' \in [Threads -> Event(Pages) \cup {None}]
      /\ uffd' \in Seq(Threads) /\ ToSet(uffd') = ToSet(uffd) \ Woken(Handling(i))
      /\ \A t \in Threads : blocked'[t] = IF t \in Woken(Handling(i)) THEN None ELSE blocked[t]
  BY WakeThreads DEF IInv
<1>3. TypeOK'
  BY <1>1, <1>2 DEF IInv, TypeOK, Places
<1>4. EventsInv' /\ CallInv'
  <2>1. ToSet(uffd) \subseteq Threads
    BY ToSetElements DEF IInv, TypeOK
  <2> QED
    BY <1>1, <1>2, <2>1 DEF IInv, EventsInv, CallInv, Open
<1>5. MappedInv'
  BY <1>1, <1>2 DEF IInv, MappedInv, Sound, HandlerAt, Handling
<1> QED
  BY <1>3, <1>4, <1>5 DEF IInv

-------------------------------------------------------------------------------
(* The public calls. *)

(* What msync() starts with: the dirty blocks of a sub-region. *)
LEMMA StartSubRegionSync ==
  ASSUME TypeOK, NEW i \in SubRegions, StartSubRegion(i)
  PROVE  /\ pc' = "store" /\ sync'.sub = i /\ sync'.stored = {}
         /\ sync' \in [sub : SubRegions, todo : SUBSET (Nat \X Blocks),
                       stored : SUBSET (Nat \X Blocks)]
         /\ \A e \in sync'.todo : e[2] \in ToSet(dirty_lru[i])
         /\ \A b \in ToSet(dirty_lru[i]) : \E e \in sync'.todo : e[2] = b
<1>1. dirty_lru[i] \in Seq(Blocks) /\ sync'.todo = Entries(dirty_lru[i])
  BY DEF TypeOK, StartSubRegion
<1>2. /\ DOMAIN dirty_lru[i] \subseteq Nat
      /\ \A k \in DOMAIN dirty_lru[i] : dirty_lru[i][k] \in Blocks /\ dirty_lru[i][k] \in ToSet(dirty_lru[i])
      /\ \A b \in ToSet(dirty_lru[i]) : \E k \in DOMAIN dirty_lru[i] : dirty_lru[i][k] = b
  BY <1>1, ToSetElements
<1>3. pc' = "store" /\ sync' = [sub |-> i, todo |-> Entries(dirty_lru[i]), stored |-> {}]
  BY DEF StartSubRegion
<1>4. Entries(dirty_lru[i]) = {<<k, dirty_lru[i][k]>> : k \in DOMAIN dirty_lru[i]}
  BY DEF Entries
<1>5. Entries(dirty_lru[i]) \subseteq Nat \X Blocks
  BY <1>2, <1>4
<1>6. \A e \in Entries(dirty_lru[i]) : e[2] \in ToSet(dirty_lru[i])
  BY <1>2, <1>4
<1>7. ASSUME NEW b \in ToSet(dirty_lru[i]) PROVE \E e \in Entries(dirty_lru[i]) : e[2] = b
  <2>1. PICK k \in DOMAIN dirty_lru[i] : dirty_lru[i][k] = b
    BY <1>2
  <2>2. <<k, b>> \in Entries(dirty_lru[i]) /\ <<k, b>>[2] = b
    BY <2>1, <1>4
  <2> QED
    BY <2>2
<1> HIDE DEF Entries
<1> QED
  BY <1>3, <1>5, <1>6, <1>7

LEMMA StartMsyncInv ==
  ASSUME IInv, StartMsync
  PROVE  IInv'
<1> USE DEF StartMsync, app, threads, lists
<1>1. /\ 0 \in SubRegions /\ "msync" \in Calls /\ pc = "idle" /\ pc' = "store" /\ op = "none"
      /\ sync' \in [sub : SubRegions, todo : SUBSET (Nat \X Blocks),
                    stored : SUBSET (Nat \X Blocks)]
      /\ sync'.sub = 0 /\ sync'.stored = {}
      /\ \A e \in sync'.todo : e[2] \in ToSet(dirty_lru[0])
  BY UffdAssumption, StartSubRegionSync DEF IInv, CallInv, SubRegions, MayCall
<1>2. TypeOK'
  BY <1>1 DEF IInv, TypeOK
<1>3. EventsInv' /\ CallInv'
  BY <1>1 DEF IInv, EventsInv, CallInv, Open
<1>4. MappedInv'
  BY <1>1 DEF IInv, MappedInv, Sound, HandlerAt, Handling
<1> QED
  BY <1>2, <1>3, <1>4 DEF IInv

LEMMA StartSnapshotInv ==
  ASSUME IInv, NEW v \in Versions, StartSnapshot(v)
  PROVE  IInv'
<1> USE DEF StartSnapshot, app, threads, lists
<1>1. /\ 0 \in SubRegions /\ "snapshot" \in Calls /\ pc = "idle" /\ pc' = "store" /\ op = "none"
      /\ sync' \in [sub : SubRegions, todo : SUBSET (Nat \X Blocks),
                    stored : SUBSET (Nat \X Blocks)]
      /\ sync'.sub = 0 /\ sync'.stored = {}
      /\ \A e \in sync'.todo : e[2] \in ToSet(dirty_lru[0])
  BY UffdAssumption, StartSubRegionSync DEF IInv, CallInv, SubRegions, MayCall
<1>2. /\ ZeroImage \in Image /\ ZeroImage # None
      /\ metadata' \in [Versions -> Image \cup {None}]
      /\ \A u \in Versions : metadata'[u] = IF u = v THEN ZeroImage ELSE metadata[u]
  BY UffdAssumption, NoneAssumption DEF ZeroImage, Image, IInv, TypeOK
<1>3. TypeOK'
  BY <1>1, <1>2 DEF IInv, TypeOK
<1>4. EventsInv'
  BY <1>1 DEF IInv, EventsInv
<1>5. CallInv'
  BY <1>1, <1>2 DEF IInv, CallInv, Open
<1>6. MappedInv'
  BY <1>1 DEF IInv, MappedInv, Sound, HandlerAt, Handling
<1> QED
  BY <1>3, <1>4, <1>5, <1>6 DEF IInv

LEMMA StoreBlockInv ==
  ASSUME IInv, StoreBlock
  PROVE  IInv'
<1> USE DEF StoreBlock, app, threads, lists
<1>1. PICK e \in sync.todo :
        /\ blocks_ids' = IdsWith(e[2])
        /\ sync' = [sync EXCEPT !.todo = @ \ {e}, !.stored = @ \cup {e}]
  OBVIOUS
<1>2. /\ sync' \in [sub : SubRegions, todo : SUBSET (Nat \X Blocks),
                    stored : SUBSET (Nat \X Blocks)]
      /\ sync'.sub = sync.sub
      /\ sync'.todo \cup sync'.stored = sync.todo \cup sync.stored
  <2>1. sync \in [sub : SubRegions, todo : SUBSET (Nat \X Blocks),
                  stored : SUBSET (Nat \X Blocks)]
    BY DEF IInv, TypeOK
  <2>2. /\ sync'.sub = sync.sub /\ sync'.todo = sync.todo \ {e}
        /\ sync'.stored = sync.stored \cup {e}
        /\ sync' = [sub |-> sync'.sub, todo |-> sync'.todo, stored |-> sync'.stored]
    BY <1>1, <2>1
  <2>3. e \in Nat \X Blocks /\ sync.todo \subseteq Nat \X Blocks /\ sync.stored \subseteq Nat \X Blocks
    BY <2>1
  <2>4. sync'.todo \subseteq Nat \X Blocks /\ sync'.stored \subseteq Nat \X Blocks
    BY <2>2, <2>3
  <2> QED
    BY <2>1, <2>2, <2>4
<1>3. blocks_ids' \in Image
  BY <1>1 DEF IdsWith, IInv, TypeOK, Image
<1>4. TypeOK'
  BY <1>2, <1>3 DEF IInv, TypeOK
<1>5. EventsInv' /\ CallInv'
  BY DEF IInv, EventsInv, CallInv, Open
<1>6. MappedInv'
  BY <1>2 DEF IInv, MappedInv, Sound, HandlerAt, Handling
<1> QED
  BY <1>4, <1>5, <1>6 DEF IInv

LEMMA ProtectBlockInv ==
  ASSUME IInv, ProtectBlock
  PROVE  IInv'
<1>1. CASE Exit
  BY <1>1, ExitInv
<1>2. CASE ~Exit
  <2> USE DEF ProtectBlock, app, threads
  <2>1. PICK e \in sync.stored :
          /\ mapped' = Protected(e[2])
          /\ clean_lru' = PushFront(clean_lru, sub_region_of_address(e[2]), e[2])
          /\ sync' = [sync EXCEPT !.stored = @ \ {e}]
          /\ UNCHANGED <<metadata, app, mem, registered, threads, present_blocks, dirty_lru,
                         stash_set, blocks_ids, stash_file, pc, op, m_version_metadata_path,
                         m_temp_current_metadata_path>>
    BY <1>2
  <2>2. e[2] \in Blocks
    BY <2>1 DEF IInv, TypeOK
  <2>3. /\ sync' \in [sub : SubRegions, todo : SUBSET (Nat \X Blocks),
                      stored : SUBSET (Nat \X Blocks)]
        /\ sync'.todo \cup sync'.stored \subseteq sync.todo \cup sync.stored
    BY <2>1 DEF IInv, TypeOK
  <2>4. /\ mapped' \in [Blocks -> {"missing", "wp", "rw"}]
        /\ \A b \in Blocks : mapped[b] # "missing" => mapped'[b] # "missing"
    BY <2>1, <2>2 DEF IInv, TypeOK, Protected
  <2>5. clean_lru' \in [SubRegions -> Seq(Blocks)]
    <3>1. clean_lru \in [SubRegions -> Seq(Blocks)]
      BY DEF IInv, TypeOK
    <3>2. Cons(e[2], clean_lru[sub_region_of_address(e[2])]) \in Seq(Blocks)
      BY <2>2, <3>1, SubRegionOfBlock, ConsProperties
    <3> QED
      BY <2>1, <3>1, <3>2 DEF PushFront
  <2>6. TypeOK'
    BY <2>1, <2>3, <2>4, <2>5 DEF IInv, TypeOK
  <2>7. EventsInv' /\ CallInv'
    BY <2>1 DEF IInv, EventsInv, CallInv, Open
  <2>8. MappedInv'
    <3>1. op # "close" => StillSound
      BY <2>4, StaySound DEF IInv
    <3> QED
      BY <2>1, <2>3, <3>1 DEF IInv, MappedInv, StillSound, HandlerAt, Handling
  <2> QED
    BY <2>6, <2>7, <2>8 DEF IInv
<1> QED
  BY <1>1, <1>2

LEMMA ClearDirtyInv ==
  ASSUME IInv, ClearDirty
  PROVE  IInv'
<1> USE DEF ClearDirty, app, threads
<1>1. sync' \in [sub : SubRegions, todo : SUBSET (Nat \X Blocks),
                stored : SUBSET (Nat \X Blocks)]
  <2>1. {0} \X stash_set[sync.sub] \subseteq Nat \X Blocks
    BY DEF IInv, TypeOK
  <2> QED
    BY <2>1 DEF IInv, TypeOK
<1>2. /\ dirty_lru' \in [SubRegions -> Seq(Blocks)]
      /\ \A i \in SubRegions : ToSet(dirty_lru'[i]) \subseteq ToSet(dirty_lru[i])
  BY ToSetEmpty DEF DirtyEmptied, IInv, TypeOK
<1>3. TypeOK'
  BY <1>1, <1>2 DEF IInv, TypeOK
<1>4. EventsInv' /\ CallInv'
  BY DEF IInv, EventsInv, CallInv, Open
<1>5. MappedInv'
  BY <1>2 DEF IInv, MappedInv, Sound, HandlerAt, Handling
<1> QED
  BY <1>3, <1>4, <1>5 DEF IInv

LEMMA CommitBlockInv ==
  ASSUME IInv, CommitBlock
  PROVE  IInv'
<1>1. CASE Exit
  BY <1>1, ExitInv
<1>2. CASE ~Exit
  <2> USE DEF CommitBlock, app, threads, lists
  <2>1. PICK e \in sync.todo :
          /\ stash_file[e[2]] # None
          /\ blocks_ids' = [blocks_ids EXCEPT ![e[2]] = stash_file[e[2]]]
          /\ stash_file' = [stash_file EXCEPT ![e[2]] = None]
          /\ sync' = [sync EXCEPT !.todo = @ \ {e}]
          /\ UNCHANGED <<metadata, app, mapped, mem, registered, threads, lists, pc, op,
                         m_version_metadata_path, m_temp_current_metadata_path>>
    BY <1>2
  <2>2. sync' \in [sub : SubRegions, todo : SUBSET (Nat \X Blocks),
                  stored : SUBSET (Nat \X Blocks)]
    BY <2>1 DEF IInv, TypeOK
  <2>3. blocks_ids' \in Image /\ stash_file' \in [Blocks -> Values \cup {None}]
    BY <2>1 DEF IInv, TypeOK, Image
  <2>4. TypeOK'
    BY <2>1, <2>2, <2>3 DEF IInv, TypeOK
  <2>5. EventsInv' /\ CallInv'
    BY <2>1 DEF IInv, EventsInv, CallInv, Open
  <2>6. MappedInv'
    BY <2>1 DEF IInv, MappedInv, Sound, HandlerAt, Handling
  <2> QED
    BY <2>4, <2>5, <2>6 DEF IInv
<1> QED
  BY <1>1, <1>2

LEMMA UpdateMetadata ==
  ASSUME TypeOK, NEW i \in SubRegions, update_metadata(i),
         m_version_metadata_path \in Versions,
         metadata[m_version_metadata_path] # None
  PROVE  /\ metadata' \in [Versions -> Image \cup {None}]
         /\ \A v \in Versions : metadata[v] # None => metadata'[v] # None
         /\ \A v \in Versions : v # m_version_metadata_path => metadata'[v] = metadata[v]
         /\ \A b \in Blocks : metadata'[m_version_metadata_path][b] =
              IF b \in Written(i) THEN blocks_ids[b] ELSE metadata[m_version_metadata_path][b]
<1> DEFINE old == metadata[m_version_metadata_path]
           new == [b \in Blocks |-> IF b \in Written(i) THEN blocks_ids[b] ELSE old[b]]
<1>1. metadata \in [Versions -> Image \cup {None}] /\ old \in Image /\ blocks_ids \in Image
  BY DEF TypeOK
<1>2. new \in Image
  BY <1>1 DEF Image
<1>3. metadata' = [metadata EXCEPT ![m_version_metadata_path] = new]
  BY DEF update_metadata
<1>4. new # None
  BY <1>2, NoneAssumption
<1>5. \A b \in Blocks : new[b] = IF b \in Written(i) THEN blocks_ids[b] ELSE old[b]
  OBVIOUS
<1> HIDE DEF new
<1> QED
  BY <1>1, <1>2, <1>3, <1>4, <1>5

LEMMA EndSubRegionInv ==
  ASSUME IInv, EndSubRegion
  PROVE  IInv'
<1> USE DEF EndSubRegion, app, threads
<1>1. /\ m_version_metadata_path \in Versions
      /\ metadata' \in [Versions -> Image \cup {None}]
      /\ \A v \in Versions : metadata[v] # None => metadata'[v] # None
  BY UpdateMetadata DEF IInv, CallInv, Open, TypeOK
<1>2. stash_set' \in [SubRegions -> SUBSET Blocks]
  BY DEF StashEmptied, IInv, TypeOK
<1>3. CASE sync.sub + 1 \in SubRegions
  <2>1. /\ StartSubRegion(sync.sub + 1)
        /\ UNCHANGED <<op, m_version_metadata_path, m_temp_current_metadata_path>>
    BY <1>3
  <2>2. /\ pc' = "store" /\ sync'.stored = {}
        /\ sync' \in [sub : SubRegions, todo : SUBSET (Nat \X Blocks),
                      stored : SUBSET (Nat \X Blocks)]
        /\ \A e \in sync'.todo : e[2] \in ToSet(dirty_lru[sync.sub + 1])
    BY <1>3, <2>1, StartSubRegionSync DEF IInv
  <2>3. TypeOK'
    BY <1>1, <1>2, <2>1, <2>2 DEF IInv, TypeOK
  <2>4. EventsInv' /\ CallInv'
    BY <1>1, <2>1, <2>2 DEF IInv, EventsInv, CallInv, Open
  <2>5. MappedInv'
    BY <1>3, <2>1, <2>2 DEF IInv, MappedInv, Sound, HandlerAt, Handling
  <2> QED
    BY <2>3, <2>4, <2>5 DEF IInv
<1>4. CASE sync.sub + 1 \notin SubRegions
  <2>1. /\ sync' = EmptySync
        /\ pc' = IF op = "close" THEN "unmap" ELSE "idle"
        /\ op' = IF op = "close" THEN "close" ELSE "none"
        /\ m_version_metadata_path' =
              IF op = "snapshot" THEN m_temp_current_metadata_path ELSE m_version_metadata_path
        /\ m_temp_current_metadata_path' = None
    BY <1>4
  <2>2. /\ m_version_metadata_path' \in Versions
        /\ metadata'[m_version_metadata_path'] # None
    BY <1>1, <2>1 DEF IInv, CallInv, Open
  <2>3. sync' \in [sub : SubRegions, todo : SUBSET (Nat \X Blocks),
                  stored : SUBSET (Nat \X Blocks)]
    BY <2>1, UffdAssumption DEF EmptySync, SubRegions
  <2>4. TypeOK'
    BY <1>1, <1>2, <2>1, <2>2, <2>3 DEF IInv, TypeOK
  <2>5. EventsInv'
    BY DEF IInv, EventsInv
  <2>6. CallInv'
    BY <2>1, <2>2 DEF IInv, CallInv, Open
  <2>7. MappedInv'
    BY <2>1 DEF IInv, MappedInv, CallInv, Sound, HandlerAt, Handling
  <2> QED
    BY <2>4, <2>5, <2>6, <2>7 DEF IInv
<1> QED
  BY <1>3, <1>4

LEMMA UnregisterRegionInv ==
  ASSUME IInv, UnregisterRegion
  PROVE  IInv'
<1> USE DEF UnregisterRegion, lists
<1>1. pc = "idle" /\ "close" \in Calls
  BY DEF MayCall
<1>2. events_queues' \in [SubRegions -> EventQueue(Addresses)]
  <2>1. ASSUME NEW i \in SubRegions PROVE enqueue(events_queues[i], StopEvent) \in EventQueue(Addresses)
    <3>1. StopEvent \in Event(Addresses) /\ StopEvent.address = 0
          /\ events_queues[i] \in EventQueue(Addresses)
      BY DEF StopEvent, Event, Addresses, IInv, TypeOK
    <3>2. Append(events_queues[i].m_queue, StopEvent) \in Seq(Event(Addresses))
      BY <3>1, AppendElements DEF EventQueue
    <3> QED
      BY <3>1, <3>2 DEF enqueue, EventQueue
  <2> QED
    BY <2>1 DEF StopEvents
<1>3. /\ mapped' \in [Blocks -> {"missing", "wp", "rw"}]
      /\ uffd' \in Seq(Threads) /\ ToSet(uffd') = {}
      /\ blocked' \in [Threads -> Event(Pages) \cup {None}]
      /\ registered' \in BOOLEAN
  <2>1. mapped' \in [Blocks -> {"missing", "wp", "rw"}]
    BY DEF IInv, TypeOK
  <2>2. uffd' \in Seq(Threads) /\ ToSet(uffd') = {}
    BY ToSetEmpty
  <2>3. blocked' \in [Threads -> Event(Pages) \cup {None}]
    OBVIOUS
  <2>4. registered' \in BOOLEAN
    OBVIOUS
  <2> QED
    BY <2>1, <2>2, <2>3, <2>4
<1>4. TypeOK'
  BY <1>1, <1>2, <1>3 DEF IInv, TypeOK
<1>5. EventsInv'
  BY <1>3 DEF IInv, EventsInv
<1>6. CallInv'
  BY <1>1 DEF IInv, CallInv, Open
<1>7. MappedInv'
  BY DEF MappedInv
<1> QED
  BY <1>4, <1>5, <1>6, <1>7 DEF IInv

LEMMA JoinListenerInv ==
  ASSUME IInv, JoinListener
  PROVE  IInv'
<1> USE DEF JoinListener, app, threads, lists
<1>1. /\ pc' = "store" /\ op = "close"
      /\ sync' \in [sub : SubRegions, todo : SUBSET (Nat \X Blocks),
                    stored : SUBSET (Nat \X Blocks)]
  BY UffdAssumption, StartSubRegionSync DEF IInv, CallInv, SubRegions
<1>2. TypeOK'
  BY <1>1 DEF IInv, TypeOK
<1>3. EventsInv' /\ CallInv' /\ MappedInv'
  BY <1>1 DEF IInv, EventsInv, CallInv, Open, MappedInv
<1> QED
  BY <1>2, <1>3 DEF IInv

LEMMA UnmapInv ==
  ASSUME IInv, Unmap
  PROVE  IInv'
<1> USE DEF Unmap, app, lists
<1>1. events_queues' \in [SubRegions -> EventQueue(Addresses)]
  <2> DEFINE stops == [k \in 1 .. num_handling_threads |-> StopEvent]
  <2>1. stops \in Seq(Event(Addresses)) /\ 0 \in SubRegions
    <3>1. StopEvent \in Event(Addresses)
      BY DEF StopEvent, Event, Addresses
    <3> QED
      BY <3>1, UffdAssumption DEF SubRegions
  <2>2. /\ events_queues[0].m_queue \in Seq(Event(Addresses))
        /\ events_queues[0] \in EventQueue(Addresses)
        /\ events_queues \in [SubRegions -> EventQueue(Addresses)]
    BY <2>1 DEF IInv, TypeOK, EventQueue
  <2>3. StoppedForAll(events_queues[0]) = [events_queues[0] EXCEPT !.m_queue = @ \o stops]
    BY DEF StoppedForAll
  <2> HIDE DEF stops
  <2>4. events_queues[0].m_queue \o stops \in Seq(Event(Addresses))
    BY <2>1, <2>2
  <2>5. StoppedForAll(events_queues[0]) \in EventQueue(Addresses)
    BY <2>2, <2>3, <2>4 DEF EventQueue
  <2> QED
    BY <2>2, <2>5
<1>2. /\ mapped' \in [Blocks -> {"missing", "wp", "rw"}]
      /\ uffd_active' \in BOOLEAN
  BY DEF IInv, TypeOK
<1>3. op = "close" /\ pc' = "join"
  BY DEF IInv, CallInv
<1>4. TypeOK'
  BY <1>1, <1>2, <1>3 DEF IInv, TypeOK
<1>5. EventsInv' /\ CallInv' /\ MappedInv'
  BY <1>3 DEF IInv, EventsInv, CallInv, Open, MappedInv
<1> QED
  BY <1>4, <1>5 DEF IInv

LEMMA JoinHandlersInv ==
  ASSUME IInv, JoinHandlers
  PROVE  IInv'
<1>1. ZeroImage \in Image /\ metadata' \in [Versions -> Image \cup {None}]
  BY UffdAssumption DEF ZeroImage, Image, IInv, TypeOK, JoinHandlers
<1> QED
  BY <1>1, FreshInv DEF JoinHandlers

-------------------------------------------------------------------------------
LEMMA NextInv ==
  ASSUME IInv, [Next]_vars
  PROVE  IInv'
<1>1. CASE UNCHANGED vars
  BY <1>1 DEF IInv, TypeOK, EventsInv, CallInv, MappedInv, Sound, HandlerAt, Handling, Open,
              vars, app, threads, lists, call
<1>2. ASSUME NEW v \in Versions, Create(v) \/ OpenVersion(v) \/ StartSnapshot(v) PROVE IInv'
  BY <1>2, CreateInv, OpenVersionInv, StartSnapshotInv
<1>3. ASSUME NEW t \in Threads, BeginAccess(t) \/ FinishAccess(t) \/ PageFault(t) PROVE IInv'
  BY <1>3, BeginAccessInv, FinishAccessInv, PageFaultInv
<1>4. CASE Listener
  BY <1>4, PollInv, ReadInv, DispatchInv DEF Listener
<1>5. ASSUME NEW i \in SubRegions, handler(i) PROVE IInv'
  BY <1>5, DequeueInv, SkipPresentInv, HandleWpInv, UnprotectInv, RemoveProcessedInv,
     HandleAbsentInv, CopyInv, EnlistInv, WakeInv DEF handler
<1>6. CASE StartMsync \/ UnregisterRegion
  BY <1>6, StartMsyncInv, UnregisterRegionInv
<1>7. CASE Caller
  BY <1>7, StoreBlockInv, ProtectBlockInv, ClearDirtyInv, CommitBlockInv, EndSubRegionInv,
     JoinListenerInv, UnmapInv, JoinHandlersInv DEF Caller
<1> QED
  BY <1>1, <1>2, <1>3, <1>4, <1>5, <1>6, <1>7 DEF Next

LEMMA Inductive == Spec => []IInv
  BY InitInv, NextInv, PTL DEF Spec

(* Whatever the threads, the kernel, the handler threads and msync() do in *)
(* whatever order: each variable of the model keeps its type.              *)
THEOREM UffdTypeCorrect == Spec => []TypeOK
  BY Inductive, PTL DEF IInv

-------------------------------------------------------------------------------
(* What loads return, before and after a step that lets the region live.   *)
SameToLoads == \A b \in Blocks : Contents(b)' = Contents(b)

(* What a load of a block returns depends on four variables. *)
LEMMA SameContents ==
  ASSUME UNCHANGED <<mapped, mem, blocks_ids, stash_file>>
  PROVE  SameToLoads
  BY DEF SameToLoads, Contents, Backing

(* A block whose pages are there has the contents of memory, whatever      *)
(* becomes of its stash file and its id.                                   *)
LEMMA SameMemory ==
  ASSUME TypeOK, mem' = mem,
         \A b \in Blocks : mapped'[b] = "missing" <=> mapped[b] = "missing",
         \A b \in Blocks : mapped[b] = "missing" =>
           stash_file'[b] = stash_file[b] /\ blocks_ids'[b] = blocks_ids[b]
  PROVE  SameToLoads
  BY DEF SameToLoads, Contents, Backing

LEMMA HandlerKeeps ==
  ASSUME IInv, NEW i \in SubRegions, handler(i), Open', op # "close"
  PROVE  SameToLoads
<1>1. ~Exit
  BY DEF Exit, Open
<1>2. CASE Dequeue(i) \/ SkipPresent(i) \/ RemoveProcessed(i) \/ Enlist(i) \/ Wake(i)
  BY <1>2, SameContents DEF Dequeue, SkipPresent, RemoveProcessed, Enlist, Wake
<1>3. CASE HandleWp(i)
  <2>1. mapped[Handling(i)] # "missing"
    BY <1>3 DEF HandleWp, HandlerAt, IInv, MappedInv, Sound, Handling
  <2>2. /\ stash_file' = IF Handling(i) \in stash_set[i]
                         THEN [stash_file EXCEPT ![Handling(i)] = None] ELSE stash_file
        /\ UNCHANGED <<mapped, mem, blocks_ids>>
    BY <1>1, <1>3 DEF HandleWp
  <2>3. \A b \in Blocks : mapped[b] = "missing" => stash_file'[b] = stash_file[b]
    BY <2>1, <2>2 DEF IInv, TypeOK
  <2> QED
    BY <2>2, <2>3, SameMemory DEF IInv
<1>4. CASE Unprotect(i)
  <2>1. /\ mapped' = [mapped EXCEPT ![Handling(i)] = IF @ = "wp" THEN "rw" ELSE @]
        /\ UNCHANGED <<mem, blocks_ids, stash_file>>
    BY <1>1, <1>4 DEF Unprotect, lists
  <2>2. \A b \in Blocks : mapped'[b] = "missing" <=> mapped[b] = "missing"
    BY <2>1 DEF IInv, TypeOK
  <2> QED
    BY <2>1, <2>2, SameMemory DEF IInv
<1>5. CASE HandleAbsent(i)
  <2>1. /\ UNCHANGED <<lists, stash_file>> \/ EvictClean(i) \/ EvictDirty(i)
        /\ UNCHANGED <<mapped, mem, blocks_ids>>
    BY <1>1, <1>5 DEF HandleAbsent
  <2>2. \A b \in Blocks : stash_file'[b] # stash_file[b] => b \in ToSet(dirty_lru[i])
    BY <2>1, EvictionLists DEF IInv
  <2>3. \A b \in Blocks : mapped[b] = "missing" => stash_file'[b] = stash_file[b]
    BY <2>2 DEF IInv, MappedInv
  <2> QED
    BY <2>1, <2>3, SameMemory DEF IInv
<1>6. CASE Copy(i)
  <2> DEFINE c == Handling(i)
             how == IF handlers[i].fevent.is_write_fault THEN "rw" ELSE "wp"
  <2>1. /\ mapped[c] = "missing"
        /\ mem' = [mem EXCEPT ![c] = CopiedIn(c)] /\ mapped' = [mapped EXCEPT ![c] = how]
        /\ UNCHANGED <<blocks_ids, stash_file>>
    BY <1>1, <1>6 DEF Copy
  <2>2. c \in Blocks
    BY <1>6, HandlingBlock DEF Copy, HandlerAt
  <2>3. how # "missing"
    OBVIOUS
  <2> HIDE DEF c, how
  <2>4. /\ mapped'[c] # "missing" /\ mem'[c] = Backing(c)
        /\ \A b \in Blocks : b # c => mapped'[b] = mapped[b] /\ mem'[b] = mem[b]
    BY <2>1, <2>2, <2>3 DEF IInv, TypeOK, Image, CopiedIn
  <2>5. \A b \in Blocks : Backing(b)' = Backing(b)
    BY <2>1 DEF Backing
  <2> QED
    BY <2>1, <2>4, <2>5 DEF SameToLoads, Contents
<1> QED
  BY <1>2, <1>3, <1>4, <1>5, <1>6 DEF handler

LEMMA CallerKeeps ==
  ASSUME IInv, Caller, Open', op # "close"
  PROVE  SameToLoads
<1>1. ~Exit
  BY DEF Exit, Open
<1>2. CASE StoreBlock
  <2>1. PICK e \in sync.todo : blocks_ids' = IdsWith(e[2])
    BY <1>2 DEF StoreBlock
  <2>2. mapped[e[2]] # "missing"
    BY <1>2, <2>1 DEF StoreBlock, IInv, MappedInv
  <2>3. \A b \in Blocks : mapped[b] = "missing" => blocks_ids'[b] = blocks_ids[b]
    BY <2>1, <2>2 DEF IdsWith, IInv, TypeOK, Image
  <2> QED
    BY <1>2, <2>3, SameMemory DEF StoreBlock, IInv
<1>3. CASE ProtectBlock
  <2>1. PICK e \in sync.stored :
          mapped' = Protected(e[2]) /\ UNCHANGED <<mem, blocks_ids, stash_file>>
    BY <1>1, <1>3 DEF ProtectBlock
  <2>2. \A b \in Blocks : mapped'[b] = "missing" <=> mapped[b] = "missing"
    BY <2>1 DEF Protected, IInv, TypeOK
  <2> QED
    BY <2>1, <2>2, SameMemory DEF IInv
<1>4. CASE ClearDirty
  BY <1>4, SameContents DEF ClearDirty
<1>5. CASE CommitBlock
  <2>1. PICK e \in sync.todo :
          /\ stash_file[e[2]] # None
          /\ blocks_ids' = [blocks_ids EXCEPT ![e[2]] = stash_file[e[2]]]
          /\ stash_file' = [stash_file EXCEPT ![e[2]] = None]
          /\ UNCHANGED <<mapped, mem>>
    BY <1>1, <1>5 DEF CommitBlock
  <2>2. \A b \in Blocks : Backing(b)' = Backing(b)
    BY <2>1 DEF Backing, IInv, TypeOK, Image
  <2> QED
    BY <2>1, <2>2 DEF SameToLoads, Contents
<1>6. CASE EndSubRegion
  BY <1>6, SameContents DEF EndSubRegion
<1>7. CASE JoinListener \/ Unmap \/ JoinHandlers
  BY <1>7 DEF JoinListener, Unmap, JoinHandlers, IInv, CallInv
<1> QED
  BY <1>2, <1>3, <1>4, <1>5, <1>6, <1>7 DEF Caller

(* Faults, evictions, the copies of the handler threads and the steps of   *)
(* msync() and snapshot() never change what a load returns, in whatever    *)
(* order they come, with whatever stale events, whether or not threads     *)
(* share blocks or store while msync() runs, and however little fits.      *)
THEOREM OnlyStoresChangeCorrect == Spec => OnlyStoresChange
<1>1. ASSUME IInv, [Next]_vars, Open, Open', op # "close",
             NEW b \in Blocks, Contents(b)' # Contents(b)
      PROVE  \E t \in Threads : /\ acc[t] # None /\ acc'[t] = None
                                /\ get_block(acc[t].page) = b
                                /\ Contents(b)' = acc[t].value
  <2>1. SUFFICES ASSUME ~SameToLoads
                 PROVE  \E t \in Threads : /\ acc[t] # None /\ acc'[t] = None
                                           /\ get_block(acc[t].page) = b
                                           /\ Contents(b)' = acc[t].value
    BY <1>1 DEF SameToLoads
  <2>2. ASSUME NEW t \in Threads, FinishAccess(t)
        PROVE  \E u \in Threads : /\ acc[u] # None /\ acc'[u] = None
                                  /\ get_block(acc[u].page) = b
                                  /\ Contents(b)' = acc[u].value
    <3>1. /\ acc[t] # None /\ Allowed(acc[t])
          /\ mem' = IF acc[t].value = None THEN mem
                    ELSE [mem EXCEPT ![get_block(acc[t].page)] = acc[t].value]
          /\ acc' = [acc EXCEPT ![t] = None]
          /\ UNCHANGED <<mapped, blocks_ids, stash_file>>
      BY <2>2 DEF FinishAccess
    <3>2. acc'[t] = None
      <4>1. acc \in [Threads -> Access \cup {None}]
        BY <1>1 DEF IInv, TypeOK
      <4> QED
        BY <3>1, <4>1
    <3>3. /\ mem'[b] # mem[b] /\ mapped'[b] # "missing" /\ Contents(b)' = mem'[b]
      BY <1>1, <3>1 DEF Contents, Backing
    <3>4. get_block(acc[t].page) = b /\ mem'[b] = acc[t].value
      BY <1>1, <3>1, <3>3 DEF IInv, TypeOK, Image
    <3> QED
      BY <3>1, <3>2, <3>3, <3>4
  <2>3. CASE UNCHANGED vars
    BY <2>1, <2>3, SameContents DEF vars
  <2>4. ASSUME NEW v \in Versions, Create(v) \/ OpenVersion(v) PROVE FALSE
    BY <1>1, <2>4 DEF Create, OpenVersion
  <2>5. ASSUME NEW v \in Versions, StartSnapshot(v) PROVE FALSE
    BY <2>1, <2>5, SameContents DEF StartSnapshot
  <2>6. ASSUME NEW t \in Threads, BeginAccess(t) \/ PageFault(t) PROVE FALSE
    BY <2>1, <2>6, SameContents DEF BeginAccess, PageFault
  <2>7. CASE Listener
    <3>1. ~Exit
      BY <1>1 DEF Exit, Open
    <3> QED
      BY <2>1, <2>7, <3>1, SameContents DEF Listener, Poll, Read, Dispatch
  <2>8. ASSUME NEW i \in SubRegions, handler(i) PROVE FALSE
    BY <1>1, <2>1, <2>8, HandlerKeeps
  <2>9. CASE StartMsync
    BY <2>1, <2>9, SameContents DEF StartMsync
  <2>10. CASE UnregisterRegion
    <3>1. \A c \in Blocks : mapped'[c] = "missing" <=> mapped[c] = "missing"
      BY <2>10 DEF UnregisterRegion
    <3> QED
      BY <1>1, <2>1, <2>10, <3>1, SameMemory DEF UnregisterRegion, IInv
  <2>11. CASE Caller
    BY <1>1, <2>1, <2>11, CallerKeeps
  <2> QED
    BY <1>1, <2>2, <2>3, <2>4, <2>5, <2>6, <2>7, <2>8, <2>9, <2>10, <2>11 DEF Next
<1>2. ASSUME IInv, [Next]_vars
      PROVE  [Open /\ Open' /\ op # "close" =>
                \A b \in Blocks :
                  Contents(b)' # Contents(b) =>
                    \E t \in Threads : /\ acc[t] # None /\ acc'[t] = None
                                      /\ get_block(acc[t].page) = b
                                      /\ Contents(b)' = acc[t].value]_vars
  BY <1>1, <1>2
<1> QED
  BY <1>2, Inductive, PTL DEF Spec, OnlyStoresChange

===============================================================================
