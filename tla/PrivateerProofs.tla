---------------------------- MODULE PrivateerProofs ----------------------------
(***************************************************************************)
(* Proofs about Privateer, for any processes, objects, versions and region *)
(* sizes, and any mix of the two builds.                                   *)
(*                                                                         *)
(* That a name is made only once needs an account of who is past the       *)
(* exclusive step of making it; that faults reach their manager needs the  *)
(* objects, the managers, the address ranges and the count of handlers to  *)
(* agree.  IInv is the conjunction of these accounts.                      *)
(***************************************************************************)
EXTENDS Privateer, FiniteSetTheorems, TLAPS

(* Where the steps of a call are. *)
WritePlaces == {"truncate_blocks_path", "write_blocks_path", "write_capacity"}
CreatePlaces == {"make_dir", "create_metadata", "find_blocks", "make_blocks",
                 "truncate_granularity", "write_granularity", "map"} \cup WritePlaces
OpenPlaces == {"open_blocks_path", "open_granularity", "open_metadata", "open_capacity"}
CopyPlaces == {"make_dir", "copy_metadata", "copy_capacity", "copy_blocks_path"} \cup OpenPlaces
SnapshotPlaces == {"make_dir", "snapshot_metadata", "snapshot_msync"} \cup WritePlaces

(* A call is where its kind can be, and knows what it needs there. *)
CallState ==
  \A p \in Processes : pc[p] # "idle" =>
    /\ call[p] \in Call /\ process[call[p].object] = p
    /\ call[p].op = "create" =>
         pc[p] \in CreatePlaces /\ call[p].size > 0 /\ call[p].capacity > 0
    /\ call[p].op = "open" => pc[p] \in OpenPlaces
    /\ call[p].op = "open_immutable" => pc[p] \in CopyPlaces /\ call[p].source \in Versions
    /\ call[p].op = "snapshot" =>
         /\ pc[p] \in SnapshotPlaces /\ call[p].source \in Versions
         /\ call[p].capacity > 0 /\ vmm[call[p].object] # None

(* No version and no region is empty. *)
CapacityInv ==
  /\ \A v \in Versions : capacity[v] # 0
  /\ \A m \in Managers : managers[m] # None => managers[m].capacity > 0

(* Each manager that an object points to is there, in the object's process *)
(* and no other object's.                                                  *)
ObjectsInv ==
  /\ \A o \in Objects : vmm[o] # None =>
       managers[vmm[o]] # None /\ managers[vmm[o]].process = process[o]
  /\ \A o1, o2 \in Objects : vmm[o1] # None /\ vmm[o1] = vmm[o2] => o1 = o2

(* Each manager has its addresses and its entry there, and free addresses  *)
(* have none.                                                              *)
RegionsInv ==
  /\ \A m \in Managers : managers[m] # None =>
       LET p == managers[m].process
           s == managers[m].slot
       IN  s \in mapped[p] /\ regions[p][s] > 0 /\ region_managers[p][s] = m
  /\ \A p \in Processes, s \in Slots : s \notin mapped[p] =>
       regions[p][s] = 0 /\ region_managers[p][s] = None

Live(p) == {m \in Managers : managers[m] # None /\ managers[m].process = p}

(* The handler is installed while there are managers to call, and the      *)
(* listener runs while there are any: num_handlers counts them.            *)
HandlersInv ==
  \A p \in Processes :
    /\ build[p] = "SIGACTION" /\ Live(p) # {} /\ ~destroyed[p] => action[p] = "handler"
    /\ build[p] = "USERFAULTFD" =>
         /\ IsFiniteSet(Live(p)) /\ num_handlers[p] = Cardinality(Live(p))
         /\ m_uffd[p] <=> num_handlers[p] # 0

(* Process p makes version v and is past the step that only one can take.  *)
Makes(p, v) ==
  /\ pc[p] \notin {"idle", "make_dir", "create_metadata", "copy_metadata"}
  /\ call[p].op \in {"create", "open_immutable"} /\ call[p].version = v

MakersInv ==
  \A v \in Versions : made[v] # "overwritten" =>
    /\ made[v] # "twice"
    /\ made[v] = "once" => metadata[v] # NoFile
    /\ \A p \in Processes : Makes(p, v) => made[v] = "no" /\ metadata[v] # NoFile
    /\ \A p, q \in Processes : Makes(p, v) /\ Makes(q, v) => p = q

IInv == TypeOK /\ CallState /\ CapacityInv /\ ObjectsInv /\ RegionsInv /\ HandlersInv /\ MakersInv

-------------------------------------------------------------------------------
LEMMA InitInv == Init => IInv
<1> SUFFICES ASSUME Init PROVE IInv
  OBVIOUS
<1> USE PrivateerAssumption DEF Init
<1>1. TypeOK
  <2>1. /\ base_dir \in BOOLEAN /\ granularity \in Nat \cup {NoDir, NoFile, Truncated}
        /\ version_dir \in [Versions -> BOOLEAN]
        /\ metadata \in [Versions -> Values \cup {NoFile}]
        /\ blocks_path \in [Versions -> {NoFile, Truncated, Set}]
        /\ capacity \in [Versions -> Nat \cup {NoFile, Truncated}]
    OBVIOUS
  <2>2. /\ pc \in [Processes -> pcs] /\ call \in [Processes -> Call \cup {None}]
        /\ m_block_size \in [Objects -> Nat \cup {NotBuilt}]
        /\ vmm \in [Objects -> Managers \cup {None}]
        /\ managers \in [Managers -> Manager \cup {None}]
    BY DEF pcs
  <2>3. /\ mapped \in [Processes -> SUBSET Slots]
        /\ regions \in [Processes -> [Slots -> Nat]]
        /\ region_managers \in [Processes -> [Slots -> Managers \cup {None}]]
        /\ action \in [Processes -> {"default", "handler", "once", "garbage"}]
        /\ m_uffd \in [Processes -> BOOLEAN]
        /\ num_handlers \in [Processes -> Nat]
        /\ destroyed \in [Processes -> BOOLEAN]
    OBVIOUS
  <2>4. deaths \in 0 .. MaxDeaths /\ made \in [Versions -> {"no", "once", "twice", "overwritten"}]
    OBVIOUS
  <2> QED
    BY <2>1, <2>2, <2>3, <2>4 DEF TypeOK
<1>2. CallState /\ CapacityInv /\ ObjectsInv /\ RegionsInv
  BY DEF CallState, CapacityInv, ObjectsInv, RegionsInv, NoFile
<1>3. HandlersInv
  <2>1. \A p \in Processes : Live(p) = {}
    BY DEF Live
  <2> QED
    BY <2>1, FS_EmptySet DEF HandlersInv
<1>4. MakersInv
  BY DEF MakersInv, Makes
<1> QED
  BY <1>1, <1>2, <1>3, <1>4 DEF IInv

(* What a step that leaves the managers and the routing alone keeps. *)
LEMMA FrameInv ==
  ASSUME IInv, UNCHANGED <<vmm, managers, routing>>
  PROVE  ObjectsInv' /\ RegionsInv' /\ HandlersInv'
<1>1. ObjectsInv' /\ RegionsInv'
  BY DEF IInv, ObjectsInv, RegionsInv, routing
<1>2. HandlersInv'
  BY DEF IInv, HandlersInv, Live, routing
<1> QED
  BY <1>1, <1>2

(* The end of a process leaves what is on disk. *)
LEMMA EndInv ==
  ASSUME IInv, NEW p \in Processes, EndProcess(p), UNCHANGED disk, deaths' \in 0 .. MaxDeaths
  PROVE  IInv'
<1> USE PrivateerAssumption
<1>1. TypeOK'
  <2>1. /\ pc' \in [Processes -> pcs] /\ call' \in [Processes -> Call \cup {None}]
        /\ m_block_size' \in [Objects -> Nat \cup {NotBuilt}]
        /\ vmm' \in [Objects -> Managers \cup {None}]
        /\ managers' \in [Managers -> Manager \cup {None}]
    BY DEF IInv, TypeOK, EndProcess, pcs
  <2>2. /\ mapped' \in [Processes -> SUBSET Slots]
        /\ regions' \in [Processes -> [Slots -> Nat]]
        /\ region_managers' \in [Processes -> [Slots -> Managers \cup {None}]]
        /\ action' \in [Processes -> {"default", "handler", "once", "garbage"}]
        /\ m_uffd' \in [Processes -> BOOLEAN]
        /\ num_handlers' \in [Processes -> Nat]
        /\ destroyed' \in [Processes -> BOOLEAN]
    BY DEF IInv, TypeOK, EndProcess
  <2> QED
    BY <2>1, <2>2 DEF IInv, TypeOK, EndProcess, disk
<1>2. CallState'
  <2> SUFFICES ASSUME NEW q \in Processes, pc'[q] # "idle"
               PROVE  q # p /\ pc'[q] = pc[q] /\ call'[q] = call[q]
                      /\ (\A o \in Objects : process[o] = q => vmm'[o] = vmm[o])
    BY DEF IInv, CallState, Call
  <2> QED
    BY DEF IInv, TypeOK, EndProcess
<1>3. CapacityInv' /\ ObjectsInv' /\ RegionsInv'
  <2>1. CapacityInv'
    BY DEF IInv, EndProcess, disk, CapacityInv
  <2>2. ObjectsInv'
    BY DEF IInv, TypeOK, Manager, EndProcess, ObjectsInv
  <2>3. RegionsInv'
    BY DEF IInv, TypeOK, Manager, EndProcess, RegionsInv
  <2> QED
    BY <2>1, <2>2, <2>3
<1>4. HandlersInv'
  <2> SUFFICES ASSUME NEW q \in Processes
               PROVE  HandlersInv!(q)'
    BY DEF HandlersInv
  <2>1. CASE q = p
    <3>1. Live(p)' = {}
      BY DEF Live, EndProcess, IInv, TypeOK
    <3> QED
      BY <2>1, <3>1, FS_EmptySet DEF EndProcess, IInv, TypeOK
  <2>2. CASE q # p
    <3>1. Live(q)' = Live(q)
      BY <2>2 DEF Live, EndProcess, IInv, TypeOK
    <3> QED
      BY <2>2, <3>1 DEF EndProcess, IInv, TypeOK, HandlersInv
  <2> QED
    BY <2>1, <2>2
<1>5. MakersInv'
  BY DEF IInv, TypeOK, EndProcess, disk, MakersInv, Makes
<1> QED
  BY <1>1, <1>2, <1>3, <1>4, <1>5 DEF IInv

LEMMA ExitInv ==
  ASSUME IInv, NEW p \in Processes, Exit(p), UNCHANGED disk
  PROVE  IInv'
BY EndInv DEF Exit, IInv, TypeOK

LEMMA CrashInv == ASSUME IInv, NEW p \in Processes, Crash(p) PROVE IInv'
BY EndInv, PrivateerAssumption DEF Crash, IInv, TypeOK

-------------------------------------------------------------------------------
(* The constructors. *)
LEMMA BuildInv ==
  ASSUME IInv, NEW o \in Objects, NEW n \in Nat, base_dir' \in BOOLEAN,
         m_block_size' = [m_block_size EXCEPT ![o] = n],
         UNCHANGED <<granularity, version_dir, metadata, blocks_path, capacity,
                     pc, call, vmm, managers, routing, history>>
  PROVE  IInv'
<1>1. TypeOK'
  BY DEF IInv, TypeOK, routing, history
<1>2. ObjectsInv' /\ RegionsInv' /\ HandlersInv'
  BY FrameInv DEF IInv
<1>3. CallState' /\ CapacityInv' /\ MakersInv'
  BY DEF IInv, CallState, CapacityInv, MakersInv, Makes, history
<1> QED
  BY <1>1, <1>2, <1>3 DEF IInv

LEMMA ConstructInv ==
  ASSUME IInv, NEW p \in Processes, NEW o \in Objects, NEW env \in Environments,
         Construct(p, o, env)
  PROVE  IInv'
<1>1. InitBlockSize(env) \in Nat
  BY PrivateerAssumption DEF InitBlockSize
<1> QED
  BY <1>1, BuildInv DEF Construct

LEMMA ConstructWithStashInv ==
  ASSUME IInv, NEW p \in Processes, NEW o \in Objects, ConstructWithStash(p, o)
  PROVE  IInv'
BY ExitInv, BuildInv DEF ConstructWithStash

LEMMA ConstructOpenInv ==
  ASSUME IInv, NEW p \in Processes, NEW o \in Objects, ConstructOpen(p, o)
  PROVE  IInv'
BY ExitInv, BuildInv DEF ConstructOpen, disk, IInv, TypeOK

-------------------------------------------------------------------------------
(* Arithmetic: whole blocks are no fewer bytes than asked for. *)
LEMMA RoundedPositive ==
  ASSUME NEW size \in Nat \ {0}, NEW block_size \in Nat \ {0}
  PROVE  Rounded(size, block_size) \in Nat \ {0}
<1> DEFINE n == (size \div block_size) + 1
<1>1. n \in Nat \ {0}
  OBVIOUS
<1>2. \A a, b \in Nat \ {0} : a * b \in Nat \ {0}
  OBVIOUS
<1>3. n * block_size \in Nat \ {0}
  BY <1>1, <1>2
<1> QED
  BY <1>3 DEF Rounded

(* What a call knows as it begins. *)
LEMMA NewCallType ==
  ASSUME NEW op \in {"create", "open", "open_immutable", "snapshot"},
         NEW o \in Objects, NEW v \in Versions
  PROVE  LET c == NewCall(op, o, v)
         IN  c \in Call /\ c.op = op /\ c.object = o /\ c.version = v
BY PrivateerAssumption DEF NewCall, Call

(* A call begins. *)
LEMMA BeginInv ==
  ASSUME IInv, NEW p \in Processes, NEW place \in pcs, NEW c \in Call,
         pc[p] = "idle", Begin(p, place, c), process[c.object] = p,
         c.op = "create" => place \in {"make_dir", "create_metadata"} /\ c.size > 0 /\ c.capacity > 0,
         c.op = "open" => place = "open_blocks_path",
         c.op = "open_immutable" => place = "make_dir" /\ c.source \in Versions,
         c.op = "snapshot" => /\ place \in {"make_dir", "snapshot_metadata"}
                              /\ c.source \in Versions /\ c.capacity > 0 /\ vmm[c.object] # None
  PROVE  /\ pc' \in [Processes -> pcs] /\ call' \in [Processes -> Call \cup {None}]
         /\ CallState'
         /\ UNCHANGED <<metadata, made>> => MakersInv'
<1>1. pc' \in [Processes -> pcs] /\ call' \in [Processes -> Call \cup {None}]
  BY DEF IInv, TypeOK, Begin
<1>2. CallState'
  BY DEF IInv, TypeOK, Begin, CallState, objects, CreatePlaces, OpenPlaces, CopyPlaces, SnapshotPlaces
<1>3. ASSUME UNCHANGED <<metadata, made>> PROVE MakersInv'
  BY <1>3 DEF IInv, TypeOK, Begin, MakersInv, Makes
<1> QED
  BY <1>1, <1>2, <1>3

LEMMA CreateInv ==
  ASSUME IInv, NEW p \in Processes, NEW o \in Objects, NEW v \in Versions,
         NEW size \in Sizes, NEW allow_overwrite \in BOOLEAN,
         Create(p, o, v, size, allow_overwrite)
  PROVE  IInv'
<1>1. CASE m_block_size[o] = 0 \/ (version_dir[v] /\ ~allow_overwrite)
  BY <1>1, ExitInv DEF Create
<1>2. CASE ~(m_block_size[o] = 0 \/ (version_dir[v] /\ ~allow_overwrite))
  <2> DEFINE n == NewCall("create", o, v)
             c == [n EXCEPT
                     !.size = size, !.block_size = m_block_size[o],
                     !.capacity = Rounded(size, m_block_size[o])]
             place == IF version_dir[v] THEN "create_metadata" ELSE "make_dir"
  <2>1. m_block_size[o] \in Nat \ {0} /\ size \in Nat \ {0} /\ process[o] = p /\ pc[p] = "idle"
    BY <1>2, PrivateerAssumption DEF Create, MayCall, Built, IInv, TypeOK
  <2>2. /\ c \in Call /\ place \in pcs /\ c.object = o /\ c.op = "create"
        /\ c.size > 0 /\ c.capacity > 0 /\ c.version = v
    <3>1. Rounded(size, m_block_size[o]) \in Nat \ {0}
      BY <2>1, RoundedPositive
    <3>2. place \in pcs
      BY DEF pcs
    <3>3. n \in Call /\ n.op = "create" /\ n.object = o /\ n.version = v
      BY NewCallType
    <3>4. /\ c \in Call /\ c.op = n.op /\ c.object = n.object /\ c.version = n.version
          /\ c.size = size /\ c.capacity = Rounded(size, m_block_size[o])
      <4> HIDE DEF n
      <4> QED
        BY <2>1, <3>1, <3>3 DEF Call
    <3> QED
      BY <2>1, <3>1, <3>2, <3>3, <3>4
  <2>3. Begin(p, place, c) /\ UNCHANGED <<objects, routing>>
    BY <1>2 DEF Create, Begin
  <2>4. /\ pc' \in [Processes -> pcs] /\ call' \in [Processes -> Call \cup {None}]
        /\ CallState'
    <3> HIDE DEF c
    <3> QED
      BY <2>1, <2>2, <2>3, BeginInv
  <2>5. /\ metadata' = IF version_dir[v] THEN [metadata EXCEPT ![v] = NoFile] ELSE metadata
        /\ made' = IF version_dir[v] THEN [made EXCEPT ![v] = "overwritten"] ELSE made
        /\ UNCHANGED <<base_dir, granularity, version_dir, blocks_path, capacity, deaths>>
    BY <1>2 DEF Create
  <2>6. TypeOK'
    BY <2>3, <2>4, <2>5 DEF IInv, TypeOK, objects, routing
  <2>7. ObjectsInv' /\ RegionsInv' /\ HandlersInv' /\ CapacityInv'
    BY <2>3, <2>5, FrameInv DEF IInv, CapacityInv, objects
  <2>8. MakersInv'
    BY <2>1, <2>3, <2>5 DEF IInv, TypeOK, MakersInv, Makes, Begin
  <2> QED
    BY <2>4, <2>6, <2>7, <2>8 DEF IInv
<1> QED
  BY <1>1, <1>2


(* A call goes on. *)
early == {"make_dir", "create_metadata", "copy_metadata"}

LEMMA GotoInv ==
  ASSUME IInv, NEW p \in Processes, NEW place \in pcs, pc[p] # "idle", Goto(p, place),
         call[p].op = "create" => place \in CreatePlaces,
         call[p].op = "open_immutable" => place \in CopyPlaces,
         call[p].op = "snapshot" => place \in SnapshotPlaces,
         call[p].op # "open"
  PROVE  /\ pc' \in [Processes -> pcs] /\ call' = call /\ deaths' = deaths
         /\ UNCHANGED <<objects, routing, made>>
         /\ CallState' /\ ObjectsInv' /\ RegionsInv' /\ HandlersInv'
         /\ metadata' = metadata /\ (pc[p] \in early => place \in early) => MakersInv'
<1>1. /\ pc' = [pc EXCEPT ![p] = place] /\ pc' \in [Processes -> pcs]
      /\ UNCHANGED <<call, objects, routing, deaths, made>>
  BY DEF IInv, TypeOK, Goto, history
<1>2. CallState'
  BY <1>1 DEF IInv, TypeOK, CallState, objects
<1>3. ObjectsInv' /\ RegionsInv' /\ HandlersInv'
  BY <1>1, FrameInv DEF objects
<1>4. ASSUME metadata' = metadata, pc[p] \in early => place \in early PROVE MakersInv'
  <2>1. \A q \in Processes, v \in Versions : Makes(q, v)' => Makes(q, v)
    BY <1>1, <1>4 DEF IInv, TypeOK, Makes, early
  <2> QED
    BY <1>1, <1>4, <2>1 DEF IInv, MakersInv
<1> QED
  BY <1>1, <1>2, <1>3, <1>4

(* The places are pairwise disjoint but for those that calls share. *)
LEMMA CallOf ==
  ASSUME IInv, NEW p \in Processes, pc[p] # "idle"
  PROVE  /\ call[p] \in Call /\ call[p].version \in Versions /\ call[p].block_size \in Nat
         /\ pc[p] \in CreatePlaces \/ pc[p] \in CopyPlaces \/ pc[p] \in SnapshotPlaces
         /\ pc[p] \notin CopyPlaces => call[p].op \in {"create", "snapshot"}
         /\ pc[p] \notin SnapshotPlaces => call[p].op \in {"create", "open", "open_immutable"}
         /\ pc[p] \notin CreatePlaces => call[p].op \in {"open", "open_immutable", "snapshot"}
         /\ pc[p] \notin OpenPlaces => call[p].op # "open"
BY DEF IInv, CallState, Call, CopyPlaces, OpenPlaces

LEMMA MakeDirInv == ASSUME IInv, NEW p \in Processes, MakeDir(p) PROVE IInv'
<1> DEFINE place == CASE call[p].op = "create" -> "create_metadata"
                      [] call[p].op = "open_immutable" -> "copy_metadata"
                      [] OTHER -> "snapshot_metadata"
<1>1. Goto(p, place) /\ pc[p] = "make_dir"
  BY DEF MakeDir
<1>2. call[p] \in Call /\ call[p].version \in Versions /\ call[p].op # "open"
  BY <1>1, CallOf DEF OpenPlaces
<1>3. /\ place \in pcs
      /\ call[p].op = "create" => place \in CreatePlaces
      /\ call[p].op = "open_immutable" => place \in CopyPlaces
      /\ call[p].op = "snapshot" => place \in SnapshotPlaces
      /\ place = "snapshot_metadata" => call[p].op = "snapshot"
  BY <1>2 DEF pcs, Call, CreatePlaces, CopyPlaces, SnapshotPlaces
<1>4. /\ pc' \in [Processes -> pcs] /\ call' = call /\ deaths' = deaths
      /\ UNCHANGED <<objects, routing, made>>
      /\ CallState' /\ ObjectsInv' /\ RegionsInv' /\ HandlersInv'
  <2> HIDE DEF place
  <2> QED
    BY <1>1, <1>2, <1>3, GotoInv
<1>5. TypeOK' /\ CapacityInv'
  BY <1>4 DEF IInv, TypeOK, CapacityInv, MakeDir, objects, routing
<1>6. MakersInv'
  <2>1. \A q \in Processes, v \in Versions : Makes(q, v)' => Makes(q, v)
    BY <1>1, <1>2, <1>3 DEF IInv, TypeOK, Makes, Goto
  <2> QED
    BY <1>4, <2>1 DEF IInv, MakersInv, MakeDir
<1> QED
  BY <1>4, <1>5, <1>6 DEF IInv

LEMMA CreateMetadataInv == ASSUME IInv, NEW p \in Processes, CreateMetadata(p) PROVE IInv'
<1>1. CASE Refuses(call[p].version)
  BY <1>1, ExitInv DEF CreateMetadata
<1>2. CASE ~Refuses(call[p].version)
  <2> DEFINE v == call[p].version
  <2>1. /\ pc[p] = "create_metadata" /\ metadata[v] = NoFile
        /\ metadata' = [metadata EXCEPT ![v] = 0] /\ Goto(p, "truncate_blocks_path")
        /\ UNCHANGED <<base_dir, granularity, version_dir, blocks_path, capacity>>
    BY <1>2 DEF CreateMetadata, Refuses
  <2>2. v \in Versions /\ call[p].op = "create"
    BY <2>1, CallOf DEF CopyPlaces, OpenPlaces, SnapshotPlaces, WritePlaces
  <2>3. /\ pc' \in [Processes -> pcs] /\ call' = call /\ deaths' = deaths
        /\ UNCHANGED <<objects, routing, made>>
        /\ CallState' /\ ObjectsInv' /\ RegionsInv' /\ HandlersInv'
    BY <2>1, <2>2, GotoInv DEF pcs, CreatePlaces, WritePlaces
  <2>4. TypeOK' /\ CapacityInv'
    BY <2>1, <2>2, <2>3, PrivateerAssumption DEF IInv, TypeOK, CapacityInv, objects, routing
  <2>5. MakersInv'
    <3>1. \A q \in Processes, w \in Versions : Makes(q, w)' <=> Makes(q, w) \/ (q = p /\ w = v)
      BY <2>1, <2>2 DEF IInv, TypeOK, Makes, Goto
    <3>2. metadata'[v] # NoFile /\ \A w \in Versions : metadata[w] # NoFile => metadata'[w] # NoFile
      BY <2>1, <2>2 DEF IInv, TypeOK, NoFile
    <3> QED
      BY <2>1, <2>2, <2>3, <3>1, <3>2 DEF IInv, TypeOK, MakersInv
  <2> QED
    BY <2>3, <2>4, <2>5 DEF IInv
<1> QED
  BY <1>1, <1>2

LEMMA TruncateBlocksPathInv ==
  ASSUME IInv, NEW p \in Processes, TruncateBlocksPath(p) PROVE IInv'
<1>1. pc[p] = "truncate_blocks_path" /\ Goto(p, "write_blocks_path") /\ metadata' = metadata
  BY DEF TruncateBlocksPath
<1>2. call[p].version \in Versions /\ call[p].op \in {"create", "snapshot"}
  BY <1>1, CallOf DEF CopyPlaces, OpenPlaces
<1>3. /\ pc' \in [Processes -> pcs] /\ call' = call /\ deaths' = deaths
      /\ UNCHANGED <<objects, routing, made>>
      /\ CallState' /\ ObjectsInv' /\ RegionsInv' /\ HandlersInv' /\ MakersInv'
  BY <1>1, <1>2, GotoInv DEF pcs, CreatePlaces, SnapshotPlaces, WritePlaces, early
<1>4. TypeOK' /\ CapacityInv'
  BY <1>1, <1>2, <1>3 DEF IInv, TypeOK, CapacityInv, TruncateBlocksPath, objects, routing
<1> QED
  BY <1>3, <1>4 DEF IInv

LEMMA WriteBlocksPathInv ==
  ASSUME IInv, NEW p \in Processes, WriteBlocksPath(p) PROVE IInv'
<1>1. pc[p] = "write_blocks_path" /\ Goto(p, "write_capacity") /\ metadata' = metadata
  BY DEF WriteBlocksPath
<1>2. call[p].version \in Versions /\ call[p].op \in {"create", "snapshot"}
  BY <1>1, CallOf DEF CopyPlaces, OpenPlaces
<1>3. /\ pc' \in [Processes -> pcs] /\ call' = call /\ deaths' = deaths
      /\ UNCHANGED <<objects, routing, made>>
      /\ CallState' /\ ObjectsInv' /\ RegionsInv' /\ HandlersInv' /\ MakersInv'
  BY <1>1, <1>2, GotoInv DEF pcs, CreatePlaces, SnapshotPlaces, WritePlaces, early
<1>4. TypeOK' /\ CapacityInv'
  BY <1>1, <1>2, <1>3 DEF IInv, TypeOK, CapacityInv, WriteBlocksPath, objects, routing, Truncated
<1> QED
  BY <1>3, <1>4 DEF IInv

LEMMA WriteCapacityInv ==
  ASSUME IInv, NEW p \in Processes, WriteCapacity(p) PROVE IInv'
<1> DEFINE v == call[p].version
<1>1. /\ pc[p] = "write_capacity"
      /\ capacity' = [capacity EXCEPT ![v] = call[p].capacity]
      /\ UNCHANGED <<base_dir, granularity, version_dir, metadata, blocks_path>>
  BY DEF WriteCapacity
<1>2. /\ v \in Versions /\ call[p].op \in {"create", "snapshot"}
      /\ call[p].capacity \in Nat \ {0}
  BY <1>1, CallOf DEF CopyPlaces, OpenPlaces, IInv, CallState, Call
<1>3. CapacityInv' \/ managers' # managers
  BY <1>1, <1>2 DEF IInv, TypeOK, CapacityInv
<1>4. CASE call[p].op = "create"
  <2>1. Goto(p, "find_blocks")
    BY <1>4 DEF WriteCapacity
  <2>2. /\ pc' \in [Processes -> pcs] /\ call' = call /\ deaths' = deaths
        /\ UNCHANGED <<objects, routing, made>>
        /\ CallState' /\ ObjectsInv' /\ RegionsInv' /\ HandlersInv' /\ MakersInv'
    BY <1>1, <1>4, <2>1, GotoInv DEF pcs, CreatePlaces, early
  <2>3. TypeOK' /\ CapacityInv'
    BY <1>1, <1>2, <1>3, <2>2 DEF IInv, TypeOK, objects, routing
  <2> QED
    BY <2>2, <2>3 DEF IInv
<1>5. CASE call[p].op # "create"
  <2>1. /\ Return(p) /\ UNCHANGED <<objects, routing, history>>
    BY <1>5 DEF WriteCapacity
  <2>2. ObjectsInv' /\ RegionsInv' /\ HandlersInv'
    BY <2>1, FrameInv DEF objects
  <2>3. TypeOK' /\ CapacityInv'
    BY <1>1, <1>2, <1>3, <2>1 DEF IInv, TypeOK, objects, routing, history, Return, pcs
  <2>4. CallState' /\ MakersInv'
    BY <1>1, <2>1 DEF IInv, TypeOK, CallState, MakersInv, Makes, Return, objects, history
  <2> QED
    BY <2>2, <2>3, <2>4 DEF IInv
<1> QED
  BY <1>4, <1>5

(* The steps of posix_block_storage::create(). *)
LEMMA BlocksStepInv ==
  ASSUME IInv, NEW p \in Processes,
         NEW place \in {"make_blocks", "truncate_granularity", "write_granularity", "map"},
         pc[p] \in {"find_blocks", "make_blocks", "truncate_granularity", "write_granularity"},
         Goto(p, place), granularity' \in Nat \cup {NoDir, NoFile, Truncated},
         UNCHANGED <<base_dir, version_dir, metadata, blocks_path, capacity>>
  PROVE  IInv'
<1>1. call[p].op = "create"
  BY CallOf DEF CopyPlaces, OpenPlaces, SnapshotPlaces, WritePlaces
<1>2. /\ pc' \in [Processes -> pcs] /\ call' = call /\ deaths' = deaths
      /\ UNCHANGED <<objects, routing, made>>
      /\ CallState' /\ ObjectsInv' /\ RegionsInv' /\ HandlersInv' /\ MakersInv'
  BY <1>1, GotoInv DEF pcs, CreatePlaces, early
<1>3. TypeOK' /\ CapacityInv'
  BY <1>2 DEF IInv, TypeOK, CapacityInv, objects, routing
<1> QED
  BY <1>2, <1>3 DEF IInv

LEMMA StorageInv ==
  ASSUME IInv, NEW p \in Processes,
         FindBlocks(p) \/ MakeBlocks(p) \/ TruncateGranularity(p) \/ WriteGranularity(p)
  PROVE  IInv'
<1>1. CASE FindBlocks(p)
  BY <1>1, BlocksStepInv DEF FindBlocks, disk, IInv, TypeOK
<1>2. CASE MakeBlocks(p)
  BY <1>2, BlocksStepInv DEF MakeBlocks, IInv, TypeOK
<1>3. CASE TruncateGranularity(p)
  BY <1>3, BlocksStepInv DEF TruncateGranularity
<1>4. CASE WriteGranularity(p)
  BY <1>4, BlocksStepInv, CallOf DEF WriteGranularity
<1> QED
  BY <1>1, <1>2, <1>3, <1>4

-------------------------------------------------------------------------------
(* A region is made: a manager more, at addresses that were free. *)
LEMMA MapRegionInv ==
  ASSUME IInv, NEW p \in Processes, NEW ids \in Values,
         NEW region_capacity \in Nat \ {0}, NEW length \in Nat \ {0},
         pc[p] \notin {"idle"} \cup early, call[p].op # "snapshot",
         MapRegion(p, ids, region_capacity, length)
  PROVE  IInv'
<1>1. CASE mapped[p] = Slots
  BY <1>1, ExitInv DEF MapRegion
<1>2. CASE mapped[p] # Slots
  <2> DEFINE c == call[p]
             vm(s) == [process |-> p, slot |-> s, block_size |-> c.block_size,
                       capacity |-> region_capacity, version |-> c.version,
                       m_version_metadata_path |-> c.version, m_read_only |-> c.read_only,
                       ids |-> ids, read |-> IF c.read_only THEN ids ELSE None,
                       mem |-> 0, present |-> FALSE, dirty |-> FALSE]
  <2>1. PICK m \in Managers, s \in Slots \ mapped[p] :
          /\ managers[m] = None
          /\ managers' = [managers EXCEPT ![m] = vm(s)]
          /\ vmm' = [vmm EXCEPT ![c.object] = m]
          /\ mapped' = [mapped EXCEPT ![p] = @ \cup {s}]
          /\ AddRegion(p, s, length, m) /\ InstallHandler(p)
          /\ Made(c) /\ Return(p)
          /\ UNCHANGED m_block_size /\ UNCHANGED disk
    BY <1>2 DEF MapRegion
  <2>2. /\ c \in Call /\ process[c.object] = p /\ c.object \in Objects /\ c.version \in Versions
        /\ c.block_size \in Nat /\ c.read_only \in BOOLEAN
        /\ c.op \in {"create", "open", "open_immutable"}
    BY DEF IInv, CallState, Call
  <2>3. vm(s) \in Manager /\ vm(s) # None /\ vm(s).process = p /\ vm(s).slot = s
        /\ vm(s).capacity = region_capacity
    <3>1. vm(s) \in Manager
      BY <2>1, <2>2, PrivateerAssumption DEF Manager
    <3> QED
      BY <3>1, PrivateerAssumption
  <2> HIDE DEF vm
  <2>4. m # None /\ regions[p][s] = 0 /\ region_managers[p][s] = None
    BY <2>1, PrivateerAssumption DEF IInv, RegionsInv
  <2>5. /\ regions' = [regions EXCEPT ![p][s] = length]
        /\ region_managers' = [region_managers EXCEPT ![p][s] = m]
    BY <2>1, <2>4 DEF AddRegion
  <2>6. Live(p)' = Live(p) \cup {m} /\ m \notin Live(p)
        /\ \A q \in Processes : q # p => Live(q)' = Live(q)
    BY <2>1, <2>3 DEF Live, IInv, TypeOK
  <2>7. TypeOK'
    <3>1. pc' \in [Processes -> pcs] /\ call' \in [Processes -> Call \cup {None}]
      BY <2>1 DEF IInv, TypeOK, Return, pcs
    <3>2. /\ vmm' \in [Objects -> Managers \cup {None}]
          /\ managers' \in [Managers -> Manager \cup {None}]
          /\ mapped' \in [Processes -> SUBSET Slots]
      BY <2>1, <2>2, <2>3 DEF IInv, TypeOK
    <3>3. /\ regions' \in [Processes -> [Slots -> Nat]]
          /\ region_managers' \in [Processes -> [Slots -> Managers \cup {None}]]
      BY <2>1, <2>5 DEF IInv, TypeOK
    <3>4. /\ action' \in [Processes -> {"default", "handler", "once", "garbage"}]
          /\ m_uffd' \in [Processes -> BOOLEAN]
          /\ num_handlers' \in [Processes -> Nat]
          /\ destroyed' \in [Processes -> BOOLEAN]
      <4>1. CASE build[p] = "SIGACTION"
        BY <2>1, <4>1 DEF IInv, TypeOK, InstallHandler
      <4>2. CASE build[p] # "SIGACTION"
        <5>1. /\ m_uffd' = [m_uffd EXCEPT ![p] = TRUE]
              /\ num_handlers' = [num_handlers EXCEPT ![p] = num_handlers[p] + 1]
              /\ action' = action /\ destroyed' = destroyed
          BY <2>1, <4>2 DEF InstallHandler
        <5>2. num_handlers' \in [Processes -> Nat]
          BY <5>1 DEF IInv, TypeOK
        <5>3. m_uffd' \in [Processes -> BOOLEAN]
          BY <5>1 DEF IInv, TypeOK
        <5> QED
          BY <5>1, <5>2, <5>3 DEF IInv, TypeOK
      <4> QED
        BY <4>1, <4>2
    <3>5. /\ deaths' \in 0 .. MaxDeaths
          /\ made' \in [Versions -> {"no", "once", "twice", "overwritten"}]
      BY <2>1, <2>2 DEF IInv, TypeOK, Made
    <3> QED
      BY <2>1, <3>1, <3>2, <3>3, <3>4, <3>5 DEF IInv, TypeOK, disk
  <2>8. CallState'
    BY <2>1, <2>2, <2>4 DEF IInv, TypeOK, CallState, Call, Return
  <2>9. CapacityInv' /\ ObjectsInv'
    BY <2>1, <2>2, <2>3, <2>4 DEF IInv, TypeOK, CapacityInv, ObjectsInv, disk
  <2>10. RegionsInv'
    <3>1. \A q \in Processes, t \in Slots :
            IF q = p /\ t = s
            THEN t \in mapped'[q] /\ regions'[q][t] = length /\ region_managers'[q][t] = m
            ELSE /\ t \in mapped'[q] <=> t \in mapped[q]
                 /\ regions'[q][t] = regions[q][t]
                 /\ region_managers'[q][t] = region_managers[q][t]
      BY <2>1, <2>5 DEF IInv, TypeOK
    <3>2. ASSUME NEW n \in Managers, managers'[n] # None
          PROVE  LET q == managers'[n].process
                     t == managers'[n].slot
                 IN  t \in mapped'[q] /\ regions'[q][t] > 0 /\ region_managers'[q][t] = n
      <4>1. CASE n = m
        BY <2>1, <2>3, <3>1, <4>1 DEF IInv, TypeOK
      <4>2. CASE n # m
        BY <2>1, <3>1, <3>2, <4>2, SMTT(30) DEF IInv, TypeOK, RegionsInv, Manager
      <4> QED
        BY <4>1, <4>2
    <3> QED
      BY <3>1, <3>2 DEF IInv, RegionsInv
  <2>11. HandlersInv'
    <3> SUFFICES ASSUME NEW q \in Processes
                 PROVE  HandlersInv!(q)'
      BY DEF HandlersInv
    <3>1. CASE q = p /\ build[q] = "SIGACTION"
      BY <2>1, <3>1 DEF InstallHandler, IInv, TypeOK
    <3>2. CASE q = p /\ build[q] # "SIGACTION"
      <4>1. build[q] = "USERFAULTFD" /\ IsFiniteSet(Live(p)) /\ num_handlers[p] = Cardinality(Live(p))
        BY <3>2, PrivateerAssumption DEF IInv, HandlersInv
      <4>2. IsFiniteSet(Live(p)') /\ Cardinality(Live(p)') = Cardinality(Live(p)) + 1
            /\ Cardinality(Live(p)) \in Nat
        BY <2>6, <4>1, FS_AddElement, FS_CardinalityType
      <4>3. num_handlers'[p] = num_handlers[p] + 1 /\ m_uffd'[p]
        BY <2>1, <3>2 DEF InstallHandler, IInv, TypeOK
      <4> QED
        BY <3>2, <4>1, <4>2, <4>3
    <3>3. CASE q # p
      <4>1. Live(q)' = Live(q)
        BY <2>6, <3>3
      <4> QED
        BY <2>1, <3>3, <4>1 DEF InstallHandler, IInv, TypeOK, HandlersInv
    <3> QED
      BY <3>1, <3>2, <3>3
  <2>12. MakersInv'
    <3>1. \A q \in Processes, v \in Versions : Makes(q, v)' => q # p /\ Makes(q, v)
      BY <2>1 DEF IInv, TypeOK, Makes, Return
    <3>2. c.op # "open" => Makes(p, c.version)
      BY <2>2 DEF Makes, early
    <3>3. metadata' = metadata
      BY <2>1 DEF disk
    <3>4. CASE c.op = "open"
      BY <2>1, <3>1, <3>3, <3>4 DEF IInv, MakersInv, Made
    <3>5. CASE c.op # "open"
      <4>1. \A v \in Versions : made'[v] =
              IF v # c.version \/ made[v] = "overwritten" THEN made[v] ELSE "once"
        BY <2>1, <2>2, <3>2, <3>5 DEF Made, IInv, TypeOK, MakersInv
      <4> QED
        BY <2>2, <3>1, <3>2, <3>3, <3>5, <4>1 DEF IInv, MakersInv
    <3> QED
      BY <3>4, <3>5
  <2> QED
    BY <2>7, <2>8, <2>9, <2>10, <2>11, <2>12 DEF IInv
<1> QED
  BY <1>1, <1>2

LEMMA MapCreatedInv == ASSUME IInv, NEW p \in Processes, MapCreated(p) PROVE IInv'
<1>1. /\ call[p].op = "create" /\ call[p] \in Call
      /\ call[p].capacity \in Nat \ {0} /\ call[p].size \in Nat \ {0}
  BY CallOf DEF MapCreated, CopyPlaces, OpenPlaces, SnapshotPlaces, WritePlaces, IInv, CallState, Call
<1> QED
  BY <1>1, MapRegionInv, PrivateerAssumption DEF MapCreated, early

-------------------------------------------------------------------------------
(* open(), open_read_only(), open_immutable(). *)
LEMMA OpenInv ==
  ASSUME IInv, NEW p \in Processes, NEW o \in Objects, NEW v \in Versions,
         NEW read_only \in BOOLEAN, Open(p, o, v, read_only)
  PROVE  IInv'
<1> DEFINE n == NewCall("open", o, v)
           c == [n EXCEPT !.read_only = read_only]
<1>1. n \in Call /\ n.op = "open" /\ n.object = o
  BY NewCallType
<1>2. c \in Call /\ c.op = "open" /\ c.object = o
  <2> HIDE DEF n
  <2> QED
    BY <1>1 DEF Call
<1>3. /\ Begin(p, "open_blocks_path", c) /\ pc[p] = "idle" /\ process[o] = p
      /\ UNCHANGED <<disk, history, objects, routing>>
  BY DEF Open, MayCall, Built, Begin
<1> HIDE DEF c
<1>4. /\ pc' \in [Processes -> pcs] /\ call' \in [Processes -> Call \cup {None}]
      /\ CallState' /\ MakersInv'
  BY <1>2, <1>3, BeginInv DEF pcs, disk, history
<1>5. TypeOK' /\ CapacityInv' /\ ObjectsInv' /\ RegionsInv' /\ HandlersInv'
  BY <1>3, <1>4, FrameInv DEF IInv, TypeOK, CapacityInv, disk, history, objects, routing
<1> QED
  BY <1>4, <1>5 DEF IInv

LEMMA OpenImmutableInv ==
  ASSUME IInv, NEW p \in Processes, NEW o \in Objects, NEW v \in Versions,
         NEW new \in Versions, OpenImmutable(p, o, v, new)
  PROVE  IInv'
<1>1. CASE version_dir[new]
  BY <1>1, ExitInv DEF OpenImmutable
<1>2. CASE ~version_dir[new]
  <2> DEFINE n == NewCall("open_immutable", o, new)
             c == [n EXCEPT !.source = v]
  <2>1. n \in Call /\ n.op = "open_immutable" /\ n.object = o
    BY NewCallType
  <2>2. c \in Call /\ c.op = "open_immutable" /\ c.object = o /\ c.source = v
    <3> HIDE DEF n
    <3> QED
      BY <2>1 DEF Call
  <2>3. /\ Begin(p, "make_dir", c) /\ pc[p] = "idle" /\ process[o] = p
        /\ UNCHANGED <<disk, history, objects, routing>>
    BY <1>2 DEF OpenImmutable, MayCall, Built, Begin
  <2> HIDE DEF c
  <2>4. /\ pc' \in [Processes -> pcs] /\ call' \in [Processes -> Call \cup {None}]
        /\ CallState' /\ MakersInv'
    BY <2>2, <2>3, BeginInv DEF pcs, disk, history
  <2>5. TypeOK' /\ CapacityInv' /\ ObjectsInv' /\ RegionsInv' /\ HandlersInv'
    BY <2>3, <2>4, FrameInv DEF IInv, TypeOK, CapacityInv, disk, history, objects, routing
  <2> QED
    BY <2>4, <2>5 DEF IInv
<1> QED
  BY <1>1, <1>2

LEMMA ReadFileInv ==
  ASSUME IInv, NEW p \in Processes, NEW contents,
         NEW place \in OpenPlaces, NEW next \in OpenPlaces, NEW c,
         ReadFile(p, place, contents, next, c),
         ~Unreadable(contents) =>
           /\ c \in Call /\ c.op = call[p].op /\ c.object = call[p].object
           /\ c.version = call[p].version /\ c.source = call[p].source
  PROVE  IInv'
<1>1. CASE Unreadable(contents)
  BY <1>1, ExitInv DEF ReadFile
<1>2. CASE ~Unreadable(contents)
  <2>1. /\ pc[p] = place
        /\ pc' = [pc EXCEPT ![p] = next] /\ call' = [call EXCEPT ![p] = c]
        /\ UNCHANGED <<disk, history, objects, routing>>
    BY <1>2 DEF ReadFile, Begin
  <2>2. /\ c \in Call /\ c.op = call[p].op /\ c.object = call[p].object
        /\ c.version = call[p].version /\ c.source = call[p].source
    BY <1>2
  <2>3. pc[p] # "idle" /\ call[p].op \in {"open", "open_immutable"}
        /\ pc[p] \notin early /\ next \notin early /\ next \in pcs /\ next # "idle"
    BY <2>1, CallOf DEF OpenPlaces, CreatePlaces, SnapshotPlaces, WritePlaces, early, pcs
  <2>4. TypeOK'
    BY <2>1, <2>2, <2>3 DEF IInv, TypeOK, disk, history, objects, routing
  <2>5. CapacityInv' /\ ObjectsInv' /\ RegionsInv' /\ HandlersInv'
    BY <2>1, FrameInv DEF IInv, CapacityInv, disk, objects
  <2>6. CallState'
    BY <2>1, <2>2, <2>3 DEF IInv, TypeOK, CallState, objects, CopyPlaces
  <2>7. MakersInv'
    <3>1. \A q \in Processes, v \in Versions : Makes(q, v)' <=> Makes(q, v)
      BY <2>1, <2>2, <2>3 DEF IInv, TypeOK, Makes, early
    <3> QED
      BY <2>1, <3>1 DEF IInv, MakersInv, disk, history
  <2> QED
    BY <2>4, <2>5, <2>6, <2>7 DEF IInv
<1> QED
  BY <1>1, <1>2

(* A file that can be read holds a number. *)
LEMMA Readable == \A n \in Nat \cup {NoDir, NoFile, Truncated} : ~Unreadable(n) => n \in Nat
BY DEF Unreadable, NoDir, NoFile, Truncated

LEMMA OpenFilesInv ==
  ASSUME IInv, NEW p \in Processes, OpenBlocksPath(p) \/ OpenGranularity(p) \/ OpenMetadata(p)
  PROVE  IInv'
<1> DEFINE g == [call[p] EXCEPT !.block_size = granularity]
           i == [call[p] EXCEPT !.ids = metadata[call[p].version]]
<1>1. call[p] \in Call /\ call[p].version \in Versions
  BY CallOf DEF OpenBlocksPath, OpenGranularity, OpenMetadata, ReadFile
<1>2. CASE OpenBlocksPath(p)
  BY <1>1, <1>2, ReadFileInv DEF OpenBlocksPath, OpenPlaces
<1>3. CASE OpenGranularity(p)
  <2>1. ReadFile(p, "open_granularity", granularity, "open_metadata", g)
    BY <1>3 DEF OpenGranularity
  <2>2. ~Unreadable(granularity) =>
           /\ g \in Call /\ g.op = call[p].op /\ g.object = call[p].object
           /\ g.version = call[p].version /\ g.source = call[p].source
    <3>1. ~Unreadable(granularity) => granularity \in Nat
      BY Readable DEF IInv, TypeOK
    <3> QED
      BY <1>1, <3>1 DEF Call
  <2> HIDE DEF g
  <2> QED
    BY <2>1, <2>2, ReadFileInv DEF OpenPlaces
<1>4. CASE OpenMetadata(p)
  <2>1. ReadFile(p, "open_metadata", metadata[call[p].version], "open_capacity", i)
    BY <1>4 DEF OpenMetadata
  <2>2. ~Unreadable(metadata[call[p].version]) =>
           /\ i \in Call /\ i.op = call[p].op /\ i.object = call[p].object
           /\ i.version = call[p].version /\ i.source = call[p].source
    <3>1. ~Unreadable(metadata[call[p].version]) => metadata[call[p].version] \in Values
      BY <1>1 DEF IInv, TypeOK, Unreadable, NoFile
    <3> QED
      BY <1>1, <3>1 DEF Call
  <2> HIDE DEF i
  <2> QED
    BY <2>1, <2>2, ReadFileInv DEF OpenPlaces
<1> QED
  BY <1>2, <1>3, <1>4

LEMMA OpenCapacityInv == ASSUME IInv, NEW p \in Processes, OpenCapacity(p) PROVE IInv'
<1> DEFINE c == capacity[call[p].version]
<1>1. /\ pc[p] = "open_capacity" /\ call[p].version \in Versions
      /\ call[p].op \in {"open", "open_immutable"} /\ call[p].ids \in Values
  BY CallOf DEF OpenCapacity, CreatePlaces, SnapshotPlaces, WritePlaces, Call
<1>2. CASE Unreadable(c)
  BY <1>2, ExitInv DEF OpenCapacity
<1>3. CASE ~Unreadable(c)
  <2>1. c \in Nat \ {0}
    BY <1>1, <1>3, Readable DEF IInv, TypeOK, CapacityInv
  <2>2. MapRegion(p, call[p].ids, c, c)
    BY <1>3 DEF OpenCapacity
  <2> QED
    BY <1>1, <2>1, <2>2, MapRegionInv DEF early
<1> QED
  BY <1>2, <1>3

(* A file is copied, or that fails. *)
LEMMA CopyMetadataInv == ASSUME IInv, NEW p \in Processes, CopyMetadata(p) PROVE IInv'
<1> DEFINE v == call[p].version
           w == call[p].source
<1>1. /\ pc[p] = "copy_metadata" /\ v \in Versions /\ w \in Versions
      /\ call[p].op = "open_immutable"
  BY CallOf DEF CopyMetadata, CopyFile, CreatePlaces, SnapshotPlaces, WritePlaces, OpenPlaces,
                IInv, CallState
<1>2. CASE metadata[w] = NoFile \/ metadata[v] # NoFile
  BY <1>2, ExitInv DEF CopyMetadata, CopyFile, disk
<1>3. CASE ~(metadata[w] = NoFile \/ metadata[v] # NoFile)
  <2>1. /\ metadata' = [metadata EXCEPT ![v] = metadata[w]] /\ Goto(p, "copy_capacity")
        /\ UNCHANGED <<base_dir, granularity, version_dir, blocks_path, capacity>>
    BY <1>3 DEF CopyMetadata, CopyFile
  <2>2. /\ pc' \in [Processes -> pcs] /\ call' = call /\ deaths' = deaths
        /\ UNCHANGED <<objects, routing, made>>
        /\ CallState' /\ ObjectsInv' /\ RegionsInv' /\ HandlersInv'
    BY <1>1, <2>1, GotoInv DEF pcs, CopyPlaces
  <2>3. TypeOK' /\ CapacityInv'
    BY <1>1, <2>1, <2>2 DEF IInv, TypeOK, CapacityInv, objects, routing
  <2>4. MakersInv'
    <3>1. \A q \in Processes, u \in Versions : Makes(q, u)' <=> Makes(q, u) \/ (q = p /\ u = v)
      BY <1>1, <2>1 DEF IInv, TypeOK, Makes, Goto
    <3>2. metadata'[v] # NoFile /\ \A u \in Versions : metadata[u] # NoFile => metadata'[u] # NoFile
      BY <1>1, <1>3, <2>1 DEF IInv, TypeOK
    <3> QED
      BY <1>1, <1>3, <2>2, <3>1, <3>2 DEF IInv, TypeOK, MakersInv
  <2> QED
    BY <2>2, <2>3, <2>4 DEF IInv
<1> QED
  BY <1>2, <1>3

LEMMA CopyOtherInv ==
  ASSUME IInv, NEW p \in Processes, CopyCapacity(p) \/ CopyBlocksPath(p) PROVE IInv'
<1>1. /\ call[p].version \in Versions /\ call[p].source \in Versions
      /\ call[p].op = "open_immutable"
  BY CallOf DEF CopyCapacity, CopyBlocksPath, CopyFile, CreatePlaces, SnapshotPlaces, WritePlaces,
                OpenPlaces, IInv, CallState
<1>2. CASE Exit(p) /\ UNCHANGED disk
  BY <1>2, ExitInv
<1>3. ASSUME NEW next \in {"copy_blocks_path", "open_blocks_path"}, Goto(p, next),
             pc[p] \in {"copy_capacity", "copy_blocks_path"},
             UNCHANGED <<base_dir, granularity, version_dir, metadata>>,
             /\ blocks_path' \in [Versions -> {NoFile, Truncated, Set}]
             /\ capacity' \in [Versions -> Nat \cup {NoFile, Truncated}]
             /\ \A v \in Versions : capacity'[v] # 0
      PROVE  IInv'
  <2>1. /\ pc' \in [Processes -> pcs] /\ call' = call /\ deaths' = deaths
        /\ UNCHANGED <<objects, routing, made>>
        /\ CallState' /\ ObjectsInv' /\ RegionsInv' /\ HandlersInv' /\ MakersInv'
    BY <1>1, <1>3, GotoInv DEF pcs, CopyPlaces, OpenPlaces, early
  <2>2. TypeOK' /\ CapacityInv'
    BY <1>3, <2>1 DEF IInv, TypeOK, CapacityInv, objects, routing
  <2> QED
    BY <2>1, <2>2 DEF IInv
<1>4. CASE CopyCapacity(p) /\ ~(Exit(p) /\ UNCHANGED disk)
  <2>1. /\ pc[p] = "copy_capacity" /\ Goto(p, "copy_blocks_path")
        /\ capacity' = [capacity EXCEPT ![call[p].version] = capacity[call[p].source]]
        /\ UNCHANGED <<base_dir, granularity, version_dir, metadata, blocks_path>>
    BY <1>4 DEF CopyCapacity, CopyFile, disk
  <2> QED
    BY <1>1, <1>3, <2>1 DEF IInv, TypeOK, CapacityInv
<1>5. CASE CopyBlocksPath(p) /\ ~(Exit(p) /\ UNCHANGED disk)
  <2>1. /\ pc[p] = "copy_blocks_path" /\ Goto(p, "open_blocks_path")
        /\ blocks_path' = [blocks_path EXCEPT ![call[p].version] = blocks_path[call[p].source]]
        /\ UNCHANGED <<base_dir, granularity, version_dir, metadata, capacity>>
    BY <1>5 DEF CopyBlocksPath, CopyFile, disk
  <2> QED
    BY <1>1, <1>3, <2>1 DEF IInv, TypeOK, CapacityInv
<1> QED
  BY <1>2, <1>4, <1>5

-------------------------------------------------------------------------------
(* A manager does something in its region. *)
LEMMA SameRegions ==
  ASSUME IInv, NEW m \in Managers, managers[m] # None, NEW vm \in Manager,
         vm.process = managers[m].process, vm.slot = managers[m].slot,
         vm.capacity = managers[m].capacity, managers' = [managers EXCEPT ![m] = vm],
         UNCHANGED <<vmm, mapped, regions, region_managers, capacity>>
  PROVE  /\ managers' \in [Managers -> Manager \cup {None}]
         /\ CapacityInv' /\ ObjectsInv' /\ RegionsInv'
         /\ \A q \in Processes : Live(q)' = Live(q)
<1>1. vm # None
  BY PrivateerAssumption
<1>2. managers' \in [Managers -> Manager \cup {None}]
  BY DEF IInv, TypeOK
<1>3. \A n \in Managers : managers[n] = None <=> managers'[n] = None
  BY <1>1 DEF IInv, TypeOK
<1>4. \A n \in Managers : managers'[n] # None =>
        /\ managers'[n].process = managers[n].process /\ managers'[n].slot = managers[n].slot
        /\ managers'[n].capacity = managers[n].capacity
  BY DEF IInv, TypeOK
<1>5. CapacityInv' /\ RegionsInv'
  BY <1>3, <1>4 DEF IInv, CapacityInv, RegionsInv
<1>6. ObjectsInv'
  BY <1>3, <1>4 DEF IInv, TypeOK, ObjectsInv
<1>7. \A q \in Processes : Live(q)' = Live(q)
  BY <1>3, <1>4 DEF Live
<1> QED
  BY <1>2, <1>5, <1>6, <1>7

LEMMA AccessInv ==
  ASSUME IInv, NEW p \in Processes, NEW m \in Managers, NEW x \in Stores \cup {None},
         Access(p, m, x)
  PROVE  IInv'
<1> DEFINE vm == managers[m]
           faults == IF x = None THEN ~vm.present ELSE ~vm.dirty
           contents == IF vm.present THEN vm.mem ELSE vm.ids
           stored == [vm EXCEPT !.mem = IF x = None THEN contents ELSE x,
                                !.present = TRUE, !.dirty = @ \/ x # None]
<1>1. vm # None /\ vm.process = p /\ vm \in Manager
  BY DEF Access, IInv, TypeOK
<1>2. CASE Exit(p) /\ UNCHANGED disk
  BY <1>2, ExitInv
<1>3. CASE ~(Exit(p) /\ UNCHANGED disk)
  <2>1. /\ managers' = [managers EXCEPT ![m] = stored]
        /\ action' = IF faults /\ action[p] = "once"
                     THEN [action EXCEPT ![p] = "default"] ELSE action
        /\ UNCHANGED <<pc, call, m_block_size, vmm, mapped, regions,
                       region_managers, m_uffd, num_handlers, destroyed, history>>
        /\ UNCHANGED disk
    BY <1>3 DEF Access
  <2>2. /\ stored \in Manager /\ stored.process = vm.process /\ stored.slot = vm.slot
        /\ stored.capacity = vm.capacity
    <3>1. contents \in Values /\ (x # None => x \in Values) /\ vm.dirty \in BOOLEAN
      BY <1>1, PrivateerAssumption DEF Manager
    <3> HIDE DEF contents, vm
    <3> QED
      BY <1>1, <3>1 DEF Manager
  <2> HIDE DEF stored
  <2>3. /\ managers' \in [Managers -> Manager \cup {None}]
        /\ CapacityInv' /\ ObjectsInv' /\ RegionsInv'
        /\ \A q \in Processes : Live(q)' = Live(q)
    BY <1>1, <2>1, <2>2, SameRegions DEF disk
  <2>4. TypeOK'
    BY <2>1, <2>3 DEF IInv, TypeOK, disk, history
  <2>5. CallState' /\ MakersInv'
    BY <2>1 DEF IInv, CallState, MakersInv, Makes, disk, history
  <2>6. HandlersInv'
    <3>1. \A q \in Processes : action[q] = "handler" => action'[q] = "handler"
      BY <2>1 DEF IInv, TypeOK
    <3> QED
      BY <2>1, <2>3, <3>1 DEF IInv, HandlersInv
  <2> QED
    BY <2>3, <2>4, <2>5, <2>6 DEF IInv
<1> QED
  BY <1>2, <1>3

(* update_metadata() makes no _metadata file and removes none. *)
LEMMA UpdateMetadataKeeps ==
  ASSUME IInv, NEW vm \in Manager, CanUpdate(vm), UpdateMetadata(vm)
  PROVE  /\ metadata' \in [Versions -> Values \cup {NoFile}]
         /\ \A v \in Versions : metadata'[v] = NoFile <=> metadata[v] = NoFile
         /\ Saved(vm) \in Manager /\ Saved(vm).process = vm.process /\ Saved(vm).slot = vm.slot
         /\ Saved(vm).capacity = vm.capacity
<1>1. /\ Saved(vm) \in Manager /\ Saved(vm).process = vm.process /\ Saved(vm).slot = vm.slot
      /\ Saved(vm).capacity = vm.capacity
  BY DEF Saved, Manager
<1>2. Saved(vm).ids \in Values /\ Saved(vm).ids # NoFile /\ vm.m_version_metadata_path \in Versions
  BY <1>1, PrivateerAssumption DEF Manager, NoFile
<1>3. metadata' = IF vm.present
                  THEN [metadata EXCEPT ![vm.m_version_metadata_path] = Saved(vm).ids]
                  ELSE metadata
  BY DEF UpdateMetadata
<1>4. vm.present => metadata[vm.m_version_metadata_path] # NoFile
  BY DEF CanUpdate
<1> QED
  BY <1>1, <1>2, <1>3, <1>4 DEF IInv, TypeOK

LEMMA MsyncInv ==
  ASSUME IInv, NEW p \in Processes, NEW o \in Objects, Msync(p, o) PROVE IInv'
<1> DEFINE m == vmm[o]
           vm == managers[m]
<1>1. m \in Managers /\ vm # None /\ vm \in Manager
  BY DEF Msync, IInv, TypeOK, ObjectsInv
<1>2. CASE ~CanUpdate(vm)
  BY <1>2, ExitInv DEF Msync
<1>3. CASE CanUpdate(vm)
  <2>1. /\ UpdateMetadata(vm) /\ managers' = [managers EXCEPT ![m] = Saved(vm)]
        /\ UNCHANGED <<pc, call, m_block_size, vmm, routing, history>>
    BY <1>3 DEF Msync
  <2>2. /\ metadata' \in [Versions -> Values \cup {NoFile}]
        /\ \A v \in Versions : metadata'[v] = NoFile <=> metadata[v] = NoFile
        /\ Saved(vm) \in Manager /\ Saved(vm).process = vm.process /\ Saved(vm).slot = vm.slot
        /\ Saved(vm).capacity = vm.capacity
        /\ UNCHANGED <<base_dir, granularity, version_dir, blocks_path, capacity>>
    BY <1>1, <1>3, <2>1, UpdateMetadataKeeps DEF UpdateMetadata
  <2>3. /\ managers' \in [Managers -> Manager \cup {None}]
        /\ CapacityInv' /\ ObjectsInv' /\ RegionsInv'
        /\ \A q \in Processes : Live(q)' = Live(q)
    BY <1>1, <2>1, <2>2, SameRegions DEF routing
  <2>4. TypeOK'
    BY <2>1, <2>2, <2>3 DEF IInv, TypeOK, routing, history
  <2>5. CallState' /\ MakersInv' /\ HandlersInv'
    BY <2>1, <2>2, <2>3 DEF IInv, CallState, MakersInv, Makes, HandlersInv, routing, history
  <2> QED
    BY <2>3, <2>4, <2>5 DEF IInv
<1> QED
  BY <1>2, <1>3

-------------------------------------------------------------------------------
(* snapshot(). *)
LEMMA SnapshotInv ==
  ASSUME IInv, NEW p \in Processes, NEW o \in Objects, NEW v \in Versions, Snapshot(p, o, v)
  PROVE  IInv'
<1> DEFINE n == NewCall("snapshot", o, v)
           vm == managers[vmm[o]]
           c == [n EXCEPT !.source = vm.m_version_metadata_path, !.capacity = vm.capacity]
           place == IF version_dir[v] THEN "snapshot_metadata" ELSE "make_dir"
<1>1. n \in Call /\ n.op = "snapshot" /\ n.object = o
  BY NewCallType
<1>2. vmm[o] # None /\ vm \in Manager /\ vm.capacity \in Nat \ {0}
      /\ vm.m_version_metadata_path \in Versions
  BY DEF Snapshot, IInv, TypeOK, ObjectsInv, CapacityInv, Manager
<1>3. c \in Call /\ c.op = "snapshot" /\ c.object = o /\ c.source \in Versions /\ c.capacity > 0
  <2> DEFINE path == vm.m_version_metadata_path
             size == vm.capacity
  <2>1. path \in Versions /\ size \in Nat /\ size > 0
    BY <1>2
  <2>2. c = [n EXCEPT !.source = path, !.capacity = size]
    OBVIOUS
  <2> HIDE DEF n, c, path, size
  <2>3. c \in Call /\ c.op = n.op /\ c.object = n.object /\ c.source = path /\ c.capacity = size
    BY <1>1, <2>1, <2>2 DEF Call
  <2> QED
    BY <1>1, <2>1, <2>3
<1>4. /\ Begin(p, place, c) /\ pc[p] = "idle" /\ process[o] = p
      /\ UNCHANGED <<disk, history, objects, routing>>
  BY DEF Snapshot, MayCall, Built, Begin
<1> HIDE DEF c
<1>5. /\ pc' \in [Processes -> pcs] /\ call' \in [Processes -> Call \cup {None}]
      /\ CallState' /\ MakersInv'
  BY <1>2, <1>3, <1>4, BeginInv DEF pcs, disk, history
<1>6. TypeOK' /\ CapacityInv' /\ ObjectsInv' /\ RegionsInv' /\ HandlersInv'
  BY <1>4, <1>5, FrameInv DEF IInv, TypeOK, CapacityInv, disk, history, objects, routing
<1> QED
  BY <1>5, <1>6 DEF IInv

LEMMA SnapshotMetadataInv ==
  ASSUME IInv, NEW p \in Processes, SnapshotMetadata(p) PROVE IInv'
<1> DEFINE v == call[p].version
           m == vmm[call[p].object]
           vm == managers[m]
           lent == [vm EXCEPT !.m_version_metadata_path = v]
<1>1. /\ pc[p] = "snapshot_metadata" /\ v \in Versions /\ call[p].op = "snapshot"
      /\ call[p].object \in Objects /\ m \in Managers /\ vm # None /\ vm \in Manager
  <2>1. /\ pc[p] = "snapshot_metadata" /\ call[p] \in Call /\ v \in Versions
        /\ call[p].op = "snapshot"
    BY CallOf DEF SnapshotMetadata, CreatePlaces, CopyPlaces, OpenPlaces, WritePlaces
  <2>2. /\ call[p].source \in Versions /\ m # None /\ call[p].object \in Objects
    BY <2>1 DEF IInv, CallState, Call
  <2>3. m \in Managers /\ vm # None /\ vm \in Manager
    BY <2>2 DEF IInv, TypeOK, ObjectsInv
  <2> QED
    BY <2>1, <2>2, <2>3
<1>2. /\ lent \in Manager /\ lent.process = vm.process /\ lent.slot = vm.slot
      /\ lent.capacity = vm.capacity
  <2> HIDE DEF vm, v
  <2> QED
    BY <1>1 DEF Manager
<1>3. /\ managers' = [managers EXCEPT ![m] = lent]
      /\ metadata' = [metadata EXCEPT ![v] = IF metadata[v] = NoFile THEN 0 ELSE metadata[v]]
      /\ pc' = [pc EXCEPT ![p] = "snapshot_msync"]
      /\ UNCHANGED <<base_dir, granularity, version_dir, blocks_path, capacity,
                     call, m_block_size, vmm, routing, history>>
  BY <1>1 DEF SnapshotMetadata, IInv, TypeOK
<1> HIDE DEF lent
<1>4. /\ managers' \in [Managers -> Manager \cup {None}]
      /\ CapacityInv' /\ ObjectsInv' /\ RegionsInv'
      /\ \A q \in Processes : Live(q)' = Live(q)
  BY <1>1, <1>2, <1>3, SameRegions DEF routing
<1>5. /\ metadata' \in [Versions -> Values \cup {NoFile}]
      /\ \A w \in Versions : metadata[w] # NoFile => metadata'[w] # NoFile
  BY <1>1, <1>3, PrivateerAssumption DEF IInv, TypeOK, NoFile
<1>6. TypeOK'
  BY <1>3, <1>4, <1>5 DEF IInv, TypeOK, routing, history, pcs
<1>7. CallState'
  BY <1>1, <1>3 DEF IInv, TypeOK, CallState, SnapshotPlaces
<1>8. MakersInv'
  <2>1. \A q \in Processes, w \in Versions : Makes(q, w)' => Makes(q, w)
    BY <1>1, <1>3 DEF IInv, TypeOK, Makes
  <2> QED
    BY <1>3, <1>5, <2>1 DEF IInv, MakersInv, history
<1>9. HandlersInv'
  BY <1>3, <1>4 DEF IInv, HandlersInv, routing
<1> QED
  BY <1>4, <1>6, <1>7, <1>8, <1>9 DEF IInv

LEMMA SnapshotMsyncInv ==
  ASSUME IInv, NEW p \in Processes, SnapshotMsync(p) PROVE IInv'
<1> DEFINE m == vmm[call[p].object]
           vm == managers[m]
           back == [Saved(vm) EXCEPT !.m_version_metadata_path = PathGivenBack(p, vm)]
<1>1. /\ pc[p] = "snapshot_msync" /\ call[p].op = "snapshot" /\ call[p].source \in Versions
      /\ call[p].object \in Objects /\ m \in Managers /\ vm # None /\ vm \in Manager
  <2>1. /\ pc[p] = "snapshot_msync" /\ call[p] \in Call /\ call[p].version \in Versions
        /\ call[p].op = "snapshot"
    BY CallOf DEF SnapshotMsync, CreatePlaces, CopyPlaces, OpenPlaces, WritePlaces
  <2>2. /\ call[p].source \in Versions /\ m # None /\ call[p].object \in Objects
    BY <2>1 DEF IInv, CallState, Call
  <2>3. m \in Managers /\ vm # None /\ vm \in Manager
    BY <2>2 DEF IInv, TypeOK, ObjectsInv
  <2> QED
    BY <2>1, <2>2, <2>3
<1>2. CASE ~CanUpdate(vm)
  BY <1>2, ExitInv DEF SnapshotMsync
<1>3. CASE CanUpdate(vm)
  <2>1. /\ UpdateMetadata(vm) /\ managers' = [managers EXCEPT ![m] = back]
        /\ pc' = [pc EXCEPT ![p] = "truncate_blocks_path"]
        /\ UNCHANGED <<call, m_block_size, vmm, routing, history>>
    BY <1>3, Zenon DEF SnapshotMsync
  <2>2. /\ metadata' \in [Versions -> Values \cup {NoFile}]
        /\ \A v \in Versions : metadata'[v] = NoFile <=> metadata[v] = NoFile
        /\ Saved(vm) \in Manager /\ Saved(vm).process = vm.process /\ Saved(vm).slot = vm.slot
        /\ Saved(vm).capacity = vm.capacity
        /\ UNCHANGED <<base_dir, granularity, version_dir, blocks_path, capacity>>
    BY <1>1, <1>3, <2>1, UpdateMetadataKeeps, ZenonT(30) DEF UpdateMetadata
  <2>3. /\ back \in Manager /\ back.process = vm.process /\ back.slot = vm.slot
        /\ back.capacity = vm.capacity
    BY <1>1, <2>2, SMTT(30) DEF PathGivenBack, Manager
  <2> HIDE DEF back
  <2>4. /\ managers' \in [Managers -> Manager \cup {None}]
        /\ CapacityInv' /\ ObjectsInv' /\ RegionsInv'
        /\ \A q \in Processes : Live(q)' = Live(q)
    BY <1>1, <2>1, <2>2, <2>3, SameRegions DEF routing
  <2>5. TypeOK'
    BY <2>1, <2>2, <2>4 DEF IInv, TypeOK, routing, history, pcs
  <2>6. CallState'
    BY <1>1, <2>1 DEF IInv, TypeOK, CallState, SnapshotPlaces, WritePlaces
  <2>7. MakersInv'
    <3>1. \A q \in Processes, w \in Versions : Makes(q, w)' => Makes(q, w)
      BY <1>1, <2>1 DEF IInv, TypeOK, Makes
    <3> QED
      BY <2>1, <2>2, <3>1 DEF IInv, MakersInv, history
  <2>8. HandlersInv'
    BY <2>1, <2>4 DEF IInv, HandlersInv, routing
  <2> QED
    BY <2>4, <2>5, <2>6, <2>7, <2>8 DEF IInv
<1> QED
  BY <1>2, <1>3

(* An object is destroyed: a manager less, and its entries. *)
LEMMA DestroyInv ==
  ASSUME IInv, NEW p \in Processes, NEW o \in Objects, Destroy(p, o) PROVE IInv'
<1> DEFINE m == vmm[o]
           vm == managers[m]
           s == vm.slot
           closes == CanUpdate(vm) /\ ~(build[p] = "USERFAULTFD" /\ vm.dirty)
<1>1. /\ m \in Managers /\ m # None /\ vm # None /\ vm \in Manager /\ process[o] = p
      /\ vm.process = p /\ s \in Slots /\ pc[p] = "idle"
  BY DEF Destroy, MayCall, Built, IInv, TypeOK, ObjectsInv, Manager
<1>2. CASE ~closes
  BY <1>2, ExitInv DEF Destroy
<1>3. CASE closes
  <2>1. /\ RemoveHandler(p) /\ UpdateMetadata(vm)
        /\ regions' = [regions EXCEPT ![p][s] = 0]
        /\ region_managers' = [region_managers EXCEPT ![p][s] = None]
        /\ mapped' = IF vm.present THEN [mapped EXCEPT ![p] = @ \ {s}] ELSE mapped
        /\ managers' = [managers EXCEPT ![m] = None]
        /\ vmm' = [vmm EXCEPT ![o] = None]
        /\ m_block_size' = [m_block_size EXCEPT ![o] = NotBuilt]
        /\ UNCHANGED <<pc, call, history>>
    BY <1>3 DEF Destroy, RemoveRegion
  <2>2. /\ metadata' \in [Versions -> Values \cup {NoFile}]
        /\ \A v \in Versions : metadata'[v] = NoFile <=> metadata[v] = NoFile
        /\ UNCHANGED <<base_dir, granularity, version_dir, blocks_path, capacity>>
    BY <1>1, <1>3, <2>1, UpdateMetadataKeeps DEF UpdateMetadata
  <2>3. Live(p)' = Live(p) \ {m} /\ m \in Live(p)
        /\ \A q \in Processes : q # p => Live(q)' = Live(q)
    BY <1>1, <2>1 DEF Live, IInv, TypeOK
  <2>4. HandlersInv' /\ num_handlers' \in [Processes -> Nat]
    <3>1. CASE build[p] = "SIGACTION"
      BY <2>1, <2>3, <3>1, ZenonT(30) DEF RemoveHandler, IInv, TypeOK, HandlersInv
    <3>2. CASE build[p] # "SIGACTION"
      <4>1. build[p] = "USERFAULTFD" /\ IsFiniteSet(Live(p)) /\ num_handlers[p] = Cardinality(Live(p))
        BY <3>2, PrivateerAssumption DEF IInv, HandlersInv
      <4>2. /\ IsFiniteSet(Live(p)') /\ Cardinality(Live(p)') = Cardinality(Live(p)) - 1
            /\ Cardinality(Live(p)) \in Nat /\ Cardinality(Live(p)') \in Nat
        BY <2>3, <4>1, FS_RemoveElement, FS_CardinalityType
      <4>3. /\ num_handlers' = [num_handlers EXCEPT ![p] = num_handlers[p] - 1]
            /\ m_uffd' = [m_uffd EXCEPT ![p] = num_handlers[p] # 1]
            /\ action' = action /\ destroyed' = destroyed
        BY <2>1, <3>2 DEF RemoveHandler
      <4>4. num_handlers' \in [Processes -> Nat]
        BY <4>1, <4>2, <4>3 DEF IInv, TypeOK
      <4> SUFFICES ASSUME NEW q \in Processes
                   PROVE  HandlersInv!(q)'
        BY <4>4 DEF HandlersInv
      <4>5. CASE q = p
        <5>1. num_handlers'[p] = Cardinality(Live(p)') /\ (m_uffd'[p] <=> num_handlers'[p] # 0)
          <6>1. num_handlers'[p] = num_handlers[p] - 1
            BY <4>3 DEF IInv, TypeOK
          <6>2. m_uffd'[p] <=> num_handlers[p] # 1
            BY <4>3, Zenon DEF IInv, TypeOK
          <6> QED
            BY <4>1, <4>2, <6>1, <6>2
        <5> QED
          BY <4>1, <4>2, <4>5, <5>1
      <4>6. CASE q # p
        <5>1. Live(q)' = Live(q) /\ num_handlers'[q] = num_handlers[q] /\ m_uffd'[q] = m_uffd[q]
          BY <2>3, <4>3, <4>6 DEF IInv, TypeOK
        <5> QED
          BY <4>3, <5>1 DEF IInv, HandlersInv
      <4> QED
        BY <4>5, <4>6
    <3> QED
      BY <3>1, <3>2
  <2>5. TypeOK'
    <3>1. /\ m_block_size' \in [Objects -> Nat \cup {NotBuilt}]
          /\ vmm' \in [Objects -> Managers \cup {None}]
          /\ managers' \in [Managers -> Manager \cup {None}]
          /\ mapped' \in [Processes -> SUBSET Slots]
      BY <2>1 DEF IInv, TypeOK
    <3>2. /\ regions' \in [Processes -> [Slots -> Nat]]
          /\ region_managers' \in [Processes -> [Slots -> Managers \cup {None}]]
      BY <2>1 DEF IInv, TypeOK
    <3>3. /\ action' \in [Processes -> {"default", "handler", "once", "garbage"}]
          /\ m_uffd' \in [Processes -> BOOLEAN] /\ destroyed' \in [Processes -> BOOLEAN]
      <4>1. CASE build[p] = "SIGACTION"
        BY <2>1, <4>1 DEF RemoveHandler, IInv, TypeOK
      <4>2. CASE build[p] # "SIGACTION"
        <5>1. /\ m_uffd' = [m_uffd EXCEPT ![p] = num_handlers[p] # 1]
              /\ action' = action /\ destroyed' = destroyed
          BY <2>1, <4>2 DEF RemoveHandler
        <5>2. (num_handlers[p] # 1) \in BOOLEAN
          OBVIOUS
        <5>3. m_uffd' \in [Processes -> BOOLEAN]
          BY <5>1, <5>2 DEF IInv, TypeOK
        <5> QED
          BY <5>1, <5>3 DEF IInv, TypeOK
      <4> QED
        BY <4>1, <4>2
    <3> QED
      BY <2>1, <2>2, <2>4, <3>1, <3>2, <3>3 DEF IInv, TypeOK, history
  <2>6. CallState'
    BY <1>1, <2>1 DEF IInv, TypeOK, CallState, Call
  <2>7. CapacityInv'
    BY <2>1, <2>2 DEF IInv, TypeOK, CapacityInv
  <2>8. ObjectsInv'
    BY <1>1, <2>1 DEF IInv, TypeOK, ObjectsInv
  <2>9. RegionsInv'
    <3>1. \A n \in Managers : managers'[n] # None => n # m /\ managers'[n] = managers[n]
      BY <2>1 DEF IInv, TypeOK
    <3>2. \A q \in Processes, t \in Slots :
            IF q = p /\ t = s
            THEN regions'[q][t] = 0 /\ region_managers'[q][t] = None
            ELSE /\ t \in mapped'[q] <=> t \in mapped[q]
                 /\ regions'[q][t] = regions[q][t]
                 /\ region_managers'[q][t] = region_managers[q][t]
      BY <1>1, <2>1 DEF IInv, TypeOK
    <3>3. ASSUME NEW n \in Managers, managers'[n] # None
          PROVE  LET q == managers'[n].process
                     t == managers'[n].slot
                 IN  t \in mapped'[q] /\ regions'[q][t] > 0 /\ region_managers'[q][t] = n
      <4>1. n # m /\ managers'[n] = managers[n] /\ managers[n] \in Manager
        BY <3>1, <3>3 DEF IInv, TypeOK
      <4>2. ~(managers[n].process = p /\ managers[n].slot = s)
        BY <1>1, <4>1, <3>3 DEF IInv, RegionsInv
      <4> QED
        BY <3>2, <3>3, <4>1, <4>2 DEF IInv, RegionsInv, Manager
    <3> QED
      BY <3>2, <3>3 DEF IInv, RegionsInv
  <2>10. MakersInv'
    BY <2>1, <2>2 DEF IInv, MakersInv, Makes, history
  <2> QED
    BY <2>4, <2>5, <2>6, <2>7, <2>8, <2>9, <2>10 DEF IInv
<1> QED
  BY <1>2, <1>3

-------------------------------------------------------------------------------
LEMMA ObjectStepInv ==
  ASSUME IInv, NEW p \in Processes, NEW o \in Objects, ObjectStep(p, o) PROVE IInv'
BY ConstructInv, ConstructWithStashInv, ConstructOpenInv, CreateInv, OpenInv, OpenImmutableInv,
   MsyncInv, SnapshotInv, DestroyInv, PrivateerAssumption DEF ObjectStep

LEMMA CreateStepInv == ASSUME IInv, NEW p \in Processes, CreateStep(p) PROVE IInv'
BY MakeDirInv, CreateMetadataInv, TruncateBlocksPathInv, WriteBlocksPathInv, WriteCapacityInv,
   StorageInv, MapCreatedInv DEF CreateStep

LEMMA NextInv == IInv /\ [Next]_vars => IInv'
<1> SUFFICES ASSUME IInv, [Next]_vars PROVE IInv'
  OBVIOUS
<1>1. ASSUME NEW p \in Processes, Step(p) PROVE IInv'
  <2>1. CASE \E o \in Objects : ObjectStep(p, o)
    BY <2>1, ObjectStepInv
  <2>2. CASE CreateStep(p)
    BY <2>2, CreateStepInv
  <2>3. CASE OpenStep(p)
    BY <2>3, CopyMetadataInv, CopyOtherInv, OpenFilesInv, OpenCapacityInv DEF OpenStep
  <2>4. CASE SnapshotStep(p)
    BY <2>4, SnapshotMetadataInv, SnapshotMsyncInv DEF SnapshotStep
  <2>5. CASE \E m \in Managers, x \in Stores \cup {None} : Access(p, m, x)
    BY <2>5, AccessInv
  <2> QED
    BY <1>1, <2>1, <2>2, <2>3, <2>4, <2>5 DEF Step
<1>2. ASSUME NEW p \in Processes, Crash(p) PROVE IInv'
  BY <1>2, CrashInv
<1>3. CASE UNCHANGED vars
  <2>1. ObjectsInv' /\ RegionsInv' /\ HandlersInv'
    BY <1>3, FrameInv DEF vars, objects
  <2>2. TypeOK' /\ CallState' /\ CapacityInv' /\ MakersInv'
    BY <1>3 DEF IInv, TypeOK, CallState, CapacityInv, MakersInv, Makes,
                vars, disk, objects, routing, history
  <2> QED
    BY <2>1, <2>2 DEF IInv
<1> QED
  BY <1>1, <1>2, <1>3 DEF Next

(* IInv is inductive. *)
LEMMA Inductive == Spec => []IInv
<1>1. Init => IInv
  BY InitInv
<1>2. IInv /\ [Next]_vars => IInv'
  BY NextInv
<1> QED
  BY <1>1, <1>2, PTL DEF Spec

(* Every variable keeps its type: what a process finds on disk is one of   *)
(* the states a file can be in (privateer.hpp).                            *)
THEOREM FacadeTypeCorrect == Spec => []TypeOK
<1>1. IInv => TypeOK
  BY DEF IInv
<1> QED
  BY <1>1, Inductive, PTL

(* At most one call makes a version, however create() and open_immutable() *)
(* of any number of processes interleave and whoever dies on the way.      *)
THEOREM MadeOnceCorrect == Spec => []MadeOnce
<1>1. IInv => MadeOnce
  BY DEF IInv, MakersInv, MadeOnce
<1> QED
  BY <1>1, Inductive, PTL

-------------------------------------------------------------------------------
(* How much of a region its entry covers.  create() passes on the size it  *)
(* was asked for, which is less than a block short of the region; open()   *)
(* passes on the capacity it has read; and an entry is its manager's.      *)
CallKnows(p) ==
  pc[p] # "idle" =>
    /\ call[p].op = "create" =>
         call[p].block_size > 0 /\ call[p].capacity < call[p].size + call[p].block_size
    /\ pc[p] \in {"open_metadata", "open_capacity"} => call[p].block_size > 0

Covers(length, vm) ==
  /\ vm.block_size > 0 /\ vm.capacity < length + vm.block_size
  /\ build[vm.process] = "USERFAULTFD" => length = vm.capacity

RoutesInv ==
  /\ granularity # 0
  /\ \A p \in Processes : CallKnows(p)
  /\ \A m \in Managers : managers[m] # None =>
       Covers(regions[managers[m].process][managers[m].slot], managers[m])
  /\ \A p \in Processes, s \in Slots, m \in Managers :
       region_managers[p][s] = m => Owns(m, p, s)

LEMMA InitRoutes == Init => RoutesInv
BY PrivateerAssumption DEF Init, RoutesInv, CallKnows, NoDir

(* Arithmetic: rounding to whole blocks adds less than a block. *)
LEMMA RoundedBelow ==
  ASSUME NEW size \in Nat \ {0}, NEW block_size \in Nat \ {0}
  PROVE  Rounded(size, block_size) \in Nat /\ Rounded(size, block_size) < size + block_size
<1> DEFINE n == size \div block_size
           r == size % block_size
<1>1. n \in Nat /\ r \in Nat /\ size = block_size * n + r
  OBVIOUS
<1>2. (n + 1) * block_size = block_size * n + block_size /\ block_size * n \in Nat
  BY <1>1
<1> HIDE DEF n, r
<1> DEFINE whole == block_size * n
<1>3. CASE r = 0
  BY <1>3 DEF Rounded, r
<1>4. CASE r # 0
  <2>1. Rounded(size, block_size) = whole + block_size
    BY <1>2, <1>4 DEF Rounded, n, r
  <2>2. whole \in Nat /\ size = whole + r /\ r > 0
    BY <1>1, <1>2, <1>4
  <2> HIDE DEF whole
  <2> QED
    BY <1>1, <2>1, <2>2
<1> QED
  BY <1>3, <1>4

(* A step of a call that makes no region and closes none. *)
LEMMA CallRoutes ==
  ASSUME IInv, RoutesInv, NEW p \in Processes, granularity' # 0,
         \A q \in Processes : q # p => pc'[q] = pc[q] /\ call'[q] = call[q],
         CallKnows(p)', UNCHANGED <<regions, region_managers>>,
         \A m \in Managers : managers'[m] # None <=> managers[m] # None,
         \A m \in Managers : managers[m] # None =>
           /\ managers'[m].process = managers[m].process /\ managers'[m].slot = managers[m].slot
           /\ managers'[m].capacity = managers[m].capacity
           /\ managers'[m].block_size = managers[m].block_size
  PROVE  RoutesInv'
<1>1. \A q \in Processes : CallKnows(q)'
  BY DEF RoutesInv, CallKnows
<1>2. \A m \in Managers : managers'[m] # None =>
        Covers(regions'[managers'[m].process][managers'[m].slot], managers'[m])
  BY DEF RoutesInv, Covers
<1>3. \A q \in Processes, s \in Slots, m \in Managers :
        region_managers'[q][s] = m => Owns(m, q, s)'
  BY DEF RoutesInv, Owns
<1> QED
  BY <1>1, <1>2, <1>3 DEF RoutesInv

(* A call that goes on knows what it knew. *)
LEMMA GotoRoutes ==
  ASSUME IInv, RoutesInv, NEW p \in Processes, NEW place, pc[p] # "idle", Goto(p, place),
         place \notin {"open_metadata", "open_capacity"}, granularity' # 0
  PROVE  RoutesInv'
<1>1. /\ pc' = [pc EXCEPT ![p] = place] /\ UNCHANGED <<call, managers, regions, region_managers>>
  BY DEF Goto, objects, routing
<1>2. CallKnows(p)' /\ \A q \in Processes : q # p => pc'[q] = pc[q]
  BY <1>1 DEF RoutesInv, CallKnows, IInv, TypeOK
<1> QED
  BY <1>1, <1>2, CallRoutes

LEMMA EndRoutes ==
  ASSUME IInv, RoutesInv, NEW p \in Processes, EndProcess(p), UNCHANGED disk
  PROVE  RoutesInv'
<1>1. \A m \in Managers : managers'[m] # None =>
        managers'[m] = managers[m] /\ managers[m].process # p /\ managers[m] \in Manager
  BY DEF EndProcess, IInv, TypeOK
<1>2. \A q \in Processes : CallKnows(q)'
  BY DEF RoutesInv, CallKnows, EndProcess, IInv, TypeOK
<1>3. \A q \in Processes, s \in Slots :
        IF q = p THEN region_managers'[q][s] = None
        ELSE regions'[q][s] = regions[q][s] /\ region_managers'[q][s] = region_managers[q][s]
  BY DEF EndProcess, IInv, TypeOK
<1>4. \A m \in Managers : managers'[m] # None =>
        Covers(regions'[managers'[m].process][managers'[m].slot], managers'[m])
  BY <1>1, <1>3 DEF RoutesInv, Manager
<1>5. ASSUME NEW q \in Processes, NEW s \in Slots, NEW m \in Managers, region_managers'[q][s] = m
      PROVE  Owns(m, q, s)'
  <2>1. q # p /\ Owns(m, q, s)
    BY <1>3, <1>5, PrivateerAssumption DEF RoutesInv
  <2> QED
    BY <1>5, <2>1 DEF Owns, EndProcess, IInv, TypeOK
<1> QED
  BY <1>2, <1>4, <1>5 DEF RoutesInv, disk

LEMMA ExitRoutes ==
  ASSUME IInv, RoutesInv, NEW p \in Processes, Exit(p), UNCHANGED disk
  PROVE  RoutesInv'
BY EndRoutes DEF Exit

(* A region is made, and its entry. *)
LEMMA MapRoutes ==
  ASSUME IInv, RoutesInv, NEW p \in Processes, NEW ids \in Values,
         NEW region_capacity \in Nat, NEW length \in Nat \ {0},
         pc[p] # "idle", call[p].block_size \in Nat \ {0},
         region_capacity < length + call[p].block_size,
         build[p] = "USERFAULTFD" => length = region_capacity,
         MapRegion(p, ids, region_capacity, length)
  PROVE  RoutesInv'
<1>1. CASE mapped[p] = Slots
  BY <1>1, ExitRoutes DEF MapRegion
<1>2. CASE mapped[p] # Slots
  <2> DEFINE c == call[p]
             vm(s) == [process |-> p, slot |-> s, block_size |-> c.block_size,
                       capacity |-> region_capacity, version |-> c.version,
                       m_version_metadata_path |-> c.version, m_read_only |-> c.read_only,
                       ids |-> ids, read |-> IF c.read_only THEN ids ELSE None,
                       mem |-> 0, present |-> FALSE, dirty |-> FALSE]
  <2>1. PICK m \in Managers, s \in Slots \ mapped[p] :
          /\ managers[m] = None
          /\ managers' = [managers EXCEPT ![m] = vm(s)]
          /\ AddRegion(p, s, length, m) /\ Return(p) /\ UNCHANGED disk
    BY <1>2 DEF MapRegion
  <2>2. /\ vm(s).process = p /\ vm(s).slot = s /\ vm(s).block_size = c.block_size
        /\ vm(s).capacity = region_capacity /\ vm(s) # None
    <3>1. c \in Call
      BY DEF IInv, CallState
    <3>2. vm(s) \in Manager
      BY <2>1, <3>1, PrivateerAssumption DEF Manager, Call
    <3> QED
      BY <3>2, PrivateerAssumption
  <2> HIDE DEF vm
  <2>3. m # None /\ regions[p][s] = 0 /\ region_managers[p][s] = None
    BY <2>1, PrivateerAssumption DEF IInv, RegionsInv
  <2>4. \A q \in Processes, t \in Slots :
          IF q = p /\ t = s
          THEN regions'[q][t] = length /\ region_managers'[q][t] = m
          ELSE regions'[q][t] = regions[q][t] /\ region_managers'[q][t] = region_managers[q][t]
    BY <2>1, <2>3 DEF AddRegion, IInv, TypeOK
  <2>5. managers'[m] = vm(s) /\ \A n \in Managers : n # m => managers'[n] = managers[n]
    BY <2>1 DEF IInv, TypeOK
  <2>6. \A q \in Processes : CallKnows(q)'
    BY <2>1 DEF RoutesInv, CallKnows, Return, IInv, TypeOK
  <2>7. ASSUME NEW n \in Managers, managers'[n] # None
        PROVE  Covers(regions'[managers'[n].process][managers'[n].slot], managers'[n])
    <3>1. CASE n = m
      BY <2>1, <2>2, <2>4, <2>5, <3>1 DEF Covers
    <3>2. CASE n # m
      <4>1. /\ managers'[n] = managers[n] /\ managers[n] \in Manager
            /\ managers[n].slot \in mapped[managers[n].process]
        BY <2>5, <2>7, <3>2 DEF IInv, TypeOK, RegionsInv
      <4>2. regions'[managers[n].process][managers[n].slot] = regions[managers[n].process][managers[n].slot]
        BY <2>1, <2>4, <4>1 DEF Manager
      <4> QED
        BY <2>7, <4>1, <4>2 DEF RoutesInv
    <3> QED
      BY <3>1, <3>2
  <2>8. ASSUME NEW q \in Processes, NEW t \in Slots, NEW n \in Managers, region_managers'[q][t] = n
        PROVE  Owns(n, q, t)'
    <3>1. CASE q = p /\ t = s
      <4>1. n = m /\ managers'[n] = vm(s)
        BY <2>4, <2>5, <2>8, <3>1
      <4> QED
        BY <2>2, <3>1, <4>1 DEF Owns
    <3>2. CASE ~(q = p /\ t = s)
      <4>1. Owns(n, q, t)
        BY <2>4, <2>8, <3>2 DEF RoutesInv
      <4> QED
        BY <2>1, <2>5, <4>1 DEF Owns
    <3> QED
      BY <3>1, <3>2
  <2> QED
    BY <2>1, <2>6, <2>7, <2>8 DEF RoutesInv, disk
<1> QED
  BY <1>1, <1>2

(* An object is destroyed: its entry is not there any more. *)
LEMMA DestroyRoutes ==
  ASSUME IInv, RoutesInv, NEW p \in Processes, NEW o \in Objects, Destroy(p, o)
  PROVE  RoutesInv'
<1> DEFINE m == vmm[o]
           vm == managers[m]
           s == vm.slot
           closes == CanUpdate(vm) /\ ~(build[p] = "USERFAULTFD" /\ vm.dirty)
<1>1. CASE ~closes
  BY <1>1, ExitRoutes DEF Destroy
<1>2. CASE closes
  <2>1. /\ regions' = [regions EXCEPT ![p][s] = 0]
        /\ region_managers' = [region_managers EXCEPT ![p][s] = None]
        /\ managers' = [managers EXCEPT ![m] = None]
        /\ UNCHANGED <<pc, call, granularity>>
        /\ m # None /\ process[o] = p
    BY <1>2 DEF Destroy, Built, RemoveRegion, UpdateMetadata
  <2>2. m \in Managers /\ vm.process = p /\ s \in Slots
    BY <2>1 DEF IInv, TypeOK, ObjectsInv, Manager
  <2>3. \A q \in Processes, t \in Slots :
          IF q = p /\ t = s
          THEN region_managers'[q][t] = None
          ELSE regions'[q][t] = regions[q][t] /\ region_managers'[q][t] = region_managers[q][t]
    BY <2>1 DEF IInv, TypeOK
  <2>4. \A n \in Managers : IF n = m THEN managers'[n] = None ELSE managers'[n] = managers[n]
    BY <2>1 DEF IInv, TypeOK
  <2>5. ASSUME NEW n \in Managers, managers'[n] # None
        PROVE  Covers(regions'[managers'[n].process][managers'[n].slot], managers'[n])
    <3>1. n # m /\ managers'[n] = managers[n] /\ managers[n] \in Manager
      BY <2>4, <2>5 DEF IInv, TypeOK
    <3>2. ~(managers[n].process = p /\ managers[n].slot = s)
      BY <2>1, <2>2, <2>5, <3>1 DEF IInv, RegionsInv, ObjectsInv
    <3>3. regions'[managers[n].process][managers[n].slot] = regions[managers[n].process][managers[n].slot]
      BY <2>3, <3>1, <3>2 DEF Manager
    <3> QED
      BY <2>5, <3>1, <3>3 DEF RoutesInv
  <2>6. ASSUME NEW q \in Processes, NEW t \in Slots, NEW n \in Managers, region_managers'[q][t] = n
        PROVE  Owns(n, q, t)'
    <3>1. ~(q = p /\ t = s) /\ Owns(n, q, t)
      BY <2>3, <2>6, PrivateerAssumption DEF RoutesInv
    <3>2. n # m
      BY <2>2, <3>1 DEF Owns
    <3> QED
      BY <2>4, <3>1, <3>2 DEF Owns
  <2>7. \A q \in Processes : CallKnows(q)'
    BY <2>1 DEF RoutesInv, CallKnows
  <2> QED
    BY <2>1, <2>5, <2>6, <2>7 DEF RoutesInv
<1> QED
  BY <1>1, <1>2

(* A manager does something in its region. *)
LEMMA ManagerRoutes ==
  ASSUME IInv, RoutesInv, NEW p \in Processes, granularity' = granularity,
         \A q \in Processes : q # p => pc'[q] = pc[q] /\ call'[q] = call[q],
         CallKnows(p)', UNCHANGED <<regions, region_managers>>,
         NEW m \in Managers, managers[m] # None, NEW vm \in Manager,
         managers' = [managers EXCEPT ![m] = vm],
         vm.process = managers[m].process, vm.slot = managers[m].slot,
         vm.capacity = managers[m].capacity, vm.block_size = managers[m].block_size
  PROVE  RoutesInv'
<1>1. vm # None
  BY PrivateerAssumption
<1>2. /\ managers'[m] = vm /\ \A n \in Managers : n # m => managers'[n] = managers[n]
      /\ granularity' # 0
  BY DEF IInv, TypeOK, RoutesInv
<1> QED
  BY <1>1, <1>2, CallRoutes

LEMMA ConstructRoutes ==
  ASSUME IInv, RoutesInv, NEW p \in Processes, NEW o \in Objects,
         \/ \E env \in Environments : Construct(p, o, env)
         \/ ConstructWithStash(p, o) \/ ConstructOpen(p, o)
  PROVE  RoutesInv'
<1>1. CASE Exit(p) /\ UNCHANGED disk
  BY <1>1, ExitRoutes
<1>2. CASE ~(Exit(p) /\ UNCHANGED disk)
  <2>1. UNCHANGED <<granularity, pc, call, managers, routing>>
    BY <1>2 DEF Construct, ConstructWithStash, ConstructOpen, disk
  <2> QED
    BY <2>1, CallRoutes DEF RoutesInv, CallKnows, routing
<1> QED
  BY <1>1, <1>2

LEMMA CreateRoutes ==
  ASSUME IInv, RoutesInv, NEW p \in Processes, NEW o \in Objects, NEW v \in Versions,
         NEW size \in Sizes, NEW overwrite \in BOOLEAN, Create(p, o, v, size, overwrite)
  PROVE  RoutesInv'
<1>1. CASE m_block_size[o] = 0 \/ (version_dir[v] /\ ~overwrite)
  BY <1>1, ExitRoutes DEF Create
<1>2. CASE ~(m_block_size[o] = 0 \/ (version_dir[v] /\ ~overwrite))
  <2> DEFINE n == NewCall("create", o, v)
             c == [n EXCEPT
                     !.size = size, !.block_size = m_block_size[o],
                     !.capacity = Rounded(size, m_block_size[o])]
             place == IF version_dir[v] THEN "create_metadata" ELSE "make_dir"
  <2>1. m_block_size[o] \in Nat \ {0} /\ size \in Nat \ {0}
    BY <1>2, PrivateerAssumption DEF Create, Built, IInv, TypeOK
  <2>2. c.block_size > 0 /\ c.capacity < c.size + c.block_size
    <3>1. /\ Rounded(size, m_block_size[o]) \in Nat
          /\ Rounded(size, m_block_size[o]) < size + m_block_size[o]
      BY <2>1, RoundedBelow
    <3>2. /\ c.block_size = m_block_size[o] /\ c.size = size
          /\ c.capacity = Rounded(size, m_block_size[o])
      BY DEF NewCall
    <3> QED
      BY <2>1, <3>1, <3>2
  <2>3. Begin(p, place, c) /\ UNCHANGED granularity
    BY <1>2 DEF Create
  <2> HIDE DEF c
  <2>4. /\ pc'[p] = place /\ call'[p] = c
        /\ \A q \in Processes : q # p => pc'[q] = pc[q] /\ call'[q] = call[q]
        /\ UNCHANGED <<managers, regions, region_managers>>
    BY <2>3 DEF Begin, IInv, TypeOK, objects, routing
  <2>5. CallKnows(p)' /\ granularity' # 0
    BY <2>2, <2>3, <2>4 DEF CallKnows, RoutesInv
  <2> QED
    BY <2>4, <2>5, CallRoutes
<1> QED
  BY <1>1, <1>2

(* The other calls begin without knowing anything. *)
LEMMA BeginRoutes ==
  ASSUME IInv, RoutesInv, NEW p \in Processes, NEW place, NEW c,
         Begin(p, place, c), UNCHANGED granularity, c.op # "create",
         place \in {"open_metadata", "open_capacity"} => c.block_size > 0
  PROVE  RoutesInv'
<1>1. /\ pc'[p] = place /\ call'[p] = c
      /\ \A q \in Processes : q # p => pc'[q] = pc[q] /\ call'[q] = call[q]
      /\ UNCHANGED <<managers, regions, region_managers>>
  BY DEF Begin, IInv, TypeOK, objects, routing
<1>2. CallKnows(p)' /\ granularity' # 0
  BY <1>1 DEF CallKnows, RoutesInv
<1> QED
  BY <1>1, <1>2, CallRoutes

LEMMA OpenRoutes ==
  ASSUME IInv, RoutesInv, NEW p \in Processes, NEW o \in Objects, NEW v \in Versions,
         \/ \E read_only \in BOOLEAN : Open(p, o, v, read_only)
         \/ \E new \in Versions : OpenImmutable(p, o, v, new)
         \/ Snapshot(p, o, v)
  PROVE  RoutesInv'
<1>1. ASSUME NEW read_only \in BOOLEAN, Open(p, o, v, read_only) PROVE RoutesInv'
  <2> DEFINE c == [NewCall("open", o, v) EXCEPT !.read_only = read_only]
  <2>1. c.op = "open" /\ Begin(p, "open_blocks_path", c) /\ UNCHANGED granularity
    BY <1>1 DEF Open, NewCall, disk
  <2> HIDE DEF c
  <2> QED
    BY <2>1, BeginRoutes
<1>2. ASSUME NEW new \in Versions, OpenImmutable(p, o, v, new) PROVE RoutesInv'
  <2> DEFINE c == [NewCall("open_immutable", o, new) EXCEPT !.source = v]
  <2>1. CASE version_dir[new]
    BY <1>2, <2>1, ExitRoutes DEF OpenImmutable
  <2>2. CASE ~version_dir[new]
    <3>1. c.op = "open_immutable" /\ Begin(p, "make_dir", c) /\ UNCHANGED granularity
      BY <1>2, <2>2 DEF OpenImmutable, NewCall, disk
    <3> HIDE DEF c
    <3> QED
      BY <3>1, BeginRoutes
  <2> QED
    BY <2>1, <2>2
<1>3. ASSUME Snapshot(p, o, v) PROVE RoutesInv'
  <2> DEFINE place == IF version_dir[v] THEN "snapshot_metadata" ELSE "make_dir"
             c == [NewCall("snapshot", o, v) EXCEPT
                     !.source = managers[vmm[o]].m_version_metadata_path,
                     !.capacity = managers[vmm[o]].capacity]
  <2>1. c.op = "snapshot" /\ Begin(p, place, c) /\ UNCHANGED granularity
    BY <1>3 DEF Snapshot, NewCall, disk
  <2> HIDE DEF c
  <2> QED
    BY <2>1, BeginRoutes
<1> QED
  BY <1>1, <1>2, <1>3

(* The files of a version, and those of the storage. *)
LEMMA FileRoutes ==
  ASSUME IInv, RoutesInv, NEW p \in Processes,
         \/ MakeDir(p) \/ CreateMetadata(p) \/ TruncateBlocksPath(p) \/ WriteBlocksPath(p)
         \/ WriteCapacity(p) \/ CopyMetadata(p) \/ CopyCapacity(p) \/ CopyBlocksPath(p)
         \/ FindBlocks(p)
  PROVE  RoutesInv'
<1>1. CASE Exit(p) /\ UNCHANGED disk
  BY <1>1, ExitRoutes
<1>2. CASE ~(Exit(p) /\ UNCHANGED disk)
  <2>1. CASE WriteCapacity(p) /\ call[p].op # "create"
    <3>1. Return(p) /\ UNCHANGED <<granularity, objects, routing>>
      BY <2>1 DEF WriteCapacity
    <3> QED
      BY <3>1, CallRoutes DEF Return, RoutesInv, CallKnows, objects, routing, IInv, TypeOK
  <2>2. CASE ~(WriteCapacity(p) /\ call[p].op # "create")
    <3>1. PICK place : Goto(p, place) /\ place \notin {"open_metadata", "open_capacity"}
      BY <1>2, <2>2 DEF MakeDir, CreateMetadata, TruncateBlocksPath, WriteBlocksPath, WriteCapacity,
                        CopyMetadata, CopyCapacity, CopyBlocksPath, CopyFile, FindBlocks, disk
    <3>2. pc[p] # "idle" /\ granularity' = granularity
      BY <1>2, <2>2 DEF MakeDir, CreateMetadata, TruncateBlocksPath, WriteBlocksPath, WriteCapacity,
                        CopyMetadata, CopyCapacity, CopyBlocksPath, CopyFile, FindBlocks, disk
    <3> QED
      BY <3>1, <3>2, GotoRoutes DEF RoutesInv
  <2> QED
    BY <2>1, <2>2
<1> QED
  BY <1>1, <1>2

LEMMA StorageRoutes ==
  ASSUME IInv, RoutesInv, NEW p \in Processes,
         MakeBlocks(p) \/ TruncateGranularity(p) \/ WriteGranularity(p)
  PROVE  RoutesInv'
<1>1. PICK place \in {"truncate_granularity", "write_granularity", "map"} :
        Goto(p, place) /\ pc[p] # "idle"
  BY DEF MakeBlocks, TruncateGranularity, WriteGranularity
<1>2. granularity' # 0
  <2>1. CASE MakeBlocks(p) \/ TruncateGranularity(p)
    BY <2>1 DEF MakeBlocks, TruncateGranularity, RoutesInv, NoFile, Truncated
  <2>2. CASE WriteGranularity(p)
    <3>1. call[p].op = "create" /\ pc[p] # "idle" /\ granularity' = call[p].block_size
      BY <2>2, CallOf DEF WriteGranularity, CopyPlaces, OpenPlaces, SnapshotPlaces, WritePlaces
    <3> QED
      BY <3>1, CallOf DEF RoutesInv, CallKnows
  <2> QED
    BY <2>1, <2>2
<1> QED
  BY <1>1, <1>2, GotoRoutes

LEMMA ReadRoutes ==
  ASSUME IInv, RoutesInv, NEW p \in Processes,
         OpenBlocksPath(p) \/ OpenGranularity(p) \/ OpenMetadata(p)
  PROVE  RoutesInv'
<1>1. CASE Exit(p) /\ UNCHANGED disk
  BY <1>1, ExitRoutes
<1>2. CASE ~(Exit(p) /\ UNCHANGED disk)
  <2>1. call[p] \in Call /\ call[p].op # "create" /\ pc[p] # "idle" /\ UNCHANGED granularity
    BY <1>2, CallOf DEF OpenBlocksPath, OpenGranularity, OpenMetadata, ReadFile, CreatePlaces,
                        WritePlaces, IInv, CallState, disk
  <2>2. CASE OpenBlocksPath(p)
    BY <1>2, <2>1, <2>2, BeginRoutes DEF OpenBlocksPath, ReadFile
  <2>3. CASE OpenGranularity(p)
    <3> DEFINE c == [call[p] EXCEPT !.block_size = granularity]
    <3>1. Begin(p, "open_metadata", c) /\ ~Unreadable(granularity)
      BY <1>2, <2>3 DEF OpenGranularity, ReadFile
    <3>2. granularity > 0
      BY <3>1, Readable DEF IInv, TypeOK, RoutesInv
    <3>3. c.op # "create" /\ c.block_size > 0
      BY <2>1, <3>2 DEF Call
    <3> HIDE DEF c
    <3> QED
      BY <2>1, <3>1, <3>3, BeginRoutes
  <2>4. CASE OpenMetadata(p)
    <3> DEFINE c == [call[p] EXCEPT !.ids = metadata[call[p].version]]
    <3>1. Begin(p, "open_capacity", c) /\ pc[p] = "open_metadata"
      BY <1>2, <2>4 DEF OpenMetadata, ReadFile
    <3>2. call[p].block_size > 0
      BY <3>1 DEF RoutesInv, CallKnows
    <3>3. c.op # "create" /\ c.block_size > 0
      BY <2>1, <3>2 DEF Call
    <3> HIDE DEF c
    <3> QED
      BY <2>1, <3>1, <3>3, BeginRoutes
  <2> QED
    BY <1>2, <2>2, <2>3, <2>4
<1> QED
  BY <1>1, <1>2

LEMMA MakeRoutes ==
  ASSUME IInv, RoutesInv, NEW p \in Processes, MapCreated(p) \/ OpenCapacity(p)
  PROVE  RoutesInv'
<1>1. CASE MapCreated(p)
  <2> DEFINE length == IF build[p] = "SIGACTION" THEN call[p].size ELSE call[p].capacity
  <2>1. /\ call[p].op = "create" /\ call[p] \in Call /\ pc[p] = "map"
        /\ call[p].capacity \in Nat \ {0} /\ call[p].size \in Nat \ {0}
    BY <1>1, CallOf DEF MapCreated, CopyPlaces, OpenPlaces, SnapshotPlaces, WritePlaces, IInv,
                        CallState, Call
  <2>2. call[p].block_size > 0 /\ call[p].capacity < call[p].size + call[p].block_size
    BY <2>1 DEF RoutesInv, CallKnows
  <2>3. call[p].block_size \in Nat \ {0} /\ call[p].capacity < call[p].capacity + call[p].block_size
    BY <2>1, <2>2 DEF Call
  <2>4. /\ length \in Nat \ {0} /\ call[p].capacity < length + call[p].block_size
        /\ build[p] = "USERFAULTFD" => length = call[p].capacity
    BY <2>1, <2>2, <2>3
  <2>5. MapRegion(p, 0, call[p].capacity, length)
    BY <1>1 DEF MapCreated
  <2> HIDE DEF length
  <2> QED
    BY <2>1, <2>3, <2>4, <2>5, MapRoutes, PrivateerAssumption
<1>2. CASE OpenCapacity(p)
  <2> DEFINE c == capacity[call[p].version]
  <2>1. /\ pc[p] = "open_capacity" /\ call[p] \in Call
    BY <1>2, CallOf DEF OpenCapacity
  <2>2. call[p].block_size > 0 /\ call[p].block_size \in Nat \ {0} /\ call[p].ids \in Values
    BY <2>1 DEF RoutesInv, CallKnows, Call
  <2>3. CASE Unreadable(c)
    BY <1>2, <2>3, ExitRoutes DEF OpenCapacity
  <2>4. CASE ~Unreadable(c)
    <3>1. c \in Nat \ {0}
      BY <2>1, <2>4, Readable DEF IInv, TypeOK, CapacityInv, Call
    <3>2. MapRegion(p, call[p].ids, c, c)
      BY <1>2, <2>4 DEF OpenCapacity
    <3>3. c < c + call[p].block_size
      BY <2>2, <3>1
    <3> HIDE DEF c
    <3> QED
      BY <2>1, <2>2, <3>1, <3>2, <3>3, MapRoutes
  <2> QED
    BY <2>3, <2>4
<1> QED
  BY <1>1, <1>2

(* What Saved() leaves of a manager. *)
LEMMA SavedManager ==
  ASSUME NEW vm \in Manager
  PROVE  /\ Saved(vm) \in Manager /\ Saved(vm).process = vm.process /\ Saved(vm).slot = vm.slot
         /\ Saved(vm).capacity = vm.capacity /\ Saved(vm).block_size = vm.block_size
BY DEF Saved, Manager

LEMMA MsyncRoutes ==
  ASSUME IInv, RoutesInv, NEW p \in Processes, NEW o \in Objects, Msync(p, o)
  PROVE  RoutesInv'
<1> DEFINE m == vmm[o]
           vm == managers[m]
<1>1. m \in Managers /\ vm # None /\ vm \in Manager
  BY DEF Msync, IInv, TypeOK, ObjectsInv
<1>2. CASE ~CanUpdate(vm)
  BY <1>2, ExitRoutes DEF Msync
<1>3. CASE CanUpdate(vm)
  <2>1. /\ managers' = [managers EXCEPT ![m] = Saved(vm)]
        /\ UNCHANGED <<granularity, pc, call, regions, region_managers>>
    BY <1>3 DEF Msync, UpdateMetadata, routing
  <2>2. CallKnows(p)'
    BY <2>1 DEF RoutesInv, CallKnows
  <2> QED
    BY <1>1, <2>1, <2>2, SavedManager, ManagerRoutes
<1> QED
  BY <1>2, <1>3

LEMMA SnapshotMetadataRoutes ==
  ASSUME IInv, RoutesInv, NEW p \in Processes, SnapshotMetadata(p)
  PROVE  RoutesInv'
<1> DEFINE v == call[p].version
           m == vmm[call[p].object]
           vm == managers[m]
           lent == [vm EXCEPT !.m_version_metadata_path = v]
<1>1. /\ pc[p] = "snapshot_metadata" /\ v \in Versions /\ call[p].op = "snapshot"
      /\ call[p].object \in Objects /\ m # None
  <2>1. /\ pc[p] = "snapshot_metadata" /\ v \in Versions /\ call[p].op = "snapshot"
    BY CallOf DEF SnapshotMetadata, CreatePlaces, CopyPlaces, OpenPlaces, WritePlaces
  <2> QED
    BY <2>1 DEF IInv, CallState, Call
<1>2. m \in Managers /\ vm # None /\ vm \in Manager
  BY <1>1 DEF IInv, TypeOK, ObjectsInv
<1>3. /\ lent \in Manager /\ lent.process = vm.process /\ lent.slot = vm.slot
      /\ lent.capacity = vm.capacity /\ lent.block_size = vm.block_size
  <2> HIDE DEF vm, v
  <2> QED
    BY <1>1, <1>2 DEF Manager
<1>4. /\ managers' = [managers EXCEPT ![m] = lent] /\ pc' = [pc EXCEPT ![p] = "snapshot_msync"]
      /\ UNCHANGED <<granularity, call, regions, region_managers>>
  BY <1>2 DEF SnapshotMetadata, routing, IInv, TypeOK
<1> HIDE DEF lent
<1>5. CallKnows(p)' /\ \A q \in Processes : q # p => pc'[q] = pc[q]
  BY <1>1, <1>4 DEF CallKnows, IInv, TypeOK
<1> QED
  BY <1>2, <1>3, <1>4, <1>5, ManagerRoutes

LEMMA SnapshotMsyncRoutes ==
  ASSUME IInv, RoutesInv, NEW p \in Processes, SnapshotMsync(p)
  PROVE  RoutesInv'
<1> DEFINE m == vmm[call[p].object]
           vm == managers[m]
           saved == Saved(vm)
           back == [saved EXCEPT !.m_version_metadata_path = PathGivenBack(p, vm)]
<1>1. /\ pc[p] = "snapshot_msync" /\ call[p].op = "snapshot" /\ call[p].source \in Versions
      /\ call[p].object \in Objects /\ m # None
  <2>1. pc[p] = "snapshot_msync" /\ call[p] \in Call /\ call[p].op = "snapshot"
    BY CallOf DEF SnapshotMsync, CreatePlaces, CopyPlaces, OpenPlaces, WritePlaces
  <2> QED
    BY <2>1 DEF IInv, CallState, Call
<1>2. m \in Managers /\ vm # None /\ vm \in Manager
  BY <1>1 DEF IInv, TypeOK, ObjectsInv
<1>3. CASE ~CanUpdate(vm)
  BY <1>3, ExitRoutes DEF SnapshotMsync
<1>4. CASE CanUpdate(vm)
  <2>1. /\ managers' = [managers EXCEPT ![m] = back]
        /\ pc' = [pc EXCEPT ![p] = "truncate_blocks_path"]
        /\ UNCHANGED <<granularity, call, regions, region_managers>>
    BY <1>4 DEF SnapshotMsync, UpdateMetadata, routing
  <2>2. /\ saved \in Manager /\ saved.process = vm.process /\ saved.slot = vm.slot
        /\ saved.capacity = vm.capacity /\ saved.block_size = vm.block_size
    BY <1>2, SavedManager
  <2> HIDE DEF saved, vm
  <2>3. /\ back \in Manager /\ back.process = vm.process /\ back.slot = vm.slot
        /\ back.capacity = vm.capacity /\ back.block_size = vm.block_size
    BY <1>1, <2>2 DEF PathGivenBack, Manager
  <2> HIDE DEF back
  <2>4. CallKnows(p)' /\ \A q \in Processes : q # p => pc'[q] = pc[q]
    BY <1>1, <2>1 DEF CallKnows, IInv, TypeOK
  <2> QED
    BY <1>2, <2>1, <2>3, <2>4, ManagerRoutes DEF vm
<1> QED
  BY <1>3, <1>4

LEMMA AccessRoutes ==
  ASSUME IInv, RoutesInv, NEW p \in Processes, NEW m \in Managers, NEW x \in Stores \cup {None},
         Access(p, m, x)
  PROVE  RoutesInv'
<1> DEFINE vm == managers[m]
           contents == IF vm.present THEN vm.mem ELSE vm.ids
           stored == [vm EXCEPT !.mem = IF x = None THEN contents ELSE x,
                                !.present = TRUE, !.dirty = @ \/ x # None]
<1>1. vm # None /\ vm \in Manager
  BY DEF Access, IInv, TypeOK
<1>2. CASE Exit(p) /\ UNCHANGED disk
  BY <1>2, ExitRoutes
<1>3. CASE ~(Exit(p) /\ UNCHANGED disk)
  <2>1. /\ managers' = [managers EXCEPT ![m] = stored]
        /\ UNCHANGED <<granularity, pc, call, regions, region_managers>>
    BY <1>3 DEF Access, disk
  <2>2. /\ stored \in Manager /\ stored.process = vm.process /\ stored.slot = vm.slot
        /\ stored.capacity = vm.capacity /\ stored.block_size = vm.block_size
    <3>1. contents \in Values /\ (x # None => x \in Values) /\ vm.dirty \in BOOLEAN
      BY <1>1, PrivateerAssumption DEF Manager
    <3> HIDE DEF contents, vm
    <3> QED
      BY <1>1, <3>1 DEF Manager
  <2> HIDE DEF stored
  <2>3. CallKnows(p)'
    BY <2>1 DEF RoutesInv, CallKnows
  <2> QED
    BY <1>1, <2>1, <2>2, <2>3, ManagerRoutes
<1> QED
  BY <1>2, <1>3

LEMMA RoutesNext == IInv /\ RoutesInv /\ [Next]_vars => RoutesInv'
<1> SUFFICES ASSUME IInv, RoutesInv, [Next]_vars PROVE RoutesInv'
  OBVIOUS
<1>1. ASSUME NEW p \in Processes, NEW o \in Objects, ObjectStep(p, o) PROVE RoutesInv'
  BY <1>1, ConstructRoutes, CreateRoutes, OpenRoutes, MsyncRoutes, DestroyRoutes DEF ObjectStep
<1>2. ASSUME NEW p \in Processes, CreateStep(p) PROVE RoutesInv'
  BY <1>2, FileRoutes, StorageRoutes, MakeRoutes DEF CreateStep
<1>3. ASSUME NEW p \in Processes, OpenStep(p) PROVE RoutesInv'
  BY <1>3, FileRoutes, ReadRoutes, MakeRoutes DEF OpenStep
<1>4. ASSUME NEW p \in Processes, SnapshotStep(p) PROVE RoutesInv'
  BY <1>4, SnapshotMetadataRoutes, SnapshotMsyncRoutes DEF SnapshotStep
<1>5. ASSUME NEW p \in Processes, Crash(p) PROVE RoutesInv'
  BY <1>5, EndRoutes DEF Crash
<1>6. CASE UNCHANGED vars
  BY <1>6 DEF RoutesInv, CallKnows, Owns, vars, disk, objects, routing
<1> QED
  BY <1>1, <1>2, <1>3, <1>4, <1>5, <1>6, AccessRoutes DEF Next, Step

LEMMA RoutesInductive == Spec => []RoutesInv
<1>1. Init => RoutesInv
  BY InitRoutes
<1>2. IInv /\ RoutesInv /\ [Next]_vars => RoutesInv'
  BY RoutesNext
<1> QED
  BY <1>1, <1>2, Inductive, PTL DEF Spec

(* A fault reaches the manager of its region, and no entry leads to one    *)
(* that is not the region's.  In the userfaultfd build that holds at every *)
(* address and through any order of making, reopening and destroying       *)
(* objects; in the SIGACTION build up to the first address of the last     *)
(* block, and not between the destruction of an object and the next        *)
(* create() or open() (privateer.hpp:166, sigsegv_handler_dispatcher.hpp). *)
THEOREM FaultsReachOwnerCorrect == Spec => []FaultsReachOwner
<1>1. ASSUME IInv, RoutesInv PROVE FaultsReachOwner
  <2>1. ASSUME NEW q \in Processes, NEW t \in Slots, NEW m \in Managers,
               Owns(m, q, t), ~(build[q] = "SIGACTION" /\ destroyed[q])
        PROVE  \A offset \in Served(m) : Dispatch(q, t, offset) = m
    <3>1. m \in Live(q) /\ managers[m] \in Manager
      BY <1>1, <2>1 DEF IInv, TypeOK, Owns, Live
    <3>2. /\ region_managers[q][t] = m /\ regions[q][t] \in Nat
          /\ managers[m].capacity \in Nat /\ managers[m].block_size \in Nat
          /\ managers[m].capacity < regions[q][t] + managers[m].block_size
          /\ build[q] = "USERFAULTFD" => regions[q][t] = managers[m].capacity
      BY <1>1, <2>1, <3>1 DEF IInv, TypeOK, RegionsInv, RoutesInv, Covers, Owns, Manager
    <3>3. CASE build[q] = "SIGACTION"
      <4>1. action[q] = "handler"
        BY <1>1, <2>1, <3>1, <3>3 DEF IInv, HandlersInv
      <4>2. \A offset \in Served(m) : offset < regions[q][t]
        BY <2>1, <3>2, <3>3 DEF Served, Owns
      <4> QED
        BY <3>2, <3>3, <4>1, <4>2 DEF Dispatch
    <3>4. CASE build[q] # "SIGACTION"
      <4>1. build[q] = "USERFAULTFD"
        BY <3>4, PrivateerAssumption
      <4>2. IsFiniteSet(Live(q)) /\ num_handlers[q] = Cardinality(Live(q))
            /\ (m_uffd[q] <=> num_handlers[q] # 0)
        BY <1>1, <4>1 DEF IInv, HandlersInv
      <4>3. m_uffd[q]
        BY <3>1, <4>2, FS_EmptySet
      <4>4. \A offset \in Served(m) : offset < regions[q][t]
        BY <2>1, <3>2, <4>1 DEF Served, Owns
      <4> QED
        BY <3>2, <3>4, <4>3, <4>4 DEF Dispatch
    <3> QED
      BY <3>3, <3>4
  <2> QED
    BY <1>1, <2>1 DEF FaultsReachOwner, RoutesInv
<1> QED
  BY <1>1, Inductive, RoutesInductive, PTL

===============================================================================
