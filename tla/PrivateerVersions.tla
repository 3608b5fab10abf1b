--------------------------- MODULE PrivateerVersions ---------------------------
(***************************************************************************)
(* Proofs that a version stays whole and is saved by its holders only, for *)
(* any number of processes, objects, versions and deaths.                  *)
(*                                                                         *)
(* A version stays whole because whoever writes its files again has found  *)
(* no _metadata there: the exclusive steps of create() and of              *)
(* open_immutable() fail if there is one, and snapshot() begins if there   *)
(* is no directory, or one without; a name with a _metadata has a          *)
(* directory (DirectoriesInv).  It is saved by its holders because a       *)
(* manager writes the version it was made with, except within snapshot(),  *)
(* and a read-only one is never dirty (HoldersInv).                        *)
(***************************************************************************)
EXTENDS PrivateerProofs

making == {"make_dir", "create_metadata", "copy_metadata", "snapshot_metadata", "snapshot_msync"}
            \cup writing
blocks_places == {"make_blocks", "truncate_granularity", "write_granularity"}

DirectoriesInv ==
  /\ \A v \in Versions : metadata[v] # NoFile => version_dir[v]
  /\ \A p \in Processes : pc[p] \in making \ {"make_dir"} => version_dir[call[p].version]

Borrowed(m) == \E p \in Processes : pc[p] = "snapshot_msync" /\ vmm[call[p].object] = m

HoldersInv ==
  /\ \A m \in Managers : managers[m] # None =>
       /\ ~Borrowed(m) => managers[m].m_version_metadata_path = managers[m].version
       /\ managers[m].m_read_only => ~managers[m].dirty /\ managers[m].ids = managers[m].read
  /\ \A p \in Processes : pc[p] # "idle" /\ call[p].op = "snapshot" =>
       LET vm == managers[vmm[call[p].object]]
       IN  /\ pc[p] \notin WritePlaces => call[p].source = vm.version
           /\ pc[p] = "snapshot_msync" => vm.m_version_metadata_path = call[p].version

VInv == IInv /\ DirectoriesInv /\ HoldersInv

(* What StaysWhole and SavedOnlyByHolders ask of a step. *)
KeepsWhole ==
  \A v \in Versions : Whole(v) => Whole(v)' \/ \E p \in Processes : Overwrites(p, v)

SavedByHolder(v) ==
  \/ \E p \in Processes, o \in Objects :
       /\ vmm[o] # None /\ (Msync(p, o) \/ Destroy(p, o))
       /\ managers[vmm[o]].version = v
       /\ managers[vmm[o]].m_read_only => metadata'[v] = managers[vmm[o]].read
  \/ \E p \in Processes : SnapshotMsync(p) /\ call[p].version = v

KeepsHeld ==
  \A v \in Versions :
    metadata[v] # metadata'[v] /\ metadata[v] # NoFile /\ metadata'[v] # NoFile => SavedByHolder(v)

OnlyBy(p) == \A q \in Processes : q # p => pc'[q] = pc[q] /\ call'[q] = call[q]

-------------------------------------------------------------------------------
(* The files and the places. *)

LEMMA InitDirectories == Init => DirectoriesInv
BY DEF Init, DirectoriesInv, making, writing

(* A _metadata that is there can be read. *)
LEMMA MetadataThere == IInv => \A v \in Versions : metadata[v] >= 0 <=> metadata[v] # NoFile
<1> SUFFICES ASSUME IInv, NEW v \in Versions PROVE metadata[v] >= 0 <=> metadata[v] # NoFile
  OBVIOUS
<1>1. metadata[v] \in Nat \/ metadata[v] = NoFile
  BY PrivateerAssumption DEF IInv, TypeOK
<1> QED
  BY <1>1 DEF NoFile

LEMMA MetadataTherePrimed ==
  ASSUME IInv' PROVE \A v \in Versions : metadata'[v] >= 0 <=> metadata'[v] # NoFile
<1> SUFFICES ASSUME NEW v \in Versions PROVE metadata'[v] >= 0 <=> metadata'[v] # NoFile
  OBVIOUS
<1>1. metadata'[v] \in Nat \/ metadata'[v] = NoFile
  BY PrivateerAssumption DEF IInv, TypeOK
<1> QED
  BY <1>1 DEF NoFile

(* A process that does no more than save takes no version apart. *)
LEMMA QuietStep ==
  ASSUME IInv, IInv', DirectoriesInv, NEW p \in Processes, OnlyBy(p),
         pc'[p] \notin making \cup blocks_places,
         UNCHANGED <<granularity, version_dir, blocks_path, capacity>>,
         \A v \in Versions : metadata'[v] = NoFile <=> metadata[v] = NoFile
  PROVE  DirectoriesInv' /\ KeepsWhole
<1>1. DirectoriesInv'
  BY DEF DirectoriesInv, OnlyBy
<1>2. ASSUME NEW v \in Versions, Whole(v) PROVE Whole(v)'
  <2>2. ~WillWrite(p, v)'
    BY DEF WillWrite, IInv, CallState, SnapshotPlaces, WritePlaces, making, writing
  <2>3. \A r \in Processes : r # p => ~WillWrite(r, v)'
    BY <1>2 DEF Whole, WillWrite, OnlyBy
  <2>1. metadata'[v] >= 0
    <3>1. metadata[v] # NoFile /\ metadata'[v] # NoFile
      BY <1>2, MetadataThere DEF Whole
    <3> QED
      BY <3>1, MetadataTherePrimed
  <2> QED
    BY <1>2, <2>1, <2>2, <2>3 DEF Whole, OnlyBy, blocks_places
<1> QED
  BY <1>1, <1>2 DEF KeepsWhole

(* Nor does one that is writing another version. *)
LEMMA WritingStep ==
  ASSUME IInv, IInv', DirectoriesInv, NEW p \in Processes, OnlyBy(p),
         pc[p] \in making \ {"make_dir"}, pc'[p] # "idle" => call'[p] = call[p],
         WillWrite(p, call[p].version) \/ metadata[call[p].version] = NoFile,
         pc'[p] \notin {"make_dir"} \cup blocks_places,
         UNCHANGED <<granularity, version_dir>>,
         \A v \in Versions : v # call[p].version =>
           /\ metadata'[v] = NoFile <=> metadata[v] = NoFile
           /\ blocks_path'[v] = blocks_path[v] /\ capacity'[v] = capacity[v]
  PROVE  DirectoriesInv' /\ KeepsWhole
<1>1. DirectoriesInv'
  BY DEF DirectoriesInv, OnlyBy, making, writing
<1>2. ASSUME NEW v \in Versions, Whole(v) PROVE Whole(v)'
  <2>1. v # call[p].version
    BY <1>2 DEF Whole, NoFile
  <2>2. metadata'[v] >= 0
    <3>1. metadata[v] # NoFile /\ metadata'[v] # NoFile
      BY <1>2, <2>1, MetadataThere DEF Whole
    <3> QED
      BY <3>1, MetadataTherePrimed
  <2> QED
    BY <1>2, <2>1, <2>2 DEF Whole, WillWrite, OnlyBy, making, writing, blocks_places
<1> QED
  BY <1>1, <1>2 DEF KeepsWhole

(* Nor one that writes _granularity. *)
LEMMA StorageStep ==
  ASSUME IInv, DirectoriesInv, NEW p \in Processes,
         FindBlocks(p) \/ MakeBlocks(p) \/ TruncateGranularity(p) \/ WriteGranularity(p)
  PROVE  DirectoriesInv' /\ KeepsWhole
<1>1. /\ UNCHANGED <<version_dir, metadata, blocks_path, capacity, call>> /\ OnlyBy(p)
      /\ pc'[p] \in blocks_places \cup {"map"} /\ pc[p] \in blocks_places \cup {"find_blocks"}
  BY DEF FindBlocks, MakeBlocks, TruncateGranularity, WriteGranularity, Goto, disk, OnlyBy,
         IInv, TypeOK, blocks_places
<1>2. DirectoriesInv'
  BY <1>1 DEF DirectoriesInv, OnlyBy, making, writing, blocks_places
<1>3. ASSUME NEW v \in Versions, Whole(v) PROVE Whole(v)'
  <2>1. pc[p] \notin blocks_places
    BY <1>3 DEF Whole, blocks_places
  <2>2. FindBlocks(p)
    BY <2>1 DEF MakeBlocks, TruncateGranularity, WriteGranularity, blocks_places
  <2>3. ~BlocksMissing
    BY <1>3 DEF Whole, BlocksMissing, NoDir
  <2>4. pc' = [pc EXCEPT ![p] = "map"] /\ granularity' = granularity
    BY <2>2, <2>3 DEF FindBlocks, Goto, disk
  <2> QED
    BY <1>1, <1>3, <2>4 DEF Whole, WillWrite, OnlyBy, writing, blocks_places, IInv, TypeOK
<1> QED
  BY <1>2, <1>3 DEF KeepsWhole

LEMMA MakeDirStep ==
  ASSUME IInv, DirectoriesInv, NEW p \in Processes, MakeDir(p)
  PROVE  DirectoriesInv' /\ KeepsWhole
<1> DEFINE place == CASE call[p].op = "create" -> "create_metadata"
                      [] call[p].op = "open_immutable" -> "copy_metadata"
                      [] OTHER -> "snapshot_metadata"
<1>1. /\ place \in {"create_metadata", "copy_metadata", "snapshot_metadata"}
      /\ pc[p] = "make_dir" /\ call[p].version \in Versions
  BY CallOf DEF MakeDir
<1>2. /\ pc' = [pc EXCEPT ![p] = place]
      /\ version_dir' = [version_dir EXCEPT ![call[p].version] = TRUE]
      /\ UNCHANGED <<call, granularity, metadata, blocks_path, capacity>>
  BY DEF MakeDir, Goto
<1> HIDE DEF place
<1>3. DirectoriesInv'
  BY <1>1, <1>2 DEF DirectoriesInv, IInv, TypeOK
<1>4. ASSUME NEW v \in Versions, Whole(v) PROVE Whole(v)'
  BY <1>1, <1>2, <1>4 DEF Whole, WillWrite, IInv, TypeOK, writing
<1> QED
  BY <1>3, <1>4 DEF KeepsWhole

(* A call that begins to make a version finds that it is not whole. *)
LEMMA BeginStep ==
  ASSUME IInv, DirectoriesInv, NEW p \in Processes, NEW v \in Versions, NEW place, NEW c,
         place \in {"make_dir", "create_metadata", "snapshot_metadata"}, c.version = v,
         pc[p] = "idle", Begin(p, place, c), UNCHANGED <<granularity, version_dir, blocks_path, capacity>>,
         place = "make_dir" => ~version_dir[v] /\ metadata' = metadata,
         place = "create_metadata" =>
           version_dir[v] /\ metadata' = [metadata EXCEPT ![v] = NoFile],
         place = "snapshot_metadata" =>
           version_dir[v] /\ metadata[v] = NoFile /\ metadata' = metadata
  PROVE  DirectoriesInv' /\ KeepsWhole
<1>1. /\ pc' = [pc EXCEPT ![p] = place] /\ call' = [call EXCEPT ![p] = c]
  BY DEF Begin
<1>2. DirectoriesInv'
  BY <1>1 DEF DirectoriesInv, IInv, TypeOK
<1>3. ASSUME NEW w \in Versions, Whole(w), ~(place = "create_metadata" /\ w = v) PROVE Whole(w)'
  <2>1. metadata'[w] = metadata[w]
    BY <1>3 DEF IInv, TypeOK
  <2>2. w # v
    BY <1>3 DEF Whole, DirectoriesInv, NoFile
  <2> QED
    BY <1>1, <1>3, <2>1, <2>2 DEF Whole, WillWrite, writing, IInv, TypeOK
<1>4. place = "create_metadata" => Overwrites(p, v)
  BY <1>1 DEF Overwrites, IInv, TypeOK
<1> QED
  BY <1>2, <1>3, <1>4 DEF KeepsWhole

-------------------------------------------------------------------------------
(* The managers. *)

LEMMA InitHolders == Init => HoldersInv
BY DEF Init, HoldersInv

(* Two processes do not share an object, nor a manager. *)
LEMMA NotShared ==
  ASSUME IInv, NEW p \in Processes, NEW q \in Processes, p # q, pc[q] # "idle",
         NEW o \in Objects, process[o] = p
  PROVE  /\ call[q].object \in Objects /\ call[q].object # o
         /\ vmm[o] # None => vmm[call[q].object] # vmm[o]
BY DEF IInv, CallState, ObjectsInv, Call

(* A call of a process that has not borrowed a path goes on. *)
LEMMA SameManagers ==
  ASSUME IInv, HoldersInv, NEW p \in Processes, OnlyBy(p), UNCHANGED <<vmm, managers>>,
         pc[p] # "snapshot_msync", pc'[p] # "snapshot_msync",
         pc'[p] # "idle" /\ call'[p].op = "snapshot" /\ pc'[p] \notin WritePlaces =>
           call'[p].source = managers[vmm[call'[p].object]].version
  PROVE  HoldersInv'
<1>1. \A m \in Managers : Borrowed(m)' <=> Borrowed(m)
  BY DEF Borrowed, OnlyBy
<1> QED
  BY <1>1 DEF HoldersInv, OnlyBy

(* A _metadata that is made or removed has not changed hands. *)
LEMMA MadeOrRemoved ==
  ASSUME \A v \in Versions : metadata'[v] = metadata[v] \/ metadata[v] = NoFile \/ metadata'[v] = NoFile
  PROVE  KeepsHeld
BY DEF KeepsHeld

(* The end of a process. *)
LEMMA EndStep ==
  ASSUME IInv, IInv', DirectoriesInv, HoldersInv, NEW p \in Processes, EndProcess(p), UNCHANGED disk
  PROVE  DirectoriesInv' /\ KeepsWhole /\ HoldersInv' /\ KeepsHeld
<1>1. OnlyBy(p) /\ pc'[p] = "idle"
  BY DEF EndProcess, OnlyBy, IInv, TypeOK
<1>2. DirectoriesInv' /\ KeepsWhole
  BY <1>1, QuietStep DEF disk, making, writing, blocks_places
<1>3. KeepsHeld
  BY MadeOrRemoved DEF disk
<1>4. \A m \in Managers : managers'[m] # None =>
        managers[m] # None /\ managers'[m] = managers[m] /\ managers[m].process # p
  BY DEF EndProcess, IInv, TypeOK
<1>5. \A q \in Processes : q # p /\ pc[q] # "idle" =>
        call[q].object \in Objects /\ vmm'[call[q].object] = vmm[call[q].object]
  BY DEF EndProcess, IInv, TypeOK, CallState, Call
<1>6. ASSUME NEW m \in Managers, managers'[m] # None, Borrowed(m) PROVE Borrowed(m)'
  <2>1. PICK q \in Processes : pc[q] = "snapshot_msync" /\ vmm[call[q].object] = m
    BY <1>6 DEF Borrowed
  <2>2. q # p
    <3>1. /\ call[q].object \in Objects /\ process[call[q].object] = q
          /\ managers[m].process = process[call[q].object]
      BY <1>4, <1>6, <2>1, PrivateerAssumption DEF IInv, CallState, ObjectsInv, Call
    <3> QED
      BY <1>4, <1>6, <3>1
  <2> QED
    BY <1>1, <1>5, <2>1, <2>2 DEF Borrowed, OnlyBy
<1>7. ASSUME NEW q \in Processes, pc'[q] # "idle", call'[q].op = "snapshot"
      PROVE  LET vm == managers'[vmm'[call'[q].object]]
             IN  /\ pc'[q] \notin WritePlaces => call'[q].source = vm.version
                 /\ pc'[q] = "snapshot_msync" => vm.m_version_metadata_path = call'[q].version
  <2>1. q # p /\ pc'[q] = pc[q] /\ call'[q] = call[q]
    BY <1>1, <1>7 DEF OnlyBy
  <2>2. vmm'[call[q].object] = vmm[call[q].object] /\ call[q].object \in Objects
    BY <1>5, <1>7, <2>1
  <2>3. vmm[call[q].object] # None /\ process[call[q].object] = q
    BY <1>7, <2>1 DEF IInv, CallState
  <2>4. /\ vmm[call[q].object] \in Managers /\ managers[vmm[call[q].object]] # None
        /\ managers[vmm[call[q].object]].process = q
    BY <2>2, <2>3 DEF IInv, TypeOK, ObjectsInv
  <2>5. managers'[vmm[call[q].object]] = managers[vmm[call[q].object]]
    BY <2>1, <2>4 DEF EndProcess, IInv, TypeOK
  <2> QED
    BY <1>7, <2>1, <2>2, <2>5 DEF HoldersInv
<1>8. HoldersInv'
  BY <1>4, <1>6, <1>7 DEF HoldersInv
<1> QED
  BY <1>2, <1>3, <1>8

-------------------------------------------------------------------------------
(* The steps, by the object or the call they belong to. *)

LEMMA ExitStep ==
  ASSUME IInv, IInv', DirectoriesInv, HoldersInv, NEW p \in Processes, Exit(p), UNCHANGED disk
  PROVE  DirectoriesInv' /\ KeepsWhole /\ HoldersInv' /\ KeepsHeld
BY EndStep DEF Exit

LEMMA BuildStep ==
  ASSUME IInv, IInv', DirectoriesInv, HoldersInv,
         UNCHANGED <<granularity, version_dir, metadata, blocks_path, capacity,
                     pc, call, vmm, managers>>
  PROVE  DirectoriesInv' /\ KeepsWhole /\ HoldersInv' /\ KeepsHeld
<1>1. DirectoriesInv' /\ KeepsWhole
  BY DEF DirectoriesInv, KeepsWhole, Whole, WillWrite
<1>2. HoldersInv' /\ KeepsHeld
  BY DEF HoldersInv, Borrowed, KeepsHeld
<1> QED
  BY <1>1, <1>2

LEMMA ConstructStep ==
  ASSUME IInv, IInv', DirectoriesInv, HoldersInv, NEW p \in Processes, NEW o \in Objects,
         \/ \E env \in Environments : Construct(p, o, env)
         \/ ConstructWithStash(p, o) \/ ConstructOpen(p, o)
  PROVE  DirectoriesInv' /\ KeepsWhole /\ HoldersInv' /\ KeepsHeld
<1>1. CASE Exit(p) /\ UNCHANGED disk
  BY <1>1, ExitStep
<1>2. CASE ~(Exit(p) /\ UNCHANGED disk)
  <2>1. UNCHANGED <<granularity, version_dir, metadata, blocks_path, capacity,
                    pc, call, vmm, managers>>
    BY <1>2 DEF Construct, ConstructWithStash, ConstructOpen, disk
  <2> QED
    BY <2>1, BuildStep
<1> QED
  BY <1>1, <1>2

LEMMA CreateStepKeeps ==
  ASSUME IInv, IInv', DirectoriesInv, HoldersInv, NEW p \in Processes, NEW o \in Objects,
         NEW v \in Versions, NEW size \in Sizes, NEW allow_overwrite \in BOOLEAN,
         Create(p, o, v, size, allow_overwrite)
  PROVE  DirectoriesInv' /\ KeepsWhole /\ HoldersInv' /\ KeepsHeld
<1> DEFINE n == NewCall("create", o, v)
           c == [n EXCEPT !.size = size, !.block_size = m_block_size[o],
                          !.capacity = Rounded(size, m_block_size[o])]
           place == IF version_dir[v] THEN "create_metadata" ELSE "make_dir"
<1>1. CASE Exit(p) /\ UNCHANGED disk
  BY <1>1, ExitStep
<1>2. CASE ~(Exit(p) /\ UNCHANGED disk)
  <2>1. /\ Begin(p, place, c) /\ pc[p] = "idle"
        /\ metadata' = IF version_dir[v] THEN [metadata EXCEPT ![v] = NoFile] ELSE metadata
        /\ UNCHANGED <<granularity, version_dir, blocks_path, capacity>>
    BY <1>2 DEF Create, MayCall
  <2>2. c.version = v /\ c.op = "create"
    <3>1. n \in Call /\ n.op = "create" /\ n.version = v
      BY NewCallType
    <3> HIDE DEF n
    <3> QED
      BY <3>1 DEF Call
  <2> HIDE DEF c
  <2>3. DirectoriesInv' /\ KeepsWhole
    BY <2>1, <2>2, BeginStep
  <2>4. /\ OnlyBy(p) /\ pc'[p] # "snapshot_msync" /\ call'[p].op # "snapshot"
        /\ UNCHANGED <<vmm, managers>>
    BY <2>1, <2>2 DEF Begin, OnlyBy, IInv, TypeOK, objects
  <2>5. HoldersInv'
    BY <2>1, <2>4, SameManagers
  <2>6. KeepsHeld
    BY <2>1, MadeOrRemoved DEF IInv, TypeOK
  <2> QED
    BY <2>3, <2>5, <2>6
<1> QED
  BY <1>1, <1>2

LEMMA OpenStepKeeps ==
  ASSUME IInv, IInv', DirectoriesInv, HoldersInv, NEW p \in Processes, NEW o \in Objects,
         NEW v \in Versions, NEW read_only \in BOOLEAN, Open(p, o, v, read_only)
  PROVE  DirectoriesInv' /\ KeepsWhole /\ HoldersInv' /\ KeepsHeld
<1> DEFINE n == NewCall("open", o, v)
           c == [n EXCEPT !.read_only = read_only]
<1>1. c.op = "open"
  <2>1. n \in Call /\ n.op = "open"
    BY NewCallType
  <2> HIDE DEF n
  <2> QED
    BY <2>1 DEF Call
<1>2. Begin(p, "open_blocks_path", c) /\ pc[p] = "idle" /\ UNCHANGED disk
  BY DEF Open, MayCall
<1> HIDE DEF c
<1>3. /\ OnlyBy(p) /\ pc'[p] = "open_blocks_path" /\ call'[p].op # "snapshot"
      /\ UNCHANGED <<vmm, managers>>
  BY <1>1, <1>2 DEF Begin, OnlyBy, IInv, TypeOK, objects
<1>4. DirectoriesInv' /\ KeepsWhole
  BY <1>2, <1>3, QuietStep DEF disk, making, writing, blocks_places
<1>5. HoldersInv' /\ KeepsHeld
  BY <1>2, <1>3, SameManagers, MadeOrRemoved DEF disk
<1> QED
  BY <1>4, <1>5

LEMMA OpenImmutableStep ==
  ASSUME IInv, IInv', DirectoriesInv, HoldersInv, NEW p \in Processes, NEW o \in Objects,
         NEW v \in Versions, NEW new \in Versions, OpenImmutable(p, o, v, new)
  PROVE  DirectoriesInv' /\ KeepsWhole /\ HoldersInv' /\ KeepsHeld
<1> DEFINE n == NewCall("open_immutable", o, new)
           c == [n EXCEPT !.source = v]
<1>1. CASE version_dir[new]
  BY <1>1, ExitStep DEF OpenImmutable
<1>2. CASE ~version_dir[new]
  <2>1. c.op = "open_immutable" /\ c.version = new
    <3>1. n \in Call /\ n.op = "open_immutable" /\ n.version = new
      BY NewCallType
    <3> HIDE DEF n
    <3> QED
      BY <3>1 DEF Call
  <2>2. Begin(p, "make_dir", c) /\ pc[p] = "idle" /\ UNCHANGED disk
    BY <1>2 DEF OpenImmutable, MayCall
  <2> HIDE DEF c
  <2>3. DirectoriesInv' /\ KeepsWhole
    BY <1>2, <2>1, <2>2, BeginStep DEF disk
  <2>4. /\ OnlyBy(p) /\ pc'[p] = "make_dir" /\ call'[p].op # "snapshot"
        /\ UNCHANGED <<vmm, managers>>
    BY <2>1, <2>2 DEF Begin, OnlyBy, IInv, TypeOK, objects
  <2>5. HoldersInv' /\ KeepsHeld
    BY <2>2, <2>4, SameManagers, MadeOrRemoved DEF disk
  <2> QED
    BY <2>3, <2>5
<1> QED
  BY <1>1, <1>2

(* Nobody has borrowed the path of a manager whose process is idle. *)
LEMMA NotBorrowed ==
  ASSUME IInv, NEW p \in Processes, pc[p] = "idle", NEW o \in Objects, process[o] = p,
         vmm[o] # None
  PROVE  ~Borrowed(vmm[o])
BY NotShared DEF Borrowed

LEMMA SnapshotStepKeeps ==
  ASSUME IInv, IInv', DirectoriesInv, HoldersInv, NEW p \in Processes, NEW o \in Objects,
         NEW v \in Versions, Snapshot(p, o, v)
  PROVE  DirectoriesInv' /\ KeepsWhole /\ HoldersInv' /\ KeepsHeld
<1> DEFINE n == NewCall("snapshot", o, v)
           vm == managers[vmm[o]]
           c == [n EXCEPT !.source = vm.m_version_metadata_path, !.capacity = vm.capacity]
           place == IF version_dir[v] THEN "snapshot_metadata" ELSE "make_dir"
<1>1. /\ c.op = "snapshot" /\ c.version = v /\ c.object = o
      /\ c.source = vm.m_version_metadata_path
  <2>1. n \in Call /\ n.op = "snapshot" /\ n.version = v /\ n.object = o
    BY NewCallType
  <2> HIDE DEF n, vm
  <2> QED
    BY <2>1 DEF Call
<1>2. /\ Begin(p, place, c) /\ pc[p] = "idle" /\ UNCHANGED disk
      /\ version_dir[v] => metadata[v] = NoFile
      /\ process[o] = p /\ vmm[o] # None
  BY DEF Snapshot, MayCall, Built
<1>3. c.source = vm.version
  BY <1>1, <1>2, NotBorrowed DEF HoldersInv, IInv, TypeOK, ObjectsInv
<1> HIDE DEF c
<1>4. DirectoriesInv' /\ KeepsWhole
  BY <1>1, <1>2, BeginStep DEF disk
<1>5. /\ OnlyBy(p) /\ pc'[p] # "snapshot_msync" /\ call'[p] = c
      /\ UNCHANGED <<vmm, managers>>
  BY <1>2 DEF Begin, OnlyBy, IInv, TypeOK, objects
<1>6. HoldersInv' /\ KeepsHeld
  BY <1>1, <1>2, <1>3, <1>5, SameManagers, MadeOrRemoved DEF disk
<1> QED
  BY <1>4, <1>6

(* A call that makes a version goes on, or has made it. *)
LEMMA CallGoesOn ==
  ASSUME IInv, IInv', HoldersInv, NEW p \in Processes,
         pc[p] \in making \cup blocks_places \cup {"find_blocks"}, pc[p] # "snapshot_msync",
         OnlyBy(p), UNCHANGED <<vmm, managers>>,
         pc'[p] = "idle" \/ call'[p] = call[p], pc'[p] # "snapshot_msync",
         pc[p] \in WritePlaces => pc'[p] \in WritePlaces \cup {"idle", "find_blocks"},
         call[p].op = "snapshot" => pc'[p] # "find_blocks"
  PROVE  HoldersInv'
<1>1. ASSUME pc'[p] # "idle", call'[p].op = "snapshot", pc'[p] \notin WritePlaces
      PROVE  call'[p].source = managers[vmm[call'[p].object]].version
  BY <1>1 DEF HoldersInv, making, writing, blocks_places
<1> QED
  BY <1>1, SameManagers

LEMMA MakeDirKeeps ==
  ASSUME IInv, IInv', DirectoriesInv, HoldersInv, NEW p \in Processes, MakeDir(p)
  PROVE  DirectoriesInv' /\ KeepsWhole /\ HoldersInv' /\ KeepsHeld
<1>1. /\ OnlyBy(p) /\ call' = call /\ pc[p] = "make_dir" /\ metadata' = metadata
      /\ pc'[p] \in {"create_metadata", "copy_metadata", "snapshot_metadata"}
      /\ UNCHANGED <<vmm, managers>>
  <2> DEFINE place == CASE call[p].op = "create" -> "create_metadata"
                      [] call[p].op = "open_immutable" -> "copy_metadata"
                      [] OTHER -> "snapshot_metadata"
  <2>1. place \in {"create_metadata", "copy_metadata", "snapshot_metadata"}
    OBVIOUS
  <2>2. pc' = [pc EXCEPT ![p] = place] /\ UNCHANGED <<call, objects, metadata>>
        /\ pc[p] = "make_dir"
    BY DEF MakeDir, Goto
  <2> QED
    BY <2>1, <2>2 DEF OnlyBy, objects, IInv, TypeOK
<1>2. DirectoriesInv' /\ KeepsWhole
  BY MakeDirStep
<1>3. HoldersInv' /\ KeepsHeld
  BY <1>1, CallGoesOn, MadeOrRemoved DEF making, writing, WritePlaces
<1> QED
  BY <1>2, <1>3

(* The files of a version that is made, but for the msync() of snapshot(). *)
LEMMA VersionFileStep ==
  ASSUME IInv, IInv', DirectoriesInv, HoldersInv, NEW p \in Processes,
         \/ CreateMetadata(p) \/ TruncateBlocksPath(p) \/ WriteBlocksPath(p) \/ WriteCapacity(p)
         \/ CopyMetadata(p) \/ CopyCapacity(p) \/ CopyBlocksPath(p)
  PROVE  DirectoriesInv' /\ KeepsWhole /\ HoldersInv' /\ KeepsHeld
<1> DEFINE v == call[p].version
           places == {"create_metadata", "copy_metadata", "copy_capacity", "copy_blocks_path"}
                       \cup WritePlaces
<1>1. CASE Exit(p) /\ UNCHANGED disk
  BY <1>1, ExitStep
<1>2. CASE ~(Exit(p) /\ UNCHANGED disk)
  <2>1. pc[p] \in places
    BY DEF CreateMetadata, TruncateBlocksPath, WriteBlocksPath, WriteCapacity,
           CopyMetadata, CopyCapacity, CopyBlocksPath, CopyFile, WritePlaces
  <2>2. v \in Versions
    BY <2>1, CallOf DEF WritePlaces
  <2>3. ASSUME NEW next \in {"truncate_blocks_path", "write_blocks_path", "write_capacity",
                             "find_blocks", "copy_capacity", "copy_blocks_path",
                             "open_blocks_path", "idle"},
               pc' = [pc EXCEPT ![p] = next],
               call' = call \/ (next = "idle" /\ call' = [call EXCEPT ![p] = None]),
               UNCHANGED <<vmm, managers, granularity, version_dir>>,
               pc[p] \in WritePlaces => next \in WritePlaces \cup {"idle", "find_blocks"},
               next = "find_blocks" => call[p].op = "create",
               \A w \in Versions : w # v =>
                 /\ metadata'[w] = metadata[w]
                 /\ blocks_path'[w] = blocks_path[w] /\ capacity'[w] = capacity[w],
               metadata'[v] = metadata[v] \/ metadata[v] = NoFile,
               pc[p] \in {"create_metadata", "copy_metadata"} => metadata[v] = NoFile
        PROVE  DirectoriesInv' /\ KeepsWhole /\ HoldersInv' /\ KeepsHeld
    <3>1. /\ OnlyBy(p) /\ pc'[p] = next
          /\ pc'[p] = "idle" \/ call'[p] = call[p]
      BY <2>3 DEF OnlyBy, IInv, TypeOK
    <3>2. /\ pc[p] \in making \ {"make_dir"} /\ pc[p] # "snapshot_msync"
          /\ pc'[p] \notin {"make_dir", "snapshot_msync"} \cup blocks_places
          /\ pc[p] \in WritePlaces => pc'[p] \in WritePlaces \cup {"idle", "find_blocks"}
          /\ call[p].op = "snapshot" => pc'[p] # "find_blocks"
      BY <2>1, <2>3, <3>1 DEF making, writing, blocks_places, WritePlaces
    <3>3. \A w \in Versions : w # call[p].version =>
            /\ metadata'[w] = NoFile <=> metadata[w] = NoFile
            /\ blocks_path'[w] = blocks_path[w] /\ capacity'[w] = capacity[w]
      BY <2>3
    <3>4. KeepsHeld
      BY <2>3, MadeOrRemoved
    <3>5. WillWrite(p, v) \/ metadata[v] = NoFile
      BY <2>1, <2>3 DEF WillWrite, WritePlaces, writing
    <3> HIDE DEF places
    <3>6. DirectoriesInv' /\ KeepsWhole
      BY <2>3, <3>1, <3>2, <3>3, <3>5, WritingStep
    <3>7. HoldersInv'
      BY <2>3, <3>1, <3>2, CallGoesOn
    <3> QED
      BY <3>4, <3>6, <3>7
  <2>4. CASE CreateMetadata(p)
    <3>1. /\ metadata[v] = NoFile /\ metadata' = [metadata EXCEPT ![v] = 0]
          /\ Goto(p, "truncate_blocks_path") /\ pc[p] = "create_metadata"
          /\ UNCHANGED <<granularity, version_dir, blocks_path, capacity>>
      BY <1>2, <2>4 DEF CreateMetadata, Refuses
    <3> QED
      BY <2>2, <2>3, <3>1 DEF Goto, objects, WritePlaces, IInv, TypeOK
  <2>5. CASE TruncateBlocksPath(p)
    BY <2>2, <2>3, <2>5 DEF TruncateBlocksPath, Goto, objects, WritePlaces, IInv, TypeOK
  <2>6. CASE WriteBlocksPath(p)
    BY <2>2, <2>3, <2>6 DEF WriteBlocksPath, Goto, objects, WritePlaces, IInv, TypeOK
  <2>7. CASE WriteCapacity(p)
    <3>1. /\ capacity' = [capacity EXCEPT ![v] = call[p].capacity]
          /\ UNCHANGED <<granularity, version_dir, metadata, blocks_path>>
      BY <2>7 DEF WriteCapacity
    <3>2. CASE call[p].op = "create"
      BY <2>2, <2>3, <2>7, <3>1, <3>2 DEF WriteCapacity, Goto, objects, WritePlaces, IInv, TypeOK
    <3>3. CASE call[p].op # "create"
      BY <2>2, <2>3, <2>7, <3>1, <3>3 DEF WriteCapacity, Return, objects, WritePlaces, IInv, TypeOK
    <3> QED
      BY <3>2, <3>3
  <2>8. CASE CopyMetadata(p)
    <3>1. /\ metadata[v] = NoFile /\ metadata' = [metadata EXCEPT ![v] = metadata[call[p].source]]
          /\ Goto(p, "copy_capacity") /\ pc[p] = "copy_metadata"
          /\ UNCHANGED <<granularity, version_dir, blocks_path, capacity>>
      BY <1>2, <2>8 DEF CopyMetadata, CopyFile, disk
    <3> QED
      BY <2>2, <2>3, <3>1 DEF Goto, objects, WritePlaces, IInv, TypeOK
  <2>9. CASE CopyCapacity(p)
    <3>1. /\ capacity' = [capacity EXCEPT ![v] = capacity[call[p].source]]
          /\ Goto(p, "copy_blocks_path") /\ pc[p] = "copy_capacity"
          /\ UNCHANGED <<granularity, version_dir, metadata, blocks_path>>
      BY <1>2, <2>9 DEF CopyCapacity, CopyFile, disk
    <3> QED
      BY <2>2, <2>3, <3>1 DEF Goto, objects, WritePlaces, IInv, TypeOK
  <2>10. CASE CopyBlocksPath(p)
    <3>1. /\ blocks_path' = [blocks_path EXCEPT ![v] = blocks_path[call[p].source]]
          /\ Goto(p, "open_blocks_path") /\ pc[p] = "copy_blocks_path"
          /\ UNCHANGED <<granularity, version_dir, metadata, capacity>>
      BY <1>2, <2>10 DEF CopyBlocksPath, CopyFile, disk
    <3> QED
      BY <2>2, <2>3, <3>1 DEF Goto, objects, WritePlaces, IInv, TypeOK
  <2> QED
    BY <2>4, <2>5, <2>6, <2>7, <2>8, <2>9, <2>10
<1> QED
  BY <1>1, <1>2

LEMMA StorageKeeps ==
  ASSUME IInv, IInv', DirectoriesInv, HoldersInv, NEW p \in Processes,
         FindBlocks(p) \/ MakeBlocks(p) \/ TruncateGranularity(p) \/ WriteGranularity(p)
  PROVE  DirectoriesInv' /\ KeepsWhole /\ HoldersInv' /\ KeepsHeld
<1>1. /\ UNCHANGED <<metadata, call, vmm, managers>> /\ OnlyBy(p)
      /\ pc'[p] \in blocks_places \cup {"map"} /\ pc[p] \in blocks_places \cup {"find_blocks"}
  BY DEF FindBlocks, MakeBlocks, TruncateGranularity, WriteGranularity, Goto, disk, OnlyBy,
         objects, IInv, TypeOK, blocks_places
<1>2. HoldersInv' /\ KeepsHeld
  BY <1>1, CallGoesOn, MadeOrRemoved DEF blocks_places, WritePlaces
<1> QED
  BY <1>2, StorageStep

LEMMA OpenFilesKeep ==
  ASSUME IInv, IInv', DirectoriesInv, HoldersInv, NEW p \in Processes,
         OpenBlocksPath(p) \/ OpenGranularity(p) \/ OpenMetadata(p)
  PROVE  DirectoriesInv' /\ KeepsWhole /\ HoldersInv' /\ KeepsHeld
<1>1. CASE Exit(p) /\ UNCHANGED disk
  BY <1>1, ExitStep
<1>2. CASE ~(Exit(p) /\ UNCHANGED disk)
  <2>1. /\ OnlyBy(p) /\ pc[p] \in OpenPlaces /\ pc'[p] \in OpenPlaces
        /\ UNCHANGED <<disk, vmm, managers>>
    BY <1>2 DEF OpenBlocksPath, OpenGranularity, OpenMetadata, ReadFile, Begin, OnlyBy, OpenPlaces,
                objects, IInv, TypeOK
  <2>2. call'[p].op # "snapshot"
    BY <2>1 DEF IInv, CallState, OpenPlaces, SnapshotPlaces, WritePlaces
  <2>3. DirectoriesInv' /\ KeepsWhole
    BY <2>1, QuietStep DEF disk, making, writing, blocks_places, OpenPlaces
  <2>4. HoldersInv' /\ KeepsHeld
    BY <2>1, <2>2, SameManagers, MadeOrRemoved DEF disk, OpenPlaces
  <2> QED
    BY <2>3, <2>4
<1> QED
  BY <1>1, <1>2
-------------------------------------------------------------------------------
(* One manager of a process changes, comes or goes. *)
LEMMA HoldersStep ==
  ASSUME IInv, HoldersInv, NEW p \in Processes, OnlyBy(p), NEW m \in Managers,
         managers[m] = None \/ managers[m].process = p,
         \A n \in Managers : n # m => managers'[n] = managers[n],
         \A o \in Objects : process[o] # p => vmm'[o] = vmm[o],
         pc[p] = "snapshot_msync" => vmm[call[p].object] = m,
         managers'[m] # None =>
           /\ ~Borrowed(m)' => managers'[m].m_version_metadata_path = managers'[m].version
           /\ managers'[m].m_read_only => ~managers'[m].dirty /\ managers'[m].ids = managers'[m].read,
         pc'[p] # "idle" /\ call'[p].op = "snapshot" =>
           LET vm == managers'[vmm'[call'[p].object]]
           IN  /\ pc'[p] \notin WritePlaces => call'[p].source = vm.version
               /\ pc'[p] = "snapshot_msync" => vm.m_version_metadata_path = call'[p].version
  PROVE  HoldersInv'
<1>1. \A q \in Processes : q # p /\ pc[q] # "idle" =>
        /\ call[q].object \in Objects /\ process[call[q].object] = q
        /\ vmm'[call[q].object] = vmm[call[q].object]
  BY DEF IInv, CallState, Call
<1>2. ASSUME NEW q \in Processes, q # p, pc[q] # "idle", call[q].op = "snapshot"
      PROVE  /\ vmm'[call[q].object] = vmm[call[q].object]
             /\ managers'[vmm[call[q].object]] = managers[vmm[call[q].object]]
  <2>1. vmm[call[q].object] # None
    BY <1>2 DEF IInv, CallState
  <2>2. call[q].object \in Objects /\ process[call[q].object] = q
    BY <1>1, <1>2
  <2>3. vmm[call[q].object] \in Managers
    BY <2>1, <2>2 DEF IInv, TypeOK
  <2>4. /\ managers[vmm[call[q].object]] # None
        /\ managers[vmm[call[q].object]].process = q
    BY <2>1, <2>2 DEF IInv, ObjectsInv
  <2> QED
    BY <1>1, <1>2, <2>3, <2>4
<1>3. ASSUME NEW n \in Managers, n # m, Borrowed(n) PROVE Borrowed(n)'
  <2>1. PICK q \in Processes : pc[q] = "snapshot_msync" /\ vmm[call[q].object] = n
    BY <1>3 DEF Borrowed
  <2>2. q # p
    BY <1>3, <2>1
  <2> QED
    BY <1>1, <2>1, <2>2 DEF Borrowed, OnlyBy
<1>4. ASSUME NEW n \in Managers, managers'[n] # None
      PROVE  /\ ~Borrowed(n)' => managers'[n].m_version_metadata_path = managers'[n].version
             /\ managers'[n].m_read_only =>
                  ~managers'[n].dirty /\ managers'[n].ids = managers'[n].read
  <2>1. CASE n = m
    BY <1>4, <2>1
  <2>2. CASE n # m
    BY <1>3, <1>4, <2>2 DEF HoldersInv
  <2> QED
    BY <2>1, <2>2
<1>5. ASSUME NEW q \in Processes, pc'[q] # "idle", call'[q].op = "snapshot"
      PROVE  LET vm == managers'[vmm'[call'[q].object]]
             IN  /\ pc'[q] \notin WritePlaces => call'[q].source = vm.version
                 /\ pc'[q] = "snapshot_msync" => vm.m_version_metadata_path = call'[q].version
  <2>1. CASE q = p
    BY <1>5, <2>1
  <2>2. CASE q # p
    <3>1. pc'[q] = pc[q] /\ call'[q] = call[q]
      BY <2>2 DEF OnlyBy
    <3> QED
      BY <1>2, <1>5, <2>2, <3>1 DEF HoldersInv
  <2> QED
    BY <2>1, <2>2
<1> QED
  BY <1>4, <1>5 DEF HoldersInv

LEMMA MapRegionKeeps ==
  ASSUME IInv, IInv', DirectoriesInv, HoldersInv, NEW p \in Processes,
         NEW ids, NEW region_capacity, NEW length,
         pc[p] \notin {"idle", "snapshot_msync"}, MapRegion(p, ids, region_capacity, length)
  PROVE  DirectoriesInv' /\ KeepsWhole /\ HoldersInv' /\ KeepsHeld
<1>1. CASE mapped[p] = Slots
  BY <1>1, ExitStep DEF MapRegion
<1>2. CASE mapped[p] # Slots
  <2> DEFINE c == call[p]
             vm(s) == [process |-> p, slot |-> s, block_size |-> c.block_size,
                       capacity |-> region_capacity, version |-> c.version,
                       m_version_metadata_path |-> c.version, m_read_only |-> c.read_only,
                       ids |-> ids, read |-> IF c.read_only THEN ids ELSE None,
                       mem |-> 0, present |-> FALSE, dirty |-> FALSE]
  <2>1. PICK m \in Managers, s \in Slots \ mapped[p] :
          /\ managers[m] = None
          /\ managers' = [managers EXCEPT ![m] = vm(s)]
          /\ vmm' = [vmm EXCEPT ![c.object] = m]
          /\ Return(p) /\ UNCHANGED disk
    BY <1>2 DEF MapRegion
  <2>2. c.object \in Objects /\ process[c.object] = p
    BY DEF IInv, CallState, Call
  <2>3. OnlyBy(p) /\ pc'[p] = "idle"
    BY <2>1 DEF Return, OnlyBy, IInv, TypeOK
  <2>4. /\ vm(s).m_version_metadata_path = vm(s).version
        /\ vm(s).m_read_only => ~vm(s).dirty /\ vm(s).ids = vm(s).read
    OBVIOUS
  <2> HIDE DEF vm
  <2>5. HoldersInv'
    <3>1. managers'[m] = vm(s) /\ \A n \in Managers : n # m => managers'[n] = managers[n]
      BY <2>1 DEF IInv, TypeOK
    <3>2. \A o \in Objects : process[o] # p => vmm'[o] = vmm[o]
      BY <2>1, <2>2 DEF IInv, TypeOK
    <3> QED
      BY <2>1, <2>3, <2>4, <3>1, <3>2, HoldersStep
  <2>6. DirectoriesInv' /\ KeepsWhole
    BY <2>1, <2>3, QuietStep DEF disk, making, writing, blocks_places
  <2>7. KeepsHeld
    BY <2>1, MadeOrRemoved DEF disk
  <2> QED
    BY <2>5, <2>6, <2>7
<1> QED
  BY <1>1, <1>2

LEMMA MapStepsKeep ==
  ASSUME IInv, IInv', DirectoriesInv, HoldersInv, NEW p \in Processes,
         MapCreated(p) \/ OpenCapacity(p)
  PROVE  DirectoriesInv' /\ KeepsWhole /\ HoldersInv' /\ KeepsHeld
<1>1. CASE MapCreated(p)
  BY <1>1, MapRegionKeeps DEF MapCreated
<1>2. CASE OpenCapacity(p) /\ Unreadable(capacity[call[p].version])
  BY <1>2, ExitStep DEF OpenCapacity
<1>3. CASE OpenCapacity(p) /\ ~Unreadable(capacity[call[p].version])
  BY <1>3, MapRegionKeeps DEF OpenCapacity
<1> QED
  BY <1>1, <1>2, <1>3
-------------------------------------------------------------------------------
(* A manager does something in its region, or saves it. *)
LEMMA AccessKeeps ==
  ASSUME IInv, IInv', DirectoriesInv, HoldersInv, NEW p \in Processes, NEW m \in Managers,
         NEW x \in Stores \cup {None}, Access(p, m, x)
  PROVE  DirectoriesInv' /\ KeepsWhole /\ HoldersInv' /\ KeepsHeld
<1> DEFINE vm == managers[m]
           faults == IF x = None THEN ~vm.present ELSE ~vm.dirty
           contents == IF vm.present THEN vm.mem ELSE vm.ids
           stored == [vm EXCEPT !.mem = IF x = None THEN contents ELSE x,
                                !.present = TRUE, !.dirty = @ \/ x # None]
<1>1. CASE Exit(p) /\ UNCHANGED disk
  BY <1>1, ExitStep
<1>2. CASE ~(Exit(p) /\ UNCHANGED disk)
  <2>1. /\ pc[p] = "idle" /\ vm # None /\ vm.process = p /\ vm \in Manager
        /\ managers' = [managers EXCEPT ![m] = stored]
        /\ UNCHANGED <<pc, call, vmm, disk>>
        /\ ~(faults /\ vm.m_read_only /\ x # None)
    BY <1>2 DEF Access, MayCall, IInv, TypeOK
  <2>2. vm.m_read_only => ~vm.dirty /\ vm.ids = vm.read
    BY <2>1 DEF HoldersInv
  <2>3. /\ stored.m_version_metadata_path = vm.m_version_metadata_path
        /\ stored.version = vm.version /\ stored.m_read_only = vm.m_read_only
        /\ stored.ids = vm.ids /\ stored.read = vm.read
        /\ stored.dirty = (vm.dirty \/ x # None)
    <3> HIDE DEF vm, contents
    <3> QED
      BY <2>1 DEF Manager
  <2>4. stored.m_read_only => ~stored.dirty /\ stored.ids = stored.read
    BY <2>1, <2>2, <2>3
  <2> HIDE DEF stored
  <2>5. ~Borrowed(m)' => stored.m_version_metadata_path = stored.version
    <3>1. Borrowed(m)' <=> Borrowed(m)
      BY <2>1 DEF Borrowed
    <3> QED
      BY <2>1, <2>3, <3>1 DEF HoldersInv
  <2>6. OnlyBy(p) /\ pc'[p] = "idle"
    BY <2>1 DEF OnlyBy
  <2>7. managers'[m] = stored /\ \A n \in Managers : n # m => managers'[n] = managers[n]
    BY <2>1 DEF IInv, TypeOK
  <2>8. HoldersInv'
    BY <2>1, <2>4, <2>5, <2>6, <2>7, HoldersStep
  <2>9. DirectoriesInv' /\ KeepsWhole /\ KeepsHeld
    BY <2>1, <2>6, QuietStep, MadeOrRemoved DEF disk, making, writing, blocks_places
  <2> QED
    BY <2>8, <2>9
<1> QED
  BY <1>1, <1>2

(* An idle process saves a manager of its own. *)
LEMMA SavesHeld ==
  ASSUME IInv, HoldersInv, NEW p \in Processes, pc[p] = "idle",
         NEW o \in Objects, process[o] = p, vmm[o] # None, Msync(p, o) \/ Destroy(p, o),
         CanUpdate(managers[vmm[o]]), UpdateMetadata(managers[vmm[o]])
  PROVE  /\ \A v \in Versions : metadata'[v] = NoFile <=> metadata[v] = NoFile
         /\ KeepsHeld
<1> DEFINE vm == managers[vmm[o]]
<1>1. vmm[o] \in Managers /\ vm # None /\ vm \in Manager /\ vm.process = p
  BY DEF IInv, TypeOK, ObjectsInv
<1>2. vm.m_version_metadata_path = vm.version /\ vm.version \in Versions
  BY <1>1, NotBorrowed DEF HoldersInv, Manager
<1>3. vm.m_read_only => Saved(vm).ids = vm.read
  BY <1>1 DEF HoldersInv, Saved, Manager
<1>4. \A v \in Versions : metadata'[v] = NoFile <=> metadata[v] = NoFile
  BY <1>1, UpdateMetadataKeeps
<1>5. ASSUME NEW v \in Versions, metadata'[v] # metadata[v] PROVE SavedByHolder(v)
  <2>1. v = vm.version /\ metadata'[v] = Saved(vm).ids
    BY <1>2, <1>5 DEF UpdateMetadata, IInv, TypeOK
  <2> QED
    BY <1>3, <2>1 DEF SavedByHolder
<1> QED
  BY <1>4, <1>5 DEF KeepsHeld

LEMMA MsyncKeeps ==
  ASSUME IInv, IInv', DirectoriesInv, HoldersInv, NEW p \in Processes, NEW o \in Objects,
         Msync(p, o)
  PROVE  DirectoriesInv' /\ KeepsWhole /\ HoldersInv' /\ KeepsHeld
<1> DEFINE m == vmm[o]
           vm == managers[m]
<1>1. CASE ~CanUpdate(vm)
  BY <1>1, ExitStep DEF Msync
<1>2. CASE CanUpdate(vm)
  <2>1. /\ UpdateMetadata(vm) /\ managers' = [managers EXCEPT ![m] = Saved(vm)]
        /\ UNCHANGED <<pc, call, vmm>> /\ pc[p] = "idle" /\ process[o] = p /\ m # None
    BY <1>2 DEF Msync, MayCall, Built
  <2>2. m \in Managers /\ vm # None /\ vm \in Manager /\ vm.process = p
    BY <2>1 DEF IInv, TypeOK, ObjectsInv
  <2>3. (\A v \in Versions : metadata'[v] = NoFile <=> metadata[v] = NoFile) /\ KeepsHeld
    BY <1>2, <2>1, SavesHeld
  <2>4. OnlyBy(p) /\ pc'[p] = "idle"
    BY <2>1 DEF OnlyBy
  <2>5. /\ Saved(vm).m_version_metadata_path = Saved(vm).version
        /\ Saved(vm).m_read_only => ~Saved(vm).dirty /\ Saved(vm).ids = Saved(vm).read
    BY <2>1, <2>2, NotBorrowed DEF HoldersInv, Saved, Manager
  <2>6. managers'[m] = Saved(vm) /\ \A n \in Managers : n # m => managers'[n] = managers[n]
    BY <2>1, <2>2 DEF IInv, TypeOK
  <2>7. HoldersInv'
    BY <2>1, <2>2, <2>4, <2>5, <2>6, HoldersStep
  <2>8. DirectoriesInv' /\ KeepsWhole
    BY <2>1, <2>3, <2>4, QuietStep DEF UpdateMetadata, making, writing, blocks_places
  <2> QED
    BY <2>3, <2>7, <2>8
<1> QED
  BY <1>1, <1>2

LEMMA DestroyKeeps ==
  ASSUME IInv, IInv', DirectoriesInv, HoldersInv, NEW p \in Processes, NEW o \in Objects,
         Destroy(p, o)
  PROVE  DirectoriesInv' /\ KeepsWhole /\ HoldersInv' /\ KeepsHeld
<1> DEFINE m == vmm[o]
           vm == managers[m]
           closes == CanUpdate(vm) /\ ~(build[p] = "USERFAULTFD" /\ vm.dirty)
<1>1. CASE ~closes
  BY <1>1, ExitStep DEF Destroy
<1>2. CASE closes
  <2>1. /\ UpdateMetadata(vm) /\ managers' = [managers EXCEPT ![m] = None]
        /\ vmm' = [vmm EXCEPT ![o] = None]
        /\ UNCHANGED <<pc, call>> /\ pc[p] = "idle" /\ process[o] = p /\ m # None
    BY <1>2 DEF Destroy, MayCall, Built
  <2>2. m \in Managers /\ vm # None /\ vm.process = p
    BY <2>1 DEF IInv, TypeOK, ObjectsInv
  <2>3. (\A v \in Versions : metadata'[v] = NoFile <=> metadata[v] = NoFile) /\ KeepsHeld
    BY <1>2, <2>1, SavesHeld
  <2>4. OnlyBy(p) /\ pc'[p] = "idle"
    BY <2>1 DEF OnlyBy
  <2>5. /\ managers'[m] = None /\ \A n \in Managers : n # m => managers'[n] = managers[n]
        /\ \A q \in Objects : process[q] # p => vmm'[q] = vmm[q]
    BY <2>1, <2>2 DEF IInv, TypeOK
  <2>6. HoldersInv'
    BY <2>1, <2>2, <2>4, <2>5, HoldersStep
  <2>7. DirectoriesInv' /\ KeepsWhole
    BY <2>1, <2>3, <2>4, QuietStep DEF UpdateMetadata, making, writing, blocks_places
  <2> QED
    BY <2>3, <2>6, <2>7
<1> QED
  BY <1>1, <1>2
LEMMA SnapshotMetadataKeeps ==
  ASSUME IInv, IInv', DirectoriesInv, HoldersInv, NEW p \in Processes, SnapshotMetadata(p)
  PROVE  DirectoriesInv' /\ KeepsWhole /\ HoldersInv' /\ KeepsHeld
<1> DEFINE v == call[p].version
           m == vmm[call[p].object]
           vm == managers[m]
           lent == [vm EXCEPT !.m_version_metadata_path = v]
<1>1. /\ pc[p] = "snapshot_metadata" /\ v \in Versions /\ call[p].op = "snapshot"
      /\ call[p].object \in Objects /\ process[call[p].object] = p /\ m # None
  <2>1. /\ pc[p] = "snapshot_metadata" /\ v \in Versions /\ call[p].op = "snapshot"
    BY CallOf DEF SnapshotMetadata, CreatePlaces, CopyPlaces, OpenPlaces, WritePlaces
  <2> QED
    BY <2>1 DEF IInv, CallState, Call
<1>2. m \in Managers /\ vm # None /\ vm \in Manager /\ vm.process = p
  BY <1>1 DEF IInv, TypeOK, ObjectsInv
<1>3. /\ lent.m_version_metadata_path = v /\ lent.version = vm.version
      /\ lent.m_read_only = vm.m_read_only /\ lent.dirty = vm.dirty
      /\ lent.ids = vm.ids /\ lent.read = vm.read
  <2> HIDE DEF vm, v
  <2> QED
    BY <1>2 DEF Manager
<1>4. /\ managers' = [managers EXCEPT ![m] = lent]
      /\ metadata' = [metadata EXCEPT ![v] = IF metadata[v] = NoFile THEN 0 ELSE metadata[v]]
      /\ pc' = [pc EXCEPT ![p] = "snapshot_msync"]
      /\ UNCHANGED <<granularity, version_dir, blocks_path, capacity, call, vmm>>
  BY <1>1 DEF SnapshotMetadata, IInv, TypeOK
<1>5. /\ OnlyBy(p) /\ pc'[p] = "snapshot_msync" /\ call' = call
      /\ managers'[m] = lent /\ \A n \in Managers : n # m => managers'[n] = managers[n]
      /\ \A w \in Versions : w # v => metadata'[w] = metadata[w]
      /\ metadata'[v] = metadata[v] \/ metadata[v] = NoFile
  <2>1. /\ pc \in [Processes -> pcs] /\ managers \in [Managers -> Manager \cup {None}]
        /\ metadata \in [Versions -> Values \cup {NoFile}]
    BY DEF IInv, TypeOK
  <2> HIDE DEF vm, lent, m, v
  <2> QED
    BY <1>1, <1>2, <1>4, <2>1 DEF OnlyBy
<1>6. /\ call[p].source = vm.version
      /\ vm.m_read_only => ~vm.dirty /\ vm.ids = vm.read
  BY <1>1, <1>2 DEF HoldersInv, WritePlaces
<1>7. Borrowed(m)'
  BY <1>4, <1>5 DEF Borrowed
<1>8. KeepsHeld
  BY <1>5, MadeOrRemoved
<1>9. DirectoriesInv' /\ KeepsWhole
  <2>1. WillWrite(p, v)
    BY <1>1 DEF WillWrite
  <2> QED
    BY <1>1, <1>4, <1>5, <2>1, WritingStep DEF making, writing, blocks_places
<1> HIDE DEF lent
<1>10. HoldersInv'
  <2>1. /\ Borrowed(m)'
        /\ managers'[m].m_read_only => ~managers'[m].dirty /\ managers'[m].ids = managers'[m].read
    BY <1>3, <1>5, <1>6, <1>7
  <2>2. /\ vmm'[call'[p].object] = m /\ call'[p].source = managers'[m].version
        /\ managers'[m].m_version_metadata_path = call'[p].version
    BY <1>3, <1>4, <1>5, <1>6
  <2>3. /\ OnlyBy(p) /\ managers[m].process = p /\ vmm' = vmm /\ pc'[p] = "snapshot_msync"
        /\ \A n \in Managers : n # m => managers'[n] = managers[n]
    BY <1>2, <1>4, <1>5
  <2> HIDE DEF vm, v
  <2> QED
    BY <1>1, <1>2, <2>1, <2>2, <2>3, HoldersStep
<1> QED
  BY <1>8, <1>9, <1>10

LEMMA SnapshotMsyncKeeps ==
  ASSUME IInv, IInv', DirectoriesInv, HoldersInv, NEW p \in Processes, SnapshotMsync(p)
  PROVE  DirectoriesInv' /\ KeepsWhole /\ HoldersInv' /\ KeepsHeld
<1> DEFINE v == call[p].version
           m == vmm[call[p].object]
           vm == managers[m]
           back == [Saved(vm) EXCEPT !.m_version_metadata_path = PathGivenBack(p, vm)]
<1>1. CASE ~CanUpdate(vm)
  BY <1>1, ExitStep DEF SnapshotMsync
<1>2. CASE CanUpdate(vm)
  <2>1. /\ pc[p] = "snapshot_msync" /\ v \in Versions /\ call[p].op = "snapshot"
        /\ call[p].object \in Objects /\ process[call[p].object] = p /\ m # None
        /\ call[p].source \in Versions
    <3>1. /\ pc[p] = "snapshot_msync" /\ v \in Versions /\ call[p].op = "snapshot"
      BY CallOf DEF SnapshotMsync, CreatePlaces, CopyPlaces, OpenPlaces, WritePlaces
    <3> QED
      BY <3>1 DEF IInv, CallState, Call
  <2>2. m \in Managers /\ vm # None /\ vm \in Manager /\ vm.process = p
    BY <2>1 DEF IInv, TypeOK, ObjectsInv
  <2>3. /\ UpdateMetadata(vm) /\ managers' = [managers EXCEPT ![m] = back]
        /\ pc' = [pc EXCEPT ![p] = "truncate_blocks_path"] /\ UNCHANGED <<call, vmm>>
    BY <1>2 DEF SnapshotMsync
  <2>4. /\ vm.m_version_metadata_path = v /\ call[p].source = vm.version
        /\ vm.m_read_only => ~vm.dirty /\ vm.ids = vm.read
    BY <2>1, <2>2 DEF HoldersInv, WritePlaces
  <2>5. /\ back.m_version_metadata_path = back.version
        /\ back.m_read_only => ~back.dirty /\ back.ids = back.read
    <3>1. /\ Saved(vm) \in Manager /\ Saved(vm).version = vm.version
          /\ Saved(vm).m_read_only = vm.m_read_only /\ Saved(vm).read = vm.read
          /\ Saved(vm).dirty = FALSE /\ (~vm.dirty => Saved(vm).ids = vm.ids)
      BY <2>2 DEF Saved, Manager
    <3>2. PathGivenBack(p, vm) = vm.version
      BY <2>4 DEF PathGivenBack
    <3> DEFINE saved == Saved(vm)
               path == PathGivenBack(p, vm)
    <3>3. back = [saved EXCEPT !.m_version_metadata_path = path]
      OBVIOUS
    <3> HIDE DEF saved, path, back, vm
    <3>4. /\ back.m_version_metadata_path = path /\ back.version = saved.version
          /\ back.m_read_only = saved.m_read_only /\ back.dirty = saved.dirty
          /\ back.ids = saved.ids /\ back.read = saved.read
      BY <3>1, <3>3 DEF Manager, saved
    <3> QED
      BY <2>4, <3>1, <3>2, <3>4 DEF saved, path
  <2> HIDE DEF back
  <2>6. /\ OnlyBy(p) /\ pc'[p] = "truncate_blocks_path" /\ call' = call
        /\ managers'[m] = back /\ \A n \in Managers : n # m => managers'[n] = managers[n]
    BY <2>2, <2>3 DEF OnlyBy, IInv, TypeOK
  <2>7. \A w \in Versions : w # v => metadata'[w] = metadata[w]
    BY <2>3, <2>4 DEF UpdateMetadata, IInv, TypeOK
  <2>8. KeepsHeld
    BY <2>7 DEF KeepsHeld, SavedByHolder
  <2>9. DirectoriesInv' /\ KeepsWhole
    <3>1. WillWrite(p, v)
      BY <2>1 DEF WillWrite
    <3> QED
      BY <2>1, <2>3, <2>6, <2>7, <3>1, WritingStep
         DEF UpdateMetadata, making, writing, blocks_places
  <2>10. HoldersInv'
    BY <2>1, <2>2, <2>3, <2>5, <2>6, HoldersStep DEF WritePlaces
  <2> QED
    BY <2>8, <2>9, <2>10
<1> QED
  BY <1>1, <1>2

LEMMA CrashKeeps ==
  ASSUME IInv, IInv', DirectoriesInv, HoldersInv, NEW p \in Processes, Crash(p)
  PROVE  DirectoriesInv' /\ KeepsWhole /\ HoldersInv' /\ KeepsHeld
BY EndStep DEF Crash

-------------------------------------------------------------------------------
LEMMA StepKeeps ==
  ASSUME IInv, IInv', DirectoriesInv, HoldersInv, NEW p \in Processes, Step(p)
  PROVE  DirectoriesInv' /\ KeepsWhole /\ HoldersInv' /\ KeepsHeld
<1>1. CASE \E o \in Objects : ObjectStep(p, o)
  BY <1>1, ConstructStep, CreateStepKeeps, OpenStepKeeps, OpenImmutableStep, MsyncKeeps,
     SnapshotStepKeeps, DestroyKeeps DEF ObjectStep
<1>2. CASE CreateStep(p)
  BY <1>2, MakeDirKeeps, VersionFileStep, StorageKeeps, MapStepsKeep DEF CreateStep
<1>3. CASE OpenStep(p)
  BY <1>3, VersionFileStep, OpenFilesKeep, MapStepsKeep DEF OpenStep
<1>4. CASE SnapshotStep(p)
  BY <1>4, SnapshotMetadataKeeps, SnapshotMsyncKeeps DEF SnapshotStep
<1>5. CASE \E m \in Managers, x \in Stores \cup {None} : Access(p, m, x)
  BY <1>5, AccessKeeps
<1> QED
  BY <1>1, <1>2, <1>3, <1>4, <1>5 DEF Step

LEMMA VNextInv == VInv /\ [Next]_vars => VInv' /\ KeepsWhole /\ KeepsHeld
<1> SUFFICES ASSUME VInv, [Next]_vars PROVE VInv' /\ KeepsWhole /\ KeepsHeld
  OBVIOUS
<1>1. IInv /\ DirectoriesInv /\ HoldersInv /\ IInv'
  BY NextInv DEF VInv
<1>2. CASE \E p \in Processes : Step(p) \/ Crash(p)
  BY <1>1, <1>2, StepKeeps, CrashKeeps DEF VInv
<1>3. CASE UNCHANGED vars
  BY <1>1, <1>3, BuildStep DEF VInv, vars, disk, objects
<1> QED
  BY <1>2, <1>3 DEF Next

(* VInv is inductive. *)
LEMMA VInductive == Spec => []VInv
<1>1. Init => VInv
  BY InitInv, InitDirectories, InitHolders DEF VInv
<1>2. VInv /\ [Next]_vars => VInv'
  BY VNextInv
<1> QED
  BY <1>1, <1>2, PTL DEF Spec

(* A version that no call has the right to write, no first create() is     *)
(* writing the _granularity of and no snapshot() is making stays whole      *)
(* through whatever calls and deaths follow, those that race for its name   *)
(* included, but for a create() that may overwrite it: a file operation is  *)
(* another version's, or its caller has found no _metadata here             *)
(* (virtual_memory_manager_base.cpp:61, privateer.hpp:252).                 *)
THEOREM StaysWholeCorrect == Spec => StaysWhole
<1>1. VInv /\ [Next]_vars =>
        [\A v \in Versions : Whole(v) => Whole(v)' \/ \E p \in Processes : Overwrites(p, v)]_vars
  BY VNextInv DEF KeepsWhole
<1> QED
  BY <1>1, VInductive, PTL DEF Spec, StaysWhole

(* What a version holds is changed by those that opened or created it and  *)
(* by the snapshot() that makes it, and an object that opened it read-only *)
(* puts back what it read (sigaction_virtual_memory_manager.cpp:340, :619).*)
THEOREM SavedOnlyByHoldersCorrect == Spec => SavedOnlyByHolders
<1>1. VInv /\ [Next]_vars =>
        [\A v \in Versions :
           metadata[v] # metadata'[v] /\ metadata[v] # NoFile /\ metadata'[v] # NoFile =>
             \/ \E p \in Processes, o \in Objects :
                  /\ vmm[o] # None /\ (Msync(p, o) \/ Destroy(p, o))
                  /\ managers[vmm[o]].version = v
                  /\ managers[vmm[o]].m_read_only => metadata'[v] = managers[vmm[o]].read
             \/ \E p \in Processes : SnapshotMsync(p) /\ call[p].version = v]_vars
  BY VNextInv DEF KeepsHeld, SavedByHolder
<1> QED
  BY <1>1, VInductive, PTL DEF Spec, SavedOnlyByHolders

===============================================================================
