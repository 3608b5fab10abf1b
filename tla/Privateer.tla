------------------------------- MODULE Privateer -------------------------------
(***************************************************************************)
(* The class Privateer (src/include/privateer/privateer.hpp): objects in   *)
(* several processes that create, open, copy, save and snapshot versions   *)
(* of one datastore, the files they leave on disk for each other, and the  *)
(* routing of page faults to the manager of the region in both builds (the *)
(* SIGSEGV dispatcher, the userfaultfd registry).  A process makes one     *)
(* call at a time, as the SIGACTION build demands; processes interleave    *)
(* between any two file operations and may die there.                      *)
(*                                                                         *)
(* Abstractions.  What a manager does inside a region is in SigactionVmm   *)
(* and UffdVmm; here the contents of a region, and the hashes in a         *)
(* _metadata file, are one value, and everything fits in memory.  A file   *)
(* is a number: its contents, or NoFile, or Truncated between the opening  *)
(* and the closing of a stream.  A slot is a range of addresses that is    *)
(* large enough for one region; addr is nullptr, so that mmap() picks a    *)
(* free one.  Copying a file is one step, and so is a public call but for  *)
(* the files it makes or reads on its way.  The stash directory is private *)
(* to a process and left out.                                              *)
(*                                                                         *)
(* A definition marked "seeded fault" is no part of the model: PROJECT.json*)
(* names the property that fails when it takes the next one's place.       *)
(***************************************************************************)
EXTENDS Integers, FiniteSets

CONSTANTS
  Processes,
  build,               (* of each: "SIGACTION" or "USERFAULTFD", a compile option *)
  Objects,             (* Privateer objects ... *)
  process,             (* ... and the process of each *)
  Versions,            (* names of version directories *)
  Managers,            (* bound: heap addresses of managers *)
  Slots,               (* bound: address ranges of regions *)
  Environments,        (* settings of PRIVATEER_BLOCK_SIZE and PRIVATEER_NUM_BLOCKS *)
  FILE_GRANULARITY_DEFAULT_BYTES,
  Sizes,               (* region sizes asked for *)
  Values,              (* contents of a region; 0: all zeros *)
  Stores,              (* bound: the contents that are stored *)
  Calls,               (* bound: the calls each process makes *)
  MaxDeaths,           (* bound: deaths from outside *)
  None

CallNames == {"CREATE", "CREATE with stash", "OPEN", "create", "overwrite", "open",
              "open_read_only", "open_immutable", "access", "msync", "snapshot", "destroy"}

Manager == [process : Processes, slot : Slots, block_size : Nat, capacity : Nat,
            version : Versions,               (* the version it was made with *)
            m_version_metadata_path : Versions,
            m_read_only : BOOLEAN,
            ids : Values,                     (* contents its hashes name *)
            read : Values \cup {None},        (* history: those a read-only one read *)
            mem : Values, present : BOOLEAN, dirty : BOOLEAN]

Call == [op : {"create", "open", "open_immutable", "snapshot"}, object : Objects,
         version : Versions, source : Versions \cup {None}, size : Nat,
         block_size : Nat, capacity : Nat, ids : Values, read_only : BOOLEAN]

ASSUME PrivateerAssumption ==
  /\ build \in [Processes -> {"SIGACTION", "USERFAULTFD"}]
  /\ process \in [Objects -> Processes]
  /\ Environments \subseteq [block_size : Nat, num_blocks : Nat]
  /\ FILE_GRANULARITY_DEFAULT_BYTES \in Nat \ {0}
  /\ Sizes \subseteq Nat \ {0}
  /\ Values \subseteq Nat /\ 0 \in Values /\ Stores \subseteq Values
  /\ Calls \in [Processes -> SUBSET CallNames]
  /\ MaxDeaths \in Nat
  /\ None \notin Managers \cup Slots \cup Versions \cup Objects /\ None \notin Manager

NoDir == -3
NoFile == -2
Truncated == -1
Set == 0               (* contents of a _blocks_path: there is one blocks directory *)
NotBuilt == -1         (* no object there *)

VARIABLES
  (* On disk. *)
  base_dir,            (* the base directory exists *)
  granularity,         (* blocks/_granularity; NoDir without blocks *)
  version_dir, metadata, blocks_path, capacity,     (* per version *)
  (* The call each process is in. *)
  pc, call,
  (* Objects, and what their vmm points to. *)
  m_block_size, vmm, managers,
  (* The routing of faults in each process. *)
  mapped,              (* slots that are taken *)
  regions,             (* length of the region at each slot, 0: no entry *)
  region_managers,
  action,              (* SIGACTION: what a SIGSEGV does *)
  m_uffd,              (* USERFAULTFD: there is a userfaultfd and its listener *)
  num_handlers,
  deaths,              (* how many deaths there were, see MaxDeaths *)
  (* History. *)
  destroyed,           (* SIGACTION: an object has been, since the handler was installed *)
  made                 (* how often a version was made, see Made *)

disk == <<base_dir, granularity, version_dir, metadata, blocks_path, capacity>>
objects == <<m_block_size, vmm, managers>>
routing == <<mapped, regions, region_managers, action, m_uffd, num_handlers, destroyed>>
history == <<made, deaths>>
vars == <<disk, pc, call, objects, routing, history>>

pcs == {"idle", "make_dir", "create_metadata", "truncate_blocks_path", "write_blocks_path",
        "write_capacity", "find_blocks", "make_blocks", "truncate_granularity",
        "write_granularity", "map", "copy_metadata", "copy_capacity", "copy_blocks_path",
        "open_blocks_path", "open_granularity", "open_metadata", "open_capacity",
        "snapshot_metadata", "snapshot_msync"}

TypeOK ==
  /\ base_dir \in BOOLEAN
  /\ granularity \in Nat \cup {NoDir, NoFile, Truncated}
  /\ version_dir \in [Versions -> BOOLEAN]
  /\ metadata \in [Versions -> Values \cup {NoFile}]
  /\ blocks_path \in [Versions -> {NoFile, Truncated, Set}]
  /\ capacity \in [Versions -> Nat \cup {NoFile, Truncated}]
  /\ pc \in [Processes -> pcs]
  /\ call \in [Processes -> Call \cup {None}]
  /\ m_block_size \in [Objects -> Nat \cup {NotBuilt}]
  /\ vmm \in [Objects -> Managers \cup {None}]
  /\ managers \in [Managers -> Manager \cup {None}]
  /\ mapped \in [Processes -> SUBSET Slots]
  /\ regions \in [Processes -> [Slots -> Nat]]
  /\ region_managers \in [Processes -> [Slots -> Managers \cup {None}]]
  /\ action \in [Processes -> {"default", "handler", "once", "garbage"}]
  /\ m_uffd \in [Processes -> BOOLEAN]
  /\ num_handlers \in [Processes -> Nat]
  /\ destroyed \in [Processes -> BOOLEAN]
  /\ deaths \in 0 .. MaxDeaths
  /\ made \in [Versions -> {"no", "once", "twice", "overwritten"}]

Init ==
  /\ base_dir = FALSE /\ granularity = NoDir
  /\ version_dir = [v \in Versions |-> FALSE]
  /\ metadata = [v \in Versions |-> NoFile]
  /\ blocks_path = [v \in Versions |-> NoFile]
  /\ capacity = [v \in Versions |-> NoFile]
  /\ pc = [p \in Processes |-> "idle"] /\ call = [p \in Processes |-> None]
  /\ m_block_size = [o \in Objects |-> NotBuilt]
  /\ vmm = [o \in Objects |-> None]
  /\ managers = [m \in Managers |-> None]
  /\ mapped = [p \in Processes |-> {}]
  /\ regions = [p \in Processes |-> [s \in Slots |-> 0]]
  /\ region_managers = [p \in Processes |-> [s \in Slots |-> None]]
  /\ action = [p \in Processes |-> "default"]
  /\ m_uffd = [p \in Processes |-> FALSE]
  /\ num_handlers = [p \in Processes |-> 0]
  /\ destroyed = [p \in Processes |-> FALSE]
  /\ deaths = 0
  /\ made = [v \in Versions |-> "no"]

-------------------------------------------------------------------------------
(* The process ends: exit(-1), a signal, or a death from outside.  Another *)
(* takes its place.  The files stay as they are.                           *)
EndProcess(p) ==
  /\ pc' = [pc EXCEPT ![p] = "idle"] /\ call' = [call EXCEPT ![p] = None]
  /\ m_block_size' = [o \in Objects |-> IF process[o] = p THEN NotBuilt ELSE m_block_size[o]]
  /\ vmm' = [o \in Objects |-> IF process[o] = p THEN None ELSE vmm[o]]
  /\ managers' = [m \in Managers |-> IF managers[m] # None /\ managers[m].process = p
                                     THEN None ELSE managers[m]]
  /\ mapped' = [mapped EXCEPT ![p] = {}]
  /\ regions' = [regions EXCEPT ![p] = [s \in Slots |-> 0]]
  /\ region_managers' = [region_managers EXCEPT ![p] = [s \in Slots |-> None]]
  /\ action' = [action EXCEPT ![p] = "default"]
  /\ m_uffd' = [m_uffd EXCEPT ![p] = FALSE]
  /\ num_handlers' = [num_handlers EXCEPT ![p] = 0]
  /\ destroyed' = [destroyed EXCEPT ![p] = FALSE]
  /\ UNCHANGED made

Exit(p) == EndProcess(p) /\ UNCHANGED deaths

(* A process that has done anything may die at any moment.                 *)
Crash(p) ==
  /\ \E o \in Objects : process[o] = p /\ m_block_size[o] # NotBuilt
  /\ deaths < MaxDeaths /\ deaths' = deaths + 1
  /\ EndProcess(p) /\ UNCHANGED disk

MayCall(p, name) == pc[p] = "idle" /\ name \in Calls[p]

Built(p, o) == process[o] = p /\ m_block_size[o] # NotBuilt

(* Bound: the heap has room for the managers p and the others will make.   *)
Room(p) == Cardinality({m \in Managers : managers[m] = None}) >
             Cardinality({q \in Processes : call[q] # None})

(* The call under way goes on at another place ...                         *)
Goto(p, place) ==
  /\ pc' = [pc EXCEPT ![p] = place]
  /\ UNCHANGED <<call, objects, routing, history>>

(* ... or ends.                                                            *)
Return(p) == pc' = [pc EXCEPT ![p] = "idle"] /\ call' = [call EXCEPT ![p] = None]

-------------------------------------------------------------------------------
(* The constructors.                                                       *)

(* init_block_size(): PRIVATEER_NUM_BLOCKS only keeps the default away.    *)
InitBlockSize(env) ==
  IF env.block_size # 0 THEN env.block_size
  ELSE IF env.num_blocks = 0 THEN FILE_GRANULARITY_DEFAULT_BYTES ELSE 0

(* Privateer(CREATE, base_path) takes an existing directory as it is.      *)
Construct(p, o, env) ==
  /\ MayCall(p, "CREATE") /\ process[o] = p /\ m_block_size[o] = NotBuilt
  /\ base_dir' = TRUE
  /\ m_block_size' = [m_block_size EXCEPT ![o] = InitBlockSize(env)]
  /\ UNCHANGED <<granularity, version_dir, metadata, blocks_path, capacity,
                 pc, call, vmm, managers, routing, history>>

(* Privateer(CREATE, base_path, stash_path) does not, and leaves the block *)
(* size zero.                                                              *)
ConstructWithStash(p, o) ==
  /\ MayCall(p, "CREATE with stash") /\ process[o] = p /\ m_block_size[o] = NotBuilt
  /\ IF base_dir
     THEN Exit(p) /\ UNCHANGED disk
     ELSE /\ base_dir' = TRUE
          /\ m_block_size' = [m_block_size EXCEPT ![o] = 0]
          /\ UNCHANGED <<granularity, version_dir, metadata, blocks_path, capacity,
                         pc, call, vmm, managers, routing, history>>

(* Privateer(OPEN, ...) wants the directory, and leaves the block size     *)
(* zero as well.                                                           *)
ConstructOpen(p, o) ==
  /\ MayCall(p, "OPEN") /\ process[o] = p /\ m_block_size[o] = NotBuilt
  /\ IF base_dir
     THEN /\ m_block_size' = [m_block_size EXCEPT ![o] = 0]
          /\ UNCHANGED <<pc, call, vmm, managers, routing, history>>
     ELSE Exit(p)
  /\ UNCHANGED disk

-------------------------------------------------------------------------------
(* What a call that makes a region has read or been given so far.          *)
NewCall(op, o, v) ==
  [op |-> op, object |-> o, version |-> v, source |-> None, size |-> 0,
   block_size |-> 0, capacity |-> 0, ids |-> 0, read_only |-> FALSE]

Begin(p, place, c) ==
  /\ pc' = [pc EXCEPT ![p] = place] /\ call' = [call EXCEPT ![p] = c]
  /\ UNCHANGED <<objects, routing>>

(* History: a call that was to make a version, and no other, has returned. *)
Made(c) ==
  /\ made' = IF c.op = "open" THEN made
             ELSE [made EXCEPT ![c.version] =
                     CASE @ = "no" -> "once" [] @ = "once" -> "twice" [] OTHER -> @]
  /\ UNCHANGED deaths

-------------------------------------------------------------------------------
(* Routing of faults.                                                      *)

(* regions.insert() and region_managers.insert(): an entry that is there   *)
(* stays.                                                                  *)
AddRegion(p, s, length, m) ==
  /\ regions' = IF regions[p][s] = 0 THEN [regions EXCEPT ![p][s] = length] ELSE regions
  /\ region_managers' = IF region_managers[p][s] = None
                        THEN [region_managers EXCEPT ![p][s] = m] ELSE region_managers

RegionKept(p, s) == UNCHANGED <<regions, region_managers>> \* seeded fault
RemoveRegion(p, s) ==
  /\ regions' = [regions EXCEPT ![p][s] = 0]
  /\ region_managers' = [region_managers EXCEPT ![p][s] = None]

(* sigaction() with the dispatcher's handler, or init_uffd().              *)
InstallHandler(p) ==
  /\ IF build[p] = "SIGACTION"
     THEN /\ action' = [action EXCEPT ![p] = "handler"]
          /\ destroyed' = [destroyed EXCEPT ![p] = FALSE]
          /\ UNCHANGED <<m_uffd, num_handlers>>
     ELSE /\ m_uffd' = [m_uffd EXCEPT ![p] = TRUE]
          /\ num_handlers' = [num_handlers EXCEPT ![p] = @ + 1]
          /\ UNCHANGED <<action, destroyed>>

(* The destructor's sigaction() with SA_RESETHAND, a sa_handler nobody has *)
(* set and no SA_SIGINFO: a fault then goes astray, unless the dispatcher's*)
(* handler and an earlier siginfo_t are there by chance; or stop_uffd().   *)
RemoveHandler(p) ==
  /\ IF build[p] = "SIGACTION"
     THEN /\ \E a \in {"once", "garbage"} : action' = [action EXCEPT ![p] = a]
          /\ destroyed' = [destroyed EXCEPT ![p] = TRUE]
          /\ UNCHANGED <<m_uffd, num_handlers>>
     ELSE /\ num_handlers' = [num_handlers EXCEPT ![p] = @ - 1]
          /\ m_uffd' = [m_uffd EXCEPT ![p] = num_handlers[p] # 1]
          /\ UNCHANGED <<action, destroyed>>

(* The manager that gets a fault: found by address among the regions; None *)
(* if that ends the process, or nobody listens.                            *)
Dispatch(p, s, offset) ==
  IF /\ IF build[p] = "SIGACTION" THEN action[p] \in {"handler", "once"} ELSE m_uffd[p]
     /\ offset < regions[p][s]
  THEN region_managers[p][s] ELSE None

(* Every call that makes a region ends here: a manager, a free range of    *)
(* addresses if mmap() finds one, the routing.  An object that has a       *)
(* manager forgets it.                                                     *)
MapRegion(p, ids, region_capacity, length) ==
  /\ IF mapped[p] = Slots
     THEN Exit(p)
     ELSE \E m \in Managers, s \in Slots \ mapped[p] :
       /\ managers[m] = None
       /\ managers' = [managers EXCEPT ![m] =
            [process |-> p, slot |-> s, block_size |-> call[p].block_size,
             capacity |-> region_capacity, version |-> call[p].version,
             m_version_metadata_path |-> call[p].version, m_read_only |-> call[p].read_only,
             ids |-> ids, read |-> IF call[p].read_only THEN ids ELSE None,
             mem |-> 0, present |-> FALSE, dirty |-> FALSE]]
       /\ vmm' = [vmm EXCEPT ![call[p].object] = m]
       /\ mapped' = [mapped EXCEPT ![p] = @ \cup {s}]
       /\ AddRegion(p, s, length, m) /\ InstallHandler(p)
       /\ Made(call[p]) /\ Return(p)
       /\ UNCHANGED m_block_size
  /\ UNCHANGED disk

-------------------------------------------------------------------------------
(* create().  The region is as large as asked for, in whole blocks.        *)
Rounded(size, block_size) ==
  IF size % block_size = 0 THEN size ELSE ((size \div block_size) + 1) * block_size

(* create_version_metadata() refuses an existing directory, or removes its *)
(* _metadata; otherwise it makes one.  A block size of zero is divided by. *)
Create(p, o, v, size, allow_overwrite) ==
  /\ MayCall(p, IF allow_overwrite THEN "overwrite" ELSE "create") /\ Built(p, o) /\ Room(p)
  /\ IF m_block_size[o] = 0 \/ (version_dir[v] /\ ~allow_overwrite)
     THEN Exit(p) /\ UNCHANGED disk
     ELSE /\ Begin(p, IF version_dir[v] THEN "create_metadata" ELSE "make_dir",
                   [NewCall("create", o, v) EXCEPT
                      !.size = size, !.block_size = m_block_size[o],
                      !.capacity = Rounded(size, m_block_size[o])])
          /\ metadata' = IF version_dir[v] THEN [metadata EXCEPT ![v] = NoFile] ELSE metadata
          /\ made' = IF version_dir[v] THEN [made EXCEPT ![v] = "overwritten"] ELSE made
          /\ UNCHANGED deaths
          /\ UNCHANGED <<base_dir, granularity, version_dir, blocks_path, capacity>>

(* utility::create_directory() also succeeds on a directory that is there. *)
MakeDir(p) ==
  /\ pc[p] = "make_dir"
  /\ version_dir' = [version_dir EXCEPT ![call[p].version] = TRUE]
  /\ Goto(p, CASE call[p].op = "create" -> "create_metadata"
               [] call[p].op = "open_immutable" -> "copy_metadata"
               [] OTHER -> "snapshot_metadata")
  /\ UNCHANGED <<base_dir, granularity, metadata, blocks_path, capacity>>

(* O_CREAT | O_EXCL: an empty _metadata, or none of ours.                  *)
NotExclusive(v) == FALSE \* seeded fault
Refuses(v) == metadata[v] # NoFile

CreateMetadata(p) ==
  /\ pc[p] = "create_metadata"
  /\ IF Refuses(call[p].version)
     THEN Exit(p) /\ UNCHANGED disk
     ELSE /\ metadata' = [metadata EXCEPT ![call[p].version] = 0]
          /\ Goto(p, "truncate_blocks_path")
          /\ UNCHANGED <<base_dir, granularity, version_dir, blocks_path, capacity>>

(* The two files that create() and snapshot() write next.  Closing the     *)
(* first and opening the second is one step.                               *)
TruncateBlocksPath(p) ==
  /\ pc[p] = "truncate_blocks_path"
  /\ blocks_path' = [blocks_path EXCEPT ![call[p].version] = Truncated]
  /\ Goto(p, "write_blocks_path")
  /\ UNCHANGED <<base_dir, granularity, version_dir, metadata, capacity>>

WriteBlocksPath(p) ==
  /\ pc[p] = "write_blocks_path"
  /\ blocks_path' = [blocks_path EXCEPT ![call[p].version] = Set]
  /\ capacity' = [capacity EXCEPT ![call[p].version] = Truncated]
  /\ Goto(p, "write_capacity")
  /\ UNCHANGED <<base_dir, granularity, version_dir, metadata>>

(* It is the last step of snapshot(); create() goes on to the storage.     *)
WriteCapacity(p) ==
  /\ pc[p] = "write_capacity"
  /\ capacity' = [capacity EXCEPT ![call[p].version] = call[p].capacity]
  /\ IF call[p].op = "create"
     THEN Goto(p, "find_blocks")
     ELSE Return(p) /\ UNCHANGED <<objects, routing, history>>
  /\ UNCHANGED <<base_dir, granularity, version_dir, metadata, blocks_path>>

(* posix_block_storage::create() writes _granularity only into a blocks    *)
(* directory it has not found there.                                       *)
BlocksRemade == TRUE \* seeded fault
BlocksMissing == granularity = NoDir

FindBlocks(p) ==
  /\ pc[p] = "find_blocks"
  /\ Goto(p, IF BlocksMissing THEN "make_blocks" ELSE "map")
  /\ UNCHANGED disk

MakeBlocks(p) ==
  /\ pc[p] = "make_blocks"
  /\ granularity' = IF granularity = NoDir THEN NoFile ELSE granularity
  /\ Goto(p, "truncate_granularity")
  /\ UNCHANGED <<base_dir, version_dir, metadata, blocks_path, capacity>>

TruncateGranularity(p) ==
  /\ pc[p] = "truncate_granularity"
  /\ granularity' = Truncated
  /\ Goto(p, "write_granularity")
  /\ UNCHANGED <<base_dir, version_dir, metadata, blocks_path, capacity>>

WriteGranularity(p) ==
  /\ pc[p] = "write_granularity"
  /\ granularity' = call[p].block_size
  /\ Goto(p, "map")
  /\ UNCHANGED <<base_dir, version_dir, metadata, blocks_path, capacity>>

(* The dispatcher is told the size asked for, userfaultfd the rounded one. *)
MapCreated(p) ==
  /\ pc[p] = "map"
  /\ MapRegion(p, 0, call[p].capacity,
               IF build[p] = "SIGACTION" THEN call[p].size ELSE call[p].capacity)

-------------------------------------------------------------------------------
(* open(), open_read_only(): file by file; a file that is missing or empty *)
(* ends the process.                                                       *)
Open(p, o, v, read_only) ==
  /\ MayCall(p, IF read_only THEN "open_read_only" ELSE "open") /\ Built(p, o) /\ Room(p)
  /\ Begin(p, "open_blocks_path", [NewCall("open", o, v) EXCEPT !.read_only = read_only])
  /\ UNCHANGED <<disk, history>>

(* One step of it: a file, and what the call remembers of it.              *)
Missing(contents) == contents \in {NoDir, NoFile} \* seeded fault
Unreadable(contents) == contents < 0

ReadFile(p, place, contents, next, c) ==
  /\ pc[p] = place
  /\ IF Unreadable(contents)
     THEN Exit(p)
     ELSE Begin(p, next, c) /\ UNCHANGED history
  /\ UNCHANGED disk

OpenBlocksPath(p) ==
  ReadFile(p, "open_blocks_path", blocks_path[call[p].version], "open_granularity", call[p])

OpenGranularity(p) ==
  ReadFile(p, "open_granularity", granularity, "open_metadata",
           [call[p] EXCEPT !.block_size = granularity])

OpenMetadata(p) ==
  ReadFile(p, "open_metadata", metadata[call[p].version], "open_capacity",
           [call[p] EXCEPT !.ids = metadata[call[p].version]])

OpenCapacity(p) ==
  /\ pc[p] = "open_capacity"
  /\ LET c == capacity[call[p].version]
     IN  IF Unreadable(c) THEN Exit(p) /\ UNCHANGED disk ELSE MapRegion(p, call[p].ids, c, c)

(* open_immutable() copies a version to a new name and opens the copy.  It *)
(* throws if there is nothing to copy.                                     *)
OpenImmutable(p, o, v, new) ==
  /\ MayCall(p, "open_immutable") /\ Built(p, o) /\ Room(p) /\ version_dir[v]
  /\ IF version_dir[new]
     THEN Exit(p)
     ELSE Begin(p, "make_dir", [NewCall("open_immutable", o, new) EXCEPT !.source = v])
          /\ UNCHANGED history
  /\ UNCHANGED disk

(* copy_file() fails without a source, and if the destination is there.    *)
CopyFile(p, place, file, next) ==
  /\ pc[p] = place
  /\ LET source == file[call[p].source]
     IN  IF source = NoFile \/ file[call[p].version] # NoFile
         THEN Exit(p) /\ UNCHANGED file
         ELSE file' = [file EXCEPT ![call[p].version] = source] /\ Goto(p, next)

CopyMetadata(p) ==
  /\ CopyFile(p, "copy_metadata", metadata, "copy_capacity")
  /\ UNCHANGED <<base_dir, granularity, version_dir, blocks_path, capacity>>

CopyCapacity(p) ==
  /\ CopyFile(p, "copy_capacity", capacity, "copy_blocks_path")
  /\ UNCHANGED <<base_dir, granularity, version_dir, metadata, blocks_path>>

CopyBlocksPath(p) ==
  /\ CopyFile(p, "copy_blocks_path", blocks_path, "open_blocks_path")
  /\ UNCHANGED <<base_dir, granularity, version_dir, metadata, capacity>>

-------------------------------------------------------------------------------
(* An application thread loads (None) or stores x in a region.  Loads of   *)
(* a resident region and stores to a dirty one do not fault.  A fault that *)
(* does not reach the region's manager, or a store to a read-only region,  *)
(* ends the process.  SA_RESETHAND is spent by the first fault.            *)
Access(p, m, x) ==
  /\ MayCall(p, "access")
  /\ managers[m] # None /\ managers[m].process = p
  /\ LET vm == managers[m]
         faults == IF x = None THEN ~vm.present ELSE ~vm.dirty
         contents == IF vm.present THEN vm.mem ELSE vm.ids
     IN  IF faults /\ (Dispatch(p, vm.slot, 0) # m \/ (vm.m_read_only /\ x # None))
         THEN Exit(p)
         ELSE /\ managers' = [managers EXCEPT ![m] =
                   [vm EXCEPT !.mem = IF x = None THEN contents ELSE x,
                              !.present = TRUE, !.dirty = @ \/ x # None]]
              /\ action' = IF faults /\ action[p] = "once"
                           THEN [action EXCEPT ![p] = "default"] ELSE action
              /\ UNCHANGED <<pc, call, m_block_size, vmm, mapped, regions,
                             region_managers, m_uffd, num_handlers, destroyed, history>>
  /\ UNCHANGED disk

(* The msync() of a manager: it saves what is dirty ...                    *)
Saved(vm) == [vm EXCEPT !.ids = IF vm.dirty THEN vm.mem ELSE @, !.dirty = FALSE]

(* ... and update_metadata() rewrites a _metadata that has to be there,    *)
(* read-only or not, unless nothing is resident.                           *)
CanUpdate(vm) == vm.present => metadata[vm.m_version_metadata_path] # NoFile

UpdateMetadata(vm) ==
  /\ metadata' = IF vm.present
                 THEN [metadata EXCEPT ![vm.m_version_metadata_path] = Saved(vm).ids]
                 ELSE metadata
  /\ UNCHANGED <<base_dir, granularity, version_dir, blocks_path, capacity>>

Msync(p, o) ==
  /\ MayCall(p, "msync") /\ Built(p, o) /\ vmm[o] # None
  /\ LET vm == managers[vmm[o]]
     IN  IF CanUpdate(vm)
         THEN /\ UpdateMetadata(vm)
              /\ managers' = [managers EXCEPT ![vmm[o]] = Saved(vm)]
              /\ UNCHANGED <<pc, call, m_block_size, vmm, routing, history>>
         ELSE Exit(p) /\ UNCHANGED disk

(* snapshot() takes a directory without _metadata for none, and returns    *)
(* false if there is one.                                                  *)
Snapshot(p, o, v) ==
  /\ MayCall(p, "snapshot") /\ Built(p, o) /\ vmm[o] # None
  /\ version_dir[v] => metadata[v] = NoFile
  /\ Begin(p, IF version_dir[v] THEN "snapshot_metadata" ELSE "make_dir",
           [NewCall("snapshot", o, v) EXCEPT
              !.source = managers[vmm[o]].m_version_metadata_path,
              !.capacity = managers[vmm[o]].capacity])
  /\ UNCHANGED <<disk, history>>

(* O_CREAT without O_EXCL; the manager's path is borrowed ...              *)
SnapshotMetadata(p) ==
  /\ pc[p] = "snapshot_metadata"
  /\ LET v == call[p].version
     IN  /\ metadata' = [metadata EXCEPT ![v] = IF @ = NoFile THEN 0 ELSE @]
         /\ managers' = [managers EXCEPT ![vmm[call[p].object]].m_version_metadata_path = v]
  /\ pc' = [pc EXCEPT ![p] = "snapshot_msync"]
  /\ UNCHANGED <<base_dir, granularity, version_dir, blocks_path, capacity,
                 call, m_block_size, vmm, routing, history>>

(* ... for an msync(), and given back.                                     *)
PathKept(p, vm) == vm.m_version_metadata_path \* seeded fault
PathGivenBack(p, vm) == call[p].source

SnapshotMsync(p) ==
  /\ pc[p] = "snapshot_msync"
  /\ LET m == vmm[call[p].object]
         vm == managers[m]
     IN  IF CanUpdate(vm)
         THEN /\ UpdateMetadata(vm)
              /\ managers' = [managers EXCEPT ![m] =
                   [Saved(vm) EXCEPT !.m_version_metadata_path = PathGivenBack(p, vm)]]
              /\ pc' = [pc EXCEPT ![p] = "truncate_blocks_path"]
              /\ UNCHANGED <<call, m_block_size, vmm, routing, history>>
         ELSE Exit(p) /\ UNCHANGED disk

(* ~Privateer(): the routing goes first, then close() saves the region and *)
(* unmaps what is resident.  A userfaultfd region that is dirty cannot be  *)
(* write-protected any more, which ends the process before _metadata.      *)
Destroy(p, o) ==
  /\ MayCall(p, "destroy") /\ Built(p, o) /\ vmm[o] # None
  /\ LET m == vmm[o]
         vm == managers[m]
     IN  IF CanUpdate(vm) /\ ~(build[p] = "USERFAULTFD" /\ vm.dirty)
         THEN /\ RemoveHandler(p) /\ RemoveRegion(p, vm.slot)
              /\ UpdateMetadata(vm)
              /\ mapped' = IF vm.present THEN [mapped EXCEPT ![p] = @ \ {vm.slot}] ELSE mapped
              /\ managers' = [managers EXCEPT ![m] = None]
              /\ vmm' = [vmm EXCEPT ![o] = None]
              /\ m_block_size' = [m_block_size EXCEPT ![o] = NotBuilt]
              /\ UNCHANGED <<pc, call, history>>
         ELSE Exit(p) /\ UNCHANGED disk

-------------------------------------------------------------------------------
(* The steps of a process, by the call they belong to.                     *)
ObjectStep(p, o) ==
  \/ \E env \in Environments : Construct(p, o, env)
  \/ ConstructWithStash(p, o)
  \/ ConstructOpen(p, o)
  \/ \E v \in Versions, size \in Sizes, overwrite \in BOOLEAN : Create(p, o, v, size, overwrite)
  \/ \E v \in Versions, read_only \in BOOLEAN : Open(p, o, v, read_only)
  \/ \E v, new \in Versions : OpenImmutable(p, o, v, new)
  \/ Msync(p, o)
  \/ \E v \in Versions : Snapshot(p, o, v)
  \/ Destroy(p, o)

CreateStep(p) ==
  \/ MakeDir(p) \/ CreateMetadata(p)
  \/ TruncateBlocksPath(p) \/ WriteBlocksPath(p) \/ WriteCapacity(p)
  \/ FindBlocks(p) \/ MakeBlocks(p) \/ TruncateGranularity(p) \/ WriteGranularity(p)
  \/ MapCreated(p)

OpenStep(p) ==
  \/ CopyMetadata(p) \/ CopyCapacity(p) \/ CopyBlocksPath(p)
  \/ OpenBlocksPath(p) \/ OpenGranularity(p) \/ OpenMetadata(p) \/ OpenCapacity(p)

SnapshotStep(p) == SnapshotMetadata(p) \/ SnapshotMsync(p)

Step(p) ==
  \/ \E o \in Objects : ObjectStep(p, o)
  \/ CreateStep(p) \/ OpenStep(p) \/ SnapshotStep(p)
  \/ \E m \in Managers, x \in Stores \cup {None} : Access(p, m, x)

Next == \E p \in Processes : Step(p) \/ Crash(p)

Spec == Init /\ [][Next]_vars

-------------------------------------------------------------------------------
(* Of the create() calls and open_immutable() calls that name one version, *)
(* whatever processes they come from and wherever others die, at most one  *)
(* returns, unless a create() with allow_overwrite found the version       *)
(* there (virtual_memory_manager_base.cpp:70, privateer.hpp:252).          *)
MadeOnce == \A v \in Versions : made[v] # "twice"

(* A version is whole: its files and the datastore's are there, and no     *)
(* call that has got past finding the name free is still to write them.    *)
(* The calls that have lost the name, and are about to find that out, are  *)
(* not exempt.                                                             *)
writing == {"truncate_blocks_path", "write_blocks_path", "write_capacity",
            "copy_capacity", "copy_blocks_path"}

WillWrite(p, v) ==
  /\ pc[p] # "idle" /\ call[p].version = v
  /\ pc[p] \in writing \/ call[p].op = "snapshot"

Whole(v) ==
  /\ metadata[v] >= 0 /\ blocks_path[v] >= 0 /\ capacity[v] >= 0 /\ granularity >= 0
  /\ \A p \in Processes :
       /\ ~WillWrite(p, v)
       /\ pc[p] \notin {"make_blocks", "truncate_granularity", "write_granularity"}

(* Once whole, a version stays whole, so that it can be opened ever after: *)
(* no call of any process takes it apart, not even for a moment, and no    *)
(* death does, but for a create() that is allowed to overwrite it.         *)
Overwrites(p, v) ==
  pc[p] = "idle" /\ pc'[p] = "create_metadata" /\ call'[p].version = v

StaysWhole ==
  [][\A v \in Versions : Whole(v) => Whole(v)' \/ \E p \in Processes : Overwrites(p, v)]_vars

(* What a version holds is changed by the objects that opened or created   *)
(* it and by the snapshot() that makes it, so never by open_immutable() of *)
(* it and never by the region a snapshot was taken of; and an object that  *)
(* opened it read-only puts back no more than it has read there            *)
(* (privateer.hpp:232, sigaction_virtual_memory_manager.cpp:340).          *)
SavedOnlyByHolders ==
  [][\A v \in Versions :
       metadata[v] # metadata'[v] /\ metadata[v] # NoFile /\ metadata'[v] # NoFile =>
         \/ \E p \in Processes, o \in Objects :
              /\ vmm[o] # None /\ (Msync(p, o) \/ Destroy(p, o))
              /\ managers[vmm[o]].version = v
              /\ managers[vmm[o]].m_read_only => metadata'[v] = managers[vmm[o]].read
         \/ \E p \in Processes : SnapshotMsync(p) /\ call[p].version = v]_vars

(* A fault in a region that has not been closed reaches the manager of     *)
(* that region, however many objects its process has made, reopened and    *)
(* destroyed; in the SIGACTION build, unless an object has been destroyed  *)
(* since the last create() or open(), and at the first address of each     *)
(* block at least (create() passes on the size asked for).  And no entry   *)
(* leads to a manager that has been closed, or to another region's.        *)
Owns(m, p, s) == managers[m] # None /\ managers[m].process = p /\ managers[m].slot = s

Served(m) ==
  0 .. (managers[m].capacity -
        IF build[managers[m].process] = "SIGACTION" THEN managers[m].block_size ELSE 1)

FaultsReachOwner ==
  \A p \in Processes, s \in Slots, m \in Managers :
    /\ region_managers[p][s] = m => Owns(m, p, s)
    /\ Owns(m, p, s) =>
         \/ \A offset \in Served(m) : Dispatch(p, s, offset) = m
         \/ build[p] = "SIGACTION" /\ destroyed[p]

-------------------------------------------------------------------------------
(* What the code does not keep: each is refuted by a configuration of its  *)
(* own.                                                                    *)

(* open_read_only() leaves the version alone (privateer.hpp:221).          *)
ReadOnlyPreserves ==
  [][\A p \in Processes, o \in Objects :
       vmm[o] # None /\ managers[vmm[o]].m_read_only /\ (Msync(p, o) \/ Destroy(p, o))
         => metadata' = metadata]_vars

(* A fault reaches its manager at every address of the region, always      *)
(* (sigsegv_handler_dispatcher.hpp:21).                                    *)
FaultsServed ==
  \A m \in Managers : managers[m] # None =>
    Dispatch(managers[m].process, managers[m].slot, 0) = m

TailServed ==
  \A m \in Managers : managers[m] # None =>
    \/ Dispatch(managers[m].process, managers[m].slot, managers[m].capacity - 1) = m
    \/ destroyed[managers[m].process]

(* A version that was made can be opened: the block size is on disk when   *)
(* create() returns (posix_block_storage.cpp:313).                         *)
GranularityWritten == \A v \in Versions : made[v] = "once" => granularity >= 0

(* All regions of a datastore have its block size (the same place).        *)
BlockSizesAgree ==
  \A m \in Managers : managers[m] # None => managers[m].block_size = granularity

(* get_block_size() is the block size of the region (privateer.hpp:312).   *)
BlockSizeReported ==
  \A o \in Objects : vmm[o] # None => m_block_size[o] = managers[vmm[o]].block_size

(* Every region is closed when its object is destroyed (privateer.hpp:171).*)
EveryRegionHasObject ==
  \A m \in Managers : managers[m] # None => \E o \in Objects : vmm[o] = m
===============================================================================
