# Privateer in TLA+

A verification project for [Privateer](../src/README.md), a memory-mapped data
store: a *region* of virtual memory is cut into *blocks* of equal size, page
faults bring blocks in, and `msync()`, `snapshot()` and `close()` save them as
content-addressed files that the *versions* of the region share. Paths below are
relative to `src/`.

## 1. The system

| Component | Where | State | Operations |
|---|---|---|---|
| Facade `Privateer` | `include/privateer/privateer.hpp`, `src/privateer_c.cpp` | paths, block size, one manager | constructors, `create`, `open`, `open_read_only`, `open_immutable`, `msync`, `snapshot`, destructor |
| SIGACTION manager | `src/privateer/sigaction_virtual_memory_manager.cpp` | resident blocks, clean and dirty LRU lists, set of stashed blocks, hash of each block, page protections, path of the open version | fault handler, eviction, `msync`, `snapshot`, `close`, `update_metadata` |
| userfaultfd manager | `src/privateer/uffd_virtual_memory_manager.cpp`, `utility/UFFD.hpp`, `utility/event_queue.hpp` | the same per sub-region, an event queue per handler thread, one listener thread | handler threads, listener, `msync`, ... |
| Block storage | `src/privateer/posix_block_storage.cpp` | files named by their hash in up to two tiers, stash files, two tables | `store_block`, `stash_block`, `unstash_block`, `commit_stash_block`, `get_block_full_path` |
| Version metadata | `src/privateer/virtual_memory_manager_base.cpp` | a directory per version: `_metadata` (64 characters per block), `_blocks_path`, `_capacity` | `create_version_metadata` |
| Fault dispatch | `utility/sigsegv_handler_dispatcher.hpp`, `utility/UFFD.hpp` | process-wide maps from regions to managers; the signal action, or the userfaultfd with its count of users | add, remove, handler; `init_uffd`, `stop_uffd`, register, unregister |
| Factories, smartcache storage, utilities, legacy headers | see `PROJECT.json` | none that matters | |

How they interact. The application calls the facade, which makes one manager
and registers its region. A load or store to a protected page raises SIGSEGV;
the dispatcher finds the manager by address and calls its `handler()`. The
handler makes room (`evict_if_needed()`: drop the oldest clean block, or stash
the oldest dirty one with `stash_block()`), maps the block from its stash file or
from the file its hash names, and lists it as clean or dirty. `msync()` stores
every dirty block from parallel threads (`store_block()`), write-protects it,
commits every stash file (`commit_stash_block()`), and rewrites `_metadata`.
`snapshot()` does the same into a new version directory. Several processes share
a blocks directory: the test `PrivateerTest_Concurrent.ConcurrentWrite` opens one
version in each MPI rank with `open_immutable()`.

What is hard here:

- *Sequences.* The lists, the protections, the stash set, the storage's table of
  stash files and the hash of each block are five records of one fact, "where
  the latest contents of a block are", updated in different orders by the two
  fault paths, eviction and `msync()`.
- *Crashes.* Every I/O error is `exit(-1)`, so the process may die between any
  two file operations, and the files are what the next process starts from.
- *Interleaving.* `msync()` threads in one process, several processes on one
  datastore (its blocks directory, its `_granularity` file, a version that one makes
  while others open or copy it), and (userfaultfd) handler threads beside `msync()`.
- *Shared routing.* All objects of a process share one signal action or one
  userfaultfd and two maps, which each constructor and destructor changes.
- *Limits.* The memory limit, and a pwrite() that writes less than asked.

What makes each part correct:

- manager: a load returns what was last stored there, however the block
  travelled; a version holds what the region held when it was saved; nothing is
  ever evicted unsaved; no store escapes the dirty list; the memory limit holds;
- block storage: a returned hash names a whole file in permanent storage, now and
  later; a path leads to the block it is asked for;
- version metadata: a version that can be opened is complete, and its hashes name
  files that exist;
- facade: a name is made by one call only; a version that is whole stays whole and
  is changed by its holders alone;
- dispatch: a fault reaches the manager of its region;
- userfaultfd: every faulting thread is served, exactly once.

The hazards, with their lines, are in `PROJECT.json`, each with the properties of the
runs that reach it, or with the configuration that shows what goes wrong.

## 2. The modules

| Module | What it is |
|---|---|
| `RegionStore` | abstract: a region is an array only stores change; a version is a saved image |
| `SigactionVmm` | the SIGACTION manager, its version directories and its page protections |
| `LruLemmas` | lemmas about the sequence operators the lists and queues are built with |
| `SigactionVmmProofs` | the inductive invariant of `SigactionVmm`, the theorems that follow, and the proof that it implements `RegionStore` |
| `MCSigactionVmm` | small instances of it |
| `ContentStore` | abstract: whole files appear under their hash, in one step, for good |
| `BlockStorage` | `posix_block_storage`, file operation by file operation |
| `BlockStorageProofs` | its inductive invariant, the theorems that follow, and the proof that it implements `ContentStore` |
| `MCBlockStorage` | small instances of it |
| `EventQueue` | the operations of `utility::event_queue<fault_event>` |
| `UffdVmm` | the userfaultfd manager, its listener, and the kernel's side of userfaultfd |
| `UffdVmmProofs` | its inductive invariant, and the theorem that only stores change contents |
| `UffdVmmFaults` | for an application that keeps to what the tests do, with any memory limit: the theorems about evictions, the lists and what can fail |
| `UffdVmmQuiet` | for the same application with all its blocks within the limit: the theorems about `msync()` |
| `MCUffdVmm` | small instances of it |
| `Privateer` | the class `Privateer`: objects of several processes on one datastore, its version files, the routing of faults in both builds |
| `PrivateerProofs` | the inductive invariant of `Privateer` and the theorems about names and faults |
| `PrivateerVersions` | more of that invariant, and the theorems about what versions hold |
| `MCPrivateer` | small instances of it |

`Privateer` is the composition: it has several managers, in several processes, where
`SigactionVmm` and `UffdVmm` have one each, and keeps of a manager what others can
see of it: the files it writes, the addresses it takes, the faults it gets. What it
assumes of a manager (a save writes what the application sees; a read-only region
writes back what it read) is what `RangeDurable` and `ReadOnlyPreserves` say of
`SigactionVmm`.

The two halves of a manager meet in `ContentStore`: `SigactionVmm` stores a block in one step
(`AddBlockFile`), which is the step `ContentStore!Add`, and `BlockStorage` is
proved to implement `ContentStore` where the code does. Where it does not (a
second tier and a crash, compression with a second tier, short writes),
`SigactionVmm` says nothing either; section 4 says what happens then.

### SigactionVmm and the code

| Model | Code |
|---|---|
| `present_blocks`, `clean_lru`, `dirty_lru`, `stash_set`, `blocks_ids`, `m_version_metadata_path`, `m_read_only` | the fields of the same names (a block address is its index) |
| `stash_files` | `stash_block_ids` of the storage together with the files it names |
| `mem`, `prot` | the pages of the region and their protection (`mprotect`, `mmap`) |
| `block_files`, `metadata`, `files` | what is on disk |
| `pc`, `op`, `todo`, ... | where the public call under way is, and the blocks its parallel loop still has to do |
| `Create`, `WriteVersionFile`, `MapRegion` | the create constructor and `create_version_metadata()`, file by file |
| `Open` | the open constructor, read-only or not |
| `Store` | a store instruction that does not fault |
| `PresentWriteFault`, `AbsentFault`, `ReadOnlyWriteFault` | `handler()` with `evict_if_needed()` in it |
| `Msync`, `Close`, `Snapshot` then `StoreBlock`\*, `ClearDirty`, `CommitStashBlock`\*, `UpdateMetadata`, and `Unmap` or `WriteVersionFile`\* | `msync()`, `close()`, `snapshot()` |
| `Crash` | the end of the process between any two of these steps |

Abstractions, all of them:

- One application thread: `test/PrivateerTest.cpp:319` skips its threaded test
  with "SIGACTION mode does not support multi-threaded access." The parallel
  loops of `msync()` are kept, as blocks done in any order.
- One process at a time, one region per process. What several managers do to one
  version directory is in `Privateer`.
- Contents are abstract values, SHA-256 an injection that never yields the string
  of zeros (`HashAssumption`).
- A version's `_metadata` has an entry for every block; an entry past the end of
  the real file is read back as `EMPTY_BLOCK_HASH`, which is what the model holds
  there. A rewrite of `_metadata` (one `pwrite` from the start) is one step, and so
  is the `mkdir` with the empty `_metadata` at the start of `snapshot()`.
- A process dies, the machine does not: what was written stays written (the code
  never calls `fsync`).
- Stash files a dead process leaves behind have random names and are never
  looked at again; the model forgets them.
- A single tier, no compression: see `BlockStorage` for the rest.

### BlockStorage and the code

| Model | Code |
|---|---|
| `final_files` | per tier, the files named by their hash |
| `stash_block_ids`, `stash_files`, `stash_committed_block_ids` | the two tables and the stash files |
| `blocks_ids`, `returned` | the hashes the managers hold, and all that were ever returned (what `_metadata` files may contain) |
| `job` | per thread: the call it is in, its buffer, its temporary file |
| `StoreBlock`, `CreateTemp`, `WriteTemp`, `RenameTemp`/`RemoveTemp`, `InsertCommitted` | `store_block()`: the inner one once per tier |
| `StashBlock`, `UnstashBlock` | one step each: their files are private to the process |
| `CommitStashBlock`, `MoveStash`, the inner store, `EraseStash` | `commit_stash_block()` |
| `GetBlockFullPath`, `StartCopy`, `FinishCopy`, `UsePath` | `get_block_full_path()`, `copy_to_stash()`, `fs::copy`, the handler's `open` |
| `Restart` | the end of a process and the start of another, which opens any version |

Which calls may overlap comes from the callers: in one process, only the
`store_block()` calls of `msync()` do, for different blocks
(`sigaction_virtual_memory_manager.cpp:259`); commits hold `sig_handler_mutex`.
Between processes everything overlaps. The unlocked `insert` into a `std::map`
(`posix_block_storage.cpp:46`) is undefined behaviour when two threads do it at
once: any of the entries may be lost, or the process dies. A failed system call
ends the caller, which is a `Restart`; a short write of a *stash* file is not
modelled.

### UffdVmm and the code

| Model | Code |
|---|---|
| `acc`, `blocked`, `uffd` | per application thread the load or store it is making and the fault it sleeps on; the kernel's unread messages |
| `mapped`, `mem`, `registered` | page tables and contents, the registration with userfaultfd |
| `listener` | `UFFD::handler()`: `Poll`, `Read` and `Dispatch` are the three places where it stands, `m_events` what it has read |
| `events_queues`, `handlers` | a queue (`m_queue`, `m_processing`) and a handler thread per sub-region |
| `present_blocks`, `clean_lru`, `dirty_lru`, `stash_set` | the fields of that name, one of each per sub-region |
| `pc`, `op`, `sync` | the public call under way: `sync` has its sub-region, the blocks still to do, and those that are stored but not yet write-protected |
| `Dequeue`, `SkipPresent` | the top of `handler()` |
| `HandleWp`, `Unprotect`, `RemoveProcessed` | its write-protect branch |
| `HandleAbsent`, `Copy`, `Enlist`, `Wake` | its missing-page branch |
| `StartMsync`, `StartSnapshot`, `StoreBlock`, `ProtectBlock`, `ClearDirty`, `CommitBlock`, `EndSubRegion` | `msync()` and `snapshot()`, sub-region by sub-region |
| `UnregisterRegion`, `JoinListener`, the same, `Unmap`, `JoinHandlers` | `~Privateer()` and `close()` |

What the kernel does is external and modelled from how the code relies on it: a
faulting thread sleeps and posts a message; waking a range resumes its threads
and takes back their unread messages; `UFFDIO_COPY` fails on pages that are
there and `UFFDIO_WRITEPROTECT` on a region that is not registered;
`UFFDIO_WRITEPROTECT` without protection also wakes; `mmap()` without `MAP_FIXED`
at an occupied address maps elsewhere. An `exit(-1)` of any thread is `Exit`,
after which another process may open the version. Every `exit(-1)` that a failure
of the manager's own making can reach is a disjunct of its action.

Abstracted: the pages of a block share one value; an id is the contents it names,
a storage call one step, a version the contents its `_metadata` names (the other
modules open these up). A handler's updates of two lists are one step, as are
`msync()`'s reading of a block and its hashing of it: a data race *inside* a
container or a block adds worse outcomes than the runs show, not better ones.
This mode calls members that `virtual_memory_manager_base` does not declare
(`utility/UFFD.hpp` calls `set_uffd` and `add_page_fault_event_all` through the base
class), so it is modelled from the source and cannot be built as it stands.

### Privateer and the code

| Model | Code |
|---|---|
| `base_dir`, `granularity` | the base directory; `blocks/` and its `_granularity` file |
| `version_dir`, `metadata`, `blocks_path`, `capacity` | per version, its directory and three files |
| `pc`, `call` | where the call of each process is, and what it has read or been given |
| `m_block_size`, `vmm`, `managers` | the fields of the objects, and the heap |
| `mapped` | the addresses that are taken |
| `regions`, `region_managers` | the two maps of the dispatcher, or of `UFFD` |
| `action`; `m_uffd`, `num_handlers` | what a SIGSEGV does; the userfaultfd with its listener, and who uses it |
| `destroyed`, `made`, `deaths` | history and a bound |
| `Construct`, `ConstructWithStash`, `ConstructOpen`, `InitBlockSize` | the constructors, `init_block_size()` |
| `Create`, `MakeDir`, `CreateMetadata`, `TruncateBlocksPath`, `WriteBlocksPath`, `WriteCapacity`, `FindBlocks`, `MakeBlocks`, `TruncateGranularity`, `WriteGranularity`, `MapCreated` | `create()`: `create_version_metadata()`, `posix_block_storage::create()`, the region |
| `Open`, `OpenBlocksPath`, `OpenGranularity`, `OpenMetadata`, `OpenCapacity` | `open()`, `open_read_only()`: a file per step |
| `OpenImmutable`, `MakeDir`, `CopyMetadata`, `CopyCapacity`, `CopyBlocksPath`, then the same | `open_immutable()` |
| `Snapshot`, `MakeDir`, `SnapshotMetadata`, `SnapshotMsync`, then the files of `create()` | `snapshot()` |
| `Access`, `Msync`, `Destroy` | a load or store; `msync()`; `~Privateer()` with `close()` |
| `MapRegion`, `AddRegion`, `RemoveRegion`, `InstallHandler`, `RemoveHandler`, `Dispatch` | the region, the maps, the handler, and who gets a fault |
| `Exit`, `Crash` | the process ends by its own doing, or dies |

Abstractions:

- A region's contents are one value, and so are the hashes in a `_metadata`:
  which blocks a save covers is the subject of the other modules. Everything fits
  in memory. A file is a number, or is missing, or is `Truncated` from the opening
  of its stream to the closing.
- A slot is a range of addresses large enough for a region. `addr` is null; when
  `mmap()` finds no range the process ends.
- A call is one step but for the files it makes or reads and, in `snapshot()`, the
  `msync()`. `copy_file()` is one step.
- One call per process at a time: the SIGACTION build supports one thread, and two
  objects used by two threads of a userfaultfd process are left out.
- `~Privateer()` sets a `struct sigaction` whose `sa_handler` it has not
  initialised, with `SA_RESETHAND` and without `SA_SIGINFO`. What is there by chance
  may be the dispatcher's handler (`"once"`) or anything else (`"garbage"`); the
  model takes either.
- The stash directory is private to a process and left out. `msync()` and the
  destructor of an object without a region use a pointer nobody has set; they are
  not called.

## 3. The runs

`CHECK_DEADLOCK` is off only in runs of `UffdVmm` in which threads may wait for ever
(section 4 says why): those that call `msync()`, and the ones that look for it.
The other modules need no fairness: nothing in them waits for another thread or process.
`UffdVmm` assumes weak fairness of the listener, of each handler thread, of the
thread in a public call and of each thread that has begun an access: each is an
OS thread that is runnable when its step is enabled, and waits for nothing else.
Beginning an access or a call is never fair.

| Run | Instance | Shows |
|---|---|---|
| `vmm_evict` | 2 blocks, 1 fits; 3 values; 2 versions | everything below but `MsyncDurable`, with every eviction, stash, snapshot, crash and reopening |
| `vmm_roomy` | 2 blocks, both fit | `msync()` and `close()` save the whole region as long as nothing is evicted |
| `vmm_snapshot_reopened` | 2 blocks, both fit | violation of `SnapshotComplete` |
| `storage_shared` | 3 processes, 1 block, 2 values, crashes, single tier | the base tier is a `ContentStore`; returned hashes are stored |
| `storage_threads` | 1 process, 3 threads, 3 blocks, 2 values, two tiers | the same with parallel stores and the second tier; paths lead to whole files |
| `storage_commit_crash` | 1 process, two tiers, crashes | violation of `ReturnedIsStored` |
| `uffd_msync` | 2 threads, a block and a handler thread each; 2 versions; `msync()`, `snapshot()`, destructor | every store is on record, `msync()` saves the region, also what a snapshot took off the dirty list, and the destructor of an object with nothing left to save returns |
| `uffd_evict` | 2 threads, 3 blocks of which 1 fits | every access completes; no call fails; the lists hold each present block once |
| `uffd_contention` | 2 threads, 2 blocks of which 1 fits, one block shared; `msync()` | only stores change contents, in any order of faults, stale events, evictions and commits; whoever waits for a block to come in is woken |
| `uffd_shared_block` | 2 threads, 1 block of 2 pages | violation of `AccessCompletes` |
| `uffd_close_dirty` | 1 thread, 1 page; destructor | violation of `CloseSaves` |
| `facade` | 2 processes, one of each build; 3 objects, 2 versions, 2 regions, 1 death | names are made once, versions stay whole and change by their holders only, faults reach their manager |

More configurations stand beside the ones of the runs, to be used by hand
(`tlc -config MCUffdVmm_woken_unread.cfg MCUffdVmm`). Five add size, calls or a build
option and find nothing: `MCSigactionVmm_lru` (3 blocks of which 2 fit: lists with an
order, clean before dirty), `MCBlockStorage_compressed` (two processes, crashes,
compression), `MCUffdVmm_stash` (3 blocks of which 1 fits, `msync()`: the stash is
committed in step with its files), `MCUffdVmm_stores_beside_msync` (two threads on
one block store during `msync()`) and `MCPrivateer_openers` (the first process also
overwrites, the second opens for writing; 4.5 million states). The others give further
counterexamples, which section 4 describes.

The properties (each is stated in words above its definition):

- `LruPartition`, `MemoryBound`: the lists split the resident blocks; the limit holds.
- `WriteBarrier`: a block is writable exactly while it is on record as unsaved.
- `StashCurrent`: no stash file is older than memory; manager and storage agree.
- `MetadataBacked`: at any moment every hash in a `_metadata` names a file.
- `CleanIsDisposable`: what eviction discards is saved.
- `RangeDurable`, `MsyncDurable`, `SnapshotComplete`: what a save writes is what
  the application sees: for the blocks that get an entry, for all blocks, and for
  all blocks of a snapshot.
- `ReadOnlyPreserves`: a region opened read-only leaves its version as it was.
- `ImplementsRegionStore`, `ImplementsContentStore`: the refinements.
- `ReturnedIsStored`, `PathsResolve`, `StashBacked`: the storage's promises.
- of `UffdVmm`: `WriteBarrier` and `MsyncDurable` as above; `CleanSaved`: what is clean
  is saved; `ResidentListed`: the lists hold each present block once (and may hold
  blocks that are not present: section 4);
  `OnlyStoresChange`: no step of the manager changes what a load returns;
  `NeverExits`: no call fails by the manager's own doing; `CloseSaves`;
  `AccessCompletes`: every access ends; `MissingServed`: every thread that waits for a
  block to come in is woken, also one whose message was dropped as a duplicate or taken
  back unread, or the process ends; `CloseCompletes`: `~Privateer()` returns, with every
  thread stopped, if there is nothing left to save. With a dirty block it ends the
  process instead (`uffd_close_dirty`), which does not count as returning.
- of `Privateer`: `MadeOnce`: of the `create()` and `open_immutable()` calls for one name
  at most one returns; `StaysWhole`: a version whose files are all there stays so at
  every moment, through all calls and deaths and also while others race for its name,
  but for a `create()` that may overwrite. Not yet whole is one that a call which has
  won the name is still to write, that a `snapshot()` is under way to, or whose
  datastore's `_granularity` a first `create()` is making;
  `SavedOnlyByHolders`: what a version holds is changed by the objects that opened or
  made it and by the snapshot that makes it, and a read-only one puts back only what
  it has read; `FaultsReachOwner`: a fault reaches the manager of its region, and no map
  entry leads to a closed manager or to another region's. In the userfaultfd build that
  is asked of every address, always; in the SIGACTION build up to the first address of
  the last block (`MCPrivateer_region_tail`) and not between the destruction of an object
  and the next `create()` or `open()` (`MCPrivateer_reset_handler`). Regions of three
  units with blocks of two (`Sizes`) have a last block that is not whole.

Why the bounds are enough. A hazard of the manager involves one block that moves
and at most one other that pushes it out or hides it from `_metadata`: two blocks,
one frame. Three values tell the last two stores to a block apart from each other
and from zeros. A third block is needed only for lists with an order, which
`MCSigactionVmm_lru` has. Two versions are the one that is open and the one being made; the
versions are interchangeable, hence the symmetry. What is proved (section 5)
holds for all values anyway. In the storage, two processes suffice for
every race on one file name (three are checked), and 2 values for telling
right contents from wrong. There are no counters to bound.

In `UffdVmm` a lost wake-up takes one page that is faulted on twice, or two pages of
one block; a lost store takes one block; two sub-regions and two blocks are the
least at which the per-sub-region metadata can go wrong; three blocks and one frame
make a victim that is itself faulted in again. In `uffd_msync` the second thread stores
only ones (`Stores`), which keeps the run short; the first stores any of the values, so
that a block is also overwritten after a save. `clean_lru` really does grow without
limit with two handler threads (`uffd_virtual_memory_manager.cpp:295` files every
clean block in the first list, while the handler of the second sub-region removes it
from its own): `MaxListed` bounds the calls of `msync()` by its length. In the passing
runs `msync()` is called while no thread is in the region and threads do not share
blocks, except in `uffd_contention`, where the second thread uses the first one's block
too: the violations show what happens otherwise.

In `Privateer` two processes are enough for every race on a file, and the second build
in one of them keeps both routings in one run: each has its own variables, and the
files do not know the build. The process with two objects is the userfaultfd one, so
that `num_handlers` reaches two; the SIGACTION one gets its second object by
destroying the first. Two versions are a source and a copy, or a region and its
snapshot; two managers and two slots (`Room`, `Slots`) are what two live regions need,
and with fewer slots `mmap()` fails. One death (`MaxDeaths`) leaves one unfinished
thing behind, which the calls after it meet. `MakersAndCopier` says who makes which
calls (`Calls`); all calls by everybody is too large, so `MCPrivateer_openers` has the rest.

Each property of a passing run has a mutant in `PROJECT.json`: a definition of the
module marked "seeded fault", which, put in the place of the one after it, makes
TLC find that property violated.

## 4. What disagrees with the code's documentation

Of each disagreement that a run shows, `PROJECT.json` quotes the line.

- `vmm_snapshot_reopened`: `snapshot()` starts an empty `_metadata`, and
  `update_metadata()` writes entries only up to the highest *resident* block, so
  that a snapshot of a reopened region lacks the blocks above the highest one
  touched since.
- `storage_commit_crash`: with two tiers, `commit_stash_block()` returns early when
  the *stash* tier has the file, without the base tier having it.
- `uffd_shared_block`: two threads read, then write, different pages of one block.
  The second's fault is skipped because the block has come in, but its address
  stays in `m_processing`; its next write-protect fault there is dropped. The
  threaded tests are written for this mode (`test/PrivateerTest.cpp:319`).
- `uffd_close_dirty`: `~Privateer()` unregisters the region first, so that `close()`
  exits on the first dirty block it write-protects.

The configurations outside the runs show more of the kind:

- `MCSigactionVmm_msync_evicted` (`MsyncDurable`): the same lines of
  `update_metadata()`. Fault in block 1 (store), then block 0: block 1 is stashed,
  and `msync()` commits it but writes one entry.
- `MCBlockStorage_compressed_path` (`PathsResolve`): with two tiers and compression a
  commit bypasses the stash tier, but the table keyed by block index says the block
  is there.
- `MCBlockStorage_short_write` (`ReturnedIsStored`): a short `pwrite()` is renamed into
  place.
- `MCBlockStorage_torn_copy` (`PathsResolve`): a copy into the stash tier is visible
  while it is made.
- `MCUffdVmm_store_after_msync` (`AccessCompletes`): one thread writes, calls `msync()`
  and writes again, while the handler thread has not yet removed the first event
  from `m_processing`.
- `MCUffdVmm_woken_unread` (`NeverExits`): a wake-up takes an unread message back after
  `poll()` has announced it; the non-blocking `read()` fails and the process exits.
- `MCUffdVmm_store_during_msync` (`CleanSaved`): a store between storing a block and
  protecting it.
- `MCUffdVmm_msync_evicted` (`MsyncDurable`): eviction without `MAP_FIXED` evicts
  nothing; an evicted dirty block takes stores that are on no list.
- `MCUffdVmm_limit` (`MemoryBound`): a single thread with three blocks of which one fits.
  An evicted block keeps its pages; a store to them lists it as dirty while it is not
  present, and the next eviction takes it: two blocks are present afterwards.
- `MCUffdVmm_early_ids` (`SavesCurrent`): with two handler threads, `msync(0)` writes the
  ids of all blocks up to its highest one (`uffd_virtual_memory_manager.cpp:607`), also
  of blocks whose sub-region is still to be saved. If an earlier `snapshot()` stored
  such a block, the version gets contents that are neither what it held nor what the
  application reads; `msync(1)` puts it right unless the process dies between the two.
- `MCUffdVmm_late_removal` (`AccessCompletes`): threads with a block each, all of them
  fitting, `msync()` called while nobody is in the region. The handler wakes a thread
  (`uffd_virtual_memory_manager.cpp:426`) before it takes the event out of
  `m_processing` (line 435); the thread's next write-protect fault, after an
  `msync()`, is dropped as a duplicate if it comes before that.
- `MCPrivateer_read_only` (`ReadOnlyPreserves`): `msync()` of a region opened read-only
  writes the hashes it has read back over those a writer has saved since.
- `MCPrivateer_reset_handler` (`FaultsServed`): in the SIGACTION build the destructor of
  one object takes the handler away from all others.
- `MCPrivateer_region_tail` (`TailServed`): `create()` tells the dispatcher the size asked
  for, not the size in whole blocks (`privateer.hpp:190`); a fault in the rest of the
  last block is "out of range".
- `MCPrivateer_granularity_crash` (`GranularityWritten`): a death between making `blocks/`
  and writing `_granularity`; every later `create()` succeeds, and no `open()` does.
- `MCPrivateer_two_block_sizes` (`BlockSizesAgree`): a `create()` with another
  `PRIVATEER_BLOCK_SIZE` in the same datastore leaves the old `_granularity`.
- `MCPrivateer_block_size_reported` (`BlockSizeReported`): `get_block_size()` is 0 after
  OPEN and after the constructor with a stash path, where `create()` then divides by it.
- `MCPrivateer_forgotten_manager` (`EveryRegionHasObject`): the second `create()` or
  `open()` of one object leaks its first manager, which nobody will close.

## 5. What is proved

`SigactionVmmProofs` proves, for every number of blocks, memory limit, value set and
set of versions, under `SizeAssumption`, `ValueAssumption` and `HashAssumption` of
`SigactionVmm`, that `TypeOK`, `LruPartition`, `MemoryBound`, `WriteBarrier`,
`StashCurrent`, `MetadataBacked` and `CleanIsDisposable` are invariants of `Spec` and
that `RangeDurable` and `ReadOnlyPreserves` hold of every step. Under one more
assumption, that all blocks fit within the memory limit, so does `MsyncDurable`; where
they do not fit it is false (`MCSigactionVmm_msync_evicted`). At its end the module
proves `Implements == Spec => ImplementsRegionStore`.

The argument. None of the invariants is inductive alone. `IInv` joins them in three
groups with what they lean on:

- `ListInv`: `LruPartition`, `MemoryBound`, `WriteBarrier`.
  Eviction takes the last element of a list: `LruPartition` makes it a resident
  block, and `EvictionFindsVictim` shows that the clean and the dirty list are not
  both empty at the limit, because `ready` means that nothing is unsaved but the
  dirty list.
- `DataInv`: `StashCurrent`, `MetadataBacked`, `CleanIsDisposable`, and
  `ContentAddressed` (a file under hash *h* has contents of hash *h*) with
  `IdsBacked` (each id a manager holds names a file). `StoreBlock` keeps an existing
  file of the same hash, so that "clean equals saved" needs the injectivity of the hash.
- `ControlInv`: what the fields of the call are at each `pc` (`CallState`), which
  path is which while `snapshot()` borrows it (`VersionPaths`), which files an
  unfinished version has (`VersionFiles`), that nothing is left of a region when
  none is mapped (`NoRegionState`), and that a read-only region's ids are its
  version's (`ReadOnlyClean`).

`MsyncDurable` takes one invariant more. `update_metadata()` writes an entry for each
block up to the highest *present* one, so that the entries it leaves alone must already
be right. `AbsentUntouched` says so: without evictions an absent block of an open region
is one that nobody has touched since the region was mapped, and its entry is its hash.

Each action has a lemma that it preserves `IInv`; `NextInv` puts them together and
`Inductive` is `Spec => []IInv`. `LruLemmas` says what `Cons`, `Front`, `Last` and
`RemoveFirst` do to the set of elements and to injectivity of a sequence.

The refinement maps a region to what loads would return (`Contents`: memory when
resident, the backing file otherwise) and a version to what its hashes name. The
faults, evictions and steps of `msync()` map to stutters because of
`CleanIsDisposable` and `StashCurrent`; `UpdateMetadata` maps to `Commit` because of
`ReadOnlyClean` and `RangeDurable`; `Crash` and `Unmap` to `Stop`. `RegionStore`
allows `StartSnapshot` to make a version openable at once, because `snapshot()` also
accepts a directory that a dead `create(..., overwrite)` left with `_blocks_path` and
`_capacity` but no `_metadata`: the unfinished snapshot can then be opened.

`BlockStorageProofs` proves, for any processes, threads, blocks and contents, under
`HashAssumption` and `ProcessAssumption` of `BlockStorage`:

- for every setting, `TypeOK` and `StashBacked`. They follow from `ControlInv`: each
  worker is where its call can be (`JobState`), only calls of `store_block()` overlap
  in a process (`Alone`), and a block counts as stashed while it has a stash file or is
  being committed, with the file unchanged until `MoveStash` (`StashInv`);
- under `SafeSettings`, `ReturnedIsStored`, `ImplementsContentStore`, and, without
  compression in a second tier, `PathsResolve`. `SafeSettings` excludes short writes
  and, if there is a second tier, several processes and deaths in a call. It leaves any
  number of processes and deaths with one tier, and any number of threads with two.
  It is not stronger than it has to be: `MCBlockStorage_short_write`,
  `storage_commit_crash` and `MCBlockStorage_torn_copy` are the three exclusions put
  back, each with its counterexample, and so is `MCBlockStorage_compressed_path`.

The second part needs an account of every file (`DataInv`). A final file is whole, or
is in the stash tier and being copied (`FilesInv`); a file of the stash tier is in the
base tier or on its way there (`TiersInv`); a returned hash has its file, and a
manager's table holds returned hashes only (`HashesInv`); a block entered in
`stash_committed_block_ids` is there (`KnownInv`); and each call has achieved what its
place says (`WorkersInv`). `TiersInv` is the heart: `commit_stash_block()` drops the
stash file when the *first* tier has the hash, and only because a quiet process can
have nothing on its way does that mean that the base tier has it (`QuietTiers`). The
induction is on `IInv == ControlInv /\ (SafeSettings => DataInv)`. In the refinement,
a `RenameTemp` in the base tier, and a `MoveStash` with one tier, is `Add`; a return is
`Return`; the rest are stutters.

`PrivateerProofs` and `PrivateerVersions` prove, for any processes, objects, versions,
managers, regions and number of deaths, and any mix of the two builds, under
`PrivateerAssumption`: `TypeOK`, `MadeOnce`, `FaultsReachOwner`, `StaysWhole` and
`SavedOnlyByHolders`. `IInv` joins

- `CallState`: a call is where its kind can be, with what it needs there;
- `MakersInv`, for `MadeOnce`: of the calls that make one name, one is past its
  exclusive step (the `O_EXCL` open of `_metadata`, or the copy that must not find one);
- `ObjectsInv`, `RegionsInv`, `HandlersInv` and `CapacityInv`, for `FaultsReachOwner`: each
  manager belongs to one object, owns its addresses and both its map entries, no region
  is empty, the handler is installed, and `num_handlers` counts the live managers.
  `RoutesInv` adds that what the map has been told covers the region, all of it or all
  but the end of its last block (`Covers`), which takes what each call knows of block
  size and capacity on its way (`CallKnows`), and that an entry leads to the owner of
  its region only;

and `VInv` adds `DirectoriesInv` (a name with a `_metadata` has a directory, so that
whoever makes a directory cannot be rewriting a whole version) and `HoldersInv` (a
manager's path is its own version's except while `snapshot()` has borrowed it, when it
is the snapshot's; a read-only manager is never dirty and has the hashes it has read).

`UffdVmmProofs` proves `TypeOK` and `OnlyStoresChange` of `UffdVmm`, under
`UffdAssumption` and `NoneAssumption` alone: for any threads, blocks, pages, limits and
numbers of handler and `msync()` threads, whatever blocks the application threads share
and whenever they call. `IInv` joins `TypeOK` with `EventsInv` (a queued thread is
suspended, a busy handler thread holds an event of the region), `CallInv` (where a call
can be, and that its version exists) and `MappedInv`. The last carries
`OnlyStoresChange`: a block that is missing is read from its stash file or the file of
its id, so whoever writes `blocks_ids` or a stash file must find the block mapped, or
write what is there already. `MappedInv` says so of everything that names a block: the
dirty lists, the entries of the `msync()` under way, and a write-protect fault wherever
it is, suspended thread, listener, queue or handler thread. It holds because no page of
a living region ever goes away, because eviction maps without `MAP_FIXED` (section 4).
`Without`, the removal from a list, is a recursive function; `WithoutElements` proves
what it returns from the smallest length at which it would not (`SmallestExists`).

The other theorems about `UffdVmm` are about an application as `test/PrivateerTest.cpp`
has it, `OwnSettings`: `msync()`, `snapshot()` and the destructor are called while no
thread is in the region (`Quiet`), and no two threads use one block. The numbers of
threads, blocks, pages and values, the memory limit, and the number of handler and
`msync()` threads are any. Both parts are needed: `MCUffdVmm_store_during_msync` calls
beside a store, and `MCUffdVmm_woken_unread` shares a block.

| Theorem | Module | Assumes besides `OwnSettings` |
|---|---|---|
| `CleanSavedCorrect` | `UffdVmmFaults` | nothing: blocks may be evicted, stashed and committed |
| `ResidentListedCorrect` | `UffdVmmFaults` | `OneList` |
| `NeverExitsCorrect` | `UffdVmmFaults` | `OneList`, or that all blocks fit; and no destructor |
| `WriteBarrierCorrect`, `MsyncDurableCorrect` | `UffdVmmQuiet` | that all blocks fit |

`OneList` is one handler thread, or no `msync()` and no `snapshot()`: with more threads
these file the saved blocks of every sub-region in the first clean list
(`uffd_virtual_memory_manager.cpp:295`), so that the lists no longer partition what is
present, and a sub-region at its limit can be without a victim. The destructor is
excluded because its `ioctl` on a region that is no longer registered fails
(`uffd_close_dirty`). That all blocks fit is needed for `msync()` because an evicted
dirty block keeps its pages and takes stores that are on no list
(`MCUffdVmm_msync_evicted`). `uffd_msync` and `uffd_evict` are instances of these settings.

The argument is where messages are. A waiting thread has its message in at most one
place, once (`OnceInv`: the kernel, the listener, the queue or the handler thread of its
sub-region), and every message is of a thread that waits (`OwnersInv`). As no two threads
wait for one block, a wake-up resumes the thread whose fault was handled and takes no
unread message with it, and a fault stays what it was until its handler thread has it
(`WaitersInv`): nothing is done on stale grounds (`PlacesInv`). `BooksInv` is then what
survives evictions:

- `RecordsInv`: a block on a dirty list is writable, or about to be, or just saved, so
  that no write-protect fault can put it there twice; one that was stashed keeps its
  pages, writable and on no dirty list, so that no further fault on it can happen;
- `StashInv`: there is a stash file exactly for the blocks that are stashed and not yet
  committed, so that no `commit_stash_block()` is without its file;
- `CleanSaved` itself;
- `ListedInv`, under `OneList`: a present block is in the clean or the dirty list, and in
  both only between `msync()`'s listing it as clean and its emptying the dirty list. At
  the limit a sub-region has present blocks, hence a list with a last element:
  eviction finds a victim, though maybe one that is not present and frees nothing.

When `msync()` begins no thread waits, so that nothing is on its way to a dirty list and
the list is all there is to save; `SyncInv` says how far it has come. Unregistering the
region removes the protection from every page, and what then holds is `ClosingInv`;
`QInv` is one or the other. `UffdVmmQuiet` adds `FitsInv`: nothing is stashed and what has
pages is present (`RoomInv`), and `_metadata` lacks only the ids of present blocks whose
sub-region is yet to be done (`VersionInv`), also after a `snapshot()` has written them to
the other version; and a writable block is on record (`BarrierInv`).

So every invariant, every action property and every refinement that a passing run
checks is also a theorem, most of them for all settings, the ones of `BlockStorage` and
`UffdVmm` for the settings named above. Only model-checked are the liveness properties
`AccessCompletes`, `MissingServed` and `CloseCompletes`: liveness under fairness and
`ENABLED` are out of the prover's reach. The refuted properties of section 4 stay with TLC, of course.

## 6. Not modelled, and the plan

In order:

1. `UffdVmm`: several regions behind one listener (the walk of the region map beside a
   registration, `init_uffd` beside `stop_uffd`); read-only regions. It does not
   implement `RegionStore`, not even for a quiet application with all blocks in memory:
   `MCUffdVmm_early_ids` is a commit that `RegionStore` does not allow. `MsyncDurable`
   and `OnlyStoresChange` are what is left of it.
2. Two threads of one process in `Privateer`: calls that overlap in the dispatcher,
   which holds a different mutex in each of its functions.
3. A threaded variant of `SigactionVmm`, to say what the documented restriction
   protects.

Left out for good: the smartcache storage (a placeholder), the factories and the C
API (no state), the legacy headers `virtual_memory_manager.hpp` and
`block_storage.hpp` (superseded, built by nothing), pagemap reading and logging.
