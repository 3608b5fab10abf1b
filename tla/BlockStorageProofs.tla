--------------------------- MODULE BlockStorageProofs ---------------------------
(***************************************************************************)
(* Proofs about BlockStorage, for any processes, threads, blocks and       *)
(* contents.                                                               *)
(*                                                                         *)
(* That types and stash files are right needs no more than who may be in   *)
(* which call at once (ControlInv).  That a returned hash has its file     *)
(* holds under SafeSettings only, and needs an account of every file: what *)
(* has a final name is whole, and what is in the stash tier is in the base *)
(* tier or on its way there (DataInv).                                     *)
(***************************************************************************)
EXTENDS BlockStorage, TLAPS

(* No short writes; with a second tier, one process, which does not die in *)
(* a call.  MCBlockStorage_short_write, _commit_crash and _torn_copy show  *)
(* what happens otherwise.                                                 *)
SafeSettings ==
  /\ ~ShortWrites
  /\ MultiTiered => ~MayCrash /\ \A w, x \in Workers : process[w] = process[x]

inner_places == {"temp", "write", "rename", "remove"}

(* Each worker is where its call can be. *)
JobState ==
  \A w \in Workers : job[w] # Idle =>
    /\ job[w].block_index \in Blocks /\ job[w].buffer \in Values
    /\ job[w].op \in {"store_block", "commit_stash_block", "get_block_full_path"}
    /\ job[w].op = "store_block" => job[w].pc \in inner_places \cup {"insert"}
    /\ job[w].op = "commit_stash_block" =>
         job[w].pc \in inner_places \cup {"move", "drop", "erase"} /\ job[w].tier = "base"
    /\ job[w].op = "get_block_full_path" =>
         job[w].pc \in {"copy", "copying", "found"} /\ job[w].tier = FirstTier
    /\ job[w].pc \in {"copy", "copying"} => MultiTiered
    /\ ~MultiTiered => job[w].tier = "base"

(* Only calls of store_block() overlap in a process. *)
Alone ==
  \A w, x \in Workers :
    process[w] = process[x] /\ w # x /\ job[w] # Idle /\ job[x] # Idle
      => job[w].op = "store_block"

(* A block counts as stashed while it has a stash file or is committed. *)
Commits(p, b) ==
  \E w \in Workers :
    process[w] = p /\ job[w].op = "commit_stash_block" /\ job[w].block_index = b

StashInv ==
  /\ \A p \in Processes, b \in Blocks :
       b \in stash_block_ids[p] <=> stash_files[p][b] # None \/ Commits(p, b)
  /\ \A w \in Workers : job[w].pc = "move" =>
       stash_files[process[w]][job[w].block_index] = job[w].buffer

ControlInv == TypeOK /\ JobState /\ Alone /\ StashInv

Copying(h) == \E w \in Workers : job[w].pc = "copying" /\ block_hash(w) = h
OnItsWay(h) ==
  \E w \in Workers : job[w].pc \in inner_places /\ job[w].tier = "base" /\ block_hash(w) = h

(* What has a final name has the contents its name says, unless it is      *)
(* being copied; the files of the stash tier are, or will be, in the base  *)
(* tier.                                                                   *)
FilesInv ==
  \A t \in Tiers, h \in Hashes : FileExists(t, h) =>
    \/ final_files[t][h] \in Values /\ compute_hash[final_files[t][h]] = h
    \/ t = "stash" /\ Copying(h)

TiersInv == MultiTiered =>
  \A h \in Hashes : FileExists("stash", h) => FileExists("base", h) \/ OnItsWay(h)

HashesInv ==
  /\ \A h \in returned : FileExists("base", h)
  /\ \A p \in Processes, b \in Blocks : blocks_ids[p][b] \in returned \cup {None}

(* A block that is known to be in the stash tier is there. *)
KnownInv == MultiTiered /\ ~UseCompression =>
  \A p \in Processes : \A b \in stash_committed_block_ids[p] :
    blocks_ids[p][b] # None => FileExists("stash", blocks_ids[p][b])

(* What a call has achieved at each place. *)
Stored(w) ==
  /\ job[w].pc = "rename" => job[w].temporary_file = job[w].buffer
  /\ job[w].pc = "remove" => FileExists(job[w].tier, block_hash(w))
  /\ job[w].pc \in {"insert", "erase", "drop", "copying"} => FileExists("base", block_hash(w))

InStash(w) == MultiTiered /\ ~UseCompression =>
  /\ job[w].op = "store_block" /\ (job[w].tier = "base" \/ job[w].pc = "insert")
       => FileExists("stash", block_hash(w))
  /\ job[w].op = "commit_stash_block" /\ job[w].pc # "move" => FileExists("stash", block_hash(w))

PathFound(w) == job[w].op = "get_block_full_path" =>
  /\ blocks_ids[process[w]][job[w].block_index] = block_hash(w)
  /\ job[w].pc = "found" /\ ~(MultiTiered /\ UseCompression) =>
       FileExists(FirstTier, block_hash(w))

WorkersInv == \A w \in Workers : Stored(w) /\ InStash(w) /\ PathFound(w)

DataInv == FilesInv /\ TiersInv /\ HashesInv /\ KnownInv /\ WorkersInv

IInv == ControlInv /\ (SafeSettings => DataInv)

-------------------------------------------------------------------------------
(* The workers. *)

LEMMA IdleJob == Idle \in Job /\ Idle.op = "none" /\ Idle.pc = "idle"
BY DEF Idle, Job, Contents, Tiers

(* A worker begins a call: store_block() beside others, the rest alone. *)
LEMMA BeginControl ==
  ASSUME ControlInv, NEW w \in Workers, job[w] = Idle, NEW j \in Job,
         job' = [job EXCEPT ![w] = j],
         j.block_index \in Blocks, j.buffer \in Values,
         \/ j.op = "store_block" /\ j.pc = "temp" /\ j.tier = FirstTier
            /\ \A x \in WorkersOf(process[w]) : job[x].op \in {"none", "store_block"}
         \/ j.op = "get_block_full_path" /\ j.pc \in {"copy", "found"} /\ j.tier = FirstTier
            /\ (j.pc = "copy" => MultiTiered) /\ Quiet(process[w])
         \/ j.op = "commit_stash_block" /\ j.pc \in {"temp", "move", "drop"} /\ j.tier = "base"
            /\ Quiet(process[w]) /\ j.block_index \in stash_block_ids[process[w]]
            /\ j.buffer = stash_files[process[w]][j.block_index],
         UNCHANGED <<stash_block_ids, stash_files>>
  PROVE  job' \in [Workers -> Job] /\ JobState' /\ Alone' /\ StashInv'
<1> USE ProcessAssumption
<1>1. job'[w] = j /\ (\A x \in Workers : x # w => job'[x] = job[x]) /\ job' \in [Workers -> Job]
  BY DEF ControlInv, TypeOK
<1>2. JobState'
  BY <1>1 DEF ControlInv, JobState, FirstTier, inner_places
<1>3. Alone'
  BY <1>1, IdleJob DEF ControlInv, Alone, JobState, WorkersOf, Quiet
<1>4. StashInv'
  <2>1. ASSUME NEW p \in Processes, NEW b \in Blocks
        PROVE  b \in stash_block_ids'[p] <=> stash_files'[p][b] # None \/ Commits(p, b)'
    <3>1. CASE j.op = "commit_stash_block" /\ process[w] = p /\ j.block_index = b
      BY <1>1, <3>1 DEF Commits
    <3>2. CASE ~(j.op = "commit_stash_block" /\ process[w] = p /\ j.block_index = b)
      <4>1. Commits(p, b)' <=> Commits(p, b)
        BY <1>1, <3>2, IdleJob DEF Commits
      <4> QED
        BY <4>1 DEF ControlInv, StashInv
    <3> QED
      BY <3>1, <3>2
  <2>2. \A x \in Workers : job'[x].pc = "move" =>
          stash_files'[process[x]][job'[x].block_index] = job'[x].buffer
    BY <1>1 DEF ControlInv, StashInv
  <2> QED
    BY <2>1, <2>2 DEF StashInv
<1> QED
  BY <1>1, <1>2, <1>3, <1>4

(* A call goes on. *)
LEMMA GoesOnControl ==
  ASSUME ControlInv, NEW w \in Workers, job[w] # Idle, NEW j \in Job,
         job' = [job EXCEPT ![w] = j], j.op = job[w].op,
         j.block_index = job[w].block_index, j.buffer = job[w].buffer,
         j.op = "store_block" => j.pc \in inner_places \cup {"insert"},
         j.op = "commit_stash_block" => j.pc \in inner_places \cup {"erase"} /\ j.tier = "base",
         j.op = "get_block_full_path" =>
           j.pc \in {"copying", "found"} /\ j.tier = FirstTier /\ (j.pc = "copying" => MultiTiered),
         ~MultiTiered => j.tier = "base",
         UNCHANGED stash_block_ids,
         \/ UNCHANGED stash_files
         \/ /\ job[w].op = "commit_stash_block"
            /\ stash_files' = [stash_files EXCEPT ![process[w]][job[w].block_index] = None]
  PROVE  job' \in [Workers -> Job] /\ JobState' /\ Alone' /\ StashInv'
<1> USE ProcessAssumption
<1>1. job'[w] = j /\ (\A x \in Workers : x # w => job'[x] = job[x]) /\ job' \in [Workers -> Job]
  BY DEF ControlInv, TypeOK
<1>2. j # Idle /\ job[w].op \in {"store_block", "commit_stash_block", "get_block_full_path"}
  BY IdleJob DEF ControlInv, JobState
<1>3. JobState'
  BY <1>1, <1>2 DEF ControlInv, JobState, inner_places
<1>4. Alone'
  BY <1>1, <1>2 DEF ControlInv, Alone
<1>5. StashInv'
  <2>1. \A p \in Processes, b \in Blocks : Commits(p, b)' <=> Commits(p, b)
    BY <1>1 DEF Commits
  <2>2. ASSUME NEW p \in Processes, NEW b \in Blocks
        PROVE  b \in stash_block_ids'[p] <=> stash_files'[p][b] # None \/ Commits(p, b)'
    <3> DEFINE q == process[w]
               i == job[w].block_index
    <3>1. stash_files'[p][b] = stash_files[p][b] \/ Commits(p, b)
      <4>1. CASE job[w].op = "commit_stash_block" /\ p = q /\ b = i
        BY <4>1 DEF Commits
      <4>2. CASE ~(job[w].op = "commit_stash_block" /\ p = q /\ b = i)
        <5> HIDE DEF i
        <5>1. \/ UNCHANGED stash_files
              \/ stash_files' = [stash_files EXCEPT ![q][i] = None] /\ ~(p = q /\ b = i)
          BY <4>2 DEF i
        <5> QED
          BY <5>1 DEF ControlInv, TypeOK
      <4> QED
        BY <4>1, <4>2
    <3> QED
      BY <2>1, <3>1 DEF ControlInv, StashInv
  <2>3. ASSUME NEW x \in Workers, job'[x].pc = "move"
        PROVE  stash_files'[process[x]][job'[x].block_index] = job'[x].buffer
    <3>1. x # w /\ job'[x] = job[x] /\ job[x] # Idle /\ job[x].op = "commit_stash_block"
      BY <1>1, <1>2, <2>3, IdleJob DEF ControlInv, JobState, inner_places
    <3>2. process[x] # process[w] \/ UNCHANGED stash_files
      BY <1>2, <3>1 DEF ControlInv, Alone
    <3>3. stash_files'[process[x]] = stash_files[process[x]]
      BY <3>2 DEF ControlInv, TypeOK
    <3> QED
      BY <2>3, <3>1, <3>3 DEF ControlInv, StashInv
  <2> QED
    BY <2>2, <2>3 DEF StashInv
<1> QED
  BY <1>1, <1>3, <1>4, <1>5

(* A call returns: what it committed is stashed no longer. *)
LEMMA ReturnControl ==
  ASSUME ControlInv, NEW w \in Workers, job[w] # Idle, job' = [job EXCEPT ![w] = Idle],
         \/ job[w].op # "commit_stash_block" /\ UNCHANGED <<stash_block_ids, stash_files>>
         \/ /\ job[w].op = "commit_stash_block"
            /\ stash_files' = [stash_files EXCEPT ![process[w]][job[w].block_index] = None]
            /\ stash_block_ids' = [stash_block_ids EXCEPT
                                     ![process[w]] = @ \ {job[w].block_index}]
  PROVE  job' \in [Workers -> Job] /\ JobState' /\ Alone' /\ StashInv'
<1> USE ProcessAssumption
<1> DEFINE q == process[w]
           i == job[w].block_index
<1>1. /\ job'[w] = Idle /\ (\A x \in Workers : x # w => job'[x] = job[x])
      /\ job' \in [Workers -> Job]
  BY IdleJob DEF ControlInv, TypeOK
<1>2. JobState' /\ Alone'
  BY <1>1 DEF ControlInv, JobState, Alone
<1>3. CASE job[w].op # "commit_stash_block"
  <2>1. \A p \in Processes, b \in Blocks : Commits(p, b)' <=> Commits(p, b)
    BY <1>1, <1>3, IdleJob DEF Commits
  <2> QED
    BY <1>1, <1>2, <1>3, <2>1, IdleJob DEF ControlInv, StashInv
<1>4. CASE job[w].op = "commit_stash_block"
  <2>1. i \in Blocks /\ \A x \in Workers : process[x] = q /\ x # w => job[x] = Idle
    BY <1>4 DEF ControlInv, JobState, Alone
  <2>2. \A b \in Blocks : ~Commits(q, b)' /\ (Commits(q, b) => b = i)
    BY <1>1, <2>1, IdleJob DEF Commits
  <2>3. \A p \in Processes, b \in Blocks : p # q => (Commits(p, b)' <=> Commits(p, b))
    BY <1>1, IdleJob DEF Commits
  <2> HIDE DEF i
  <2>4. /\ stash_files' = [stash_files EXCEPT ![q][i] = None]
        /\ stash_block_ids' = [stash_block_ids EXCEPT ![q] = @ \ {i}]
    BY <1>4 DEF i
  <2>5. ASSUME NEW p \in Processes, NEW b \in Blocks
        PROVE  b \in stash_block_ids'[p] <=> stash_files'[p][b] # None \/ Commits(p, b)'
    <3>1. CASE p = q
      BY <2>2, <2>4, <3>1 DEF ControlInv, TypeOK, StashInv
    <3>2. CASE p # q
      BY <2>3, <2>4, <3>2 DEF ControlInv, TypeOK, StashInv
    <3> QED
      BY <3>1, <3>2
  <2>6. ASSUME NEW x \in Workers, job'[x].pc = "move"
        PROVE  stash_files'[process[x]][job'[x].block_index] = job'[x].buffer
    <3>1. x # w /\ job'[x] = job[x] /\ process[x] # q
      BY <1>1, <2>1, <2>6, IdleJob
    <3>2. stash_files'[process[x]] = stash_files[process[x]]
      BY <2>4, <3>1 DEF ControlInv, TypeOK
    <3> QED
      BY <2>6, <3>1, <3>2 DEF ControlInv, StashInv
  <2> QED
    BY <1>1, <1>2, <2>5, <2>6 DEF StashInv
<1> QED
  BY <1>3, <1>4

(* A quiet process stashes or unstashes. *)
LEMMA QuietControl ==
  ASSUME ControlInv, NEW p \in Processes, NEW b \in Blocks, Quiet(p), UNCHANGED job,
         \/ \E v \in Values : /\ stash_block_ids' = [stash_block_ids EXCEPT ![p] = @ \cup {b}]
                              /\ stash_files' = [stash_files EXCEPT ![p][b] = v]
         \/ /\ stash_block_ids' = [stash_block_ids EXCEPT ![p] = @ \ {b}]
            /\ stash_files' = [stash_files EXCEPT ![p][b] = None]
  PROVE  /\ stash_block_ids' \in [Processes -> SUBSET Blocks]
         /\ stash_files' \in [Processes -> [Blocks -> Values \cup {None}]]
         /\ JobState' /\ Alone' /\ StashInv'
<1>1. /\ stash_block_ids' \in [Processes -> SUBSET Blocks]
      /\ stash_files' \in [Processes -> [Blocks -> Values \cup {None}]]
  <2>1. \E v \in Values \cup {None} : stash_files' = [stash_files EXCEPT ![p][b] = v]
    OBVIOUS
  <2>2. \E s \in SUBSET Blocks : stash_block_ids' = [stash_block_ids EXCEPT ![p] = s]
    <3>1. stash_block_ids[p] \cup {b} \in SUBSET Blocks /\ stash_block_ids[p] \ {b} \in SUBSET Blocks
      BY DEF ControlInv, TypeOK
    <3> QED
      BY <3>1
  <2> QED
    BY <2>1, <2>2 DEF ControlInv, TypeOK
<1>2. JobState' /\ Alone'
  BY DEF ControlInv, JobState, Alone
<1>3. \A c \in Blocks : ~Commits(p, c) /\ ~Commits(p, c)'
  BY IdleJob DEF Commits, Quiet, WorkersOf
<1>4. ASSUME NEW q \in Processes, NEW c \in Blocks
      PROVE  c \in stash_block_ids'[q] <=> stash_files'[q][c] # None \/ Commits(q, c)'
  <2>1. CASE q = p
    <3>1. stash_block_ids[p] = {d \in Blocks : stash_files[p][d] # None}
      BY <1>3 DEF ControlInv, TypeOK, StashInv
    <3>2. \/ \E v \in Values : /\ stash_block_ids'[p] = stash_block_ids[p] \cup {b}
                               /\ stash_files'[p] = [stash_files[p] EXCEPT ![b] = v]
          \/ /\ stash_block_ids'[p] = stash_block_ids[p] \ {b}
             /\ stash_files'[p] = [stash_files[p] EXCEPT ![b] = None]
      BY DEF ControlInv, TypeOK
    <3>3. stash_files[p] \in [Blocks -> Values \cup {None}]
      BY DEF ControlInv, TypeOK
    <3> QED
      BY <1>3, <2>1, <3>1, <3>2, <3>3, HashAssumption
  <2>2. CASE q # p
    <3>1. stash_block_ids'[q] = stash_block_ids[q] /\ stash_files'[q] = stash_files[q]
          /\ (Commits(q, c)' <=> Commits(q, c))
      BY <2>2 DEF ControlInv, TypeOK, Commits
    <3> QED
      BY <3>1 DEF ControlInv, StashInv
  <2> QED
    BY <2>1, <2>2
<1>5. ASSUME NEW x \in Workers, job[x].pc = "move"
      PROVE  stash_files'[process[x]][job[x].block_index] = job[x].buffer
  <2>1. process[x] # p /\ process[x] \in Processes
    BY <1>5, IdleJob, ProcessAssumption DEF Quiet, WorkersOf
  <2>2. stash_files'[process[x]] = stash_files[process[x]]
    BY <2>1 DEF ControlInv, TypeOK
  <2> QED
    BY <1>5, <2>2 DEF ControlInv, StashInv
<1> QED
  BY <1>1, <1>2, <1>4, <1>5 DEF StashInv

(* What a worker in a call has. *)
LEMMA BusyWorker ==
  ASSUME ControlInv, NEW w \in Workers, job[w].pc # "idle"
  PROVE  /\ job[w] # Idle /\ job[w] \in Job /\ process[w] \in Processes
         /\ job[w].block_index \in Blocks /\ job[w].buffer \in Values /\ block_hash(w) \in Hashes
         /\ job[w].tier \in Tiers
<1>1. job[w] # Idle /\ job[w] \in Job /\ job[w].tier \in Tiers
  BY IdleJob DEF ControlInv, TypeOK, Job
<1>2. job[w].block_index \in Blocks /\ job[w].buffer \in Values
  BY <1>1 DEF ControlInv, JobState
<1> QED
  BY <1>1, <1>2, HashAssumption, ProcessAssumption DEF block_hash

-------------------------------------------------------------------------------
(* The calls, and who may be in which. *)

LEMMA InitControl == Init => ControlInv
<1> SUFFICES ASSUME Init PROVE ControlInv
  OBVIOUS
<1> USE HashAssumption, ProcessAssumption
<1>1. PICK kept \in SUBSET Values :
        /\ final_files = [base  |-> [h \in Hashes |-> IF \E v \in kept : compute_hash[v] = h
                                                      THEN CHOOSE v \in kept : compute_hash[v] = h
                                                      ELSE None],
                          stash |-> [h \in Hashes |-> None]]
        /\ returned = {compute_hash[v] : v \in kept}
  BY DEF Init
<1>2. final_files \in [Tiers -> [Hashes -> Contents]]
  <2>1. \A h \in Hashes : (\E v \in kept : compute_hash[v] = h) =>
          (CHOOSE v \in kept : compute_hash[v] = h) \in kept
    OBVIOUS
  <2>2. /\ DOMAIN final_files = Tiers
        /\ final_files["base"] \in [Hashes -> Contents]
        /\ final_files["stash"] \in [Hashes -> Contents]
    BY <1>1, <2>1 DEF Tiers, Contents
  <2>3. final_files = [t \in Tiers |-> final_files[t]]
    BY <1>1 DEF Tiers
  <2> QED
    BY <2>2, <2>3 DEF Tiers
<1>3. TypeOK
  BY <1>1, <1>2, IdleJob DEF Init, TypeOK
<1>4. JobState /\ Alone
  BY DEF Init, JobState, Alone
<1>5. StashInv
  BY IdleJob DEF Init, StashInv, Commits
<1> QED
  BY <1>3, <1>4, <1>5 DEF ControlInv

LEMMA StoreBlockControl ==
  ASSUME ControlInv, NEW w \in Workers, NEW b \in Blocks, NEW v \in Values, StoreBlock(w, b, v)
  PROVE  ControlInv'
<1> DEFINE j == [pc |-> "temp", op |-> "store_block", block_index |-> b, buffer |-> v,
                 tier |-> FirstTier, temporary_file |-> None]
<1>1. j \in Job
  BY DEF Job, Contents, Tiers, FirstTier
<1>2. /\ job' = [job EXCEPT ![w] = j] /\ job[w] = Idle
      /\ j.block_index \in Blocks /\ j.buffer \in Values
      /\ j.op = "store_block" /\ j.pc = "temp" /\ j.tier = FirstTier
      /\ \A x \in WorkersOf(process[w]) : job[x].op \in {"none", "store_block"}
      /\ UNCHANGED <<final_files, returned, blocks_ids, stash_block_ids, stash_files,
                     stash_committed_block_ids>>
  BY DEF StoreBlock, Begin
<1> HIDE DEF j
<1>3. job' \in [Workers -> Job] /\ JobState' /\ Alone' /\ StashInv'
  BY <1>1, <1>2, BeginControl
<1> QED
  BY <1>2, <1>3 DEF ControlInv, TypeOK

LEMMA QuietWorker ==
  ASSUME ControlInv, NEW w \in Workers, Quiet(process[w])
  PROVE  job[w] = Idle
BY DEF Quiet, WorkersOf

LEMMA CommitControl ==
  ASSUME ControlInv, NEW w \in Workers, NEW b \in Blocks, CommitStashBlock(w, b)
  PROVE  /\ ControlInv' /\ stash_files[process[w]][b] \in Values
<1> DEFINE p == process[w]
           v == stash_files[p][b]
           place == IF FileExists(FirstTier, compute_hash[v]) THEN "drop"
                    ELSE IF UseCompression THEN "temp" ELSE "move"
           j == [pc |-> place, op |-> "commit_stash_block", block_index |-> b, buffer |-> v,
                 tier |-> "base", temporary_file |-> None]
<1>1. p \in Processes /\ Quiet(p) /\ b \in stash_block_ids[p] /\ job[w] = Idle
  BY ProcessAssumption, QuietWorker DEF CommitStashBlock
<1>2. v \in Values
  <2>1. ~Commits(p, b)
    BY <1>1, IdleJob DEF Commits, Quiet, WorkersOf
  <2>2. v # None
    BY <1>1, <2>1 DEF ControlInv, StashInv
  <2> QED
    BY <1>1, <2>2 DEF ControlInv, TypeOK
<1>3. place \in {"temp", "move", "drop"}
  OBVIOUS
<1>4. /\ job' = [job EXCEPT ![w] = j]
      /\ UNCHANGED <<final_files, returned, blocks_ids, stash_block_ids, stash_files,
                     stash_committed_block_ids>>
  BY DEF CommitStashBlock, Begin
<1> HIDE DEF v, place
<1>5. /\ j \in Job /\ j.block_index \in Blocks /\ j.buffer \in Values
      /\ j.op = "commit_stash_block" /\ j.pc \in {"temp", "move", "drop"} /\ j.tier = "base"
      /\ j.block_index = b /\ j.buffer = v
  BY <1>2, <1>3 DEF Job, Contents, Tiers
<1> HIDE DEF j
<1>6. job' \in [Workers -> Job] /\ JobState' /\ Alone' /\ StashInv'
  BY <1>1, <1>4, <1>5, BeginControl DEF v
<1> QED
  BY <1>2, <1>4, <1>6 DEF ControlInv, TypeOK, v

LEMMA GetPathControl ==
  ASSUME ControlInv, NEW w \in Workers, NEW b \in Blocks, NEW v \in Values,
         GetBlockFullPath(w, b, v)
  PROVE  ControlInv'
<1> DEFINE p == process[w]
           j(place) == [pc |-> place, op |-> "get_block_full_path", block_index |-> b,
                        buffer |-> v, tier |-> FirstTier, temporary_file |-> None]
<1>1. p \in Processes /\ Quiet(p) /\ job[w] = Idle
  BY ProcessAssumption, QuietWorker DEF GetBlockFullPath
<1>2. PICK place \in {"copy", "found"} :
        /\ job' = [job EXCEPT ![w] = j(place)] /\ (place = "copy" => MultiTiered)
        /\ \/ UNCHANGED stash_committed_block_ids
           \/ stash_committed_block_ids' = Known(p, b)
        /\ UNCHANGED <<final_files, returned, blocks_ids, stash_block_ids, stash_files>>
  BY DEF GetBlockFullPath, Begin, PathTier, FirstTier, NeedsCopy, NotKnown
<1>3. /\ j(place) \in Job /\ j(place).block_index \in Blocks /\ j(place).buffer \in Values
      /\ j(place).op = "get_block_full_path" /\ j(place).pc = place
      /\ j(place).tier = FirstTier
  BY DEF Job, Contents, Tiers, FirstTier
<1> HIDE DEF j
<1>4. job' \in [Workers -> Job] /\ JobState' /\ Alone' /\ StashInv'
  BY <1>1, <1>2, <1>3, BeginControl
<1>5. stash_committed_block_ids' \in [Processes -> SUBSET Blocks]
  <2>1. stash_committed_block_ids \in [Processes -> SUBSET Blocks]
    BY DEF ControlInv, TypeOK
  <2> QED
    BY <1>1, <1>2, <2>1 DEF Known
<1> QED
  BY <1>2, <1>4, <1>5 DEF ControlInv, TypeOK

(* The steps of the inner store_block(). *)
LEMMA TempControl ==
  ASSUME ControlInv, NEW w \in Workers, CreateTemp(w) \/ WriteTemp(w)
  PROVE  /\ ControlInv' /\ \A x \in Workers : x # w => job'[x] = job[x]
         /\ job'[w].op = job[w].op /\ job'[w].buffer = job[w].buffer
         /\ job'[w].block_index = job[w].block_index /\ job'[w].tier = job[w].tier
         /\ CreateTemp(w) => job'[w].pc = PcAfterTemp(w)
         /\ WriteTemp(w) => job'[w].pc = "rename" /\ job'[w].temporary_file \in Written(w)
<1> DEFINE j(contents, place) == [job[w] EXCEPT !.temporary_file = contents, !.pc = place]
<1>1. /\ job[w] # Idle /\ job[w] \in Job /\ job[w].buffer \in Values
      /\ job[w].pc \in inner_places
  BY BusyWorker DEF CreateTemp, WriteTemp, inner_places
<1>2. PICK contents \in Contents, place \in {"remove", "write", "rename"} :
        /\ job' = [job EXCEPT ![w] = j(contents, place)]
        /\ CreateTemp(w) => place = PcAfterTemp(w)
        /\ WriteTemp(w) => place = "rename" /\ contents \in Written(w)
        /\ UNCHANGED <<final_files, returned, blocks_ids, stash_block_ids, stash_files,
                       stash_committed_block_ids>>
  <2>1. CASE CreateTemp(w)
    <3>1. PcAfterTemp(w) \in {"remove", "write"} /\ Partial \in Contents
      BY DEF PcAfterTemp, Contents
    <3>2. job' = [job EXCEPT ![w] = j(Partial, PcAfterTemp(w))]
      BY <2>1 DEF CreateTemp, ControlInv, TypeOK
    <3>3. ~WriteTemp(w)
      BY <2>1 DEF CreateTemp, WriteTemp
    <3> QED
      BY <2>1, <3>1, <3>2, <3>3 DEF CreateTemp
  <2>2. CASE WriteTemp(w)
    <3>1. PICK contents \in Written(w) :
            job' = [job EXCEPT ![w].temporary_file = contents, ![w].pc = "rename"]
      BY <2>2 DEF WriteTemp
    <3>2. contents \in Contents
      BY <1>1, <3>1 DEF Written, Contents
    <3>3. job' = [job EXCEPT ![w] = j(contents, "rename")]
      BY <3>1 DEF ControlInv, TypeOK
    <3>4. ~CreateTemp(w)
      BY <2>2 DEF CreateTemp, WriteTemp
    <3> QED
      BY <2>2, <3>1, <3>2, <3>3, <3>4 DEF WriteTemp
  <2> QED
    BY <2>1, <2>2, Zenon
<1>3. /\ j(contents, place) \in Job /\ j(contents, place).op = job[w].op
      /\ j(contents, place).block_index = job[w].block_index
      /\ j(contents, place).buffer = job[w].buffer /\ j(contents, place).tier = job[w].tier
      /\ j(contents, place).pc = place /\ j(contents, place).temporary_file = contents
  BY <1>1, <1>2 DEF Job
<1> HIDE DEF j
<1>4. job[w].op \in {"store_block", "commit_stash_block"}
      /\ (job[w].op = "commit_stash_block" => job[w].tier = "base")
      /\ (~MultiTiered => job[w].tier = "base")
  BY <1>1 DEF ControlInv, JobState, inner_places
<1>5. job' \in [Workers -> Job] /\ JobState' /\ Alone' /\ StashInv'
  BY <1>1, <1>2, <1>3, <1>4, GoesOnControl DEF inner_places
<1> QED
  BY <1>2, <1>3, <1>5 DEF ControlInv, TypeOK

LEMMA StoredControl ==
  ASSUME ControlInv, NEW w \in Workers, RenameTemp(w) \/ RemoveTemp(w)
  PROVE  /\ ControlInv' /\ \A x \in Workers : x # w => job'[x] = job[x]
         /\ job'[w].op = job[w].op /\ job'[w].buffer = job[w].buffer
         /\ job'[w].block_index = job[w].block_index /\ job'[w].tier = "base"
         /\ job'[w].pc = IF job[w].op = "store_block" /\ job[w].tier = "stash" THEN "temp"
                         ELSE IF job[w].op = "store_block" THEN "insert" ELSE "erase"
<1> DEFINE place == IF job[w].op = "store_block" /\ job[w].tier = "stash" THEN "temp"
                    ELSE IF job[w].op = "store_block" THEN "insert" ELSE "erase"
           j == [job[w] EXCEPT !.temporary_file = None, !.tier = "base", !.pc = place]
<1>1. /\ job[w] # Idle /\ job[w] \in Job /\ block_hash(w) \in Hashes /\ job[w].tier \in Tiers
      /\ job[w].pc \in inner_places
  BY BusyWorker DEF RenameTemp, RemoveTemp, inner_places
<1>2. job' = [job EXCEPT ![w] = j]
  BY DEF RenameTemp, RemoveTemp, StoredInTier, ControlInv, TypeOK
<1>3. /\ UNCHANGED <<returned, blocks_ids, stash_block_ids, stash_files,
                     stash_committed_block_ids>>
      /\ final_files' \in [Tiers -> [Hashes -> Contents]]
  <2>1. job[w].temporary_file \in Contents /\ final_files \in [Tiers -> [Hashes -> Contents]]
    BY <1>1 DEF Job, ControlInv, TypeOK
  <2>2. \/ final_files' = [final_files EXCEPT ![job[w].tier][block_hash(w)] = job[w].temporary_file]
        \/ final_files' = final_files
    BY DEF RenameTemp, RemoveTemp, WithoutTempFile
  <2>3. final_files' \in [Tiers -> [Hashes -> Contents]]
    BY <1>1, <2>1, <2>2
  <2> QED
    BY <2>3 DEF RenameTemp, RemoveTemp
<1>4. job[w].op \in {"store_block", "commit_stash_block"}
  BY <1>1 DEF ControlInv, JobState, inner_places
<1>5. place \in {"temp", "insert", "erase"}
      /\ (job[w].op = "store_block" => place \in {"temp", "insert"})
      /\ (job[w].op = "commit_stash_block" => place = "erase")
  BY <1>4
<1>6. /\ j \in Job /\ j.op = job[w].op /\ j.block_index = job[w].block_index
      /\ j.buffer = job[w].buffer /\ j.tier = "base" /\ j.pc = place
  <2> HIDE DEF place
  <2> QED
    BY <1>1, <1>5 DEF Job, Tiers, Contents
<1> HIDE DEF j, place
<1>7. job' \in [Workers -> Job] /\ JobState' /\ Alone' /\ StashInv'
  BY <1>1, <1>2, <1>3, <1>4, <1>5, <1>6, GoesOnControl DEF inner_places
<1> QED
  BY <1>2, <1>3, <1>6, <1>7 DEF ControlInv, TypeOK, place

(* The returns. *)
LEMMA ReturnHashTypes ==
  ASSUME ControlInv, NEW w \in Workers, job[w].pc # "idle", ReturnHash(w)
  PROVE  /\ returned' = returned \cup {block_hash(w)}
         /\ blocks_ids' = [blocks_ids EXCEPT ![process[w]][job[w].block_index] = block_hash(w)]
         /\ job' = [job EXCEPT ![w] = Idle] /\ job'[w] = Idle
         /\ \A x \in Workers : x # w => job'[x] = job[x]
         /\ returned' \subseteq Hashes
         /\ blocks_ids' \in [Processes -> [Blocks -> Hashes \cup {None}]]
BY BusyWorker DEF ReturnHash, ReturnedHash, ControlInv, TypeOK

LEMMA InsertControl ==
  ASSUME ControlInv, NEW w \in Workers, InsertCommitted(w) PROVE ControlInv'
<1>1. /\ job[w].pc = "insert" /\ job[w] # Idle /\ job[w].op = "store_block"
      /\ process[w] \in Processes /\ job[w].block_index \in Blocks
  <2>1. job[w].pc = "insert" /\ job[w] # Idle /\ process[w] \in Processes /\ job[w].block_index \in Blocks
    BY BusyWorker DEF InsertCommitted
  <2> QED
    BY <2>1 DEF ControlInv, JobState, inner_places
<1>2. ReturnHash(w) /\ UNCHANGED <<final_files, stash_block_ids, stash_files>>
  BY DEF InsertCommitted
<1>3. PICK ids \in SUBSET (stash_committed_block_ids[process[w]] \cup {job[w].block_index}) :
        stash_committed_block_ids' = [stash_committed_block_ids EXCEPT ![process[w]] = ids]
  BY DEF InsertCommitted, Inserted
<1>4. stash_committed_block_ids' \in [Processes -> SUBSET Blocks]
  BY <1>1, <1>3 DEF ControlInv, TypeOK
<1>5. job' \in [Workers -> Job] /\ JobState' /\ Alone' /\ StashInv'
  BY <1>1, <1>2, ReturnHashTypes, ReturnControl
<1> QED
  BY <1>1, <1>2, <1>4, <1>5, ReturnHashTypes DEF ControlInv, TypeOK

LEMMA EraseControl ==
  ASSUME ControlInv, NEW w \in Workers, EraseStash(w) PROVE ControlInv'
<1>1. /\ job[w].pc \in {"erase", "drop"} /\ job[w] # Idle /\ job[w].op = "commit_stash_block"
      /\ process[w] \in Processes /\ job[w].block_index \in Blocks
  <2>1. /\ job[w].pc \in {"erase", "drop"} /\ job[w] # Idle /\ process[w] \in Processes
        /\ job[w].block_index \in Blocks
    BY BusyWorker DEF EraseStash
  <2> QED
    BY <2>1 DEF ControlInv, JobState, inner_places
<1>2. /\ ReturnHash(w) /\ UNCHANGED <<final_files, stash_committed_block_ids>>
      /\ stash_files' = [stash_files EXCEPT ![process[w]][job[w].block_index] = None]
      /\ stash_block_ids' = [stash_block_ids EXCEPT ![process[w]] = @ \ {job[w].block_index}]
  BY DEF EraseStash, IdsErased
<1>3. /\ stash_block_ids' \in [Processes -> SUBSET Blocks]
      /\ stash_files' \in [Processes -> [Blocks -> Values \cup {None}]]
  BY <1>1, <1>2 DEF ControlInv, TypeOK
<1>4. job' \in [Workers -> Job] /\ JobState' /\ Alone' /\ StashInv'
  BY <1>1, <1>2, ReturnHashTypes, ReturnControl
<1> QED
  BY <1>1, <1>2, <1>3, <1>4, ReturnHashTypes DEF ControlInv, TypeOK

LEMMA UsePathControl ==
  ASSUME ControlInv, NEW w \in Workers, UsePath(w) PROVE ControlInv'
<1>1. job[w].pc = "found" /\ job[w] # Idle /\ job[w].op = "get_block_full_path"
  <2>1. job[w].pc = "found" /\ job[w] # Idle
    BY BusyWorker DEF UsePath
  <2> QED
    BY <2>1 DEF ControlInv, JobState, inner_places
<1>2. job' \in [Workers -> Job] /\ JobState' /\ Alone' /\ StashInv'
  BY <1>1, ReturnControl DEF UsePath
<1> QED
  BY <1>2 DEF UsePath, ControlInv, TypeOK

(* The steps that give a file of another name its final one. *)
LEMMA MoveControl ==
  ASSUME ControlInv, NEW w \in Workers, MoveStash(w)
  PROVE  /\ ControlInv' /\ \A x \in Workers : x # w => job'[x] = job[x]
         /\ job'[w] = [job[w] EXCEPT !.pc = "temp"] /\ job'[w].op = job[w].op
         /\ job'[w].buffer = job[w].buffer /\ job'[w].block_index = job[w].block_index
         /\ job'[w].tier = job[w].tier /\ job'[w].pc = "temp"
         /\ job[w].op = "commit_stash_block" /\ job[w].tier = "base"
         /\ final_files' = [final_files EXCEPT ![FirstTier][block_hash(w)] = job[w].buffer]
<1> DEFINE j == [job[w] EXCEPT !.pc = "temp"]
<1>1. /\ job[w].pc = "move" /\ job[w] # Idle /\ job[w] \in Job /\ block_hash(w) \in Hashes
      /\ process[w] \in Processes /\ job[w].block_index \in Blocks /\ job[w].buffer \in Values
  BY BusyWorker DEF MoveStash
<1>2. job[w].op = "commit_stash_block" /\ job[w].tier = "base"
  BY <1>1 DEF ControlInv, JobState, inner_places
<1>3. /\ job' = [job EXCEPT ![w] = j]
      /\ UNCHANGED <<returned, blocks_ids, stash_block_ids, stash_committed_block_ids>>
  BY DEF MoveStash, ControlInv, TypeOK
<1>4. stash_files' = [stash_files EXCEPT ![process[w]][job[w].block_index] = None]
  BY DEF MoveStash
<1>5. final_files' = [final_files EXCEPT ![FirstTier][block_hash(w)] = job[w].buffer]
  BY <1>1 DEF MoveStash, ControlInv, StashInv
<1>6. /\ j \in Job /\ j.op = job[w].op /\ j.block_index = job[w].block_index
      /\ j.buffer = job[w].buffer /\ j.tier = job[w].tier /\ j.pc = "temp"
  BY <1>1 DEF Job
<1> HIDE DEF j
<1>7. job' \in [Workers -> Job] /\ JobState' /\ Alone' /\ StashInv'
  BY <1>1, <1>2, <1>3, <1>4, <1>6, GoesOnControl DEF inner_places
<1>8. final_files' \in [Tiers -> [Hashes -> Contents]]
  BY <1>1, <1>5 DEF ControlInv, TypeOK, Contents
<1>9. stash_files' \in [Processes -> [Blocks -> Values \cup {None}]]
  BY <1>1, <1>4 DEF ControlInv, TypeOK
<1>10. ControlInv'
  BY <1>3, <1>7, <1>8, <1>9 DEF ControlInv, TypeOK
<1>11. job'[w] = j /\ \A x \in Workers : x # w => job'[x] = job[x]
  BY <1>3 DEF ControlInv, TypeOK
<1> QED
  BY <1>2, <1>5, <1>6, <1>10, <1>11 DEF j

LEMMA CopyControl ==
  ASSUME ControlInv, NEW w \in Workers, StartCopy(w) \/ FinishCopy(w)
  PROVE  /\ ControlInv' /\ \A x \in Workers : x # w => job'[x] = job[x]
         /\ job'[w].op = job[w].op /\ job'[w].buffer = job[w].buffer
         /\ job'[w].block_index = job[w].block_index /\ job'[w].tier = job[w].tier
         /\ StartCopy(w) => job'[w].pc = "copying"
         /\ FinishCopy(w) => job'[w].pc = "found"
         /\ job[w].op = "get_block_full_path" /\ MultiTiered
<1> DEFINE place == IF job[w].pc = "copy" THEN "copying" ELSE "found"
           j == [job[w] EXCEPT !.pc = place]
<1>1. /\ job[w].pc \in {"copy", "copying"} /\ job[w] # Idle /\ job[w] \in Job
      /\ block_hash(w) \in Hashes /\ process[w] \in Processes /\ job[w].block_index \in Blocks
  BY BusyWorker DEF StartCopy, FinishCopy
<1>2. job[w].op = "get_block_full_path" /\ MultiTiered /\ job[w].tier = FirstTier
  BY <1>1 DEF ControlInv, JobState, inner_places
<1>3. /\ job' = [job EXCEPT ![w] = j]
      /\ UNCHANGED <<returned, blocks_ids, stash_block_ids, stash_files>>
      /\ UNCHANGED stash_committed_block_ids
         \/ stash_committed_block_ids' = Known(process[w], job[w].block_index)
  BY DEF StartCopy, FinishCopy, ControlInv, TypeOK
<1>4. /\ j \in Job /\ j.op = job[w].op /\ j.block_index = job[w].block_index
      /\ j.buffer = job[w].buffer /\ j.tier = job[w].tier /\ j.pc = place
  BY <1>1 DEF Job
<1>5. place \in {"copying", "found"}
  OBVIOUS
<1> HIDE DEF j
<1>6. job' \in [Workers -> Job] /\ JobState' /\ Alone' /\ StashInv'
  BY <1>1, <1>2, <1>3, <1>4, <1>5, GoesOnControl
<1>7. final_files' \in [Tiers -> [Hashes -> Contents]]
  <2>1. \E contents \in Contents :
          final_files' = [final_files EXCEPT !["stash"][block_hash(w)] = contents]
    <3>1. /\ Partial \in Contents /\ final_files["base"][block_hash(w)] \in Contents
      BY <1>1 DEF Contents, ControlInv, TypeOK, Tiers
    <3> QED
      BY <3>1 DEF StartCopy, FinishCopy
  <2> QED
    BY <1>1, <2>1 DEF ControlInv, TypeOK, Tiers
<1>8. stash_committed_block_ids' \in [Processes -> SUBSET Blocks]
  BY <1>1, <1>3 DEF ControlInv, TypeOK, Known
<1>9. ControlInv'
  BY <1>3, <1>6, <1>7, <1>8 DEF ControlInv, TypeOK
<1>10. job'[w] = j /\ \A x \in Workers : x # w => job'[x] = job[x]
  BY <1>3 DEF ControlInv, TypeOK
<1> QED
  BY <1>2, <1>4, <1>9, <1>10 DEF StartCopy, FinishCopy

LEMMA StashingControl ==
  ASSUME ControlInv, NEW p \in Processes, NEW b \in Blocks,
         UnstashBlock(p, b) \/ \E v \in Values : StashBlock(p, b, v)
  PROVE  ControlInv'
<1>1. /\ stash_block_ids' \in [Processes -> SUBSET Blocks]
      /\ stash_files' \in [Processes -> [Blocks -> Values \cup {None}]]
      /\ JobState' /\ Alone' /\ StashInv'
  BY QuietControl DEF UnstashBlock, StashBlock
<1> QED
  BY <1>1 DEF UnstashBlock, StashBlock, ControlInv, TypeOK

LEMMA RestartControl ==
  ASSUME ControlInv, NEW p \in Processes, Restart(p) PROVE ControlInv'
<1> USE ProcessAssumption
<1>1. /\ \A w \in Workers : job'[w] = IF process[w] = p THEN Idle ELSE job[w]
      /\ job' \in [Workers -> Job]
  BY IdleJob DEF Restart, ControlInv, TypeOK
<1>2. /\ stash_block_ids' = [stash_block_ids EXCEPT ![p] = {}]
      /\ stash_files' = [stash_files EXCEPT ![p] = [b \in Blocks |-> None]]
      /\ stash_committed_block_ids' = [stash_committed_block_ids EXCEPT ![p] = {}]
      /\ UNCHANGED <<final_files, returned>>
  BY DEF Restart
<1>3. TypeOK'
  <2>1. PICK ids \in [Blocks -> returned \cup {None}] : blocks_ids' = [blocks_ids EXCEPT ![p] = ids]
    BY DEF Restart
  <2>2. ids \in [Blocks -> Hashes \cup {None}]
    BY DEF ControlInv, TypeOK
  <2>3. blocks_ids' \in [Processes -> [Blocks -> Hashes \cup {None}]]
    BY <2>1, <2>2 DEF ControlInv, TypeOK
  <2> QED
    BY <1>1, <1>2, <2>3 DEF ControlInv, TypeOK
<1>4. JobState' /\ Alone'
  BY <1>1 DEF ControlInv, JobState, Alone
<1>5. StashInv'
  <2>1. \A b \in Blocks : ~Commits(p, b)'
    BY <1>1, IdleJob DEF Commits
  <2>2. \A q \in Processes, b \in Blocks : q # p => (Commits(q, b)' <=> Commits(q, b))
    BY <1>1 DEF Commits
  <2>3. /\ stash_block_ids'[p] = {} /\ \A b \in Blocks : stash_files'[p][b] = None
        /\ \A q \in Processes : q # p => stash_block_ids'[q] = stash_block_ids[q]
                                         /\ stash_files'[q] = stash_files[q]
    BY <1>2 DEF ControlInv, TypeOK
  <2>4. \A w \in Workers : job'[w].pc = "move" => process[w] # p /\ job'[w] = job[w]
    BY <1>1, IdleJob
  <2> QED
    BY <2>1, <2>2, <2>3, <2>4 DEF ControlInv, StashInv
<1> QED
  BY <1>3, <1>4, <1>5 DEF ControlInv

LEMMA NextControl == ControlInv /\ [Next]_vars => ControlInv'
<1> SUFFICES ASSUME ControlInv, [Next]_vars PROVE ControlInv'
  OBVIOUS
<1>1. ASSUME NEW w \in Workers, NEW b \in Blocks,
             CommitStashBlock(w, b) \/ \E v \in Values : StoreBlock(w, b, v) \/ GetBlockFullPath(w, b, v)
      PROVE  ControlInv'
  BY <1>1, StoreBlockControl, GetPathControl, CommitControl
<1>2. ASSUME NEW w \in Workers,
             \/ CreateTemp(w) \/ WriteTemp(w) \/ RenameTemp(w) \/ RemoveTemp(w)
             \/ InsertCommitted(w) \/ MoveStash(w) \/ EraseStash(w)
             \/ StartCopy(w) \/ FinishCopy(w) \/ UsePath(w)
      PROVE  ControlInv'
  BY <1>2, TempControl, StoredControl, InsertControl, EraseControl, MoveControl, CopyControl,
     UsePathControl
<1>3. ASSUME NEW p \in Processes,
             \/ \E b \in Blocks, v \in Values : StashBlock(p, b, v)
             \/ \E b \in Blocks : UnstashBlock(p, b)
             \/ Restart(p)
      PROVE  ControlInv'
  BY <1>3, StashingControl, RestartControl
<1>4. CASE UNCHANGED vars
  BY <1>4 DEF vars, ControlInv, TypeOK, JobState, Alone, StashInv, Commits
<1> QED
  BY <1>1, <1>2, <1>3, <1>4 DEF Next

LEMMA Control == Spec => []ControlInv
<1>1. Init => ControlInv
  BY InitControl
<1> QED
  BY <1>1, NextControl, PTL DEF Spec

-------------------------------------------------------------------------------
(* The files, for one worker that does something while the others stand.   *)

Grow == \A t \in Tiers, h \in Hashes : FileExists(t, h) => FileExists(t, h)'
OnlyBy(w) == \A x \in Workers : x # w => job'[x] = job[x]
Whole(t, h) == final_files[t][h] \in Values /\ compute_hash[final_files[t][h]] = h

LEMMA TheTiers == FirstTier \in Tiers /\ "base" \in Tiers /\ "stash" \in Tiers
BY DEF FirstTier, Tiers

(* Workers outside of calls have achieved nothing. *)
LEMMA IdleWorker ==
  ASSUME NEW w \in Workers, job[w] = Idle PROVE Stored(w) /\ InStash(w) /\ PathFound(w)
BY IdleJob DEF Stored, InStash, PathFound

LEMMA WorkersStep ==
  ASSUME ControlInv, WorkersInv, NEW w \in Workers, OnlyBy(w), Grow,
         \A x \in Workers : x # w /\ job[x].op = "get_block_full_path" =>
           blocks_ids'[process[x]] = blocks_ids[process[x]],
         Stored(w)', InStash(w)', PathFound(w)'
  PROVE  WorkersInv'
<1> SUFFICES ASSUME NEW x \in Workers, x # w PROVE (Stored(x) /\ InStash(x) /\ PathFound(x))'
  BY DEF WorkersInv
<1>1. job'[x] = job[x] /\ Stored(x) /\ InStash(x) /\ PathFound(x)
  BY DEF OnlyBy, WorkersInv
<1>2. CASE job[x].pc = "idle"
  <2>1. job[x] = Idle
    BY <1>2 DEF ControlInv, JobState, inner_places
  <2> QED
    BY <1>1, <2>1, IdleJob DEF Stored, InStash, PathFound
<1>3. CASE job[x].pc # "idle"
  <2>1. block_hash(x) \in Hashes /\ job[x].tier \in Tiers /\ block_hash(x)' = block_hash(x)
    BY <1>1, <1>3, BusyWorker DEF block_hash
  <2>2. \A t \in Tiers : FileExists(t, block_hash(x)) => FileExists(t, block_hash(x))'
    BY <2>1 DEF Grow, FileExists
  <2>3. Stored(x)'
    BY <1>1, <2>1, <2>2, TheTiers DEF Stored, FileExists
  <2>4. InStash(x)'
    BY <1>1, <2>1, <2>2, TheTiers DEF InStash, FileExists
  <2>5. PathFound(x)'
    BY <1>1, <2>1, <2>2, TheTiers DEF PathFound, FileExists
  <2> QED
    BY <2>3, <2>4, <2>5
<1> QED
  BY <1>2, <1>3

LEMMA FilesStep ==
  ASSUME ControlInv, FilesInv, NEW w \in Workers, OnlyBy(w), job[w].pc # "copying",
         \A t \in Tiers, h \in Hashes : FileExists(t, h)' =>
           \/ final_files'[t][h] = final_files[t][h]
           \/ Whole(t, h)'
           \/ t = "stash" /\ Copying(h)'
  PROVE  FilesInv'
<1>1. ASSUME NEW h \in Hashes, Copying(h) PROVE Copying(h)'
  BY <1>1 DEF Copying, OnlyBy, block_hash
<1> QED
  BY <1>1 DEF FilesInv, FileExists, Whole

LEMMA TiersStep ==
  ASSUME TiersInv, NEW w \in Workers, OnlyBy(w), Grow,
         \A h \in Hashes :
           FileExists("stash", h)' => FileExists("stash", h) \/ FileExists("base", h)' \/ OnItsWay(h)',
         job[w].pc \in inner_places /\ job[w].tier = "base" =>
           \/ /\ job'[w].pc \in inner_places /\ job'[w].tier = "base"
              /\ job'[w].buffer = job[w].buffer
           \/ final_files'["base"][block_hash(w)] # None
  PROVE  TiersInv'
<1>1. ASSUME NEW h \in Hashes, OnItsWay(h) PROVE OnItsWay(h)' \/ FileExists("base", h)'
  <2>1. PICK x \in Workers : job[x].pc \in inner_places /\ job[x].tier = "base" /\ block_hash(x) = h
    BY <1>1 DEF OnItsWay
  <2>2. CASE x = w
    BY <2>1, <2>2 DEF OnItsWay, block_hash, FileExists
  <2>3. CASE x # w
    BY <2>1, <2>3 DEF OnItsWay, OnlyBy, block_hash
  <2> QED
    BY <2>2, <2>3
<1> QED
  BY <1>1, TheTiers DEF TiersInv, Grow

LEMMA HashesStep ==
  ASSUME ControlInv, HashesInv, Grow, UNCHANGED <<returned, blocks_ids>> PROVE HashesInv'
BY TheTiers DEF ControlInv, TypeOK, HashesInv, Grow, FileExists

LEMMA KnownStep ==
  ASSUME ControlInv, KnownInv, Grow, UNCHANGED <<stash_committed_block_ids, blocks_ids>>
  PROVE  KnownInv'
<1> SUFFICES ASSUME MultiTiered, ~UseCompression, NEW p \in Processes,
                    NEW b \in stash_committed_block_ids[p], blocks_ids[p][b] # None
             PROVE  FileExists("stash", blocks_ids[p][b])'
  BY DEF KnownInv, FileExists
<1>1. blocks_ids[p][b] \in Hashes
  BY DEF ControlInv, TypeOK
<1> QED
  BY <1>1, TheTiers DEF KnownInv, Grow, FileExists

(* Most steps return no hash and add nothing to the table. *)
LEMMA DataStep ==
  ASSUME ControlInv, DataInv, NEW w \in Workers, OnlyBy(w), Grow, job[w].pc # "copying",
         \A t \in Tiers, h \in Hashes : FileExists(t, h)' =>
           \/ final_files'[t][h] = final_files[t][h]
           \/ Whole(t, h)'
           \/ t = "stash" /\ Copying(h)',
         \A h \in Hashes :
           FileExists("stash", h)' => FileExists("stash", h) \/ FileExists("base", h)' \/ OnItsWay(h)',
         job[w].pc \in inner_places /\ job[w].tier = "base" =>
           \/ /\ job'[w].pc \in inner_places /\ job'[w].tier = "base"
              /\ job'[w].buffer = job[w].buffer
           \/ final_files'["base"][block_hash(w)] # None,
         UNCHANGED <<returned, blocks_ids, stash_committed_block_ids>>,
         Stored(w)', InStash(w)', PathFound(w)'
  PROVE  DataInv'
<1>1. FilesInv' /\ TiersInv'
  BY FilesStep, TiersStep DEF DataInv
<1>2. HashesInv' /\ KnownInv'
  BY HashesStep, KnownStep DEF DataInv
<1>3. WorkersInv'
  BY WorkersStep DEF DataInv
<1> QED
  BY <1>1, <1>2, <1>3 DEF DataInv

(* Steps that leave the files alone. *)
LEMMA SameFilesStep ==
  ASSUME ControlInv, DataInv, NEW w \in Workers, OnlyBy(w), job[w].pc # "copying",
         job[w].pc \in inner_places /\ job[w].tier = "base" =>
           \/ /\ job'[w].pc \in inner_places /\ job'[w].tier = "base"
              /\ job'[w].buffer = job[w].buffer
           \/ FileExists("base", block_hash(w)),
         UNCHANGED <<final_files, returned, blocks_ids, stash_committed_block_ids>>,
         Stored(w)', InStash(w)', PathFound(w)'
  PROVE  DataInv'
<1>1. Grow /\ \A t \in Tiers, h \in Hashes : FileExists(t, h)' <=> FileExists(t, h)
  BY DEF Grow, FileExists
<1>2. FileExists("base", block_hash(w)) => final_files'["base"][block_hash(w)] # None
  BY DEF FileExists
<1>3. \A t \in Tiers, h \in Hashes : final_files'[t][h] = final_files[t][h]
  OBVIOUS
<1> QED
  BY <1>1, <1>2, <1>3, DataStep, TheTiers

LEMMA InitData == Init => DataInv
<1> SUFFICES ASSUME Init PROVE DataInv
  OBVIOUS
<1>1. PICK kept \in SUBSET Values :
        /\ final_files = [base  |-> [h \in Hashes |-> IF \E v \in kept : compute_hash[v] = h
                                                      THEN CHOOSE v \in kept : compute_hash[v] = h
                                                      ELSE None],
                          stash |-> [h \in Hashes |-> None]]
        /\ returned = {compute_hash[v] : v \in kept}
  BY DEF Init
<1>2. ASSUME NEW h \in Hashes, \E v \in kept : compute_hash[v] = h
      PROVE  final_files["base"][h] \in kept /\ compute_hash[final_files["base"][h]] = h
  <2>1. PICK v \in kept : compute_hash[v] = h
    BY <1>2
  <2> DEFINE c == CHOOSE v0 \in kept : compute_hash[v0] = h
  <2>2. c \in kept /\ compute_hash[c] = h
    BY <2>1
  <2>3. final_files["base"][h] = c
    BY <1>1, <1>2
  <2> QED
    BY <2>2, <2>3
<1>3. ASSUME NEW h \in Hashes, ~ \E v \in kept : compute_hash[v] = h
      PROVE  final_files["base"][h] = None
  BY <1>1, <1>3
<1>4. \A h \in Hashes : final_files["stash"][h] = None
  BY <1>1
<1>5. FilesInv
  BY <1>2, <1>3, <1>4 DEF FilesInv, FileExists, Tiers
<1>6. TiersInv
  BY <1>4 DEF TiersInv, FileExists
<1>7. HashesInv
  <2>1. ASSUME NEW h \in returned PROVE FileExists("base", h)
    <3>1. PICK v \in kept : h = compute_hash[v]
      BY <1>1
    <3>2. h \in Hashes
      BY <3>1, HashAssumption
    <3> QED
      BY <1>2, <3>1, <3>2, HashAssumption DEF FileExists
  <2> QED
    BY <2>1 DEF HashesInv, Init
<1>8. KnownInv
  BY DEF KnownInv, Init
<1>9. WorkersInv
  BY IdleWorker DEF WorkersInv, Init
<1> QED
  BY <1>5, <1>6, <1>7, <1>8, <1>9 DEF DataInv

-------------------------------------------------------------------------------
(* The beginnings of calls. *)

(* A whole file exists, and only one content has its name. *)
LEMMA WholeExists ==
  ASSUME NEW t, NEW h \in Hashes
  PROVE  /\ Whole(t, h) => FileExists(t, h)
         /\ \A v \in Values : final_files[t][h] = v /\ compute_hash[v] = h => Whole(t, h)
         /\ \A v \in Values : Whole(t, h) /\ compute_hash[v] = h => final_files[t][h] = v
BY HashAssumption DEF Whole, FileExists

(* When nobody is in a call, what is in the stash tier is in the base tier *)
(* too: the process that could have it on its way is quiet.                *)
LEMMA QuietTiers ==
  ASSUME SafeSettings, DataInv, NEW w \in Workers, Quiet(process[w]), NEW h \in Hashes,
         FileExists(FirstTier, h)
  PROVE  FileExists("base", h)
<1>1. CASE MultiTiered
  <2>1. \A x \in Workers : job[x] = Idle
    BY <1>1 DEF SafeSettings, Quiet, WorkersOf
  <2>2. ~OnItsWay(h)
    BY <2>1, IdleJob DEF OnItsWay, inner_places
  <2> QED
    BY <1>1, <2>2 DEF DataInv, TiersInv, FirstTier
<1>2. CASE ~MultiTiered
  BY <1>2 DEF FirstTier
<1> QED
  BY <1>1, <1>2

LEMMA StoreBlockData ==
  ASSUME ControlInv, DataInv, NEW w \in Workers, NEW b \in Blocks, NEW v \in Values,
         StoreBlock(w, b, v)
  PROVE  DataInv'
<1>1. /\ job[w] = Idle /\ OnlyBy(w)
      /\ job'[w].op = "store_block" /\ job'[w].pc = "temp"
      /\ job'[w].tier = FirstTier
  BY DEF StoreBlock, Begin, OnlyBy, ControlInv, TypeOK
<1>2. UNCHANGED <<final_files, returned, blocks_ids, stash_committed_block_ids>>
  BY DEF StoreBlock
<1>3. Stored(w)' /\ InStash(w)' /\ PathFound(w)'
  BY <1>1, TheTiers DEF Stored, InStash, PathFound, FirstTier
<1> QED
  BY <1>1, <1>2, <1>3, SameFilesStep, IdleJob DEF inner_places

LEMMA CommitData ==
  ASSUME SafeSettings, ControlInv, DataInv, NEW w \in Workers, NEW b \in Blocks,
         CommitStashBlock(w, b)
  PROVE  DataInv'
<1> DEFINE v == stash_files[process[w]][b]
<1>1. /\ Quiet(process[w]) /\ job[w] = Idle /\ OnlyBy(w)
      /\ job'[w].op = "commit_stash_block" /\ job'[w].buffer = v /\ v \in Values
      /\ job'[w].pc = IF FileExists(FirstTier, compute_hash[v]) THEN "drop"
                      ELSE IF UseCompression THEN "temp" ELSE "move"
  BY QuietWorker, CommitControl DEF CommitStashBlock, Begin, OnlyBy, ControlInv, TypeOK
<1>2. UNCHANGED <<final_files, returned, blocks_ids, stash_committed_block_ids>>
  BY DEF CommitStashBlock
<1>3. block_hash(w)' = compute_hash[v] /\ compute_hash[v] \in Hashes
  BY <1>1, HashAssumption DEF block_hash
<1> HIDE DEF v
<1>4. Stored(w)'
  BY <1>1, <1>2, <1>3, QuietTiers DEF Stored, FileExists
<1>5. InStash(w)'
  BY <1>1, <1>2, <1>3 DEF InStash, FileExists, FirstTier
<1>6. PathFound(w)'
  BY <1>1 DEF PathFound
<1> QED
  BY <1>1, <1>2, <1>4, <1>5, <1>6, SameFilesStep, IdleJob DEF inner_places

LEMMA GetPathData ==
  ASSUME SafeSettings, ControlInv, DataInv, NEW w \in Workers, NEW b \in Blocks,
         NEW v \in Values, GetBlockFullPath(w, b, v)
  PROVE  DataInv'
<1> DEFINE p == process[w]
<1>1. /\ p \in Processes /\ Quiet(p) /\ job[w] = Idle /\ OnlyBy(w)
      /\ job'[w].op = "get_block_full_path" /\ job'[w].buffer = v
      /\ job'[w].block_index = b
      /\ job'[w].pc = IF NeedsCopy(p, b) THEN "copy" ELSE "found"
  BY QuietWorker, ProcessAssumption
     DEF GetBlockFullPath, Begin, OnlyBy, ControlInv, TypeOK
<1>2. /\ UNCHANGED <<final_files, returned, blocks_ids>>
      /\ IF NeedsCopy(p, b) THEN UNCHANGED stash_committed_block_ids
         ELSE stash_committed_block_ids' = Known(p, b)
      /\ blocks_ids[p][b] = compute_hash[v]
  BY DEF GetBlockFullPath
<1>3. block_hash(w)' = compute_hash[v] /\ compute_hash[v] \in Hashes /\ compute_hash[v] # None
  BY <1>1, HashAssumption DEF block_hash
<1>4. FileExists("base", compute_hash[v])
  BY <1>1, <1>2, <1>3 DEF DataInv, HashesInv
<1>5. ~(MultiTiered /\ UseCompression) /\ ~NeedsCopy(p, b)
        => FileExists(FirstTier, compute_hash[v])
  <2>1. CASE MultiTiered /\ ~UseCompression
    <3>1. b \in stash_committed_block_ids[p] => FileExists("stash", compute_hash[v])
      BY <1>1, <1>2, <1>3, <2>1 DEF DataInv, KnownInv
    <3> QED
      BY <1>2, <2>1, <3>1 DEF NeedsCopy, NotKnown, FirstTier
  <2>2. CASE ~MultiTiered
    BY <1>4, <2>2 DEF FirstTier
  <2> QED
    BY <2>1, <2>2
<1>6. Stored(w)' /\ InStash(w)' /\ PathFound(w)'
  <2>1. Stored(w)' /\ InStash(w)'
    BY <1>1 DEF Stored, InStash
  <2>2. PathFound(w)'
    BY <1>1, <1>2, <1>3, <1>5 DEF PathFound, FileExists
  <2> QED
    BY <2>1, <2>2
<1>7. Grow /\ \A t \in Tiers, h \in Hashes : final_files'[t][h] = final_files[t][h]
  BY <1>2 DEF Grow, FileExists
<1>8. FilesInv' /\ TiersInv'
  <2>1. FilesInv'
    BY <1>1, <1>7, FilesStep, IdleJob DEF DataInv
  <2>2. TiersInv'
    BY <1>1, <1>2, <1>7, TiersStep, IdleJob DEF DataInv, inner_places, FileExists
  <2> QED
    BY <2>1, <2>2
<1>9. HashesInv'
  BY <1>2, <1>7, HashesStep DEF DataInv
<1>10. KnownInv'
  <2> SUFFICES ASSUME MultiTiered, ~UseCompression, NEW q \in Processes,
                      NEW c \in stash_committed_block_ids'[q], blocks_ids[q][c] # None
               PROVE  FileExists("stash", blocks_ids[q][c])
    BY <1>2 DEF KnownInv, FileExists
  <2>1. CASE c \in stash_committed_block_ids[q]
    BY <2>1 DEF DataInv, KnownInv
  <2>2. CASE c \notin stash_committed_block_ids[q]
    <3>1. q = p /\ c = b /\ ~NeedsCopy(p, b)
      BY <1>2, <2>2 DEF ControlInv, TypeOK, Known
    <3> QED
      BY <1>2, <1>5, <3>1 DEF FirstTier
  <2> QED
    BY <2>1, <2>2
<1>11. WorkersInv'
  BY <1>2, <1>6, <1>1, <1>7, WorkersStep DEF DataInv
<1> QED
  BY <1>8, <1>9, <1>10, <1>11 DEF DataInv

-------------------------------------------------------------------------------
(* The inner store_block(). *)

LEMMA CreateTempData ==
  ASSUME ControlInv, DataInv, NEW w \in Workers, CreateTemp(w) PROVE DataInv'
<1>1. /\ job[w].pc = "temp" /\ OnlyBy(w)
      /\ job'[w].op = job[w].op /\ job'[w].buffer = job[w].buffer
      /\ job'[w].block_index = job[w].block_index /\ job'[w].tier = job[w].tier
      /\ job'[w].pc = PcAfterTemp(w)
  BY TempControl DEF CreateTemp, OnlyBy
<1>2. UNCHANGED <<final_files, returned, blocks_ids, stash_committed_block_ids>>
  BY DEF CreateTemp
<1>3. block_hash(w)' = block_hash(w)
  BY <1>1 DEF block_hash
<1>4. /\ job'[w].pc = "remove" => FileExists(job[w].tier, block_hash(w))
      /\ job'[w].pc \in {"remove", "write"}
  BY <1>1 DEF PcAfterTemp
<1>5. Stored(w)'
  BY <1>1, <1>2, <1>3, <1>4 DEF Stored, FileExists
<1>6. InStash(w)'
  BY <1>1, <1>2, <1>3, <1>4 DEF DataInv, WorkersInv, InStash, FileExists
<1>7. PathFound(w)'
  BY <1>1, <1>2, <1>3, <1>4, BusyWorker DEF ControlInv, JobState, inner_places, PathFound
<1> QED
  BY <1>1, <1>2, <1>4, <1>5, <1>6, <1>7, SameFilesStep DEF inner_places

LEMMA WriteTempData ==
  ASSUME SafeSettings, ControlInv, DataInv, NEW w \in Workers, WriteTemp(w) PROVE DataInv'
<1>1. /\ job[w].pc = "write" /\ OnlyBy(w)
      /\ job'[w].op = job[w].op /\ job'[w].buffer = job[w].buffer
      /\ job'[w].block_index = job[w].block_index /\ job'[w].tier = job[w].tier
      /\ job'[w].pc = "rename" /\ job'[w].temporary_file = job[w].buffer
  BY TempControl DEF WriteTemp, OnlyBy, SafeSettings, Written
<1>2. UNCHANGED <<final_files, returned, blocks_ids, stash_committed_block_ids>>
  BY DEF WriteTemp
<1>3. block_hash(w)' = block_hash(w)
  BY <1>1 DEF block_hash
<1>4. Stored(w)'
  BY <1>1 DEF Stored
<1>5. InStash(w)'
  BY <1>1, <1>2, <1>3 DEF DataInv, WorkersInv, InStash, FileExists
<1>6. PathFound(w)'
  BY <1>1, BusyWorker DEF ControlInv, JobState, inner_places, PathFound
<1> QED
  BY <1>1, <1>2, <1>4, <1>5, <1>6, SameFilesStep DEF inner_places

(* The contents that a file gets under the final name are the buffer's; a  *)
(* file that is there is left.                                             *)
LEMMA StoredData ==
  ASSUME SafeSettings, ControlInv, DataInv, NEW w \in Workers, RenameTemp(w) \/ RemoveTemp(w)
  PROVE  DataInv'
<1> DEFINE t == job[w].tier
           h == block_hash(w)
           v == job[w].buffer
<1>1. /\ job[w].pc \in {"rename", "remove"} /\ OnlyBy(w)
      /\ job'[w].op = job[w].op /\ job'[w].buffer = v
      /\ job'[w].block_index = job[w].block_index /\ job'[w].tier = "base"
      /\ job'[w].pc = IF job[w].op = "store_block" /\ t = "stash" THEN "temp"
                      ELSE IF job[w].op = "store_block" THEN "insert" ELSE "erase"
  BY StoredControl DEF RenameTemp, RemoveTemp, OnlyBy
<1>2. /\ UNCHANGED <<returned, blocks_ids, stash_committed_block_ids>>
      /\ \/ job[w].pc = "rename" /\ final_files' = [final_files EXCEPT ![t][h] = job[w].temporary_file]
         \/ job[w].pc = "remove" /\ final_files' = final_files
  BY DEF RenameTemp, RemoveTemp, WithoutTempFile
<1>3. /\ h \in Hashes /\ v \in Values /\ t \in Tiers /\ compute_hash[v] = h
      /\ h' = h /\ job[w] # Idle
  BY <1>1, BusyWorker DEF block_hash
<1>4. /\ job[w].op \in {"store_block", "commit_stash_block"}
      /\ job[w].op = "commit_stash_block" => t = "base"
      /\ t = "stash" => job[w].op = "store_block"
      /\ t = "base" \/ t = "stash"
  BY <1>1, <1>3 DEF ControlInv, JobState, inner_places, Tiers
<1>5. /\ Stored(w) /\ InStash(w)
      /\ final_files \in [Tiers -> [Hashes -> Contents]]
  BY DEF DataInv, WorkersInv, ControlInv, TypeOK
<1> HIDE DEF t, h, v
<1>6. /\ \A u \in Tiers, g \in Hashes :
           \/ final_files'[u][g] = final_files[u][g]
           \/ u = t /\ g = h /\ final_files'[u][g] = v
      /\ final_files'[t][h] # None
  <2>1. CASE job[w].pc = "rename"
    <3>1. final_files' = [final_files EXCEPT ![t][h] = v]
      BY <1>2, <1>5, <2>1 DEF Stored, v
    <3> QED
      BY <1>3, <1>5, <3>1, HashAssumption
  <2>2. CASE job[w].pc = "remove"
    BY <1>2, <1>5, <2>2 DEF Stored, FileExists, t, h
  <2> QED
    BY <1>1, <2>1, <2>2
<1>7. Grow
  BY <1>3, <1>6, HashAssumption DEF Grow, FileExists
<1>8. \A u \in Tiers, g \in Hashes : FileExists(u, g)' =>
        \/ final_files'[u][g] = final_files[u][g]
        \/ Whole(u, g)'
        \/ u = "stash" /\ Copying(g)'
  BY <1>3, <1>6 DEF Whole
<1>9. \A g \in Hashes : FileExists("stash", g)' =>
        FileExists("stash", g) \/ FileExists("base", g)' \/ OnItsWay(g)'
  <2> SUFFICES ASSUME NEW g \in Hashes, FileExists("stash", g)', ~FileExists("stash", g)
               PROVE  OnItsWay(g)'
    OBVIOUS
  <2>1. t = "stash" /\ g = h
    BY <1>6, TheTiers DEF FileExists
  <2>2. job'[w].pc = "temp" /\ job'[w].tier = "base" /\ block_hash(w)' = g
    BY <1>1, <1>3, <1>4, <2>1 DEF h
  <2> QED
    BY <2>2 DEF OnItsWay, inner_places
<1>10. t = "base" => final_files'["base"][block_hash(w)] # None
  BY <1>6 DEF h
<1>11. Stored(w)'
  <2>1. job'[w].pc \in {"insert", "erase"} => t = "base"
    BY <1>1, <1>4
  <2>2. block_hash(w)' = h
    BY <1>3 DEF h
  <2> QED
    BY <1>1, <1>6, <2>1, <2>2 DEF Stored, FileExists
<1>12. InStash(w)'
  <2> SUFFICES ASSUME MultiTiered, ~UseCompression PROVE final_files'["stash"][h] # None
    BY <1>1, <1>3 DEF InStash, FileExists, h
  <2>1. CASE t = "stash"
    BY <1>6, <2>1
  <2>2. CASE t = "base"
    <3>1. FileExists("stash", h)
      BY <1>1, <1>4, <1>5, <2>2 DEF InStash, t, h
    <3> QED
      BY <1>3, <1>7, <3>1, TheTiers DEF Grow, FileExists
  <2> QED
    BY <1>4, <2>1, <2>2
<1>13. PathFound(w)'
  BY <1>1, <1>4 DEF PathFound
<1> QED
  BY <1>1, <1>2, <1>7, <1>8, <1>9, <1>10, <1>11, <1>12, <1>13, DataStep DEF t

LEMMA MoveStashData ==
  ASSUME ControlInv, DataInv, NEW w \in Workers, MoveStash(w)
  PROVE  DataInv'
<1> DEFINE h == block_hash(w)
           v == job[w].buffer
<1>1. /\ job[w].pc = "move" /\ OnlyBy(w) /\ ControlInv'
      /\ job'[w].op = "commit_stash_block" /\ job'[w].buffer = v
      /\ job'[w].tier = "base" /\ job'[w].pc = "temp"
      /\ final_files' = [final_files EXCEPT ![FirstTier][h] = v]
  BY MoveControl DEF MoveStash, OnlyBy
<1>2. UNCHANGED <<returned, blocks_ids, stash_committed_block_ids>>
  BY DEF MoveStash
<1>3. /\ h \in Hashes /\ v \in Values /\ compute_hash[v] = h /\ h' = h
      /\ final_files \in [Tiers -> [Hashes -> Contents]]
  BY <1>1, BusyWorker DEF block_hash, ControlInv, TypeOK
<1> HIDE DEF h, v
<1>4. /\ \A u \in Tiers, g \in Hashes :
           \/ final_files'[u][g] = final_files[u][g]
           \/ u = FirstTier /\ g = h /\ final_files'[u][g] = v
      /\ final_files'[FirstTier][h] # None
  BY <1>1, <1>3, HashAssumption, TheTiers
<1>5. Grow
  BY <1>3, <1>4, HashAssumption DEF Grow, FileExists
<1>6. \A u \in Tiers, g \in Hashes : FileExists(u, g)' =>
        \/ final_files'[u][g] = final_files[u][g]
        \/ Whole(u, g)'
        \/ u = "stash" /\ Copying(g)'
  BY <1>3, <1>4 DEF Whole
<1>7. block_hash(w)' = h
  BY <1>3 DEF h
<1>8. \A g \in Hashes : FileExists("stash", g)' =>
        FileExists("stash", g) \/ FileExists("base", g)' \/ OnItsWay(g)'
  BY <1>1, <1>4, <1>7, TheTiers DEF OnItsWay, inner_places, FileExists
<1>9. Stored(w)' /\ PathFound(w)'
  BY <1>1 DEF Stored, PathFound
<1>10. InStash(w)'
  BY <1>1, <1>4, <1>7 DEF InStash, FileExists, FirstTier
<1> QED
  BY <1>1, <1>2, <1>5, <1>6, <1>8, <1>9, <1>10, DataStep DEF inner_places

-------------------------------------------------------------------------------
(* The paths. *)

LEMMA StartCopyData ==
  ASSUME ControlInv, DataInv, NEW w \in Workers, StartCopy(w) PROVE DataInv'
<1> DEFINE h == block_hash(w)
<1>1. /\ job[w].pc = "copy" /\ OnlyBy(w)
      /\ job[w].op = "get_block_full_path"
      /\ job'[w].op = job[w].op /\ job'[w].buffer = job[w].buffer
      /\ job'[w].block_index = job[w].block_index /\ job'[w].pc = "copying"
  BY CopyControl DEF StartCopy, OnlyBy
<1>2. /\ UNCHANGED <<returned, blocks_ids, stash_committed_block_ids>>
      /\ FileExists("base", h) /\ ~FileExists("stash", h)
      /\ final_files' = [final_files EXCEPT !["stash"][h] = Partial]
  BY DEF StartCopy
<1>3. h \in Hashes /\ h' = h /\ final_files \in [Tiers -> [Hashes -> Contents]]
  BY <1>1, BusyWorker DEF block_hash, ControlInv, TypeOK
<1> HIDE DEF h
<1>4. block_hash(w)' = h
  BY <1>3 DEF h
<1>5. /\ \A u \in Tiers, g \in Hashes :
           \/ final_files'[u][g] = final_files[u][g]
           \/ u = "stash" /\ g = h
      /\ final_files'["stash"][h] = Partial
      /\ final_files'["base"][h] # None
  BY <1>2, <1>3, TheTiers DEF FileExists
<1>6. Grow
  BY <1>5, HashAssumption DEF Grow, FileExists
<1>7. ASSUME NEW g \in Hashes, g = h PROVE Copying(g)'
  BY <1>1, <1>4, <1>7 DEF Copying
<1>8. \A u \in Tiers, g \in Hashes : FileExists(u, g)' =>
        \/ final_files'[u][g] = final_files[u][g]
        \/ Whole(u, g)'
        \/ u = "stash" /\ Copying(g)'
  BY <1>5, <1>7
<1>9. \A g \in Hashes : FileExists("stash", g)' =>
        FileExists("stash", g) \/ FileExists("base", g)' \/ OnItsWay(g)'
  BY <1>5, TheTiers DEF FileExists
<1>10. Stored(w)' /\ InStash(w)' /\ PathFound(w)'
  <2>1. Stored(w)'
    BY <1>1, <1>4, <1>5 DEF Stored, FileExists
  <2>2. InStash(w)'
    BY <1>1 DEF InStash
  <2>3. PathFound(w)'
    BY <1>1, <1>2, <1>4 DEF PathFound, DataInv, WorkersInv, h
  <2> QED
    BY <2>1, <2>2, <2>3
<1> QED
  BY <1>1, <1>2, <1>6, <1>8, <1>9, <1>10, DataStep DEF inner_places

LEMMA FinishCopyData ==
  ASSUME ControlInv, DataInv, NEW w \in Workers, FinishCopy(w) PROVE DataInv'
<1> DEFINE h == block_hash(w)
           p == process[w]
           b == job[w].block_index
<1>1. /\ job[w].pc = "copying" /\ OnlyBy(w)
      /\ job[w].op = "get_block_full_path" /\ MultiTiered
      /\ job'[w].op = job[w].op /\ job'[w].buffer = job[w].buffer
      /\ job'[w].block_index = b /\ job'[w].pc = "found"
  BY CopyControl DEF FinishCopy, OnlyBy
<1>2. /\ UNCHANGED <<returned, blocks_ids>>
      /\ stash_committed_block_ids' = Known(p, b)
      /\ final_files' = [final_files EXCEPT !["stash"][h] = final_files["base"][h]]
  BY DEF FinishCopy
<1>3. /\ h \in Hashes /\ h' = h /\ p \in Processes /\ b \in Blocks
      /\ final_files \in [Tiers -> [Hashes -> Contents]]
  BY <1>1, BusyWorker DEF block_hash, ControlInv, TypeOK
<1>4. Stored(w) /\ PathFound(w)
  BY DEF DataInv, WorkersInv
<1>5. FileExists("base", h) /\ Whole("base", h) /\ blocks_ids[p][b] = h
  <2>1. FileExists("base", h) /\ blocks_ids[p][b] = h
    BY <1>1, <1>4 DEF Stored, PathFound
  <2> QED
    BY <1>3, <2>1, TheTiers DEF DataInv, FilesInv, Whole
<1> HIDE DEF h
<1>6. block_hash(w)' = h
  BY <1>3 DEF h
<1>7. /\ \A u \in Tiers, g \in Hashes :
           \/ final_files'[u][g] = final_files[u][g] /\ ~(u = "stash" /\ g = h)
           \/ u = "stash" /\ g = h /\ final_files'[u][g] = final_files["base"][h]
      /\ final_files'["stash"][h] = final_files["base"][h]
      /\ final_files'["base"][h] # None
  BY <1>2, <1>3, <1>5, TheTiers DEF FileExists
<1>8. Grow
  BY <1>5, <1>7 DEF Grow, FileExists
<1>9. FilesInv'
  <2> SUFFICES ASSUME NEW u \in Tiers, NEW g \in Hashes, FileExists(u, g)',
                      ~Whole(u, g)'
               PROVE  u = "stash" /\ Copying(g)'
    BY DEF FilesInv, Whole
  <2>1. final_files'[u][g] = final_files[u][g] /\ ~(u = "stash" /\ g = h)
    BY <1>5, <1>7 DEF Whole
  <2>2. u = "stash" /\ Copying(g) /\ g # h
    BY <2>1 DEF DataInv, FilesInv, FileExists, Whole
  <2>3. PICK x \in Workers : job[x].pc = "copying" /\ block_hash(x) = g
    BY <2>2 DEF Copying
  <2>4. x # w /\ job'[x] = job[x]
    BY <1>1, <2>2, <2>3 DEF h, OnlyBy
  <2> QED
    BY <2>2, <2>3, <2>4 DEF Copying, block_hash
<1>10. TiersInv'
  <2>1. \A g \in Hashes : FileExists("stash", g)' =>
          FileExists("stash", g) \/ FileExists("base", g)' \/ OnItsWay(g)'
    BY <1>7, TheTiers DEF FileExists
  <2> QED
    BY <1>1, <1>8, <2>1, TiersStep DEF DataInv, inner_places
<1>11. HashesInv'
  BY <1>2, <1>8, HashesStep DEF DataInv
<1>12. KnownInv'
  <2> SUFFICES ASSUME MultiTiered, ~UseCompression, NEW q \in Processes,
                      NEW c \in stash_committed_block_ids'[q], blocks_ids[q][c] # None
               PROVE  final_files'["stash"][blocks_ids[q][c]] # None
    BY <1>2 DEF KnownInv, FileExists
  <2>1. CASE c \in stash_committed_block_ids[q]
    <3>1. FileExists("stash", blocks_ids[q][c]) /\ blocks_ids[q][c] \in Hashes
      BY <2>1 DEF DataInv, KnownInv, ControlInv, TypeOK
    <3> QED
      BY <1>8, <3>1, TheTiers DEF Grow, FileExists
  <2>2. CASE c \notin stash_committed_block_ids[q]
    <3>1. q = p /\ c = b
      BY <1>2, <2>2 DEF ControlInv, TypeOK, Known
    <3> QED
      BY <1>5, <1>7, <3>1 DEF FileExists
  <2> QED
    BY <2>1, <2>2
<1>13. WorkersInv'
  <2>1. Stored(w)' /\ InStash(w)'
    BY <1>1 DEF Stored, InStash
  <2>2. PathFound(w)'
    BY <1>1, <1>2, <1>5, <1>6, <1>7 DEF PathFound, FileExists, FirstTier
  <2> QED
    BY <1>1, <1>2, <1>8, <2>1, <2>2, WorkersStep DEF DataInv
<1> QED
  BY <1>9, <1>10, <1>11, <1>12, <1>13 DEF DataInv

LEMMA UsePathData ==
  ASSUME ControlInv, DataInv, NEW w \in Workers, UsePath(w) PROVE DataInv'
<1>1. job[w].pc = "found" /\ OnlyBy(w) /\ job'[w] = Idle
  BY DEF UsePath, OnlyBy, ControlInv, TypeOK
<1>2. UNCHANGED <<final_files, returned, blocks_ids, stash_committed_block_ids>>
  BY DEF UsePath
<1>3. Stored(w)' /\ InStash(w)' /\ PathFound(w)'
  BY <1>1, IdleJob DEF Stored, InStash, PathFound
<1> QED
  BY <1>1, <1>2, <1>3, SameFilesStep DEF inner_places

-------------------------------------------------------------------------------
(* The returns: the hash goes into the table of the caller's manager.      *)

LEMMA ReturnData ==
  ASSUME ControlInv, DataInv, NEW w \in Workers, ReturnHash(w),
         job[w].pc \in {"insert", "erase", "drop"},
         job[w].op \in {"store_block", "commit_stash_block"}, UNCHANGED final_files,
         \A q \in Processes : \A c \in stash_committed_block_ids'[q] :
           \/ c \in stash_committed_block_ids[q]
           \/ q = process[w] /\ c = job[w].block_index
  PROVE  DataInv'
<1> DEFINE h == block_hash(w)
           p == process[w]
           b == job[w].block_index
<1>1. /\ returned' = returned \cup {h} /\ OnlyBy(w) /\ job'[w] = Idle
      /\ blocks_ids' = [blocks_ids EXCEPT ![p][b] = h]
  BY ReturnHashTypes DEF OnlyBy
<1>2. /\ h \in Hashes /\ p \in Processes /\ b \in Blocks /\ job[w] # Idle
      /\ blocks_ids \in [Processes -> [Blocks -> Hashes \cup {None}]]
      /\ returned \subseteq Hashes
  BY BusyWorker DEF ControlInv, TypeOK
<1>3. FileExists("base", h) /\ (MultiTiered /\ ~UseCompression => FileExists("stash", h))
  <2>1. Stored(w) /\ InStash(w)
    BY DEF DataInv, WorkersInv
  <2>2. job[w].op = "store_block" => job[w].pc = "insert"
    BY <1>2 DEF ControlInv, JobState, inner_places
  <2> QED
    BY <2>1, <2>2 DEF Stored, InStash
<1> HIDE DEF h, b
<1>4. \A q \in Processes, c \in Blocks :
        \/ blocks_ids'[q][c] = blocks_ids[q][c] /\ ~(q = p /\ c = b)
        \/ blocks_ids'[q][c] = h /\ q = p /\ c = b
  BY <1>1, <1>2
<1>5. Grow /\ \A t \in Tiers, g \in Hashes : final_files'[t][g] = final_files[t][g]
  BY DEF Grow, FileExists
<1>6. FilesInv'
  BY <1>1, <1>5, FilesStep DEF DataInv
<1>7. TiersInv'
  BY <1>1, <1>5, TiersStep, TheTiers DEF DataInv, FileExists, inner_places
<1>8. HashesInv'
  <2>1. \A g \in returned' : FileExists("base", g)'
    BY <1>1, <1>3 DEF DataInv, HashesInv, FileExists
  <2>2. \A q \in Processes, c \in Blocks : blocks_ids'[q][c] \in returned' \cup {None}
    BY <1>1, <1>4 DEF DataInv, HashesInv
  <2> QED
    BY <2>1, <2>2 DEF HashesInv
<1>9. KnownInv'
  <2> SUFFICES ASSUME MultiTiered, ~UseCompression, NEW q \in Processes,
                      NEW c \in stash_committed_block_ids'[q], blocks_ids'[q][c] # None
               PROVE  final_files["stash"][blocks_ids'[q][c]] # None
    BY DEF KnownInv, FileExists
  <2>1. c \in Blocks
    BY <1>2 DEF ControlInv, TypeOK, b
  <2>2. CASE q = p /\ c = b
    BY <1>3, <1>4, <2>1, <2>2 DEF FileExists
  <2>3. CASE ~(q = p /\ c = b)
    <3>1. blocks_ids'[q][c] = blocks_ids[q][c] /\ c \in stash_committed_block_ids[q]
      BY <1>4, <2>1, <2>3 DEF b
    <3> QED
      BY <3>1 DEF DataInv, KnownInv, FileExists
  <2> QED
    BY <2>2, <2>3
<1>10. WorkersInv'
  <2>1. ASSUME NEW x \in Workers, x # w, job[x].op = "get_block_full_path"
        PROVE  blocks_ids'[process[x]] = blocks_ids[process[x]]
    <3>1. process[x] # p
      BY <1>2, <2>1, IdleJob DEF ControlInv, Alone
    <3> QED
      BY <1>1, <1>2, <3>1
  <2>2. Stored(w)' /\ InStash(w)' /\ PathFound(w)'
    BY <1>1, IdleJob DEF Stored, InStash, PathFound
  <2> QED
    BY <1>1, <1>5, <2>1, <2>2, WorkersStep DEF DataInv
<1> QED
  BY <1>6, <1>7, <1>8, <1>9, <1>10 DEF DataInv

LEMMA InsertData ==
  ASSUME ControlInv, DataInv, NEW w \in Workers, InsertCommitted(w) PROVE DataInv'
<1>1. job[w].pc = "insert" /\ ReturnHash(w) /\ UNCHANGED final_files
  BY DEF InsertCommitted
<1>2. job[w].op = "store_block"
  BY <1>1, BusyWorker DEF ControlInv, JobState, inner_places
<1>3. PICK ids \in SUBSET (stash_committed_block_ids[process[w]] \cup {job[w].block_index}) :
        stash_committed_block_ids' = [stash_committed_block_ids EXCEPT ![process[w]] = ids]
  BY DEF InsertCommitted, Inserted
<1>4. \A q \in Processes : \A c \in stash_committed_block_ids'[q] :
        \/ c \in stash_committed_block_ids[q]
        \/ q = process[w] /\ c = job[w].block_index
  BY <1>3 DEF ControlInv, TypeOK
<1> QED
  BY <1>1, <1>2, <1>4, ReturnData

LEMMA EraseData ==
  ASSUME ControlInv, DataInv, NEW w \in Workers, EraseStash(w) PROVE DataInv'
<1>1. /\ job[w].pc \in {"erase", "drop"} /\ ReturnHash(w)
      /\ UNCHANGED <<final_files, stash_committed_block_ids>>
  BY DEF EraseStash
<1>2. job[w].op = "commit_stash_block"
  BY <1>1, BusyWorker DEF ControlInv, JobState, inner_places
<1> QED
  BY <1>1, <1>2, ReturnData

-------------------------------------------------------------------------------
(* Stashing, and restarts. *)

LEMMA SameData ==
  ASSUME DataInv,
         UNCHANGED <<final_files, returned, blocks_ids, stash_committed_block_ids, job>>
  PROVE  DataInv'
BY DEF DataInv, FilesInv, TiersInv, HashesInv, KnownInv, WorkersInv, Stored, InStash, PathFound,
       FileExists, block_hash, Copying, OnItsWay

(* When a process ends, nobody in it is copying a block or has one on its  *)
(* way to the base tier, if there are two.                                 *)
LEMMA EndsBetweenSteps ==
  ASSUME SafeSettings, ControlInv, NEW p \in Processes, MayEnd(p), MultiTiered,
         NEW x \in Workers, process[x] = p
  PROVE  job[x].pc \in {"idle", "copy"}
<1>1. CASE Quiet(p)
  BY <1>1, IdleJob DEF Quiet, WorkersOf
<1>2. CASE \E w \in WorkersOf(p) : CopyFails(w)
  <2>1. PICK w \in Workers : process[w] = p /\ job[w].pc = "copy"
    BY <1>2 DEF WorkersOf, CopyFails
  <2>2. job[w] # Idle /\ job[w].op = "get_block_full_path"
    BY <2>1, BusyWorker DEF ControlInv, JobState, inner_places
  <2> QED
    BY <2>1, <2>2, IdleJob DEF ControlInv, Alone
<1> QED
  BY <1>1, <1>2 DEF MayEnd, SafeSettings

LEMMA RestartData ==
  ASSUME SafeSettings, ControlInv, DataInv, NEW p \in Processes, Restart(p) PROVE DataInv'
<1>1. /\ \A x \in Workers : job'[x] = IF process[x] = p THEN Idle ELSE job[x]
      /\ MayEnd(p) /\ UNCHANGED <<final_files, returned>>
      /\ stash_committed_block_ids' = [stash_committed_block_ids EXCEPT ![p] = {}]
  BY DEF Restart
<1>2. PICK ids \in [Blocks -> returned \cup {None}] : blocks_ids' = [blocks_ids EXCEPT ![p] = ids]
  BY DEF Restart
<1>3. /\ blocks_ids'[p] = ids /\ stash_committed_block_ids'[p] = {}
      /\ \A q \in Processes : q # p =>
           /\ blocks_ids'[q] = blocks_ids[q]
           /\ stash_committed_block_ids'[q] = stash_committed_block_ids[q]
  BY <1>1, <1>2 DEF ControlInv, TypeOK
<1>4. ASSUME MultiTiered, NEW x \in Workers, job[x].pc \notin {"idle", "copy"}
      PROVE  process[x] # p /\ job'[x] = job[x]
  BY <1>1, <1>4, EndsBetweenSteps
<1>5. FilesInv'
  <2>1. ASSUME NEW h \in Hashes, Copying(h) PROVE Copying(h)'
    <3>1. PICK x \in Workers : job[x].pc = "copying" /\ block_hash(x) = h
      BY <2>1 DEF Copying
    <3>2. MultiTiered
      BY <3>1, BusyWorker DEF ControlInv, JobState
    <3>3. job'[x] = job[x]
      BY <1>4, <3>1, <3>2
    <3> QED
      BY <3>1, <3>3 DEF Copying, block_hash
  <2> QED
    BY <1>1, <2>1 DEF DataInv, FilesInv, FileExists
<1>6. TiersInv'
  <2>1. ASSUME MultiTiered, NEW h \in Hashes, OnItsWay(h) PROVE OnItsWay(h)'
    <3>1. PICK x \in Workers :
            job[x].pc \in inner_places /\ job[x].tier = "base" /\ block_hash(x) = h
      BY <2>1 DEF OnItsWay
    <3>2. job'[x] = job[x]
      BY <1>4, <2>1, <3>1 DEF inner_places
    <3> QED
      BY <3>1, <3>2 DEF OnItsWay, block_hash
  <2> QED
    BY <1>1, <2>1 DEF DataInv, TiersInv, FileExists
<1>7. HashesInv'
  <2>1. ASSUME NEW q \in Processes, NEW b \in Blocks PROVE blocks_ids'[q][b] \in returned \cup {None}
    <3>1. CASE q = p
      BY <1>3, <3>1
    <3>2. CASE q # p
      BY <1>3, <3>2 DEF DataInv, HashesInv
    <3> QED
      BY <3>1, <3>2
  <2> QED
    BY <1>1, <2>1 DEF DataInv, HashesInv, FileExists
<1>8. KnownInv'
  <2>1. ASSUME MultiTiered, ~UseCompression, NEW q \in Processes,
               NEW b \in stash_committed_block_ids'[q], blocks_ids'[q][b] # None
        PROVE  FileExists("stash", blocks_ids'[q][b])
    BY <1>3, <2>1 DEF DataInv, KnownInv
  <2> QED
    BY <1>1, <2>1 DEF KnownInv, FileExists
<1>9. ASSUME NEW x \in Workers PROVE (Stored(x) /\ InStash(x) /\ PathFound(x))'
  <2>1. CASE process[x] = p
    BY <1>1, <2>1, IdleJob DEF Stored, InStash, PathFound
  <2>2. CASE process[x] # p
    <3>1. job'[x] = job[x] /\ blocks_ids'[process[x]] = blocks_ids[process[x]]
      BY <1>1, <1>3, <2>2, ProcessAssumption
    <3> QED
      BY <1>1, <3>1 DEF DataInv, WorkersInv, Stored, InStash, PathFound, FileExists, block_hash
  <2> QED
    BY <2>1, <2>2
<1> QED
  BY <1>5, <1>6, <1>7, <1>8, <1>9 DEF DataInv, WorkersInv

LEMMA NextData == SafeSettings /\ ControlInv /\ DataInv /\ [Next]_vars => DataInv'
<1> SUFFICES ASSUME SafeSettings, ControlInv, DataInv, [Next]_vars PROVE DataInv'
  OBVIOUS
<1>1. ASSUME NEW w \in Workers, NEW b \in Blocks,
             CommitStashBlock(w, b) \/ \E v \in Values : StoreBlock(w, b, v) \/ GetBlockFullPath(w, b, v)
      PROVE  DataInv'
  BY <1>1, StoreBlockData, GetPathData, CommitData
<1>2. ASSUME NEW w \in Workers,
             \/ CreateTemp(w) \/ WriteTemp(w) \/ RenameTemp(w) \/ RemoveTemp(w)
             \/ InsertCommitted(w) \/ MoveStash(w) \/ EraseStash(w)
             \/ StartCopy(w) \/ FinishCopy(w) \/ UsePath(w)
      PROVE  DataInv'
  BY <1>2, CreateTempData, WriteTempData, StoredData, InsertData, EraseData, MoveStashData,
     StartCopyData, FinishCopyData, UsePathData
<1>3. ASSUME NEW p \in Processes,
             \/ \E b \in Blocks, v \in Values : StashBlock(p, b, v)
             \/ \E b \in Blocks : UnstashBlock(p, b)
             \/ Restart(p)
      PROVE  DataInv'
  BY <1>3, SameData, RestartData DEF StashBlock, UnstashBlock
<1>4. CASE UNCHANGED vars
  BY <1>4, SameData DEF vars
<1> QED
  BY <1>1, <1>2, <1>3, <1>4 DEF Next

-------------------------------------------------------------------------------
(* The inductive invariant and what follows from it.                       *)

LEMMA Invariant == Spec => []IInv
<1>1. Init => IInv
  BY InitControl, InitData DEF IInv
<1>2. IInv /\ [Next]_vars => IInv'
  BY NextControl, NextData DEF IInv
<1> QED
  BY <1>1, <1>2, PTL DEF Spec

(* A file in the base tier is whole.                                       *)
LEMMA BaseWhole ==
  ASSUME DataInv, NEW v \in Values, FileExists("base", compute_hash[v])
  PROVE  final_files["base"][compute_hash[v]] = v
BY TheTiers, HashAssumption DEF DataInv, FilesInv

(* Whatever the settings, every variable of posix_block_storage keeps its  *)
(* type.                                                                   *)
THEOREM StorageTypeCorrect == Spec => []TypeOK
<1>1. ControlInv => TypeOK
  BY DEF ControlInv
<1> QED
  BY <1>1, Control, PTL

(* Whatever the settings, between calls the blocks in stash_block_ids are  *)
(* those that have a stash file (stash_block(), unstash_block(),           *)
(* commit_stash_block()): no threads, crashes or short writes part them.   *)
THEOREM StashBackedCorrect == Spec => []StashBacked
<1>1. ControlInv => StashBacked
  <2> SUFFICES ASSUME ControlInv, NEW p \in Processes, Quiet(p)
               PROVE  stash_block_ids[p] = {b \in Blocks : stash_files[p][b] # None}
    BY DEF StashBacked
  <2>1. \A b \in Blocks : ~Commits(p, b)
    BY IdleJob DEF Commits, Quiet, WorkersOf
  <2> QED
    BY <2>1 DEF ControlInv, TypeOK, StashInv
<1> QED
  BY <1>1, Control, PTL

(* With SafeSettings, a hash that store_block() or commit_stash_block()    *)
(* returned names a whole file in the base tier, however many threads, and *)
(* with one tier however many processes, store at once and die.            *)
THEOREM ReturnedIsStoredCorrect ==
  ASSUME SafeSettings PROVE Spec => []ReturnedIsStored
<1>1. IInv => ReturnedIsStored
  BY BaseWhole DEF IInv, ReturnedIsStored, DataInv, HashesInv
<1> QED
  BY <1>1, Invariant, PTL

(* With SafeSettings, and a build without compression if there is a second *)
(* tier, the path that get_block_full_path() returned leads to the block.  *)
THEOREM PathsResolveCorrect ==
  ASSUME SafeSettings, ~(MultiTiered /\ UseCompression) PROVE Spec => []PathsResolve
<1>1. IInv => PathsResolve
  <2> SUFFICES ASSUME IInv, NEW w \in Workers, job[w].pc = "found"
               PROVE  final_files[job[w].tier][block_hash(w)] = job[w].buffer
    BY DEF PathsResolve
  <2>1. ControlInv /\ DataInv
    BY DEF IInv
  <2>2. /\ job[w] # Idle /\ job[w].op = "get_block_full_path" /\ job[w].tier = FirstTier
        /\ block_hash(w) \in Hashes /\ job[w].buffer \in Values
    BY <2>1, BusyWorker DEF ControlInv, JobState, inner_places
  <2>3. FileExists(FirstTier, block_hash(w))
    BY <2>1, <2>2 DEF DataInv, WorkersInv, PathFound
  <2>4. ~(FirstTier = "stash" /\ Copying(block_hash(w)))
    <3> SUFFICES ASSUME MultiTiered, NEW x \in Workers, job[x].pc = "copying" PROVE FALSE
      BY DEF Copying, FirstTier
    <3>1. x # w /\ job[x] # Idle /\ process[x] = process[w]
      BY <2>1, BusyWorker DEF SafeSettings
    <3> QED
      BY <2>1, <2>2, <3>1 DEF ControlInv, Alone
  <2>5. Whole(FirstTier, block_hash(w))
    BY <2>1, <2>2, <2>3, <2>4, TheTiers DEF DataInv, FilesInv, Whole
  <2> QED
    BY <2>2, <2>5, WholeExists DEF block_hash
<1> QED
  BY <1>1, Invariant, PTL

-------------------------------------------------------------------------------
(* The steps that the base tier is a ContentStore by.                      *)

LEMMA AddStep ==
  ASSUME ControlInv, DataInv, NEW w \in Workers, RenameTemp(w) \/ MoveStash(w)
  PROVE  Base!Add(job[w].buffer) \/ UNCHANGED <<final_files["base"], returned>>
<1> DEFINE t == IF job[w].pc = "move" THEN FirstTier ELSE job[w].tier
           h == block_hash(w)
           v == job[w].buffer
<1>1. /\ job[w].pc \in {"rename", "move"} /\ h \in Hashes /\ v \in Values
      /\ compute_hash[v] = h /\ t \in Tiers
  BY BusyWorker, TheTiers DEF RenameTemp, MoveStash, block_hash
<1>2. final_files' = [final_files EXCEPT ![t][h] = v]
  <2>1. CASE RenameTemp(w)
    BY <2>1 DEF RenameTemp, DataInv, WorkersInv, Stored
  <2>2. CASE MoveStash(w)
    BY <2>2, MoveControl DEF MoveStash
  <2> QED
    BY <2>1, <2>2
<1>3. UNCHANGED returned
  BY DEF RenameTemp, MoveStash
<1> HIDE DEF t
<1>4. CASE t = "base"
  <2>1. final_files'["base"] = [final_files["base"] EXCEPT ![compute_hash[v]] = v]
    BY <1>1, <1>2, <1>4 DEF ControlInv, TypeOK
  <2> QED
    BY <1>3, <2>1 DEF Base!Add
<1>5. CASE t # "base"
  BY <1>1, <1>2, <1>3, <1>5, TheTiers DEF ControlInv, TypeOK
<1> QED
  BY <1>4, <1>5

LEMMA ReturnStep ==
  ASSUME ControlInv, DataInv, NEW w \in Workers, InsertCommitted(w) \/ EraseStash(w)
  PROVE  Base!Return(job[w].buffer)
<1>1. /\ job[w].pc \in {"insert", "erase", "drop"} /\ ReturnHash(w) /\ UNCHANGED final_files
      /\ job[w].buffer \in Values
  BY BusyWorker DEF InsertCommitted, EraseStash
<1>2. FileExists("base", block_hash(w))
  BY <1>1 DEF DataInv, WorkersInv, Stored
<1>3. final_files["base"][block_hash(w)] = job[w].buffer
  BY <1>1, <1>2, BaseWhole DEF block_hash
<1> QED
  BY <1>1, <1>3 DEF Base!Return, ReturnHash, ReturnedHash, block_hash

(* With SafeSettings, the base tier is what SigactionVmm takes it for: a   *)
(* file appears whole, under the hash of its contents, stays, and a hash   *)
(* is returned when its file is there.                                     *)
THEOREM ImplementsContentStoreCorrect ==
  ASSUME SafeSettings PROVE Spec => ImplementsContentStore
<1>1. Init => Base!Init
  <2> SUFFICES ASSUME Init PROVE Base!Init
    OBVIOUS
  <2>1. ControlInv /\ DataInv
    BY InitControl, InitData
  <2>2. final_files["base"] \in [Hashes -> Values \cup {None}]
    BY <2>1, TheTiers DEF ControlInv, TypeOK, DataInv, FilesInv, FileExists
  <2>3. \A h \in Hashes : final_files["base"][h] # None => h = compute_hash[final_files["base"][h]]
    BY <2>1, TheTiers DEF DataInv, FilesInv, FileExists
  <2>4. returned = {h \in Hashes : final_files["base"][h] # None}
    <3>1. PICK kept \in SUBSET Values :
            /\ final_files = [base  |-> [h \in Hashes |-> IF \E v \in kept : compute_hash[v] = h
                                                          THEN CHOOSE v \in kept : compute_hash[v] = h
                                                          ELSE None],
                              stash |-> [h \in Hashes |-> None]]
            /\ returned = {compute_hash[v] : v \in kept}
      BY DEF Init
    <3>2. \A h \in Hashes : final_files["base"][h] # None => \E v \in kept : compute_hash[v] = h
      BY <3>1
    <3>3. \A h \in returned : h \in Hashes /\ final_files["base"][h] # None
      BY <2>1 DEF ControlInv, TypeOK, DataInv, HashesInv, FileExists
    <3>4. \A h \in Hashes : final_files["base"][h] # None => h \in returned
      BY <3>1, <3>2
    <3> QED
      BY <3>3, <3>4
  <2> QED
    BY <2>2, <2>3, <2>4 DEF Base!Init
<1>2. IInv /\ [Next]_vars => [Base!Next]_(Base!vars)
  <2> SUFFICES ASSUME IInv, [Next]_vars PROVE [Base!Next]_(Base!vars)
    OBVIOUS
  <2> USE DEF Base!vars
  <2>1. ControlInv /\ DataInv
    BY DEF IInv
  <2>2. ASSUME NEW w \in Workers, RenameTemp(w) \/ MoveStash(w)
        PROVE  [Base!Next]_(Base!vars)
    <3>1. job[w].buffer \in Values
      BY <2>1, <2>2, BusyWorker DEF RenameTemp, MoveStash
    <3> QED
      BY <2>1, <2>2, <3>1, AddStep DEF Base!Next
  <2>3. ASSUME NEW w \in Workers, InsertCommitted(w) \/ EraseStash(w)
        PROVE  [Base!Next]_(Base!vars)
    <3>1. job[w].buffer \in Values
      BY <2>1, <2>3, BusyWorker DEF InsertCommitted, EraseStash
    <3> QED
      BY <2>1, <2>3, <3>1, ReturnStep DEF Base!Next
  <2>4. ASSUME NEW w \in Workers, StartCopy(w) \/ FinishCopy(w)
        PROVE  UNCHANGED Base!vars
    BY <2>1, <2>4, TheTiers DEF StartCopy, FinishCopy, ControlInv, TypeOK
  <2>5. ASSUME NEW w \in Workers,
               \/ \E b \in Blocks, v \in Values : StoreBlock(w, b, v) \/ GetBlockFullPath(w, b, v)
               \/ \E b \in Blocks : CommitStashBlock(w, b)
               \/ CreateTemp(w) \/ WriteTemp(w) \/ RemoveTemp(w) \/ UsePath(w)
        PROVE  UNCHANGED Base!vars
    BY <2>5 DEF StoreBlock, GetBlockFullPath, CommitStashBlock, CreateTemp, WriteTemp,
                RemoveTemp, WithoutTempFile, UsePath
  <2>6. ASSUME NEW p \in Processes,
               \/ \E b \in Blocks, v \in Values : StashBlock(p, b, v)
               \/ \E b \in Blocks : UnstashBlock(p, b)
               \/ Restart(p)
        PROVE  UNCHANGED Base!vars
    BY <2>6 DEF StashBlock, UnstashBlock, Restart
  <2>7. CASE UNCHANGED vars
    BY <2>7 DEF vars
  <2> QED
    BY <2>2, <2>3, <2>4, <2>5, <2>6, <2>7 DEF Next
<1> QED
  BY <1>1, <1>2, Invariant, PTL DEF Spec, ImplementsContentStore, Base!Spec

===============================================================================
