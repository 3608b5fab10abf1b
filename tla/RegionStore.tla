----------------------------- MODULE RegionStore -----------------------------
(***************************************************************************)
(* What a Privateer region promises its user, with none of the machinery:  *)
(* a region is an array of blocks that only the application's stores       *)
(* change, and every version directory holds one saved image of such an    *)
(* array.  Faults, evictions, the stash, the LRU lists and the             *)
(* content-addressed block files do not exist here; SigactionVmm is shown  *)
(* to implement this module.                                               *)
(*                                                                         *)
(* A commit is deliberately weak: block by block it saves the current      *)
(* contents or leaves the image as it was (that is all the code does when  *)
(* blocks have been evicted), but it never saves anything else.            *)
(***************************************************************************)

CONSTANTS
  Blocks,      (* indices of the blocks of the region *)
  Values,      (* what a block may contain *)
  Zero,        (* the contents of a block nobody wrote *)
  Versions,    (* version directories *)
  NoRegion     (* no region is mapped / no version is open *)

VARIABLES
  data,        (* what a load from each block returns, or NoRegion *)
  current,     (* the version the region was opened from, or NoRegion *)
  making,      (* the version snapshot() is making, or NoRegion *)
  saved,       (* the image held by each version *)
  openable     (* the versions Privateer::open accepts *)

vars == <<data, current, making, saved, openable>>

Image == [Blocks -> Values]
ZeroImage == [b \in Blocks |-> Zero]

TypeOK ==
  /\ data \in Image \cup {NoRegion}
  /\ current \in Versions \cup {NoRegion}
  /\ making \in Versions \cup {NoRegion}
  /\ saved \in [Versions -> Image]
  /\ openable \subseteq Versions

Init ==
  /\ data = NoRegion
  /\ current = NoRegion
  /\ making = NoRegion
  /\ saved = [v \in Versions |-> ZeroImage]
  /\ openable = {}

(* The only way contents change: a store by the application. *)
Write(b, value) ==
  /\ data # NoRegion
  /\ data' = [data EXCEPT ![b] = value]
  /\ UNCHANGED <<current, making, saved, openable>>

(* A snapshot is begun in a version nobody can open.  It may be openable   *)
(* at once: snapshot() also fills in the directory that a create() which   *)
(* died left without its _metadata.                                        *)
StartSnapshot(v) ==
  /\ data # NoRegion
  /\ v \notin openable
  /\ making' = v
  /\ openable' \in {openable, openable \cup {v}}
  /\ UNCHANGED <<data, current, saved>>

(* Part or all of the region is saved, in the open version or in the       *)
(* snapshot being made and in no other one.                                *)
Commit(v) ==
  /\ data # NoRegion
  /\ v \in {current, making}
  /\ \E image \in Image :
       /\ \A b \in Blocks : image[b] \in {saved[v][b], data[b]}
       /\ saved' = [saved EXCEPT ![v] = image]
  /\ UNCHANGED <<data, current, making, openable>>

(* A version directory is complete from here on. *)
Publish(v) ==
  /\ data = NoRegion \/ v = making
  /\ openable' = openable \cup {v}
  /\ making' \in {making, NoRegion}
  /\ UNCHANGED <<data, current, saved>>

(* A version is made afresh, or made afresh over an older one. *)
Create(v) ==
  /\ data = NoRegion
  /\ saved' = [saved EXCEPT ![v] = ZeroImage]
  /\ openable' = openable \ {v}
  /\ UNCHANGED <<data, current, making>>

Open(v) ==
  /\ data = NoRegion
  /\ v \in openable
  /\ data' = saved[v]
  /\ current' = v
  /\ UNCHANGED <<making, saved, openable>>

(* The region is closed, or its process died: the versions stay as saved. *)
Stop ==
  /\ data' = NoRegion
  /\ current' = NoRegion
  /\ making' = NoRegion
  /\ UNCHANGED <<saved, openable>>

Next ==
  \/ \E b \in Blocks, value \in Values : Write(b, value)
  \/ \E v \in Versions :
       \/ StartSnapshot(v)
       \/ Commit(v)
       \/ Publish(v)
       \/ Create(v)
       \/ Open(v)
  \/ Stop

Spec == Init /\ [][Next]_vars
==============================================================================
