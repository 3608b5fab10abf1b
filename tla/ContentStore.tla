----------------------------- MODULE ContentStore -----------------------------
(***************************************************************************)
(* What the permanent tier of a block storage promises to all processes    *)
(* that share it: a file appears in one step, whole, under the hash of its *)
(* contents, is never changed or removed, and a hash is handed to a caller *)
(* only when its file is there.  SigactionVmm builds on exactly this: it   *)
(* stores a block in one step.  BlockStorage is shown to implement it.     *)
(***************************************************************************)
CONSTANTS
  Values,        (* contents of a block *)
  Hashes,        (* block hashes, the names of the files *)
  compute_hash,  (* SHA-256, as a function *)
  None           (* no file *)

VARIABLES
  files,         (* contents of the file of each hash, or None *)
  returned       (* the hashes some caller was given *)

vars == <<files, returned>>

(* A store may have been filled before. *)
Init ==
  /\ files \in [Hashes -> Values \cup {None}]
  /\ \A h \in Hashes : files[h] # None => h = compute_hash[files[h]]
  /\ returned = {h \in Hashes : files[h] # None}

Add(v) ==
  /\ files' = [files EXCEPT ![compute_hash[v]] = v]
  /\ UNCHANGED returned

Return(v) ==
  /\ files[compute_hash[v]] = v
  /\ returned' = returned \cup {compute_hash[v]}
  /\ UNCHANGED files

Next == \E v \in Values : Add(v) \/ Return(v)

Spec == Init /\ [][Next]_vars
===============================================================================
