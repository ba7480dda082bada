----------------------------- MODULE ChunkCall ------------------------------
(***************************************************************************)
(* What makes up a call that encodes or decodes a chunk: threads that      *)
(* share its rows, and the tables and blocks that its kernels work with.   *)
(* They have no state in common.  A behaviour is about one of them.        *)
(***************************************************************************)
EXTENDS ForkJoin, Kernels

kernelVars == <<tableVars, blockVars, ternaryVars>>

KernelsIdle == TablesIdle /\ BlockIdle /\ TernaryIdle

(* A call without rows has returned. *)
ForkJoinOver ==
  /\ call = [entry |-> "sum", rows |-> 0, slice |-> "encoded"]
  /\ caller = "done" /\ spawned = 0 /\ thread = [t \in Thread |-> "none"]
  /\ written = [t \in {} |-> 0] /\ added = 0 /\ total = 0
  /\ writes = [r \in Row |-> 0] /\ verdict = "encoded"

ChunkInit == (Init /\ KernelsIdle) \/ (KernelsInit /\ ForkJoinOver)

ChunkNext ==
  \/ Next /\ UNCHANGED kernelVars
  \/ KernelsNext /\ UNCHANGED vars

ChunkSpec == ChunkInit /\ [][ChunkNext]_<<vars, kernelVars>> /\ Fairness
=============================================================================
