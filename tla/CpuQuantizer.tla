---------------------------- MODULE CpuQuantizer ----------------------------
(***************************************************************************)
(* What cpu_quantizer promises its caller (conversion/cpu_quantizer.h):    *)
(* run() encodes every row of the block exactly once and reports whether   *)
(* all of them succeeded, and nothing is written to the destination once   *)
(* run() has returned.  No threads, no locks: CpuQuantizerPool implements  *)
(* this module.                                                            *)
(***************************************************************************)
EXTENDS Integers

CONSTANT MaxRows   (* most rows in one call; bounds the instance *)

VARIABLES
  phase,     (* "idle", "running" or "gone"                              *)
  rows,      (* rows of the current or last call                         *)
  writes,    (* how often each row was written since that call began     *)
  broken,    (* has a row of the call failed to encode?                  *)
  verdict    (* what the last call told the caller                       *)

vars == <<phase, rows, writes, broken, verdict>>

Row == 0 .. MaxRows - 1

Init ==
  /\ phase = "idle"
  /\ rows = 0
  /\ writes = [r \in Row |-> 0]
  /\ broken = FALSE
  /\ verdict = "none"

Call(n) ==
  /\ phase = "idle"
  /\ phase' = "running"
  /\ rows' = n
  /\ writes' = [r \in Row |-> 0]
  /\ broken' = FALSE
  /\ verdict' = "none"

(* The tensor's type has no native encoder: nothing was written. *)
Refuse ==
  /\ phase = "running"
  /\ \A r \in Row : writes[r] = 0
  /\ phase' = "idle"
  /\ verdict' = "refused"
  /\ UNCHANGED <<rows, writes, broken>>

(* Rows not written yet are written, with or without success. *)
Encode(S, failing) ==
  /\ phase = "running"
  /\ S # {}
  /\ \A r \in S : r < rows /\ writes[r] = 0
  /\ writes' = [r \in Row |-> IF r \in S THEN writes[r] + 1 ELSE writes[r]]
  /\ broken' = (broken \/ failing)
  /\ UNCHANGED <<phase, rows, verdict>>

Return ==
  /\ phase = "running"
  /\ broken \/ \A r \in 0 .. rows - 1 : writes[r] = 1
  /\ phase' = "idle"
  /\ verdict' = IF broken THEN "failed" ELSE "encoded"
  /\ UNCHANGED <<rows, writes, broken>>

Destroy ==
  /\ phase = "idle"
  /\ phase' = "gone"
  /\ UNCHANGED <<rows, writes, broken, verdict>>

Progress ==
  \/ Refuse
  \/ \E S \in SUBSET Row, failing \in BOOLEAN : Encode(S, failing)
  \/ Return

Next ==
  \/ \E n \in 1 .. MaxRows : Call(n)
  \/ Progress
  \/ Destroy

(* A call, once made, is carried through. *)
Fairness == WF_vars(Progress)

Spec == Init /\ [][Next]_vars /\ Fairness

=============================================================================
