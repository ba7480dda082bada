------------------------------ MODULE Planning ------------------------------
(***************************************************************************)
(* Names are matched with patterns, and tensors are planned.  What a plan  *)
(* knows of a name are outcomes of matches, so that matching is looked at  *)
(* for itself, while no file is planned.                                   *)
(***************************************************************************)
EXTENDS Policy

CONSTANTS Letters, MaxPattern, MaxText

VARIABLES pattern, text, patternAt, textAt, frames, matching

names == <<pattern, text, patternAt, textAt, frames, matching>>

Names == INSTANCE Patterns WITH p <- patternAt, t <- textAt, at <- matching

NamesIdle ==
  /\ pattern = <<>> /\ text = <<>> /\ patternAt = 1 /\ textAt = 1
  /\ frames = <<>> /\ matching = "idle"

PlanningIdle ==
  /\ tensors = <<>> /\ fileType = "Q4_0" /\ policy = "uniform"
  /\ at = "idle" /\ next = 1 /\ values = 0 /\ plans = <<>> /\ rearranged = {}
  /\ typeCounts = [q \in Plain \union Quantized |-> 0]
  /\ fallbacks = [q \in Plain \union Quantized |-> 0]

CommandNext ==
  \/ Next /\ UNCHANGED names
  \/ Names!Next /\ UNCHANGED vars

(* Lists and command line name exactly the tensors that their patterns of  *)
(* * and ? stand for.                                                      *)
MatchIsExact == Names!MatchIsExact
=============================================================================
