------------------------------ MODULE Kernels -------------------------------
(***************************************************************************)
(* The data that kernels share: the tables by which they find grid points, *)
(* and the blocks that encoders leave to decoders.  These have no state in *)
(* common.  A behaviour is about one of them, the others stay idle.        *)
(***************************************************************************)

(* The tables of one IQ type *)

CONSTANTS Dim, Levels, MapSize, NWant, MaxGrid

VARIABLES grid, map, needed, neighbours, pass, nextCode

tableVars == <<grid, map, needed, neighbours, pass, nextCode>>

Tables == INSTANCE IqNeighbours WITH next <- nextCode

-----------------------------------------------------------------------------
(* Blocks of bit fields, and of ternary digits *)

CONSTANTS
  Choices(_), Chosen(_, _, _), Memories, Held(_, _, _),
  Inputs, Rounded(_, _)

VARIABLES
  format, choice, block, packing, loop,
  input, qs, qh, ternary

blockVars == <<format, choice, block, packing, loop>>
ternaryVars == <<input, qs, qh, ternary>>

Block == INSTANCE BlockPacking WITH at <- packing, j <- loop
Ternary == INSTANCE TernaryPacking WITH at <- ternary

ASSUME KernelsAssumption == Tables!NeighbourConstants /\ Ternary!TernaryConstants

-----------------------------------------------------------------------------
TablesIdle ==
  /\ grid = <<>> /\ map = <<>> /\ needed = 0 /\ neighbours = <<>>
  /\ pass = "idle" /\ nextCode = 0

BlockIdle ==
  /\ format = "" /\ choice = <<>> /\ block = <<>>
  /\ packing = "idle" /\ loop = 0

TernaryIdle ==
  /\ input = <<>> /\ qs = <<>> /\ qh = <<>> /\ ternary = "idle"

KernelsInit ==
  \/ Tables!Init /\ BlockIdle /\ TernaryIdle
  \/ Block!Init /\ TablesIdle /\ TernaryIdle
  \/ Ternary!Init /\ TablesIdle /\ BlockIdle

KernelsNext ==
  \/ Tables!Next /\ UNCHANGED <<blockVars, ternaryVars>>
  \/ Block!Next /\ UNCHANGED <<tableVars, ternaryVars>>
  \/ Ternary!Next /\ UNCHANGED <<tableVars, blockVars>>

KernelsSpec == KernelsInit /\ [][KernelsNext]_<<tableVars, blockVars, ternaryVars>>

(* The array of neighbours is filled up to its end and no further: the     *)
(* pass that sizes it and the pass that fills it agree.                    *)
FillsWhatWasAllocated == Tables!FillsWhatWasAllocated

(* A kernel finds itself of a grid point, and the nearest grid points of   *)
(* any other code.                                                         *)
LookupIsNearest == Tables!LookupIsNearest

(* What the encoder of a format put into a block is what its decoder finds *)
(* there, in the formats of bit fields and in the one of ternary digits,   *)
(* whatever the block's memory held before.                                *)
BlocksComeBack == Block!BlockComesBack /\ Ternary!DigitsComeBack
=============================================================================
