------------------------------ MODULE Readers -------------------------------
(***************************************************************************)
(* The readers of files: the conversion's parser of its input, and the     *)
(* tools that inspect and compare its output.  They are different          *)
(* programs.  A behaviour is a run of one of them, the others stay idle.   *)
(***************************************************************************)

(* The parser of a safetensors file *)

CONSTANTS HalfWord, LengthBytes, Files, DecoderGate, Templates

VARIABLES file, reading, entry, found, arch

source == <<file, reading, entry, found, arch>>

Source == INSTANCE SafetensorsSource WITH at <- reading, next <- entry, tensors <- found

-----------------------------------------------------------------------------
(* Validation of one GGUF file *)

CONSTANTS Specs, Descriptors, MostTensors, Alignment, HeaderEnd, Passed, Sizes

VARIABLES described, fileSize, skipped, stage, turn, known, previous, issues

validation == <<described, fileSize, skipped, stage, turn, known, previous, issues>>

File == INSTANCE GgufValidation WITH
  MaxTensors <- MostTensors, tensors <- described, size <- fileSize, at <- stage, next <- turn

-----------------------------------------------------------------------------
(* Comparison of two of them *)

CONSTANTS FileTensors, FileItems, SameValue(_, _), Comparisons

VARIABLES left, right, metadata, tensorBytes, limit, comparing, item, kept, counts, differences

comparison ==
  <<left, right, metadata, tensorBytes, limit, comparing, item, kept, counts, differences>>

Pair == INSTANCE GgufComparison WITH
  Tensors <- FileTensors, Items <- FileItems, at <- comparing, next <- item

-----------------------------------------------------------------------------
ASSUME ReadersAssumption ==
  /\ Source!SourceConstants
  /\ File!ValidationConstants
  /\ Pair!ComparisonConstants

SourceIdle ==
  /\ file = [size |-> 0, headerLength |-> 0, entries |-> <<>>]
  /\ reading = "idle" /\ entry = 1 /\ found = <<>> /\ arch = ""

ValidationIdle ==
  /\ described = <<>> /\ fileSize = 0 /\ skipped = 0 /\ stage = "idle" /\ turn = 1
  /\ known = <<>> /\ previous = 0 /\ issues = {}

ComparisonIdle ==
  /\ left = <<>> /\ right = <<>> /\ metadata = FALSE /\ tensorBytes = FALSE /\ limit = 0
  /\ comparing = "idle" /\ item = 1 /\ kept = <<>> /\ counts = <<>> /\ differences = {}

ReadersInit ==
  \/ Source!Init /\ ValidationIdle /\ ComparisonIdle
  \/ File!Init /\ SourceIdle /\ ComparisonIdle
  \/ Pair!Init /\ SourceIdle /\ ValidationIdle

ReadersNext ==
  \/ Source!Next /\ UNCHANGED <<validation, comparison>>
  \/ File!Next /\ UNCHANGED <<source, comparison>>
  \/ Pair!Next /\ UNCHANGED <<source, validation>>

ReadersSpec == ReadersInit /\ [][ReadersNext]_<<source, validation, comparison>>

(* What the parser accepts of a header lies in the file and has the size   *)
(* of its shape, whatever the header's words wrap.                         *)
AcceptedLiesInFile == Source!AcceptedLiesInFile

(* Without their prefixes, names are as distinct as with them, and a       *)
(* model's names are taken whole.                                          *)
NamesAreKept == Source!NamesAreKept

(* Reports of validate_gguf name every overlap of two payloads, and no     *)
(* payload that overlaps none before it.                                   *)
OverlapsAreNamed == File!OverlapsAreNamed

(* What a report of validate_gguf vouches for: payloads of known size that *)
(* can be read, all payloads if there is no warning either, and every byte *)
(* of a file that the converter laid out: what a conversion leaves that    *)
(* was stopped is told from its result.                                    *)
ReportsVouch == File!ReportsVouch

(* No difference is reported exactly of files that have the same           *)
(* descriptors and, as far as it was asked for, the same payloads and the  *)
(* same metadata as far as the reader keeps it.                            *)
ComparisonIsExact == Pair!ComparisonIsExact
=============================================================================
