----------------------------- MODULE MCReaders ------------------------------
(* Small instances of the readers for TLC. *)
EXTENDS Readers, Integers, Sequences

-----------------------------------------------------------------------------
(* Input of the parser *)

Gate == <<"model", "gate">>

(* Words of five bits: every pair of offsets, with shapes whose number of  *)
(* elements or bytes fits, just fits, or overflows.                        *)
AnyRange ==
  [name : {<<"w">>}, wellformed : {TRUE}, dtype : {"F32", "F16"},
   shape : {<<>>, <<1>>, <<2, 3>>, <<15>>, <<16>>, <<8, 2>>, <<3, 11>>, <<4, 8>>, <<0, 4>>},
   begin : 0 .. 31, end : 0 .. 31]
  \union
  {[name |-> <<"w">>, wellformed |-> ok, dtype |-> dtype, shape |-> <<1>>,
    begin |-> 0, end |-> 4] : ok \in BOOLEAN, dtype \in {"F32", "I8"}}

Scalar(name) ==
  [name |-> name, wellformed |-> TRUE, dtype |-> "F16", shape |-> <<>>, begin |-> 0, end |-> 2]

(* Names with every prefix, alike behind it or not. *)
AnyName ==
  {Scalar(name) :
     name \in {Gate, <<"lm_head">>, <<"__metadata__">>, <<"x">>, <<"model", "x">>,
               <<"model", "diffusion_model", "x">>, <<"model", "diffusion_model", "y">>,
               <<"diffusion_model", "x">>, <<"net", "x">>, <<"net", "model", "x">>,
               <<"model">>, <<"old">>}}

AnyFile ==
  [size : {1, 20, 31}, headerLength : {0, 2, 5, 30}, entries : {<<>>, <<Scalar(<<"w">>)>>}]
  \union
  [size : {20, 31}, headerLength : {2, 5}, entries : {<<e>> : e \in AnyRange}]
  \union
  [size : {8}, headerLength : {2}, entries : UNION {[1 .. n -> AnyName] : n \in 0 .. 4}]

Architectures ==
  <<[arch |-> "mixtral", detect |-> {{Gate, <<"lm_head">>}}, banned |-> {}],
    [arch |-> "flux", detect |-> {{<<"old">>}, {<<"x">>}}, banned |-> {<<"old">>}],
    [arch |-> "sd3", detect |-> {{<<"diffusion_model", "x">>}, {<<"y">>}}, banned |-> {}],
    [arch |-> "w", detect |-> {{<<"w">>}}, banned |-> {}]>>

-----------------------------------------------------------------------------
(* A file to inspect *)

TwoSpecs == [whole |-> [block |-> 1, bytes |-> 2], blocks |-> [block |-> 2, bytes |-> 3]]

(* Payloads of no, two, three, six or eight bytes, at every multiple of    *)
(* the alignment and beside one; unknown types and rows that do not fit.   *)
SomeDescriptors ==
  [name : {1}, shape : {<<1>>, <<2, 2>>}, type : {"whole"}, offset : {0, 4, 8, 12}]
  \union
  [name : {2}, shape : {<<2>>, <<2, 2>>}, type : {"blocks"}, offset : {0, 4, 8}]
  \union
  [name : {3}, shape : {<<4, 2>>}, type : {"blocks"}, offset : {0, 4}]
  \union
  [name : {3}, shape : {<<0, 3>>, <<>>}, type : {"whole"}, offset : {0, 6}]
  \union
  [name : {4}, shape : {<<3>>}, type : {"blocks", "strange"}, offset : {0, 8}]

-----------------------------------------------------------------------------
(* Two files to compare *)

SomeTensors ==
  [name : {"a"}, fields : {"f"}, known : {TRUE}, payload : {1, 2}, cut : {FALSE}]
  \union
  [name : {"b"}, fields : {"f"}, known : {TRUE}, payload : {1}, cut : {FALSE}]
  \union
  [name : {"a"}, fields : {"g"}, known : {TRUE}, payload : {1}, cut : BOOLEAN]
  \union
  [name : {"b"}, fields : {"h"}, known : {FALSE}, payload : {1, 2}, cut : {FALSE}]

UpToTwo(S) == UNION {[1 .. n -> S] : n \in 0 .. 2}

(* Values 3 and 4 are zeros of both signs, 5 is a NaN. *)
EqualNumbers(v, w) == v # 5 /\ (v = w \/ {v, w} = {3, 4})

Scalars(key, type, numbers) ==
  {[key |-> key, array |-> FALSE, type |-> type, length |-> 1, values |-> <<v>>] : v \in numbers}

Arrays(key, lists) ==
  {[key |-> key, array |-> TRUE, type |-> "f", length |-> Len(list), values |-> list] :
     list \in lists}

(* Numbers that compare equal or not, of two types; arrays of other        *)
(* lengths, and ones that begin with the same values.                      *)
SomeItems ==
  Scalars("k", "f", {1, 3, 4, 5}) \union Scalars("k", "i", {1})
  \union Arrays("k", {<<>>, <<1>>, <<1, 2>>, <<1, 5>>}) \union Scalars("m", "f", {1})

WithTensors == [tensors : UpToTwo(SomeTensors), metadata : {<<>>}]
WithMetadata == [tensors : {<<>>}, metadata : UpToTwo(SomeItems)]

(* Pairs that differ in their tensors, and pairs that differ in metadata.  *)
SomeComparisons ==
  [left : WithTensors, right : WithTensors,
   metadata : {FALSE}, tensorBytes : BOOLEAN, limit : {0}]
  \union
  [left : WithMetadata, right : WithMetadata,
   metadata : {TRUE}, tensorBytes : {TRUE}, limit : {-1, 1}]
=============================================================================
