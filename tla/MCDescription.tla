---------------------------- MODULE MCDescription ----------------------------
(* Small graphs for Description: what each may declare, and the nodes it    *)
(* may be made of.                                                          *)
EXTENDS Description

Input(field, shape, dtype) == [field |-> field, shape |-> shape, dtype |-> dtype]
Says(op, attr) == [op |-> op, attr |-> attr]
Declares(ins, ps, says, writes) ==
    [inputs |-> ins, params |-> ps, says |-> says, writes |-> writes]
Each(most, ways) == [i \in 1..most |-> ways]

(* A graph written by hand: references, a parameter and a shape the engine  *)
(* has to refuse, among ones it takes.                                      *)
ByHand ==
    {Says("add", <<>>), Says("neg", <<>>), Says("parameter", <<0>>),
     Says("parameter", <<2>>), Says("reshape", <<0, 2, 0>>)}

(* Rows of a symbolic batch beside a gain, and a column declared twice.     *)
Rows == Declares(
    <<Input("x", <<0, 2>>, F32), Input("y", <<0, 1>>, F32)>>,
    <<Value(<<2>>, F32), Value(<<3>>, F32)>>,
    Each(2, {Says("parameter", <<0>>), Says("parameter", <<1>>), Says("add", <<>>),
     Says("neg", <<>>), Says("softmax", <<-1>>), Says("softmax", <<2>>),
     Says("dropout", <<>>), Says("layer_norm", <<>>), Says("slice", <<0, 1, 1>>),
     Says("slice", <<-1, 1, 1>>), Says("mean", <<0, 1>>), Says("mean", <<1, 0, -1>>),
     Says("reshape", <<-1>>), Says("reshape", <<0, 2, 1>>), Says("reshape", <<2, -1>>)}),
    ByHand)

Twice == Declares(
    <<Input("x", <<0, 2>>, F32), Input("x", <<0, 1>>, F32)>>, <<>>,
    Each(2, {Says("add", <<>>), Says("sum", <<0, 0, 0>>), Says("transpose", <<1, 0>>)}), {})

(* Two dimensions the batch decides, split into heads and put back.         *)
Heads == Declares(
    <<Input("h", <<0, 0, 2>>, F32), Input("w", <<2, 1>>, F32)>>, <<>>,
    Each(2, {Says("reshape", <<0, 0, 2, 1>>), Says("reshape", <<0, -1, 2>>),
     Says("reshape", <<0, 0, 2>>), Says("transpose", <<0, 2, 1, 3>>),
     Says("transpose", <<0, 2, 1>>), Says("matmul", <<>>), Says("sdpa", <<0>>),
     Says("sdpa", <<1>>), Says("rope", <<0>>), Says("rope", <<1>>),
     Says("slice", <<1, 0, 1>>)}), {})

(* The same, as far as an attention over split heads merged again.          *)
Attends == Declares(
    <<Input("h", <<0, 0, 2>>, F32)>>, <<>>,
    <<{Says("reshape", <<0, 0, 2, 1>>), Says("reshape", <<0, 0, 1, 2>>)},
      {Says("transpose", <<0, 2, 1, 3>>)},
      {Says("sdpa", <<1>>), Says("sdpa", <<0>>)},
      {Says("transpose", <<0, 2, 1, 3>>)},
      {Says("reshape", <<0, 0, 2>>), Says("reshape", <<0, -1>>)}>>, {})

(* Scores by class against the classes wanted, and rows of a table.         *)
Classes == Declares(
    <<Input("ids", <<0>>, I32), Input("logits", <<0, 3>>, F32), Input("few", <<1, 3>>, F32)>>,
    <<Value(<<3, 2>>, F32)>>,
    Each(2, {Says("parameter", <<0>>), Says("take", <<>>), Says("cross_entropy", <<>>),
     Says("rope", <<0>>), Says("exp", <<>>), Says("div", <<>>), Says("cast", <<F32>>),
     Says("mean", <<0, 1>>)}), {})

(* Nothing symbolic: what is described and looked at cannot fail.           *)
Fixed == Declares(
    <<Input("a", <<2, 2>>, F32), Input("b", <<1, 2>>, F32)>>, <<Value(<<2>>, F32)>>,
    Each(3, {Says("parameter", <<0>>), Says("add", <<>>), Says("matmul", <<>>),
     Says("reshape", <<4>>), Says("reshape", <<-1, 1>>), Says("transpose", <<1, 0>>),
     Says("slice", <<0, 1, 1>>), Says("slice", <<-1, 1, 2>>), Says("rms_norm", <<>>),
     Says("rope", <<0>>),
     Says("sum", <<0, 0, 0>>)}), {})

MCDeclarations == {Rows, Twice, Heads, Attends, Classes, Fixed}
==============================================================================
