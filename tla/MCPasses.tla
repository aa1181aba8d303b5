------------------------------ MODULE MCPasses ------------------------------
(* Small descriptions for Passes: two towers of one architecture under an   *)
(* objective that draws, a model that is its own loss, one that is only     *)
(* read, and some a caller could hand over that GraphConfig would refuse.   *)
EXTENDS Passes

In(n) == [kind |-> "input", id |-> n]
At(n) == [kind |-> "node", id |-> n]
FromBatch(f) == [from |-> "batch", field |-> f]
FromModel(m, o) == [from |-> "model", model |-> m, output |-> o]
P(path, trainable, init) == [path |-> path, trainable |-> trainable, initializer |-> init]

Node(op, ins, index, name) == [op |-> op, ins |-> ins, index |-> index, name |-> name]
Parameter(index, name) == Node("parameter", <<>>, index, name)
Dropout(x, name) == Node("dropout", <<x>>, 0, name)
Joins(x, y, name) == Node("add", <<x, y>>, 0, name)

Program(ins, ps, nodes, outs) == [inputs |-> ins, params |-> ps, nodes |-> nodes, outputs |-> outs]
Config(ms, objective, train) == [models |-> ms, objective |-> objective, train |-> train]

(* A tower: two parameters, two dropouts.                                   *)
Tower(out) == Program(<<FromBatch("x")>>, <<P("w", TRUE, "normal"), P("b", TRUE, "normal")>>,
    <<Parameter(1, ""), Joins(In(1), At(1), ""), Dropout(At(2), ""),
      Parameter(2, ""), Joins(At(3), At(4), ""), Dropout(At(5), "h")>>,
    [o \in {out} |-> At(6)])

(* An objective over two models, or one, that draws for itself.             *)
Over(m, n, out, name) == Program(<<FromModel(m, out), FromModel(n, out), FromBatch("y")>>, <<>>,
    <<Joins(In(1), In(2), ""), Dropout(At(1), name), Joins(At(2), In(3), "")>>,
    [o \in {LOSS} |-> At(3)])

Frozen == Program(<<FromBatch("y")>>, <<P("w", TRUE, "zeros"), P("c", FALSE, "zeros")>>,
    <<Parameter(2, ""), Parameter(1, ""), Joins(At(1), At(2), "")>>,
    [o \in {"embedding", "hidden"} |-> IF o = "hidden" THEN In(1) ELSE At(3)])

Distils == Config([m \in {"student", "teacher"} |-> Tower("embedding")],
                  Over("student", "teacher", "embedding", ""), {"student"})
Beside  == Config([m \in {"student", "anchor"} |->
                      IF m = "anchor" THEN Frozen ELSE Tower("embedding")],
                  Over("student", "anchor", "embedding", ""), {"anchor", "student"})
Alone   == Config([m \in {"student"} |-> Tower("loss")], NoObjective, {"student"})
Read    == Config([m \in {"anchor"} |-> Frozen], NoObjective, {})

(* One that draws twice over a model named like it.                         *)
Namesake == Config([m \in {OBJECTIVE} |-> Tower("embedding")],
    Program(<<FromModel(OBJECTIVE, "embedding")>>, <<>>,
          <<Dropout(In(1), ""), Dropout(At(1), "h")>>, [o \in {LOSS} |-> At(2)]), {OBJECTIVE})
Scored  == Config([m \in {"student"} |-> Tower("embedding")],
                  Over("student", "student", "embedding", "h"), {"student"})

(* Refused by GraphConfig, and not by the engine when it opens.             *)
Chained == Config([m \in {"anchor", "student"} |->
                      IF m = "anchor"
                      THEN [Frozen EXCEPT !.inputs = <<FromModel("student", "embedding")>>]
                      ELSE Tower("embedding")], Over("student", "anchor", "embedding", ""), {"student"})
Astray  == Config([m \in {"student"} |-> Tower("embedding")],
                  Over("student", "student", "hidden", ""), {"student"})
Overfull == Config([m \in {"student"} |-> Tower("embedding")],
                   [Over("student", "student", "embedding", "h") EXCEPT !.nodes = <<Parameter(1, "")>>],
                   {"student"})

MCNames == <<"anchor", "embedding", "hidden", "loss", "objective", "student", "teacher">>

W(m) == {<<m, "w">>, <<m, "b">>, <<m, "c">>}
File(holds) == [kind |-> "file", holds |-> holds, fresh |-> {}]
Published(holds, fresh) == [kind |-> "pretrained", holds |-> holds, fresh |-> fresh]
Opens(c, s) == [config |-> c, source |-> s]

(* One new parameter, so that a draw of it can be told from a step's.       *)
NewHead == Published(W("student"), {<<"student", "b">>})
MCOpenings ==
    {Opens(Distils, File(W("student") \cup W("teacher"))),
     Opens(Distils, File(W("student"))),
     Opens(Beside, File(W("anchor") \cup W("student"))),
     Opens(Alone, NewHead), Opens(Scored, NewHead), Opens(Namesake, File(W(OBJECTIVE))), Opens(Read, File(W("anchor"))),
     Opens(Chained, File(W("anchor") \cup W("student"))),
     Opens(Astray, File(W("student"))), Opens(Overfull, File(W("student")))}

(* Every parameter new.                                                     *)
FreshOpenings == {Opens(Alone, Published({}, W("student")))}
MCBatches == {{"x"}, {"x", "y"}, {"y"}}
=============================================================================
