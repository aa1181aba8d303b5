----------------------------- MODULE Description -----------------------------
(***************************************************************************)
(* A graph from its description to its values. Ruby's builder adds nodes   *)
(* and infers what each will be (lib/torobi/dsl/builder.rb), the graph is  *)
(* checked as a whole (lib/torobi/ir/graph/check.rb), the engine reads the *)
(* JSON of it, which holds neither shapes nor dtypes of the nodes, into a  *)
(* program (engine/src/op.rs), binds one batch after another to it         *)
(* (engine/src/plan.rs) and computes the nodes in order (interp.rs). The   *)
(* engine does not take the description's word: a graph written by hand    *)
(* reaches it too. Only the shapes and dtypes of the values are kept.      *)
(***************************************************************************)
EXTENDS Shapes

CONSTANTS
    Declarations,    \* what a graph may declare: [inputs, params], the nodes
                     \* the DSL may be asked for, one set after another
                     \* (says), and those a graph written by hand may hold
                     \* (writes)
    MaxNodes,        \* bound: nodes of a graph
    Sizes            \* bound: what a symbolic dimension is in a batch

ASSUME MaxNodesAssumption == MaxNodes \in Nat \ {0}
ASSUME SizesAssumption == Sizes \subseteq Nat \ {0}

(* The attributes the DSL gives an op, as the manifest types them.          *)
Ops == {"parameter", "neg", "exp", "add_scalar", "dropout", "softmax", "rope", "add", "div",
        "reshape", "transpose", "slice", "mean", "sum", "cast", "matmul", "take", "layer_norm",
        "rms_norm", "sdpa", "cross_entropy"}
Attributed(op, attr, declared_params) ==
    /\ op \in Ops /\ attr \in Seq(Int)
    /\ op = "parameter" => attr[1] \in 0..(declared_params - 1)
    /\ op = "cast"  => attr[1] \in Dtypes
    /\ op = "sdpa"  => attr[1] \in {0, 1}
    /\ op = "slice" => Len(attr) = 3
    /\ op \in {"mean", "sum"} => Len(attr) >= 2

(* Dimensions are numbers, the ones of parameters and batches positive.     *)
ASSUME DeclarationsAssumption ==
    \A d \in Declarations :
        /\ d.says \in Seq(SUBSET [op : Ops, attr : Seq(Int)]) /\ Len(d.says) <= MaxNodes
        /\ d.inputs \in Seq([field : {d.inputs[i].field : i \in DOMAIN d.inputs},
                             shape : Seq(Nat), dtype : Dtypes])
        /\ d.params \in Seq([shape : Seq(Nat \ {0}), dtype : Dtypes])
        /\ \A i \in DOMAIN d.says : \A e \in d.says[i] : Attributed(e.op, e.attr, Len(d.params))

VARIABLES
    author,     \* who wrote the graph: "ruby" (the DSL) or "hand"
    declared,   \* its inputs and parameters, and what it is made of
    nodes,      \* its nodes: op, attributes, references, described value
    out,        \* the node its output names
    phase,      \* "describing", "described", "opened", "running",
                \* "refused" at open, or "panicked"
    given,      \* the batch bound to its fields, in the last pass
    training,   \* whether that pass has a key to draw with
    values,     \* the values computed so far
    strays,     \* the nodes of that pass that read outside their input
    broke,      \* the node that pass failed at, or 0
    cause       \* why the process panicked: "none", "index" or "rank"

vars == <<author, declared, nodes, out, phase, given, training, values,
          strays, broke, cause>>

graph == <<author, declared, nodes, out>>
pass  == <<given, training, values, strays, broke>>

-----------------------------------------------------------------------------
(* References, written "input:3" and "node:7" in the JSON.                  *)

Ref(kind, id) == [kind |-> kind, id |-> id]
Refs(inputs, earlier) ==
    {Ref("input", i) : i \in 0..(inputs - 1)} \cup {Ref("node", i) : i \in 0..(earlier - 1)}

Node(op, attr, ins, value) == [op |-> op, attr |-> attr, ins |-> ins, value |-> value]

inputs == declared.inputs
params == declared.params

(* The value the description gives what a reference names. *)
Described(ref) ==
    IF ref.kind = "input" THEN Value(inputs[ref.id + 1].shape, inputs[ref.id + 1].dtype)
    ELSE nodes[ref.id + 1].value

(* How many values an op reads: the manifest's word for Ruby, and the      *)
(* engine's own for what it is handed.                                     *)
Binary == {"add", "div", "matmul", "take", "cross_entropy", "rms_norm"}
InputRange(op) ==
    CASE op = "parameter"  -> 0..0
      [] op \in Binary     -> 2..2
      [] op = "layer_norm" -> 2..3
      [] op = "sdpa"       -> 3..4
      [] OTHER             -> 1..1
arity(op) == InputRange(op)

-----------------------------------------------------------------------------
(* Describing *)

Init ==
    /\ declared \in Declarations
    /\ author \in IF declared.writes = {} THEN {"ruby"} ELSE {"ruby", "hand"}
    /\ nodes = <<>>
    /\ out = 0
    /\ phase = "describing"
    /\ given = <<>>
    /\ training = FALSE
    /\ values = <<>>
    /\ strays = {}
    /\ broke = 0
    /\ cause = "none"

(* What a `parameter` node is, and every other one by its rule. *)
Inferred(op, attr, ins) ==
    IF op = "parameter" THEN params[attr[1] + 1]
    ELSE Infer(op, attr, [i \in DOMAIN ins |-> Described(ins[i])])

(* One node, added by the DSL if its arity and its rule allow it. *)
emit(op, attr, ins) ==
    LET value == Inferred(op, attr, ins)
    IN  /\ author = "ruby"
        /\ Len(ins) \in InputRange(op)
        /\ value # Refused
        /\ nodes' = Append(nodes, Node(op, attr, ins, value))
        /\ UNCHANGED <<author, declared, out, phase, pass, cause>>

Emit ==
    /\ phase = "describing" /\ Len(nodes) < Len(declared.says)
    /\ \E e \in declared.says[Len(nodes) + 1] :
        \E n \in InputRange(e.op) :
            \E ins \in [1..n -> Refs(Len(inputs), Len(nodes))] :
                emit(e.op, e.attr, ins)

(* One node of a graph nothing checked: it may read what is not there. *)
Write ==
    /\ author = "hand"
    /\ phase = "describing" /\ Len(nodes) < Len(declared.says)
    /\ \E e \in declared.writes, n \in 0..2 :
           \E ins \in [1..n -> Refs(Len(inputs) + 1, Len(declared.says))] :
               nodes' = Append(nodes, Node(e.op, e.attr, ins, Refused))
    /\ UNCHANGED <<author, declared, out, phase, pass, cause>>

(* Every node must reach the output. *)
Alive(output) ==
    LET alive[i \in 0..MaxNodes] ==
            \/ i = output
            \/ \E j \in (i + 1)..Len(nodes) :
                   alive[j] /\ \E k \in DOMAIN nodes[j].ins :
                                   nodes[j].ins[k] = Ref("node", i - 1)
    IN  {i \in 1..Len(nodes) : alive[i]}

Describe ==
    /\ phase = "describing"
    /\ \E output \in 1..(IF author = "ruby" THEN Len(nodes) ELSE Len(declared.says)) :
           /\ author = "ruby" => Alive(output) = 1..Len(nodes)
           /\ out' = output
    /\ phase' = "described"
    /\ UNCHANGED <<author, declared, nodes, pass, cause>>

-----------------------------------------------------------------------------
(* Opening: the engine resolves what the JSON says. *)

(* A slip: any node that exists will do. *)
check_exists(ref, position) ==
    \/ ref.kind = "input" /\ ref.id < Len(inputs)
    \/ ref.kind = "node"  /\ ref.id < Len(nodes)

(* A reference names something that exists, and a node only an earlier one. *)
check(ref, position) ==
    \/ ref.kind = "input" /\ ref.id < Len(inputs)
    \/ ref.kind = "node"  /\ ref.id < position

(* The attributes the engine reads for itself. *)
Understood(node) ==
    /\ node.op = "parameter" => node.attr[1] < Len(params)
    /\ node.op = "reshape"   => WellFormed(node.attr)

Resolves ==
    /\ \A i \in DOMAIN nodes :
           /\ Understood(nodes[i])
           /\ \A k \in DOMAIN nodes[i].ins : check(nodes[i].ins[k], i - 1)
           /\ Len(nodes[i].ins) \in arity(nodes[i].op)
    /\ check(Ref("node", out - 1), Len(nodes))

Open ==
    /\ phase = "described"
    /\ phase' = IF Resolves THEN "opened" ELSE "refused"
    /\ UNCHANGED <<graph, pass, cause>>

-----------------------------------------------------------------------------
(* Binding a batch *)

Fields == {inputs[i].field : i \in DOMAIN inputs}
FirstReader(field) ==
    CHOOSE i \in DOMAIN inputs :
        inputs[i].field = field /\ \A j \in 1..(i - 1) : inputs[j].field # field

(* What a batch may carry for a field: any shape some input was declared   *)
(* with, its symbolic dimensions given.                                    *)
Concretions(shape) ==
    {[i \in DOMAIN shape |-> IF shape[i] = Symbolic THEN c[i] ELSE shape[i]] :
        c \in [DOMAIN shape -> Sizes]}
Tensors ==
    UNION {{Value(s, inputs[i].dtype) : s \in Concretions(inputs[i].shape)} :
               i \in DOMAIN inputs}

(* A slip: the ranks and dtypes are compared, the dimensions are not. *)
bind_by_rank(spec, tensor) ==
    Len(tensor.shape) = Len(spec.shape) /\ tensor.dtype = spec.dtype

bind_one(spec, tensor) ==
    /\ Fits(tensor.shape, spec.shape)
    /\ tensor.dtype = spec.dtype

(* A field two inputs read is checked against the first of them. *)
bind(batch) ==
    /\ DOMAIN batch = Fields
    /\ \A field \in Fields : bind_one(inputs[FirstReader(field)], batch[field])

Bind ==
    /\ phase = "opened"
    /\ \E batch \in [Fields -> Tensors] : bind(batch) /\ given' = batch
    /\ training' \in BOOLEAN
    /\ values' = <<>>
    /\ strays' = {}
    /\ broke' = 0
    /\ phase' = "running"
    /\ UNCHANGED <<graph, cause>>

-----------------------------------------------------------------------------
(* One pass over the nodes *)

There(ref) ==
    \/ ref.kind = "input" /\ ref.id \in 0..(Len(inputs) - 1)
    \/ ref.kind = "node"  /\ ref.id \in 0..(Len(values) - 1)

read(ref) ==
    IF ref.kind = "input" THEN given[inputs[ref.id + 1].field] ELSE values[ref.id + 1]

(* Everything a node indexes is there: its inputs, its arguments, its      *)
(* parameter.                                                              *)
Indexes(node) ==
    /\ \A k \in DOMAIN node.ins : There(node.ins[k])
    /\ Len(node.ins) \in InputRange(node.op)
    /\ node.op = "parameter" => node.attr[1] < Len(params)

Panic(why) ==
    /\ phase' = "panicked"
    /\ cause' = why
    /\ UNCHANGED <<graph, pass>>

Produce(i, node) ==
    LET ins == [k \in DOMAIN node.ins |-> read(node.ins[k])]
        value == IF node.op = "parameter" THEN params[node.attr[1] + 1]
                 ELSE Apply(node.op, node.attr, ins, training)
    IN  \/ /\ Panics(node.op, ins)
           /\ Panic("rank")
        \/ /\ ~Panics(node.op, ins)
           /\ value # Refused
           /\ values' = Append(values, value)
           /\ strays' = IF Strays(node.op, node.attr, ins) THEN strays \cup {i} ELSE strays
           /\ UNCHANGED <<graph, phase, given, training, broke, cause>>
        \/ /\ ~Panics(node.op, ins)
           /\ value = Refused
           /\ broke' = i
           /\ phase' = "opened"
           /\ UNCHANGED <<graph, given, training, values, strays, cause>>

RunNode ==
    LET i == Len(values) + 1
    IN  /\ phase = "running" /\ i <= Len(nodes)
        /\ \/ Indexes(nodes[i]) /\ Produce(i, nodes[i])
           \/ ~Indexes(nodes[i]) /\ Panic("index")

(* The output is read, and the session waits for another batch. *)
Answer ==
    /\ phase = "running" /\ Len(values) = Len(nodes)
    /\ \/ There(Ref("node", out - 1)) /\ phase' = "opened"
          /\ UNCHANGED <<graph, pass, cause>>
       \/ ~There(Ref("node", out - 1)) /\ Panic("index")

Next == Emit \/ Write \/ Describe \/ Open \/ Bind \/ RunNode \/ Answer

Spec == Init /\ [][Next]_vars

-----------------------------------------------------------------------------
(* Properties *)

(* Whatever a graph says, one that opened never has the interpreter index  *)
(* past what is there: "A config whose nodes are not in topological order  *)
(* used to be a panic at step one; it is a refusal at open now" (op.rs).   *)
ReferencesHold == cause # "index"

(* The inputs that read one field declare it alike, and no node up to i is *)
(* one whose rule leaves something unlooked.                               *)
DeclaredAlike ==
    \A i, j \in DOMAIN inputs :
        inputs[i].field = inputs[j].field =>
            inputs[i].shape = inputs[j].shape /\ inputs[i].dtype = inputs[j].dtype
Looked(i) ==
    LET ins == [k \in DOMAIN nodes[i].ins |-> Described(nodes[i].ins[k])]
    IN  ~LeftUnlooked(nodes[i].op, nodes[i].attr, ins)
SoundUpTo(i) == author = "ruby" /\ DeclaredAlike /\ \A j \in 1..i : Looked(j)

(* What a batch is turned into has the shape the description gave it, a    *)
(* symbolic dimension standing for any: the rules of shape.rb and the ops  *)
(* of interp.rs say the same, for graphs of several nodes and batches of   *)
(* several sizes.                                                          *)
RunsAsDescribed ==
    \A i \in DOMAIN values :
        SoundUpTo(i) => Fits(values[i].shape, nodes[i].value.shape)

(* A slice along a dimension the description left symbolic. *)
SlicesSymbol(node) ==
    LET x == Described(node.ins[1])
    IN  node.op = "slice" /\ x.shape[AxisAt(node.attr[1], RankOf(x))] = Symbolic

(* "a shape mistake is reported at build time" (shape.rb): once a graph is *)
(* described, a pass fails only at a node that reads a dimension the       *)
(* description left symbolic, and reads outside an array only at a slice   *)
(* along one.                                                              *)
FailsOnlyOverSymbols ==
    /\ broke # 0 /\ SoundUpTo(broke) =>
           \E k \in DOMAIN nodes[broke].ins : ~Concrete(Described(nodes[broke].ins[k]).shape)
    /\ \A i \in strays : SoundUpTo(i) => SlicesSymbol(nodes[i])

(* Of a slice along a symbolic dimension: "the engine checks it when the   *)
(* batch arrives" (shape.rb).  The pass would fail there, and never read   *)
(* outside an array.                                                       *)
SlicesAreChecked == author = "ruby" => strays = {}
=============================================================================
