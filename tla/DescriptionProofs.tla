-------------------------- MODULE DescriptionProofs --------------------------
(***************************************************************************)
(* That a graph the engine opened never has the interpreter index past     *)
(* what is there, whoever wrote the graph; and that what a graph of the    *)
(* DSL's computes has the shapes the description gave it, failing only     *)
(* where a dimension was left to the batch: for any declarations, ops,     *)
(* attributes, references, batches and sizes.                              *)
(***************************************************************************)
EXTENDS Description, TLAPS, SequenceTheorems, WellFoundedInduction

-----------------------------------------------------------------------------
(* A graph is numbered from one, its references from zero, and a pass has  *)
(* computed the nodes in front of the one it is at.                        *)

Numbered(s) == \E S : s \in Seq(S)
RefsAreNumbers ==
    \A i \in DOMAIN nodes :
        \A k \in DOMAIN nodes[i].ins : nodes[i].ins[k].id \in Nat
Typed == /\ Numbered(nodes) /\ Numbered(values) /\ RefsAreNumbers
         /\ out \in Nat /\ Len(inputs) \in Nat
OutIsChosen == phase # "describing" => out >= 1

(* What the interpreter relies on without looking: the engine let the      *)
(* graph through, and the pass is not past its end.                        *)
LetThrough == phase \in {"opened", "running"} => Resolves
InStep == phase = "running" => Len(values) <= Len(nodes)

IInv == Typed /\ OutIsChosen /\ LetThrough /\ InStep /\ ReferencesHold

-----------------------------------------------------------------------------
(* Appending to a sequence numbers one more.                               *)
LEMMA NumberedAppend ==
    ASSUME NEW s, NEW e, Numbered(s)
    PROVE  /\ Numbered(Append(s, e)) /\ Len(s) \in Nat /\ DOMAIN s = 1..Len(s)
           /\ Len(Append(s, e)) = Len(s) + 1 /\ DOMAIN Append(s, e) = 1..(Len(s) + 1)
           /\ \A i \in 1..Len(s) : Append(s, e)[i] = s[i]
           /\ Append(s, e)[Len(s) + 1] = e
  <1>1. PICK S : s \in Seq(S)
    BY DEF Numbered
  <1>2. s \in Seq(S \cup {e}) /\ e \in S \cup {e}
    BY <1>1
  <1>3. Append(s, e) \in Seq(S \cup {e})
    BY <1>2
  <1>4. Numbered(Append(s, e))
    BY <1>3 DEF Numbered
  <1> QED  BY <1>2, <1>3, <1>4

LEMMA NumberedFacts ==
    ASSUME NEW s, Numbered(s)
    PROVE  Len(s) \in Nat /\ DOMAIN s = 1..Len(s)
  BY DEF Numbered

LEMMA EmptyIsNumbered == Numbered(<<>>) /\ Len(<<>>) = 0
  <1>1. <<>> \in Seq({})
    OBVIOUS
  <1> QED  BY <1>1 DEF Numbered

-----------------------------------------------------------------------------
(* Opening looked at everything a node indexes, and a node that reads only *)
(* earlier ones finds them computed.                                       *)
LEMMA ResolvedIndexes ==
    ASSUME Typed, Resolves, Len(values) + 1 <= Len(nodes)
    PROVE  Indexes(nodes[Len(values) + 1])
  <1> DEFINE i == Len(values) + 1
  <1>1. Len(values) \in Nat /\ i \in DOMAIN nodes /\ i - 1 = Len(values)
    BY NumberedFacts DEF Typed
  <1>2. /\ Understood(nodes[i]) /\ Len(nodes[i].ins) \in arity(nodes[i].op)
        /\ \A k \in DOMAIN nodes[i].ins : check(nodes[i].ins[k], Len(values))
    BY <1>1 DEF Resolves
  <1>3. ASSUME NEW k \in DOMAIN nodes[i].ins PROVE There(nodes[i].ins[k])
    <2>1. nodes[i].ins[k].id \in Nat /\ check(nodes[i].ins[k], Len(values))
      BY <1>1, <1>2, <1>3 DEF Typed, RefsAreNumbers
    <2> QED  BY <1>1, <2>1 DEF check, There, Typed
  <1> QED  BY <1>2, <1>3 DEF Indexes, arity, Understood

LEMMA ResolvedOutput ==
    ASSUME Typed, Resolves, out >= 1, Len(values) = Len(nodes)
    PROVE  There(Ref("node", out - 1))
  <1>1. Len(nodes) \in Nat /\ out - 1 \in Nat /\ out - 1 < Len(nodes)
    BY NumberedFacts DEF Typed, Resolves, check, Ref
  <1> QED  BY <1>1 DEF There, Ref

(* A step that leaves the graph alone, and its values numbered.            *)
LEMMA GraphStands ==
    ASSUME Typed, OutIsChosen, UNCHANGED graph
    PROVE  /\ RefsAreNumbers' /\ out' \in Nat /\ Len(inputs)' \in Nat
           /\ Numbered(nodes)' /\ Len(nodes)' = Len(nodes) /\ Len(nodes) \in Nat
           /\ Resolves => Resolves'
  <1>1. RefsAreNumbers' /\ out' \in Nat /\ Len(inputs)' \in Nat
    BY DEF Typed, RefsAreNumbers, graph, inputs
  <1>2. Numbered(nodes)' /\ Len(nodes)' = Len(nodes) /\ Len(nodes) \in Nat
    BY NumberedFacts DEF Typed, graph
  <1>3. Resolves => Resolves'
    BY DEF Resolves, Understood, check, inputs, params, graph
  <1> QED  BY <1>1, <1>2, <1>3

-----------------------------------------------------------------------------
(* One lemma per action.                                                   *)

LEMMA InitHolds == Init => IInv
  BY EmptyIsNumbered, DeclarationsAssumption
  DEF Init, IInv, Typed, RefsAreNumbers, OutIsChosen, LetThrough, InStep, ReferencesHold, inputs

(* A node whose references are numbers joins the graph.                    *)
LEMMA JoinKeeps ==
    ASSUME IInv, phase = "describing", NEW node,
           \A k \in DOMAIN node.ins : node.ins[k].id \in Nat,
           nodes' = Append(nodes, node),
           UNCHANGED <<author, declared, out, phase, pass, cause>>
    PROVE  IInv'
  <1>1. /\ Numbered(nodes') /\ DOMAIN nodes = 1..Len(nodes) /\ Len(nodes) \in Nat
        /\ DOMAIN nodes' = 1..(Len(nodes) + 1) /\ nodes'[Len(nodes) + 1] = node
        /\ \A i \in 1..Len(nodes) : nodes'[i] = nodes[i]
    BY NumberedAppend DEF IInv, Typed
  <1>2. RefsAreNumbers'
    <2> SUFFICES ASSUME NEW i \in DOMAIN nodes', NEW k \in DOMAIN nodes'[i].ins
                 PROVE  nodes'[i].ins[k].id \in Nat
      BY DEF RefsAreNumbers
    <2>1. i \in DOMAIN nodes \/ i = Len(nodes) + 1
      BY <1>1
    <2>2. CASE i \in DOMAIN nodes
      BY <1>1, <2>2 DEF IInv, Typed, RefsAreNumbers
    <2>3. CASE i = Len(nodes) + 1
      BY <1>1, <2>3
    <2> QED  BY <2>1, <2>2, <2>3
  <1> QED  BY <1>1, <1>2 DEF IInv, Typed, OutIsChosen, LetThrough, InStep, ReferencesHold, pass, inputs

LEMMA RefIsNumbered ==
    ASSUME NEW m \in Int, NEW n \in Int, NEW ref \in Refs(m, n)
    PROVE  ref.id \in Nat
  BY DEF Refs, Ref

LEMMA EmitKeeps == IInv /\ Emit => IInv'
  <1> SUFFICES ASSUME IInv, Emit PROVE IInv'
    OBVIOUS
  <1>1. PICK e \in declared.says[Len(nodes) + 1] :
            \E n \in InputRange(e.op) :
                \E ins \in [1..n -> Refs(Len(inputs), Len(nodes))] : emit(e.op, e.attr, ins)
    BY DEF Emit
  <1>a. PICK n \in InputRange(e.op) :
            \E ins \in [1..n -> Refs(Len(inputs), Len(nodes))] : emit(e.op, e.attr, ins)
    BY <1>1
  <1>2. PICK ins \in [1..n -> Refs(Len(inputs), Len(nodes))] : emit(e.op, e.attr, ins)
    BY <1>a
  <1>3. Len(inputs) \in Nat /\ Len(nodes) \in Nat
    BY NumberedFacts DEF IInv, Typed
  <1>4. \A k \in DOMAIN ins : ins[k].id \in Nat
    BY <1>3, RefIsNumbered
  <1> DEFINE node == Node(e.op, e.attr, ins, Inferred(e.op, e.attr, ins))
  <1>5. /\ nodes' = Append(nodes, node) /\ UNCHANGED <<author, declared, out, phase, pass, cause>>
    BY <1>2 DEF emit
  <1>6. node.ins = ins
    BY DEF Node
  <1>7. \A k \in DOMAIN node.ins : node.ins[k].id \in Nat
    BY <1>4, <1>6
  <1>8. phase = "describing"
    BY DEF Emit
  <1> HIDE DEF node
  <1> QED  BY <1>5, <1>7, <1>8, JoinKeeps

LEMMA WriteKeeps == IInv /\ Write => IInv'
  <1> SUFFICES ASSUME IInv, Write PROVE IInv'
    OBVIOUS
  <1>1. PICK e \in declared.writes, n \in 0..2 :
            \E ins \in [1..n -> Refs(Len(inputs) + 1, Len(declared.says))] :
                nodes' = Append(nodes, Node(e.op, e.attr, ins, Refused))
    BY DEF Write
  <1>2. PICK ins \in [1..n -> Refs(Len(inputs) + 1, Len(declared.says))] :
            nodes' = Append(nodes, Node(e.op, e.attr, ins, Refused))
    BY <1>1
  <1>3. \A k \in DOMAIN ins : ins[k].id \in Nat
    BY DEF Refs, Ref
  <1> DEFINE node == Node(e.op, e.attr, ins, Refused)
  <1>4. node.ins = ins
    BY DEF Node
  <1>5. \A k \in DOMAIN node.ins : node.ins[k].id \in Nat
    BY <1>3, <1>4
  <1>6. /\ phase = "describing" /\ nodes' = Append(nodes, node)
        /\ UNCHANGED <<author, declared, out, phase, pass, cause>>
    BY <1>2 DEF Write
  <1> HIDE DEF node
  <1> QED  BY <1>5, <1>6, JoinKeeps

LEMMA DescribeKeeps == IInv /\ Describe => IInv'
  <1> SUFFICES ASSUME IInv, Describe PROVE IInv'
    OBVIOUS
  <1>1. out' \in Nat /\ out' >= 1 /\ phase' = "described"
    BY DEF Describe
  <1> QED  BY <1>1 DEF Describe, IInv, Typed, RefsAreNumbers, OutIsChosen, LetThrough, InStep,
                       ReferencesHold, pass, inputs

LEMMA OpenKeeps == IInv /\ Open => IInv'
  <1> SUFFICES ASSUME IInv, Open PROVE IInv'
    OBVIOUS
  <1>1. /\ phase = "described" /\ phase' \in {"opened", "refused"}
        /\ phase' = "opened" => Resolves
        /\ UNCHANGED graph /\ UNCHANGED <<out, values, cause>>
    BY DEF Open, graph, pass
  <1> QED  BY <1>1, GraphStands DEF IInv, Typed, OutIsChosen, LetThrough, InStep, ReferencesHold

LEMMA BindKeeps == IInv /\ Bind => IInv'
  <1> SUFFICES ASSUME IInv, Bind PROVE IInv'
    OBVIOUS
  <1>1. /\ phase = "opened" /\ phase' = "running" /\ values' = <<>>
        /\ UNCHANGED graph /\ cause' = cause
    BY DEF Bind
  <1>2. Numbered(values') /\ Len(values') = 0
    BY <1>1, EmptyIsNumbered
  <1> QED  BY <1>1, <1>2, GraphStands DEF IInv, Typed, OutIsChosen, LetThrough, InStep,
                                          ReferencesHold, graph

LEMMA RunNodeKeeps == IInv /\ RunNode => IInv'
  <1> SUFFICES ASSUME IInv, RunNode PROVE IInv'
    OBVIOUS
  <1> DEFINE i == Len(values) + 1
  <1>1. phase = "running" /\ i <= Len(nodes) /\ Resolves /\ Typed /\ OutIsChosen
    BY DEF RunNode, IInv, LetThrough
  <1>2. Indexes(nodes[i])
    BY <1>1, ResolvedIndexes
  <1>3. Produce(i, nodes[i])
    BY <1>2 DEF RunNode
  <1>4. UNCHANGED graph /\ cause' \in {cause, "rank"}
    BY <1>3 DEF Produce, Panic, pass
  <1>5. phase' # "describing"
    BY <1>1, <1>3 DEF Produce, Panic
  <1>6. values' = values \/ \E value : values' = Append(values, value)
    BY <1>3 DEF Produce, Panic, pass
  <1>7. Numbered(values) /\ Len(values) \in Nat /\ Len(nodes) \in Nat
    BY <1>1, NumberedFacts DEF Typed
  <1>8. Numbered(values') /\ Len(values') <= Len(nodes)
    <2>1. CASE values' = values
      BY <2>1, <1>1, <1>7
    <2>2. CASE \E value : values' = Append(values, value)
      <3>1. PICK value : values' = Append(values, value)
        BY <2>2
      <3>2. Numbered(values') /\ Len(values') = Len(values) + 1
        BY <3>1, <1>7, NumberedAppend
      <3> QED  BY <3>2, <1>1
    <2> QED  BY <1>6, <2>1, <2>2
  <1>9. out' = out
    BY <1>4 DEF graph
  <1> QED  BY <1>1, <1>4, <1>5, <1>8, <1>9, GraphStands
           DEF IInv, Typed, OutIsChosen, LetThrough, InStep, ReferencesHold

LEMMA AnswerKeeps == IInv /\ Answer => IInv'
  <1> SUFFICES ASSUME IInv, Answer PROVE IInv'
    OBVIOUS
  <1>1. phase = "running" /\ Len(values) = Len(nodes) /\ Resolves /\ Typed /\ out >= 1
    BY DEF Answer, IInv, LetThrough, OutIsChosen
  <1>2. There(Ref("node", out - 1))
    BY <1>1, ResolvedOutput
  <1>3. phase' = "opened" /\ UNCHANGED graph /\ UNCHANGED <<out, values, cause>>
    BY <1>2 DEF Answer, graph, pass
  <1> QED  BY <1>1, <1>3, GraphStands
           DEF IInv, Typed, OutIsChosen, LetThrough, InStep, ReferencesHold

(* A stutter.                                                              *)
LEMMA StutterKeeps == IInv /\ UNCHANGED vars => IInv'
  <1> SUFFICES ASSUME IInv, UNCHANGED vars PROVE IInv'
    OBVIOUS
  <1>1. UNCHANGED graph /\ UNCHANGED <<out, phase, values, cause>>
    BY DEF vars, graph
  <1> QED  BY <1>1, GraphStands DEF IInv, Typed, OutIsChosen, LetThrough, InStep, ReferencesHold

-----------------------------------------------------------------------------
(* The inductive invariant: what opened was let through by Resolves, which *)
(* looks at everything the interpreter will index, and nothing of the      *)
(* graph changes after.                                                    *)
THEOREM Invariance == Spec => []IInv
  <1>1. IInv /\ [Next]_vars => IInv'
    BY EmitKeeps, WriteKeeps, DescribeKeeps, OpenKeeps, BindKeeps, RunNodeKeeps, AnswerKeeps,
       StutterKeeps DEF Next
  <1> QED  BY InitHolds, <1>1, PTL DEF Spec

(* Whatever a graph says, by whoever it was written, once the engine has   *)
(* opened it (op.rs, Program::resolve) the interpreter finds every input,  *)
(* node, argument and parameter it indexes.                                *)
THEOREM IndicesHold == Spec => []ReferencesHold
  <1>1. IInv => ReferencesHold
    BY DEF IInv
  <1> QED  BY Invariance, <1>1, PTL

-----------------------------------------------------------------------------
(* DShapes and values. *)

Dims == Nat \ {0}
DShapes  == Seq(Nat)     \* as described: 0 is a dimension left to the batch
Arrays  == Seq(Dims)    \* as computed

LEMMA ShapeFacts ==
    ASSUME NEW s \in DShapes
    PROVE  Len(s) \in Nat /\ DOMAIN s = 1..Len(s) /\ \A i \in 1..Len(s) : s[i] \in Nat
  BY DEF DShapes

LEMMA ArrayFacts ==
    ASSUME NEW s \in Arrays
    PROVE  /\ Len(s) \in Nat /\ DOMAIN s = 1..Len(s)
           /\ \A i \in 1..Len(s) : s[i] \in Dims /\ s[i] \in Nat /\ s[i] # 0
           /\ s \in DShapes
  <1>1. Len(s) \in Nat /\ DOMAIN s = 1..Len(s)
    BY DEF Arrays
  <1>2. \A i \in 1..Len(s) : s[i] \in Dims /\ s[i] \in Nat /\ s[i] # 0
    BY DEF Arrays, Dims
  <1>3. s \in DShapes
    BY DEF Arrays, DShapes, Dims
  <1> QED  BY <1>1, <1>2, <1>3

(* A function on the first numbers is a sequence. *)
LEMMA MadeOf ==
    ASSUME NEW n \in Nat, NEW S, NEW f, DOMAIN f = 1..n, f = [i \in 1..n |-> f[i]],
           \A i \in 1..n : f[i] \in S
    PROVE  f \in Seq(S) /\ Len(f) = n
  <1>1. f \in [1..n -> S]
    BY Zenon
  <1> QED  BY <1>1, SeqDef, LenProperties

LEMMA FitsFacts ==
    ASSUME NEW c \in Arrays, NEW d \in DShapes, Fits(c, d)
    PROVE  /\ Len(c) \in Nat /\ Len(d) = Len(c)
           /\ \A i \in 1..Len(c) : c[i] \in Dims /\ d[i] \in Nat /\ d[i] \in {0, c[i]}
           /\ Concrete(d) => c = d
  <1>1. /\ Len(c) \in Nat /\ Len(d) = Len(c) /\ DOMAIN d = 1..Len(c) /\ DOMAIN c = 1..Len(c)
        /\ \A i \in 1..Len(c) : c[i] \in Dims /\ d[i] \in Nat
    BY ArrayFacts, ShapeFacts DEF Fits
  <1>2. \A i \in 1..Len(c) : d[i] \in {0, c[i]}
    BY <1>1 DEF Fits, Symbolic
  <1>3. ASSUME Concrete(d) PROVE c = d
    <2>1. \A i \in 1..Len(c) : d[i] = c[i]
      BY <1>1, <1>2, <1>3 DEF Concrete, Symbolic
    <2>2. c \in Seq(Nat) /\ d \in Seq(Nat)
      BY ArrayFacts DEF DShapes
    <2> QED  BY <1>1, <2>1, <2>2, SeqEqual
  <1> QED  BY <1>1, <1>2, <1>3

LEMMA FitsIf ==
    ASSUME NEW c, NEW d, Len(d) = Len(c), DOMAIN d = 1..Len(d), 
           \A i \in 1..Len(d) : d[i] \in {0, c[i]}
    PROVE  Fits(c, d)
  BY DEF Fits, Symbolic

-----------------------------------------------------------------------------
(* Broadcasting. *)

LEMMA PaddedFacts ==
    ASSUME NEW S, 1 \in S, NEW s \in Seq(S), NEW r \in Nat, Len(s) <= r
    PROVE  /\ Padded(s, r) \in Seq(S) /\ Len(Padded(s, r)) = r
           /\ \A i \in 1..r : Padded(s, r)[i] = IF i <= r - Len(s) THEN 1 ELSE s[i - (r - Len(s))]
           /\ \A i \in 1..r : i > r - Len(s) => i - (r - Len(s)) \in 1..Len(s)
  <1> DEFINE m == r - Len(s)  ones == [i \in 1..m |-> 1]
  <1>1. Len(s) \in Nat /\ m \in Nat /\ m + Len(s) = r
    OBVIOUS
  <1>2. ones \in Seq(S) /\ Len(ones) = m
    BY <1>1, MadeOf
  <1>3. Padded(s, r) = ones \o s
    BY DEF Padded
  <1> HIDE DEF m
  <1>4. \A i \in 1..m : ones[i] = 1
    OBVIOUS
  <1> HIDE DEF ones
  <1>5. /\ ones \o s \in Seq(S) /\ Len(ones \o s) = m + Len(s)
        /\ \A i \in 1..(m + Len(s)) : (ones \o s)[i] = IF i <= m THEN ones[i] ELSE s[i - m]
    BY <1>2, ConcatProperties
  <1>6. \A i \in 1..r : i > m => i - m \in 1..Len(s)
    BY <1>1
  <1>7. \A i \in 1..r : i <= m => i \in 1..m
    BY <1>1
  <1> QED  BY <1>1, <1>3, <1>4, <1>5, <1>6, <1>7 DEF m

LEMMA PaddedFits ==
    ASSUME NEW c \in Arrays, NEW d \in DShapes, Fits(c, d), NEW r \in Nat, Len(c) <= r
    PROVE  /\ Padded(c, r) \in Arrays /\ Padded(d, r) \in DShapes
           /\ Len(Padded(c, r)) = r /\ Len(Padded(d, r)) = r
           /\ \A i \in 1..r : Padded(d, r)[i] \in {0, Padded(c, r)[i]}
  <1>1. /\ Len(c) \in Nat /\ Len(d) = Len(c)
        /\ \A i \in 1..Len(c) : d[i] \in {0, c[i]}
    BY FitsFacts
  <1>2. 1 \in Dims /\ 1 \in Nat
    BY DEF Dims
  <1>3. /\ Padded(c, r) \in Arrays /\ Len(Padded(c, r)) = r
        /\ \A i \in 1..r : Padded(c, r)[i] = IF i <= r - Len(c) THEN 1 ELSE c[i - (r - Len(c))]
        /\ \A i \in 1..r : i > r - Len(c) => i - (r - Len(c)) \in 1..Len(c)
    BY <1>2, PaddedFacts DEF Arrays
  <1>4. /\ Padded(d, r) \in DShapes /\ Len(Padded(d, r)) = r
        /\ \A i \in 1..r : Padded(d, r)[i] = IF i <= r - Len(c) THEN 1 ELSE d[i - (r - Len(c))]
    BY <1>1, <1>2, PaddedFacts, SMTT(40) DEF DShapes
  <1>5. ASSUME NEW i \in 1..r
        PROVE  Padded(d, r)[i] \in {0, Padded(c, r)[i]}
    <2>1. CASE i <= r - Len(c)
      BY <1>3, <1>4, <2>1
    <2>2. CASE i > r - Len(c)
      <3>1. i - (r - Len(c)) \in 1..Len(c)
        BY <1>3, <2>2
      <3>2. Padded(d, r)[i] = d[i - (r - Len(c))] /\ Padded(c, r)[i] = c[i - (r - Len(c))]
        BY <1>1, <1>3, <1>4, <2>2
      <3> QED  BY <1>1, <3>1, <3>2
    <2> QED  BY <1>1, <2>1, <2>2
  <1> QED  BY <1>3, <1>4, <1>5

(* One dimension stretched over another. *)
Wider(x, y) == IF x = 1 THEN y ELSE IF y = 1 THEN x ELSE Joined(x, y)
Stretchy(x, y) == x = 1 \/ y = 1 \/ Agree(x, y)

LEMMA WiderFits ==
    ASSUME NEW cx \in Dims, NEW cy \in Dims, NEW dx \in {0, cx}, NEW dy \in {0, cy},
           Stretchy(cx, cy), Stretchy(dx, dy)
    PROVE  /\ Wider(cx, cy) \in Dims /\ Wider(dx, dy) \in Nat
           /\ Wider(dx, dy) \in {0, Wider(cx, cy)}
  BY DEF Wider, Stretchy, Joined, Agree, Symbolic, Dims

LEMMA StretchedIs ==
    ASSUME NEW a \in DShapes, NEW b \in DShapes
    PROVE  /\ Greater(Len(a), Len(b)) \in Nat
           /\ Len(a) <= Greater(Len(a), Len(b)) /\ Len(b) <= Greater(Len(a), Len(b))
           /\ Stretched(a, b) = [i \in 1..Greater(Len(a), Len(b)) |->
                  Wider(Padded(a, Greater(Len(a), Len(b)))[i], Padded(b, Greater(Len(a), Len(b)))[i])]
           /\ Stretches(a, b) <=> \A i \in 1..Greater(Len(a), Len(b)) :
                  Stretchy(Padded(a, Greater(Len(a), Len(b)))[i], Padded(b, Greater(Len(a), Len(b)))[i])
  <1>1. Len(a) \in Nat /\ Len(b) \in Nat
    BY ShapeFacts
  <1>2. /\ Greater(Len(a), Len(b)) \in Nat
        /\ Len(a) <= Greater(Len(a), Len(b)) /\ Len(b) <= Greater(Len(a), Len(b))
    BY <1>1 DEF Greater
  <1>3. Stretched(a, b) = [i \in 1..Greater(Len(a), Len(b)) |->
                  Wider(Padded(a, Greater(Len(a), Len(b)))[i], Padded(b, Greater(Len(a), Len(b)))[i])]
    BY DEF Stretched, Wider
  <1>4. Stretches(a, b) <=> \A i \in 1..Greater(Len(a), Len(b)) :
                  Stretchy(Padded(a, Greater(Len(a), Len(b)))[i], Padded(b, Greater(Len(a), Len(b)))[i])
    BY DEF Stretches, Stretchy
  <1> QED  BY <1>2, <1>3, <1>4

(* Arrays that stretch over one another have the shape of what was         *)
(* described, stretched.                                                   *)
LEMMA StretchedFits ==
    ASSUME NEW ca \in Arrays, NEW da \in DShapes, Fits(ca, da),
           NEW cb \in Arrays, NEW db \in DShapes, Fits(cb, db),
           Stretches(ca, cb), Stretches(da, db)
    PROVE  /\ Stretched(ca, cb) \in Arrays /\ Stretched(da, db) \in DShapes
           /\ Fits(Stretched(ca, cb), Stretched(da, db))
  <1> DEFINE r == Greater(Len(ca), Len(cb))
             cx(i) == Padded(ca, r)[i]  cy(i) == Padded(cb, r)[i]
             dx(i) == Padded(da, r)[i]  dy(i) == Padded(db, r)[i]
  <1>1. ca \in DShapes /\ cb \in DShapes /\ Len(da) = Len(ca) /\ Len(db) = Len(cb)
    BY ArrayFacts, FitsFacts
  <1>2. /\ r \in Nat /\ Len(ca) <= r /\ Len(cb) <= r
        /\ Stretched(ca, cb) = [i \in 1..r |-> Wider(cx(i), cy(i))]
        /\ \A i \in 1..r : Stretchy(cx(i), cy(i))
    BY <1>1, StretchedIs
  <1>3. /\ Stretched(da, db) = [i \in 1..r |-> Wider(dx(i), dy(i))]
        /\ \A i \in 1..r : Stretchy(dx(i), dy(i))
    BY <1>1, StretchedIs
  <1>4. /\ Padded(ca, r) \in Arrays /\ Len(Padded(ca, r)) = r
        /\ Padded(cb, r) \in Arrays /\ Len(Padded(cb, r)) = r
        /\ \A i \in 1..r : dx(i) \in {0, cx(i)} /\ dy(i) \in {0, cy(i)}
    BY <1>2, PaddedFits
  <1> HIDE DEF r
  <1>5. ASSUME NEW i \in 1..r
        PROVE  /\ Wider(cx(i), cy(i)) \in Dims /\ Wider(dx(i), dy(i)) \in Nat
               /\ Wider(dx(i), dy(i)) \in {0, Wider(cx(i), cy(i))}
    <2>1. cx(i) \in Dims /\ cy(i) \in Dims /\ dx(i) \in {0, cx(i)} /\ dy(i) \in {0, cy(i)}
      BY <1>4, ArrayFacts
    <2>2. Stretchy(cx(i), cy(i)) /\ Stretchy(dx(i), dy(i))
      BY <1>2, <1>3
    <2> HIDE DEF cx, cy, dx, dy
    <2> QED  BY <2>1, <2>2, WiderFits
  <1> HIDE DEF cx, cy, dx, dy
  <1> DEFINE c == Stretched(ca, cb)  d == Stretched(da, db)
  <1>6. c = [i \in 1..r |-> Wider(cx(i), cy(i))] /\ d = [i \in 1..r |-> Wider(dx(i), dy(i))]
    BY <1>2, <1>3
  <1> HIDE DEF c, d
  <1>7. \A i \in 1..r : c[i] \in Dims /\ d[i] \in Nat /\ d[i] \in {0, c[i]}
    BY <1>5, <1>6
  <1>8. DOMAIN c = 1..r /\ c = [i \in 1..r |-> c[i]] /\ DOMAIN d = 1..r /\ d = [i \in 1..r |-> d[i]]
    BY <1>6
  <1>9. c \in Arrays /\ Len(c) = r /\ d \in DShapes /\ Len(d) = r
    BY <1>2, <1>7, <1>8, MadeOf DEF Arrays, DShapes
  <1>10. Fits(c, d)
    BY <1>7, <1>8, <1>9, FitsIf
  <1> QED  BY <1>9, <1>10 DEF c, d

-----------------------------------------------------------------------------
(* Recurrences. *)

(* The least number there is of a set of them. *)
LEMMA LeastOf ==
    ASSUME NEW S \in SUBSET Nat, S # {}
    PROVE  \E j \in S : \A i \in S : j <= i
  <1> DEFINE R == OpToRel(<, Nat)
  <1>1. IsWellFoundedOn(R, Nat)
    BY NatLessThanWellFounded
  <1>2. \A x, y \in S : y < x => <<y, x>> \in R
    BY DEF OpToRel
  <1> HIDE DEF R
  <1>3. PICK j \in S : \A y \in S : ~ (<<y, j>> \in R)
    BY <1>1, WFMin
  <1>4. \A i \in S : ~ (i < j)
    BY <1>2, <1>3
  <1>5. \A i \in S : j <= i
    BY <1>4
  <1> QED  BY <1>5

(* What is so at 0, and at a number when it is at the one before, is so up *)
(* to n: the numbers are those of a set.                                   *)
LEMMA Reaches ==
    ASSUME NEW n \in Nat, NEW T, 0 \in T,
           \A k \in 1..n : k - 1 \in T => k \in T
    PROVE  \A k \in 0..n : k \in T
  <1> DEFINE Bad == {k \in 0..n : k \notin T}
  <1> SUFFICES ASSUME Bad # {}
               PROVE  FALSE
    OBVIOUS
  <1>0. Bad \in SUBSET Nat
    OBVIOUS
  <1>1. PICK k \in Bad : \A i \in Bad : k <= i
    <2> HIDE DEF Bad
    <2> QED  BY <1>0, LeastOf
  <1>2. k \in 1..n /\ k - 1 \in 0..n /\ ~ (k <= k - 1)
    BY <1>1
  <1>3. k - 1 \in T
    BY <1>1, <1>2
  <1> QED  BY <1>1, <1>2, <1>3

(* f goes from base by g, for n steps. *)
Steps(f, n, base, g) ==
    /\ f = [k \in 0..n |-> f[k]]
    /\ f[0] = base
    /\ \A k \in 1..n : f[k] = g[<<f[k - 1], k>>]

(* There is such a function: it can be continued by one step. *)
LEMMA StepsExist ==
    ASSUME NEW n \in Nat, NEW base, NEW g
    PROVE  \E f : Steps(f, n, base, g)
  <1> DEFINE T == {m \in 0..n : \E f : Steps(f, m, base, g)}
  <1>1. 0 \in T
    <2> DEFINE f == [k \in 0..0 |-> base]
    <2>1. Steps(f, 0, base, g)
      BY DEF Steps
    <2> QED  BY <2>1
  <1>2. ASSUME NEW m \in 1..n, m - 1 \in T
        PROVE  m \in T
    <2>1. PICK f : Steps(f, m - 1, base, g)
      BY <1>2
    <2> DEFINE h == [k \in 0..m |-> IF k = m THEN g[<<f[m - 1], m>>] ELSE f[k]]
    <2>2. h[0] = base
      BY <2>1 DEF Steps
    <2>3. ASSUME NEW k \in 1..m
          PROVE  h[k] = g[<<h[k - 1], k>>]
      <3>1. k - 1 \in 0..m /\ k - 1 # m
        OBVIOUS
      <3>2. h[k - 1] = f[k - 1] /\ h[k] = IF k = m THEN g[<<f[m - 1], m>>] ELSE f[k]
        BY <3>1
      <3> HIDE DEF h
      <3>3. CASE k = m
        BY <3>2, <3>3
      <3>4. CASE k # m
        <4>1. k \in 1..(m - 1)
          BY <3>4
        <4>2. f[k] = g[<<f[k - 1], k>>]
          BY <2>1, <4>1 DEF Steps
        <4> QED  BY <3>2, <3>4, <4>2
      <3> QED  BY <3>3, <3>4
    <2>4. h = [k \in 0..m |-> h[k]]
      OBVIOUS
    <2>5. Steps(h, m, base, g)
      <3> HIDE DEF h
      <3> QED  BY <2>2, <2>3, <2>4 DEF Steps
    <2> QED  BY <2>5
  <1>3. \A k \in 0..n : k \in T
    <2> HIDE DEF T
    <2> QED  BY <1>1, <1>2, Reaches
  <1> QED  BY <1>3

-----------------------------------------------------------------------------
(* Sizes. *)

(* The size of the first k dimensions, as the recurrence in Size has it. *)
Partial(s) ==
    CHOOSE upto : upto = [k \in 0..Len(s) |-> IF k = 0 THEN 1 ELSE upto[k - 1] * s[k]]

LEMMA PartialFacts ==
    ASSUME NEW s \in Seq(Int)
    PROVE  /\ Size(s) = Partial(s)[Len(s)] /\ Partial(s)[0] = 1
           /\ \A k \in 1..Len(s) : Partial(s)[k] = Partial(s)[k - 1] * s[k]
           /\ \A k \in 0..Len(s) : Partial(s)[k] \in Int
  <1> DEFINE n == Len(s)  p == Partial(s)
             g == [x \in Int \X (1..n) |-> x[1] * s[x[2]]]
  <1>1. n \in Nat /\ \A k \in 1..n : s[k] \in Int
    OBVIOUS
  <1>2. PICK f : Steps(f, n, 1, g)
    BY <1>1, StepsExist
  <1>3. \A k \in 0..n : f[k] \in Int /\ (k > 0 => f[k] = f[k - 1] * s[k])
    <2> DEFINE T == {k \in 0..n : f[k] \in Int /\ (k > 0 => f[k] = f[k - 1] * s[k])}
    <2>1. 0 \in T
      BY <1>1, <1>2 DEF Steps
    <2>2. ASSUME NEW k \in 1..n, k - 1 \in T PROVE k \in T
      <3>1. f[k - 1] \in Int /\ s[k] \in Int
        BY <1>1, <2>2
      <3>2. g[<<f[k - 1], k>>] = f[k - 1] * s[k]
        BY <3>1
      <3>3. f[k] = g[<<f[k - 1], k>>]
        BY <1>2 DEF Steps
      <3>4. f[k] = f[k - 1] * s[k] /\ f[k] \in Int
        BY <3>1, <3>2, <3>3
      <3> QED  BY <3>4
    <2>3. \A k \in 0..n : k \in T
      <3> HIDE DEF T, n
      <3> QED  BY <1>1, <2>1, <2>2, Reaches
    <2> QED  BY <2>3
  <1>5. f = [k \in 0..n |-> IF k = 0 THEN 1 ELSE f[k - 1] * s[k]]
    <2>1. f = [k \in 0..n |-> f[k]] /\ f[0] = 1
      BY <1>2 DEF Steps
    <2>2. \A k \in 0..n : f[k] = IF k = 0 THEN 1 ELSE f[k - 1] * s[k]
      <3> TAKE k \in 0..n
      <3>1. CASE k = 0
        BY <2>1, <3>1
      <3>2. CASE k # 0
        <4>1. k > 0
          BY <1>1, <3>2
        <4> QED  BY <1>3, <3>2, <4>1
      <3> QED  BY <3>1, <3>2
    <2> QED  BY <2>1, <2>2, Zenon
  <1>6. p = [k \in 0..n |-> IF k = 0 THEN 1 ELSE p[k - 1] * s[k]]
    BY <1>5 DEF Partial
  <1>7. Size(s) = p[n]
    BY DEF Size, Partial
  <1> HIDE DEF n, p
  <1>8. p[0] = 1 /\ \A k \in 1..n : p[k] = p[k - 1] * s[k]
    <2>1. 0 \in 0..n /\ \A k \in 1..n : k \in 0..n /\ k # 0
      BY <1>1
    <2> QED  BY <1>6, <2>1, Zenon
  <1>9. \A k \in 0..n : p[k] \in Int
    <2> DEFINE T == {k \in 0..n : p[k] \in Int}
    <2>1. 0 \in T
      BY <1>1, <1>8
    <2>2. ASSUME NEW k \in 1..n, k - 1 \in T PROVE k \in T
      <3>1. p[k - 1] \in Int /\ s[k] \in Int
        BY <1>1, <2>2
      <3>2. p[k] = p[k - 1] * s[k]
        BY <1>8
      <3>3. p[k] \in Int
        BY <3>1, <3>2
      <3> QED  BY <3>3
    <2>3. \A k \in 0..n : k \in T
      <3> HIDE DEF T
      <3> QED  BY <1>1, <2>1, <2>2, Reaches
    <2> QED  BY <2>3
  <1> QED  BY <1>7, <1>8, <1>9 DEF n, p

LEMMA Positive ==
    ASSUME NEW x \in Dims, NEW y \in Dims
    PROVE  x * y \in Dims
  <1>1. x \in Nat /\ y \in Nat /\ x >= 1 /\ y >= 1
    BY DEF Dims
  <1>2. x * y \in Nat /\ x * y >= 1
    BY <1>1
  <1> QED  BY <1>2 DEF Dims

LEMMA SizeIsPositive ==
    ASSUME NEW s \in Arrays
    PROVE  Size(s) \in Dims /\ s \in Seq(Int)
  <1>1. s \in Seq(Int) /\ Len(s) \in Nat /\ \A k \in 1..Len(s) : s[k] \in Dims
    BY ArrayFacts DEF Arrays, Dims
  <1> DEFINE n == Len(s)  T == {k \in 0..n : Partial(s)[k] \in Dims}
  <1>2. 0 \in T
    BY <1>1, PartialFacts DEF Dims
  <1>3. ASSUME NEW k \in 1..n, k - 1 \in T PROVE k \in T
    <2>1. Partial(s)[k - 1] \in Dims /\ s[k] \in Dims
      BY <1>1, <1>3
    <2>2. Partial(s)[k] = Partial(s)[k - 1] * s[k]
      BY <1>1, PartialFacts
    <2>3. Partial(s)[k] \in Dims
      BY <2>1, <2>2, Positive
    <2> QED  BY <2>3
  <1>4. n \in Nat
    BY <1>1
  <1>5. n \in T
    <2> HIDE DEF T, n
    <2> QED  BY <1>2, <1>3, <1>4, Reaches
  <1> QED  BY <1>1, <1>5, PartialFacts

(* The size of a shape is that of its parts, multiplied. *)
LEMMA SizeOfParts ==
    ASSUME NEW s \in Seq(Int), NEW u \in Seq(Int), NEW v \in Seq(Int),
           Len(s) = Len(u) + Len(v),
           \A i \in 1..Len(u) : s[i] = u[i],
           \A j \in 1..Len(v) : s[Len(u) + j] = v[j]
    PROVE  Size(s) = Size(u) * Size(v) /\ Size(u) \in Int /\ Size(v) \in Int
  <1> DEFINE n == Len(s)  m == Len(u)  r == Len(v)
             p == Partial(s)  q == Partial(u)  w == Partial(v)
             T == {k \in 0..m : p[k] = q[k]}
             U == {j \in 0..r : p[m + j] = q[m] * w[j]}
  <1>1. m \in Nat /\ r \in Nat /\ n = m + r /\ \A k \in 1..m : k \in 1..n
    OBVIOUS
  <1>2. /\ Size(s) = p[n] /\ p[0] = 1 /\ \A k \in 1..n : p[k] = p[k - 1] * s[k]
    BY PartialFacts
  <1>3. /\ Size(u) = q[m] /\ q[0] = 1 /\ \A k \in 1..m : q[k] = q[k - 1] * u[k]
        /\ \A k \in 0..m : q[k] \in Int
    BY PartialFacts
  <1>4. /\ Size(v) = w[r] /\ w[0] = 1 /\ \A k \in 1..r : w[k] = w[k - 1] * v[k]
        /\ \A k \in 0..r : w[k] \in Int
    BY PartialFacts
  <1>5. /\ \A i \in 1..m : s[i] = u[i]
        /\ \A j \in 1..r : s[m + j] = v[j] /\ v[j] \in Int
    OBVIOUS
  <1> HIDE DEF n, m, r, p, q, w
  <1>6. m \in T
    <2>1. 0 \in T
      BY <1>1, <1>2, <1>3
    <2>2. ASSUME NEW k \in 1..m, k - 1 \in T PROVE k \in T
      <3>1. p[k] = p[k - 1] * s[k] /\ q[k] = q[k - 1] * u[k] /\ s[k] = u[k]
        BY <1>1, <1>2, <1>3, <1>5
      <3>2. p[k - 1] = q[k - 1]
        BY <2>2
      <3> QED  BY <3>1, <3>2
    <2>3. \A k \in 0..m : k \in T
      <3> HIDE DEF T
      <3> QED  BY <1>1, <2>1, <2>2, Reaches
    <2> QED  BY <1>1, <2>3
  <1>7. q[m] \in Int /\ w[r] \in Int
    BY <1>1, <1>3, <1>4
  <1>8. r \in U
    <2>1. 0 \in U
      BY <1>1, <1>4, <1>6, <1>7
    <2>2. ASSUME NEW j \in 1..r, j - 1 \in U PROVE j \in U
      <3>1. m + j \in 1..n /\ (m + j) - 1 = m + (j - 1) /\ j - 1 \in 0..r
        BY <1>1
      <3>2. p[m + j] = p[m + (j - 1)] * v[j] /\ w[j] = w[j - 1] * v[j]
        BY <1>2, <1>4, <1>5, <3>1
      <3>3. p[m + (j - 1)] = q[m] * w[j - 1]
        BY <2>2
      <3>4. q[m] \in Int /\ w[j - 1] \in Int /\ v[j] \in Int
        BY <1>4, <1>5, <1>7, <3>1
      <3>5. (q[m] * w[j - 1]) * v[j] = q[m] * (w[j - 1] * v[j])
        BY <3>4
      <3>6. p[m + j] = q[m] * w[j]
        BY <3>2, <3>3, <3>5
      <3> QED  BY <3>6
    <2>3. \A j \in 0..r : j \in U
      <3> HIDE DEF U
      <3> QED  BY <1>1, <2>1, <2>2, Reaches
    <2> QED  BY <1>1, <2>3
  <1> QED  BY <1>1, <1>2, <1>3, <1>4, <1>7, <1>8

-----------------------------------------------------------------------------
(* Arrays that fit what was described, put together from parts. *)

LEMMA MadeFits ==
    ASSUME NEW n \in Nat, NEW c, NEW d,
           c = [i \in 1..n |-> c[i]], d = [i \in 1..n |-> d[i]],
           \A i \in 1..n : c[i] \in Dims /\ d[i] \in Nat /\ d[i] \in {0, c[i]}
    PROVE  c \in Arrays /\ d \in DShapes /\ Len(c) = n /\ Len(d) = n /\ Fits(c, d)
  <1>1. DOMAIN c = 1..n /\ DOMAIN d = 1..n
    OBVIOUS
  <1>2. c \in Arrays /\ Len(c) = n
    BY <1>1, MadeOf DEF Arrays
  <1>3. d \in DShapes /\ Len(d) = n
    BY <1>1, MadeOf DEF DShapes
  <1>4. Fits(c, d)
    BY <1>1, <1>2, <1>3, FitsIf
  <1> QED  BY <1>2, <1>3, <1>4

LEMMA SequenceIs ==
    ASSUME NEW S, NEW s \in Seq(S)
    PROVE  s = [i \in 1..Len(s) |-> s[i]] /\ Len(s) \in Nat
  OBVIOUS

LEMMA PartFits ==
    ASSUME NEW c \in Arrays, NEW d \in DShapes, Fits(c, d),
           NEW m \in Nat, NEW n \in Nat, 1 <= m, m <= n + 1, n <= Len(c)
    PROVE  /\ SubSeq(c, m, n) \in Arrays /\ SubSeq(d, m, n) \in DShapes
           /\ Len(SubSeq(c, m, n)) = n + 1 - m /\ Len(SubSeq(d, m, n)) = n + 1 - m
           /\ Fits(SubSeq(c, m, n), SubSeq(d, m, n))
           /\ \A i \in 1..(n + 1 - m) : /\ i + m - 1 \in 1..Len(c)
                                        /\ SubSeq(c, m, n)[i] = c[i + m - 1]
                                        /\ SubSeq(d, m, n)[i] = d[i + m - 1]
  <1> DEFINE a == SubSeq(c, m, n)  b == SubSeq(d, m, n)  k == n + 1 - m
  <1>1. /\ Len(c) \in Nat /\ Len(d) = Len(c) /\ c \in Seq(Dims) /\ d \in Seq(Nat)
        /\ \A i \in 1..Len(c) : c[i] \in Dims /\ d[i] \in Nat /\ d[i] \in {0, c[i]}
    BY FitsFacts DEF Arrays, DShapes
  <1>2. k \in Nat /\ \A i \in 1..k : i + m - 1 \in 1..Len(c) /\ i + m - 1 \in m..n
    BY <1>1
  <1>3. a = [i \in 1..k |-> c[i + m - 1]] /\ b = [i \in 1..k |-> d[i + m - 1]]
    BY <1>1, <1>2
  <1> HIDE DEF a, b, k
  <1>4. a = [i \in 1..k |-> a[i]] /\ b = [i \in 1..k |-> b[i]]
    BY <1>3
  <1>5. \A i \in 1..k : a[i] = c[i + m - 1] /\ b[i] = d[i + m - 1]
    BY <1>3
  <1>6. \A i \in 1..k : a[i] \in Dims /\ b[i] \in Nat /\ b[i] \in {0, a[i]}
    BY <1>1, <1>2, <1>5
  <1>7. a \in Arrays /\ b \in DShapes /\ Len(a) = k /\ Len(b) = k /\ Fits(a, b)
    BY <1>2, <1>4, <1>6, MadeFits
  <1> QED  BY <1>2, <1>5, <1>7 DEF a, b, k

LEMMA JoinFits ==
    ASSUME NEW c1 \in Arrays, NEW d1 \in DShapes, Fits(c1, d1),
           NEW c2 \in Arrays, NEW d2 \in DShapes, Fits(c2, d2)
    PROVE  c1 \o c2 \in Arrays /\ d1 \o d2 \in DShapes /\ Fits(c1 \o c2, d1 \o d2)
  <1> DEFINE a == c1 \o c2  b == d1 \o d2  m == Len(c1)  n == Len(c2)
  <1>1. /\ m \in Nat /\ Len(d1) = m /\ c1 \in Seq(Dims) /\ d1 \in Seq(Nat)
        /\ \A i \in 1..m : c1[i] \in Dims /\ d1[i] \in Nat /\ d1[i] \in {0, c1[i]}
    BY FitsFacts DEF Arrays, DShapes
  <1>2. /\ n \in Nat /\ Len(d2) = n /\ c2 \in Seq(Dims) /\ d2 \in Seq(Nat)
        /\ \A i \in 1..n : c2[i] \in Dims /\ d2[i] \in Nat /\ d2[i] \in {0, c2[i]}
    BY FitsFacts DEF Arrays, DShapes
  <1>3. /\ a \in Seq(Dims) /\ Len(a) = m + n
        /\ \A i \in 1..(m + n) : a[i] = IF i <= m THEN c1[i] ELSE c2[i - m]
    BY <1>1, <1>2, ConcatProperties
  <1>4. /\ b \in Seq(Nat) /\ Len(b) = m + n
        /\ \A i \in 1..(m + n) : b[i] = IF i <= m THEN d1[i] ELSE d2[i - m]
    BY <1>1, <1>2, ConcatProperties
  <1> HIDE DEF a, b, m, n
  <1>5. ASSUME NEW i \in 1..(m + n)
        PROVE  b[i] \in {0, a[i]}
    <2>1. CASE i <= m
      <3>1. i \in 1..m
        BY <1>1, <2>1
      <3> QED  BY <1>1, <1>3, <1>4, <2>1, <3>1
    <2>2. CASE ~ (i <= m)
      <3>1. i - m \in 1..n
        BY <1>1, <1>2, <2>2
      <3> QED  BY <1>2, <1>3, <1>4, <2>2, <3>1
    <2> QED  BY <2>1, <2>2
  <1>6. a \in Arrays /\ b \in DShapes
    BY <1>3, <1>4 DEF Arrays, DShapes
  <1>7. Fits(a, b)
    BY <1>3, <1>4, <1>5, FitsIf
  <1> QED  BY <1>6, <1>7 DEF a, b

LEMMA PairFits ==
    ASSUME NEW x1 \in Dims, NEW y1 \in {0, x1}, NEW x2 \in Dims, NEW y2 \in {0, x2}
    PROVE  <<x1, x2>> \in Arrays /\ <<y1, y2>> \in DShapes /\ Fits(<<x1, x2>>, <<y1, y2>>)
  <1>1. <<x1, x2>> \in Arrays /\ <<y1, y2>> \in DShapes
    BY DEF Arrays, DShapes, Dims
  <1>2. /\ Len(<<x1, x2>>) = 2 /\ Len(<<y1, y2>>) = 2 /\ DOMAIN <<y1, y2>> = 1..2
        /\ \A i \in 1..2 : <<y1, y2>>[i] \in {0, <<x1, x2>>[i]}
    OBVIOUS
  <1>3. Fits(<<x1, x2>>, <<y1, y2>>)
    BY <1>2, FitsIf
  <1> QED  BY <1>1, <1>3

(* An array of the shape that was described. *)
LEMMA FitsItself ==
    ASSUME NEW s \in Arrays
    PROVE  s \in DShapes /\ Fits(s, s)
  BY ArrayFacts, FitsIf

-----------------------------------------------------------------------------
(* Values. *)

DValues == [shape : DShapes, dtype : Dtypes]     \* as described
CValues == [shape : Arrays, dtype : Dtypes]     \* as computed
Floats  == {BF16, F32}

(* A computed value is one of those the described one stands for. *)
Stands(c, d) ==
    /\ c \in CValues /\ d \in DValues
    /\ Fits(c.shape, d.shape)
    /\ Float(d) => Float(c)

LEMMA ValueFacts ==
    ASSUME NEW v \in DValues
    PROVE  v.shape \in DShapes /\ v.dtype \in Dtypes /\ v = Value(v.shape, v.dtype) /\ v # Refused
  BY DEF DValues, Value, Refused, Dtypes, Bool, I32, BF16, F32

LEMMA StandsFacts ==
    ASSUME NEW c, NEW d, Stands(c, d)
    PROVE  /\ c.shape \in Arrays /\ c.dtype \in Dtypes /\ c # Refused
           /\ d.shape \in DShapes /\ d.dtype \in Dtypes /\ d # Refused
           /\ c = Value(c.shape, c.dtype) /\ d = Value(d.shape, d.dtype)
           /\ Fits(c.shape, d.shape)
           /\ Len(c.shape) = Len(d.shape) /\ Len(c.shape) \in Nat
           /\ d.dtype \in Floats => c.dtype \in Floats
           /\ Concrete(d.shape) => c.shape = d.shape
  <1>1. /\ c \in CValues /\ d \in DValues /\ Fits(c.shape, d.shape)
        /\ d.dtype \in Floats => c.dtype \in Floats
    BY DEF Stands, Float, Floats
  <1>2. d.shape \in DShapes /\ d.dtype \in Dtypes /\ d = Value(d.shape, d.dtype) /\ d # Refused
    BY <1>1, ValueFacts
  <1>3. c.shape \in Arrays /\ c.dtype \in Dtypes /\ c = Value(c.shape, c.dtype) /\ c # Refused
    BY <1>1 DEF CValues, Value, Refused, Dtypes, Bool, I32, BF16, F32
  <1>4. /\ Len(c.shape) = Len(d.shape) /\ Len(c.shape) \in Nat
        /\ Concrete(d.shape) => c.shape = d.shape
    BY <1>1, <1>2, <1>3, FitsFacts
  <1> QED  BY <1>1, <1>2, <1>3, <1>4

LEMMA ValueStands ==
    ASSUME NEW s \in Arrays, NEW t \in DShapes, Fits(s, t),
           NEW p \in Dtypes, NEW q \in Dtypes, q \in Floats => p \in Floats
    PROVE  Stands(Value(s, p), Value(t, q)) /\ Value(s, p) # Refused
  <1>1. Value(s, p) \in CValues /\ Value(t, q) \in DValues
    BY DEF Value, CValues, DValues
  <1>2. Value(s, p).shape = s /\ Value(t, q).shape = t
    BY DEF Value
  <1>3. Value(s, p).dtype = p /\ Value(t, q).dtype = q
    BY DEF Value
  <1>4. Value(s, p) # Refused
    BY DEF Value, Refused, Dtypes, Bool, I32, BF16, F32
  <1>5. Float(Value(t, q)) => Float(Value(s, p))
    BY <1>3 DEF Float, Floats
  <1> QED  BY <1>1, <1>2, <1>4, <1>5 DEF Stands

LEMMA Promotions ==
    ASSUME NEW p \in Dtypes, NEW q \in Dtypes
    PROVE  /\ Promote(p, q) \in Dtypes /\ AtLeastFloat(p) \in Dtypes
           /\ p \in Floats => Promote(p, q) \in Floats /\ Promote(q, p) \in Floats
           /\ AtLeastFloat(p) \in Floats
           /\ F32 \in Dtypes /\ F32 \in Floats /\ I32 \in Dtypes
  BY DEF Promote, Greater, AtLeastFloat, Dtypes, Floats, Bool, I32, BF16, F32

LEMMA WhenFacts ==
    ASSUME NEW ok \in BOOLEAN, NEW v
    PROVE  /\ When(ok, v) # Refused => ok /\ When(ok, v) = v
           /\ ok => When(ok, v) = v
  BY DEF When

-----------------------------------------------------------------------------
(* The rules, one by one: where the description answered, what is computed *)
(* has the shape it gave.                                                  *)

LEMMA SameStands ==
    ASSUME NEW c, NEW d, Stands(c, d), NEW p \in Dtypes, d.dtype \in Floats => p \in Floats
    PROVE  Stands(Value(c.shape, p), d) /\ Value(c.shape, p) # Refused
  <1>1. /\ c.shape \in Arrays /\ d.shape \in DShapes /\ d.dtype \in Dtypes
        /\ Fits(c.shape, d.shape) /\ d = Value(d.shape, d.dtype)
    BY StandsFacts
  <1>2. Stands(Value(c.shape, p), Value(d.shape, d.dtype)) /\ Value(c.shape, p) # Refused
    BY <1>1, ValueStands
  <1> QED  BY <1>1, <1>2

LEMMA UnchangedAt ==
    ASSUME NEW s, NEW n \in DOMAIN s, s = [i \in DOMAIN s |-> s[i]]
    PROVE  [s EXCEPT ![n] = s[n]] = s
  OBVIOUS

LEMMA RopeStands ==
    ASSUME NEW c, NEW d, Stands(c, d), NEW freqs,
           RankOf(d) >= 2, LastOf(d.shape) # Symbolic, LastOf(d.shape) % 2 = 0,
           freqs \in {0, LastOf(d.shape) \div 2}
    PROVE  rope(c, freqs) # Refused /\ Stands(rope(c, freqs), d)
  <1> DEFINE n == Len(c.shape)  w == c.shape[n]
  <1>1. /\ c.shape \in Arrays /\ d.shape \in DShapes /\ Fits(c.shape, d.shape)
        /\ Len(d.shape) = n /\ n \in Nat /\ c.dtype \in Dtypes
        /\ d.dtype \in Floats => c.dtype \in Floats
    BY StandsFacts
  <1>2. n \in 1..n /\ d.shape[n] \in {0, w} /\ w \in Dims
    BY <1>1, FitsFacts DEF RankOf
  <1>3. d.shape[n] = w /\ LastOf(c.shape) = w /\ LastOf(d.shape) = w
    BY <1>1, <1>2 DEF LastOf, Symbolic
  <1>4. w \in Nat /\ w % 2 = 0 /\ freqs \in {0, w \div 2}
    BY <1>2, <1>3 DEF Dims
  <1>5. 2 * (w \div 2) = w
    BY <1>4
  <1>6. [c.shape EXCEPT ![n] = w] = c.shape
    <2>1. /\ n \in DOMAIN c.shape
          /\ c.shape = [i \in DOMAIN c.shape |-> c.shape[i]]
      BY <1>1, <1>2 DEF Arrays
    <2> QED  BY <2>1, UnchangedAt
  <1>7. rope(c, freqs) = Value(c.shape, Promote(c.dtype, F32))
    BY <1>3, <1>4, <1>5, <1>6 DEF rope, When, RankOf
  <1>8. /\ Promote(c.dtype, F32) \in Dtypes
        /\ d.dtype \in Floats => Promote(c.dtype, F32) \in Floats
    BY <1>1, Promotions
  <1> QED  BY <1>7, <1>8, SameStands

LEMMA TransposeStands ==
    ASSUME NEW c, NEW d, Stands(c, d), NEW axes \in Seq(Int), TransposeRule(d, axes) # Refused
    PROVE  /\ TransposeRule(c, axes) # Refused
           /\ Stands(TransposeRule(c, axes), TransposeRule(d, axes))
  <1> DEFINE n == Len(c.shape)
             a == Permuted(c.shape, axes)  b == Permuted(d.shape, axes)
  <1>1. /\ c.shape \in Arrays /\ d.shape \in DShapes /\ Fits(c.shape, d.shape)
        /\ Len(d.shape) = n /\ n \in Nat /\ c.dtype \in Dtypes /\ d.dtype \in Dtypes
        /\ d.dtype \in Floats => c.dtype \in Floats
    BY StandsFacts
  <1>2. /\ IsPermutation(axes, n)
        /\ TransposeRule(d, axes) = Value(b, d.dtype)
        /\ TransposeRule(c, axes) = Value(a, c.dtype)
    BY <1>1 DEF TransposeRule, RankOf
  <1>3. DOMAIN axes = 1..n /\ \A i \in 1..n : axes[i] + 1 \in 1..n
    <2>1. Len(axes) = n /\ DOMAIN axes = 1..n
      BY <1>2 DEF IsPermutation
    <2>2. ASSUME NEW i \in 1..n PROVE axes[i] + 1 \in 1..n
      <3>1. axes[i] \in 0..(n - 1)
        BY <1>2, <2>1 DEF IsPermutation
      <3> QED  BY <1>1, <3>1
    <2> QED  BY <2>1, <2>2
  <1>4. a = [i \in 1..n |-> c.shape[axes[i] + 1]] /\ b = [i \in 1..n |-> d.shape[axes[i] + 1]]
    BY <1>3 DEF Permuted
  <1>5. \A i \in 1..n : c.shape[i] \in Dims /\ d.shape[i] \in Nat /\ d.shape[i] \in {0, c.shape[i]}
    BY <1>1, FitsFacts
  <1> HIDE DEF a, b
  <1>6. a = [i \in 1..n |-> a[i]] /\ b = [i \in 1..n |-> b[i]]
    BY <1>4
  <1>7. \A i \in 1..n : a[i] = c.shape[axes[i] + 1] /\ b[i] = d.shape[axes[i] + 1]
    BY <1>4
  <1>8. \A i \in 1..n : a[i] \in Dims /\ b[i] \in Nat /\ b[i] \in {0, a[i]}
    BY <1>3, <1>5, <1>7
  <1>9. a \in Arrays /\ b \in DShapes /\ Fits(a, b)
    BY <1>1, <1>6, <1>8, MadeFits
  <1> QED  BY <1>1, <1>2, <1>9, ValueStands

LEMMA SliceStands ==
    ASSUME NEW c, NEW d, Stands(c, d), NEW axis \in Int, NEW start \in Int, NEW length \in Int,
           SliceRule(d, axis, start, length) # Refused
    PROVE  /\ slice(c, axis, start, length) # Refused
           /\ Stands(slice(c, axis, start, length), SliceRule(d, axis, start, length))
           /\ start + length > c.shape[AxisAt(axis, RankOf(c))] =>
                 d.shape[AxisAt(axis, RankOf(d))] = Symbolic
  <1> DEFINE n == Len(c.shape)  at == AxisAt(axis, n)
             a == [c.shape EXCEPT ![at] = length]  b == [d.shape EXCEPT ![at] = length]
  <1>1. /\ c.shape \in Arrays /\ d.shape \in DShapes /\ Fits(c.shape, d.shape)
        /\ Len(d.shape) = n /\ n \in Nat /\ c.dtype \in Dtypes /\ d.dtype \in Dtypes
        /\ d.dtype \in Floats => c.dtype \in Floats
        /\ Concrete(d.shape) => c.shape = d.shape
    BY StandsFacts
  <1>2. /\ AxisIn(axis, n) /\ length > 0 /\ start >= 0
        /\ d.shape[at] # Symbolic => start + length <= d.shape[at]
        /\ SliceRule(d, axis, start, length) = Value(b, d.dtype)
    BY <1>1 DEF SliceRule, RankOf
  <1>3. slice(c, axis, start, length) = Value(a, c.dtype)
    BY <1>2 DEF slice, RankOf
  <1>4. at \in 1..n
    BY <1>1, <1>2 DEF AxisIn, AxisAt
  <1>5. \A i \in 1..n : c.shape[i] \in Dims /\ d.shape[i] \in Nat /\ d.shape[i] \in {0, c.shape[i]}
    BY <1>1, FitsFacts
  <1>6. /\ c.shape = [i \in 1..n |-> c.shape[i]] /\ d.shape = [i \in 1..n |-> d.shape[i]]
    BY <1>1, SequenceIs DEF Arrays, DShapes
  <1>7. length \in Dims /\ length \in Nat
    BY <1>2 DEF Dims
  <1>8. /\ a = [i \in 1..n |-> IF i = at THEN length ELSE c.shape[i]]
        /\ b = [i \in 1..n |-> IF i = at THEN length ELSE d.shape[i]]
    BY <1>6
  <1>9. start + length > c.shape[at] => d.shape[at] = Symbolic
    <2> SUFFICES ASSUME d.shape[at] # Symbolic PROVE ~ (start + length > c.shape[at])
      OBVIOUS
    <2>1. c.shape[at] = d.shape[at] /\ d.shape[at] \in Nat
      BY <1>4, <1>5 DEF Symbolic
    <2> QED  BY <1>2, <2>1
  <1> HIDE DEF a, b, at
  <1>10. a = [i \in 1..n |-> a[i]] /\ b = [i \in 1..n |-> b[i]]
    BY <1>8
  <1>11. \A i \in 1..n : /\ a[i] = IF i = at THEN length ELSE c.shape[i]
                         /\ b[i] = IF i = at THEN length ELSE d.shape[i]
    BY <1>8
  <1>12. \A i \in 1..n : a[i] \in Dims /\ b[i] \in Nat /\ b[i] \in {0, a[i]}
    BY <1>5, <1>7, <1>11
  <1>13. a \in Arrays /\ b \in DShapes /\ Fits(a, b)
    BY <1>1, <1>10, <1>12, MadeFits
  <1>14. AxisAt(axis, RankOf(c)) = at /\ AxisAt(axis, RankOf(d)) = at
    BY <1>1 DEF RankOf, at
  <1> QED  BY <1>1, <1>2, <1>3, <1>9, <1>13, <1>14, ValueStands

(* The axes that stay are axes. *)
LEMMA LeftFacts ==
    ASSUME NEW rank \in Nat, NEW axes
    PROVE  Left(rank, axes) \in Seq(1..rank)
  <1> DEFINE S == Seq(1..rank)
             g == [x \in S \X (1..rank) |-> IF x[2] \in axes THEN x[1] ELSE Append(x[1], x[2])]
             u == CHOOSE upto : upto = [k \in 0..rank |->
                      IF k = 0 THEN <<>>
                      ELSE IF k \in axes THEN upto[k - 1] ELSE Append(upto[k - 1], k)]
  <1>1. \A x \in S, k \in 1..rank :
            /\ g[<<x, k>>] = IF k \in axes THEN x ELSE Append(x, k)
            /\ g[<<x, k>>] \in S
    <2> TAKE x \in S, k \in 1..rank
    <2>1. <<x, k>> \in S \X (1..rank)
      OBVIOUS
    <2>2. g[<<x, k>>] = IF k \in axes THEN x ELSE Append(x, k)
      <3> HIDE DEF S
      <3> QED  BY <2>1
    <2>3. Append(x, k) \in S
      OBVIOUS
    <2> HIDE DEF g
    <2> QED  BY <2>2, <2>3
  <1>2. <<>> \in S
    OBVIOUS
  <1> HIDE DEF S, g
  <1>3. PICK f : Steps(f, rank, <<>>, g)
    BY StepsExist
  <1>4. \A k \in 0..rank :
            /\ f[k] \in S
            /\ k > 0 => f[k] = IF k \in axes THEN f[k - 1] ELSE Append(f[k - 1], k)
    <2> DEFINE T == {k \in 0..rank :
                      /\ f[k] \in S
                      /\ k > 0 => f[k] = IF k \in axes THEN f[k - 1] ELSE Append(f[k - 1], k)}
    <2>1. 0 \in T
      BY <1>2, <1>3 DEF Steps
    <2>2. ASSUME NEW k \in 1..rank, k - 1 \in T PROVE k \in T
      <3>1. f[k - 1] \in S
        BY <2>2
      <3>2. f[k] = g[<<f[k - 1], k>>]
        BY <1>3 DEF Steps
      <3>3. /\ g[<<f[k - 1], k>>] = IF k \in axes THEN f[k - 1] ELSE Append(f[k - 1], k)
            /\ g[<<f[k - 1], k>>] \in S
        BY <1>1, <3>1
      <3> QED  BY <3>2, <3>3
    <2>3. \A k \in 0..rank : k \in T
      <3> HIDE DEF T
      <3> QED  BY <2>1, <2>2, Reaches
    <2> QED  BY <2>3
  <1>5. f = [k \in 0..rank |-> IF k = 0 THEN <<>>
                ELSE IF k \in axes THEN f[k - 1] ELSE Append(f[k - 1], k)]
    <2>1. f = [k \in 0..rank |-> f[k]] /\ f[0] = <<>>
      BY <1>3 DEF Steps
    <2>2. \A k \in 0..rank : f[k] = IF k = 0 THEN <<>>
                ELSE IF k \in axes THEN f[k - 1] ELSE Append(f[k - 1], k)
      <3> TAKE k \in 0..rank
      <3>1. CASE k = 0
        BY <2>1, <3>1
      <3>2. CASE k # 0
        <4>1. k > 0
          BY <3>2
        <4> QED  BY <1>4, <3>2, <4>1
      <3> QED  BY <3>1, <3>2
    <2> QED  BY <2>1, <2>2, Zenon
  <1>6. u = [k \in 0..rank |-> IF k = 0 THEN <<>>
                ELSE IF k \in axes THEN u[k - 1] ELSE Append(u[k - 1], k)]
    BY <1>5
  <1>7. Left(rank, axes) = u[rank]
    BY DEF Left
  <1> HIDE DEF u
  <1>8. \A k \in 0..rank : u[k] \in S
    <2> DEFINE T == {k \in 0..rank : u[k] \in S}
    <2>1. 0 \in T
      <3>1. u[0] = <<>>
        BY <1>6
      <3> QED  BY <1>2, <3>1
    <2>2. ASSUME NEW k \in 1..rank, k - 1 \in T PROVE k \in T
      <3>1. u[k - 1] \in S /\ k \in 0..rank /\ k # 0
        BY <2>2
      <3>2. u[k] = IF k \in axes THEN u[k - 1] ELSE Append(u[k - 1], k)
        BY <1>6, <3>1, Zenon
      <3>3. Append(u[k - 1], k) \in S
        BY <3>1 DEF S
      <3> QED  BY <3>1, <3>2, <3>3
    <2>3. \A k \in 0..rank : k \in T
      <3> HIDE DEF T
      <3> QED  BY <2>1, <2>2, Reaches
    <2> QED  BY <2>3
  <1> QED  BY <1>7, <1>8 DEF S

LEMMA WithoutFits ==
    ASSUME NEW c \in Arrays, NEW d \in DShapes, Fits(c, d), NEW axes, NEW keep \in BOOLEAN
    PROVE  /\ Without(c, axes, keep) \in Arrays /\ Without(d, axes, keep) \in DShapes
           /\ Fits(Without(c, axes, keep), Without(d, axes, keep))
  <1> DEFINE n == Len(c)  left == Left(n, axes)  m == Len(left)
             a == Without(c, axes, keep)  b == Without(d, axes, keep)
  <1>1. /\ n \in Nat /\ Len(d) = n /\ DOMAIN c = 1..n /\ DOMAIN d = 1..n
        /\ \A i \in 1..n : c[i] \in Dims /\ d[i] \in Nat /\ d[i] \in {0, c[i]}
    BY FitsFacts, ArrayFacts, ShapeFacts
  <1>2. left \in Seq(1..n) /\ m \in Nat /\ DOMAIN left = 1..m /\ \A j \in 1..m : left[j] \in 1..n
    <2>1. left \in Seq(1..n)
      BY <1>1, LeftFacts
    <2> HIDE DEF left
    <2> QED  BY <2>1
  <1>3. 1 \in Dims /\ 1 \in Nat
    BY DEF Dims
  <1>4. CASE keep
    <2>1. /\ a = [i \in 1..n |-> IF i \in axes THEN 1 ELSE c[i]]
          /\ b = [i \in 1..n |-> IF i \in axes THEN 1 ELSE d[i]]
      BY <1>1, <1>4 DEF Without
    <2> HIDE DEF a, b, n
    <2>2. a = [i \in 1..n |-> a[i]] /\ b = [i \in 1..n |-> b[i]]
      BY <2>1
    <2>3. \A i \in 1..n : a[i] \in Dims /\ b[i] \in Nat /\ b[i] \in {0, a[i]}
      BY <1>1, <1>3, <2>1
    <2>4. a \in Arrays /\ b \in DShapes /\ Fits(a, b)
      BY <1>1, <2>2, <2>3, MadeFits
    <2> QED  BY <2>4 DEF a, b
  <1>5. CASE ~keep
    <2>1. a = [j \in 1..m |-> c[left[j]]] /\ b = [j \in 1..m |-> d[left[j]]]
      BY <1>1, <1>2, <1>5 DEF Without
    <2> HIDE DEF a, b, m, left, n
    <2>2. a = [i \in 1..m |-> a[i]] /\ b = [i \in 1..m |-> b[i]]
      BY <2>1
    <2>3. \A i \in 1..m : a[i] = c[left[i]] /\ b[i] = d[left[i]]
      BY <2>1
    <2>4. \A i \in 1..m : a[i] \in Dims /\ b[i] \in Nat /\ b[i] \in {0, a[i]}
      BY <1>1, <1>2, <2>3
    <2>5. a \in Arrays /\ b \in DShapes /\ Fits(a, b)
      BY <1>2, <2>2, <2>4, MadeFits
    <2> QED  BY <2>5 DEF a, b
  <1> QED  BY <1>4, <1>5

LEMMA ReduceStands ==
    ASSUME NEW c, NEW d, Stands(c, d), NEW p \in Dtypes, d.dtype \in Floats => p \in Floats,
           NEW axes, NEW keep \in BOOLEAN, ReduceRule(d, axes, keep) # Refused
    PROVE  /\ ReduceRule(Value(c.shape, p), axes, keep) # Refused
           /\ Stands(ReduceRule(Value(c.shape, p), axes, keep), ReduceRule(d, axes, keep))
  <1> DEFINE n == Len(c.shape)
             at == {AxisAt(axes[i], n) : i \in DOMAIN axes}
             ok == /\ \A i \in DOMAIN axes : AxisIn(axes[i], n)
                   /\ Cardinality(at) = Len(axes)
             a == Without(c.shape, at, keep)  b == Without(d.shape, at, keep)
  <1>1. /\ c.shape \in Arrays /\ d.shape \in DShapes /\ Fits(c.shape, d.shape)
        /\ Len(d.shape) = n /\ d.dtype \in Dtypes
    BY StandsFacts
  <1>2. /\ ReduceRule(d, axes, keep) = When(ok, Value(b, d.dtype))
        /\ ReduceRule(Value(c.shape, p), axes, keep) = When(ok, Value(a, p))
    <2>1. RankOf(d) = n /\ RankOf(Value(c.shape, p)) = n
          /\ Value(c.shape, p).shape = c.shape /\ Value(c.shape, p).dtype = p
      BY <1>1 DEF RankOf, Value
    <2> QED  BY <2>1 DEF ReduceRule
  <1>3. a \in Arrays /\ b \in DShapes /\ Fits(a, b)
    <2> HIDE DEF at
    <2> QED  BY <1>1, WithoutFits
  <1> HIDE DEF ok, a, b
  <1>4. ok
    BY <1>2 DEF When
  <1>5. /\ ReduceRule(d, axes, keep) = Value(b, d.dtype)
        /\ ReduceRule(Value(c.shape, p), axes, keep) = Value(a, p)
    BY <1>2, <1>4 DEF When
  <1> QED  BY <1>1, <1>3, <1>5, ValueStands

(* A shape padded to the rank it has. *)
LEMMA PaddedSame ==
    ASSUME NEW s \in DShapes
    PROVE  \A i \in 1..Len(s) : Padded(s, Len(s))[i] = s[i]
  <1>1. Len(s) \in Nat /\ 1 \in Nat /\ s \in Seq(Nat)
    BY DEF DShapes
  <1>2. \A i \in 1..Len(s) : Padded(s, Len(s))[i] =
            IF i <= Len(s) - Len(s) THEN 1 ELSE s[i - (Len(s) - Len(s))]
    BY <1>1, PaddedFacts
  <1>3. \A i \in 1..Len(s) : ~ (i <= Len(s) - Len(s)) /\ i - (Len(s) - Len(s)) = i
    BY <1>1
  <1> QED  BY <1>2, <1>3

LEMMA StretchedSameRank ==
    ASSUME NEW a \in DShapes, NEW b \in DShapes, Len(a) = Len(b)
    PROVE  /\ Stretched(a, b) = [i \in 1..Len(a) |-> Wider(a[i], b[i])]
           /\ Stretches(a, b) <=> \A i \in 1..Len(a) : Stretchy(a[i], b[i])
  <1> DEFINE n == Len(a)  x(i) == Padded(a, n)[i]  y(i) == Padded(b, n)[i]
  <1>1. n \in Nat /\ Greater(Len(a), Len(b)) = n
    BY ShapeFacts DEF Greater
  <1>2. \A i \in 1..n : x(i) = a[i] /\ y(i) = b[i]
    BY PaddedSame
  <1>3. /\ Stretched(a, b) = [i \in 1..n |-> Wider(x(i), y(i))]
        /\ Stretches(a, b) <=> \A i \in 1..n : Stretchy(x(i), y(i))
    BY <1>1, StretchedIs
  <1> HIDE DEF x, y, n
  <1>4. [i \in 1..n |-> Wider(x(i), y(i))] = [i \in 1..n |-> Wider(a[i], b[i])]
    BY <1>2
  <1>5. (\A i \in 1..n : Stretchy(x(i), y(i))) <=> \A i \in 1..n : Stretchy(a[i], b[i])
    BY <1>2
  <1> QED  BY <1>3, <1>4, <1>5 DEF n

(* Leading dimensions over none. *)
LEMMA StretchedOverNone ==
    ASSUME NEW a \in DShapes
    PROVE  Stretched(a, <<>>) = a /\ Stretches(a, <<>>)
  <1> DEFINE n == Len(a)  x(i) == Padded(a, n)[i]  y(i) == Padded(<<>>, n)[i]
  <1>1. n \in Nat /\ <<>> \in DShapes /\ Len(<<>>) = 0 /\ Greater(n, 0) = n
    BY ShapeFacts DEF Greater, DShapes
  <1>2. \A i \in 1..n : x(i) = a[i]
    BY PaddedSame
  <1>3. \A i \in 1..n : y(i) = 1
    <2>1. <<>> \in Seq(Nat) /\ 1 \in Nat /\ Len(<<>>) <= n
      BY <1>1
    <2>2. \A i \in 1..n : y(i) = IF i <= n - Len(<<>>) THEN 1 ELSE <<>>[i - (n - Len(<<>>))]
      BY <1>1, <2>1, PaddedFacts
    <2>3. \A i \in 1..n : i <= n - Len(<<>>)
      BY <1>1
    <2> HIDE DEF y
    <2> QED  BY <2>2, <2>3
  <1>4. Greater(Len(a), Len(<<>>)) = n
    BY <1>1
  <1>5. /\ Stretched(a, <<>>) = [i \in 1..n |-> Wider(x(i), y(i))]
        /\ Stretches(a, <<>>) <=> \A i \in 1..n : Stretchy(x(i), y(i))
    BY <1>1, <1>4, StretchedIs
  <1> HIDE DEF x, y
  <1>6. \A i \in 1..n : Wider(x(i), y(i)) = a[i] /\ Stretchy(x(i), y(i))
    BY <1>2, <1>3 DEF Wider, Stretchy
  <1>7. a = [i \in 1..n |-> a[i]]
    BY SequenceIs DEF DShapes
  <1>8. [i \in 1..n |-> Wider(x(i), y(i))] = [i \in 1..n |-> a[i]]
    BY <1>6
  <1> QED  BY <1>5, <1>6, <1>7, <1>8

LEMMA JoinedWidens ==
    ASSUME NEW cx \in Dims, NEW cy \in Dims, NEW dx \in {0, cx}, NEW dy \in {0, cy},
           Stretchy(cx, cy), Agree(dx, dy), {dx, dy} # {Symbolic, 1}
    PROVE  /\ Wider(cx, cy) \in Dims /\ Joined(dx, dy) \in Nat
           /\ Joined(dx, dy) \in {0, Wider(cx, cy)}
  <1>1. cx \in Nat /\ cx # 0 /\ cy \in Nat /\ cy # 0
    BY DEF Dims
  <1>2. ~ (dx = 0 /\ dy = 1) /\ ~ (dx = 1 /\ dy = 0)
    BY DEF Symbolic
  <1>3. cx = 1 \/ cy = 1 \/ cx = cy
    BY <1>1 DEF Stretchy, Agree, Symbolic
  <1>4. Wider(cx, cy) = IF cx = 1 THEN cy ELSE IF cy = 1 THEN cx ELSE cx
    BY <1>1 DEF Wider, Joined, Symbolic
  <1>5. Joined(dx, dy) = IF dx = 0 THEN dy ELSE dx
    BY DEF Joined, Symbolic
  <1>6. dx = 0 \/ dy = 0 \/ dx = dy
    BY DEF Agree, Symbolic
  <1>7. Wider(cx, cy) \in Dims
    BY <1>4
  <1>8. (dx = 0 \/ dx = cx) /\ (dy = 0 \/ dy = cy)
    OBVIOUS
  <1>9. Joined(dx, dy) \in Nat
    BY <1>1, <1>5, <1>8
  <1>10. Joined(dx, dy) = 0 \/ Joined(dx, dy) = Wider(cx, cy)
    BY <1>1, <1>2, <1>3, <1>4, <1>5, <1>6, <1>8
  <1> QED  BY <1>7, <1>9, <1>10

(* Dimensions unified where the description was made, and stretched over   *)
(* one another where arrays are: the same, unless one is symbolic and the  *)
(* other is 1.                                                             *)
LEMMA UnifiedFits ==
    ASSUME NEW ca \in Arrays, NEW da \in DShapes, Fits(ca, da),
           NEW cb \in Arrays, NEW db \in DShapes, Fits(cb, db),
           Stretches(ca, cb), AllAgree(da, db), ~TakenForOne(da, db)
    PROVE  /\ Stretched(ca, cb) \in Arrays /\ AllJoined(da, db) \in DShapes
           /\ Fits(Stretched(ca, cb), AllJoined(da, db))
  <1> DEFINE n == Len(ca)  c == Stretched(ca, cb)  d == AllJoined(da, db)
  <1>1. /\ n \in Nat /\ Len(da) = n /\ DOMAIN da = 1..n /\ ca \in DShapes /\ cb \in DShapes
        /\ \A i \in 1..n : ca[i] \in Dims /\ da[i] \in {0, ca[i]}
    BY FitsFacts, ArrayFacts, ShapeFacts
  <1>2. Len(cb) = n /\ \A i \in 1..n : cb[i] \in Dims /\ db[i] \in {0, cb[i]}
    <2>1. Len(da) = Len(db) /\ Len(db) = Len(cb)
      BY FitsFacts DEF AllAgree
    <2> QED  BY <1>1, <2>1, FitsFacts
  <1>3. \A i \in 1..n : Agree(da[i], db[i]) /\ {da[i], db[i]} # {Symbolic, 1}
    BY <1>1 DEF AllAgree, TakenForOne
  <1>4. /\ c = [i \in 1..n |-> Wider(ca[i], cb[i])]
        /\ \A i \in 1..n : Stretchy(ca[i], cb[i])
    BY <1>1, <1>2, StretchedSameRank
  <1>5. d = [i \in 1..n |-> Joined(da[i], db[i])]
    BY <1>1 DEF AllJoined
  <1> HIDE DEF c, d, n
  <1>6. ASSUME NEW i \in 1..n
        PROVE  /\ Wider(ca[i], cb[i]) \in Dims /\ Joined(da[i], db[i]) \in Nat
               /\ Joined(da[i], db[i]) \in {0, Wider(ca[i], cb[i])}
    BY <1>1, <1>2, <1>3, <1>4, JoinedWidens
  <1>7. c = [i \in 1..n |-> c[i]] /\ d = [i \in 1..n |-> d[i]]
    BY <1>4, <1>5
  <1>8. \A i \in 1..n : c[i] = Wider(ca[i], cb[i]) /\ d[i] = Joined(da[i], db[i])
    BY <1>4, <1>5
  <1>9. \A i \in 1..n : c[i] \in Dims /\ d[i] \in Nat /\ d[i] \in {0, c[i]}
    BY <1>6, <1>8
  <1>10. c \in Arrays /\ d \in DShapes /\ Fits(c, d)
    BY <1>1, <1>7, <1>9, MadeFits
  <1> QED  BY <1>10 DEF c, d

(* Arrays whose dimensions agree are stretched over one another. *)
LEMMA AgreeingStretch ==
    ASSUME NEW a \in Arrays, NEW b \in Arrays, AllAgree(a, b)
    PROVE  Stretches(a, b)
  <1>1. a \in DShapes /\ b \in DShapes /\ Len(a) = Len(b) /\ DOMAIN a = 1..Len(a)
    BY ArrayFacts DEF AllAgree
  <1>2. \A i \in 1..Len(a) : Stretchy(a[i], b[i])
    BY <1>1 DEF AllAgree, Stretchy
  <1> QED  BY <1>1, <1>2, StretchedSameRank

LEMMA ArithmeticStands ==
    ASSUME NEW c1, NEW d1, Stands(c1, d1), NEW c2, NEW d2, Stands(c2, d2),
           NEW p \in Dtypes, NEW q \in Dtypes, q \in Floats => p \in Floats,
           Stretches(d1.shape, d2.shape)
    PROVE  /\ Arithmetic(c1, c2, p) # Refused =>
                 Stands(Arithmetic(c1, c2, p), Value(Stretched(d1.shape, d2.shape), q))
           /\ Concrete(d1.shape) /\ Concrete(d2.shape) => Arithmetic(c1, c2, p) # Refused
  <1> DEFINE a == Stretched(c1.shape, c2.shape)  b == Stretched(d1.shape, d2.shape)
  <1>1. /\ c1.shape \in Arrays /\ d1.shape \in DShapes /\ Fits(c1.shape, d1.shape)
        /\ Concrete(d1.shape) => c1.shape = d1.shape
    BY StandsFacts
  <1>2. /\ c2.shape \in Arrays /\ d2.shape \in DShapes /\ Fits(c2.shape, d2.shape)
        /\ Concrete(d2.shape) => c2.shape = d2.shape
    BY StandsFacts
  <1>3. Arithmetic(c1, c2, p) = When(Stretches(c1.shape, c2.shape), Value(a, p))
    BY DEF Arithmetic
  <1>4. ASSUME Stretches(c1.shape, c2.shape)
        PROVE  Stands(Value(a, p), Value(b, q)) /\ Value(a, p) # Refused
    <2>1. a \in Arrays /\ b \in DShapes /\ Fits(a, b)
      BY <1>1, <1>2, <1>4, StretchedFits
    <2> HIDE DEF a, b
    <2> QED  BY <2>1, ValueStands
  <1>5. Concrete(d1.shape) /\ Concrete(d2.shape) => Stretches(c1.shape, c2.shape)
    BY <1>1, <1>2
  <1> HIDE DEF a, b
  <1>6. CASE Stretches(c1.shape, c2.shape)
    <2>1. Arithmetic(c1, c2, p) = Value(a, p)
      BY <1>3, <1>6 DEF When
    <2> QED  BY <1>4, <1>6, <2>1 DEF b
  <1>7. CASE ~Stretches(c1.shape, c2.shape)
    <2>1. Arithmetic(c1, c2, p) = Refused
      BY <1>3, <1>7 DEF When
    <2> QED  BY <1>5, <1>7, <2>1
  <1> QED  BY <1>6, <1>7

LEMMA BroadcastStands ==
    ASSUME NEW ins, NEW c1, Stands(c1, ins[1]), NEW c2, Stands(c2, ins[2]),
           NEW p \in Dtypes, ins[1].dtype \in Floats => p \in Floats,
           BroadcastRule(ins) # Refused
    PROVE  /\ Arithmetic(c1, c2, p) # Refused =>
                 Stands(Arithmetic(c1, c2, p), BroadcastRule(ins))
           /\ Concrete(ins[1].shape) /\ Concrete(ins[2].shape) => Arithmetic(c1, c2, p) # Refused
  <1>1. /\ Stretches(ins[1].shape, ins[2].shape)
        /\ BroadcastRule(ins) = Value(Stretched(ins[1].shape, ins[2].shape), ins[1].dtype)
    BY DEF BroadcastRule, When
  <1>2. ins[1].dtype \in Dtypes
    BY StandsFacts
  <1> QED  BY <1>1, <1>2, ArithmeticStands

LEMMA TakeStands ==
    ASSUME NEW c1, NEW d1, Stands(c1, d1), NEW c2, NEW d2, Stands(c2, d2),
           TakeRule(d1, d2) # Refused
    PROVE  /\ Value(c2.shape \o Tail(c1.shape), c1.dtype) # Refused
           /\ Stands(Value(c2.shape \o Tail(c1.shape), c1.dtype), TakeRule(d1, d2))
  <1>1. /\ c1.shape \in Arrays /\ d1.shape \in DShapes /\ Fits(c1.shape, d1.shape)
        /\ c1.dtype \in Dtypes /\ d1.dtype \in Dtypes /\ (d1.dtype \in Floats => c1.dtype \in Floats)
        /\ Len(c1.shape) = Len(d1.shape) /\ Len(c1.shape) \in Nat
    BY StandsFacts
  <1>2. c2.shape \in Arrays /\ d2.shape \in DShapes /\ Fits(c2.shape, d2.shape)
    BY StandsFacts
  <1>3. /\ Len(d1.shape) >= 2
        /\ TakeRule(d1, d2) = Value(d2.shape \o Tail(d1.shape), d1.dtype)
    BY DEF TakeRule, When, RankOf
  <1> DEFINE n == Len(c1.shape)
  <1>4. /\ SubSeq(c1.shape, 2, n) \in Arrays /\ SubSeq(d1.shape, 2, n) \in DShapes
        /\ Fits(SubSeq(c1.shape, 2, n), SubSeq(d1.shape, 2, n))
    <2>1. n \in Nat /\ 2 \in Nat /\ 1 <= 2 /\ 2 <= n + 1 /\ n <= Len(c1.shape)
      BY <1>1, <1>3
    <2> HIDE DEF n
    <2> QED  BY <1>1, <2>1, PartFits
  <1>5. Tail(c1.shape) = SubSeq(c1.shape, 2, n) /\ Tail(d1.shape) = SubSeq(d1.shape, 2, n)
    BY <1>1, <1>3 DEF Arrays, DShapes
  <1>6. /\ c2.shape \o Tail(c1.shape) \in Arrays /\ d2.shape \o Tail(d1.shape) \in DShapes
        /\ Fits(c2.shape \o Tail(c1.shape), d2.shape \o Tail(d1.shape))
    BY <1>2, <1>4, <1>5, JoinFits
  <1> QED  BY <1>1, <1>3, <1>6, ValueStands

(* All but the last, or the last two, of the dimensions. *)
LEMMA FirstFits ==
    ASSUME NEW c \in Arrays, NEW d \in DShapes, Fits(c, d), NEW k \in Nat, k <= Len(c)
    PROVE  /\ SubSeq(c, 1, k) \in Arrays /\ SubSeq(d, 1, k) \in DShapes
           /\ Fits(SubSeq(c, 1, k), SubSeq(d, 1, k))
           /\ Len(SubSeq(c, 1, k)) = k /\ Len(SubSeq(d, 1, k)) = k
           /\ \A i \in 1..k : /\ i \in 1..Len(c)
                              /\ SubSeq(c, 1, k)[i] = c[i] /\ SubSeq(d, 1, k)[i] = d[i]
  <1>1. Len(c) \in Nat /\ 1 <= k + 1 /\ k + 1 - 1 = k /\ 1 \in Nat /\ 1 <= 1
    BY FitsFacts
  <1>2. \A i \in 1..k : i + 1 - 1 = i
    OBVIOUS
  <1> QED  BY <1>1, <1>2, PartFits

LEMMA FrontFits ==
    ASSUME NEW c \in Arrays, NEW d \in DShapes, Fits(c, d), Len(c) >= 1
    PROVE  /\ Front(c) \in Arrays /\ Front(d) \in DShapes /\ Fits(Front(c), Front(d))
           /\ Len(Front(c)) = Len(c) - 1 /\ Len(Front(d)) = Len(c) - 1
  <1>1. Len(c) \in Nat /\ Len(d) = Len(c) /\ Len(c) - 1 \in Nat /\ Len(c) - 1 <= Len(c)
    BY FitsFacts
  <1>2. Front(c) = SubSeq(c, 1, Len(c) - 1) /\ Front(d) = SubSeq(d, 1, Len(c) - 1)
    BY <1>1 DEF Front
  <1> QED  BY <1>1, <1>2, FirstFits

LEMMA Front2Fits ==
    ASSUME NEW c \in Arrays, NEW d \in DShapes, Fits(c, d), Len(c) >= 2
    PROVE  /\ Front2(c) \in Arrays /\ Front2(d) \in DShapes /\ Fits(Front2(c), Front2(d))
           /\ Len(Front2(c)) = Len(c) - 2 /\ Len(Front2(d)) = Len(c) - 2
  <1>1. Len(c) \in Nat /\ Len(d) = Len(c) /\ Len(c) - 2 \in Nat /\ Len(c) - 2 <= Len(c)
    BY FitsFacts
  <1>2. Front2(c) = SubSeq(c, 1, Len(c) - 2) /\ Front2(d) = SubSeq(d, 1, Len(c) - 2)
    BY <1>1 DEF Front2
  <1> QED  BY <1>1, <1>2, FirstFits

LEMMA CrossEntropyStands ==
    ASSUME NEW c1, NEW d1, Stands(c1, d1), NEW c2, NEW d2, Stands(c2, d2),
           CrossEntropyRule(d1, d2) # Refused, ~TakenForOne(Front(d1.shape), d2.shape)
    PROVE  /\ cross_entropy(c1, c2) # Refused =>
                 Stands(cross_entropy(c1, c2), CrossEntropyRule(d1, d2))
           /\ Concrete(d1.shape) /\ Concrete(d2.shape) => cross_entropy(c1, c2) # Refused
  <1> DEFINE ca == Front(c1.shape)  da == Front(d1.shape)  cb == c2.shape  db == d2.shape
             p == AtLeastFloat(c1.dtype)
  <1>1. /\ c1.shape \in Arrays /\ d1.shape \in DShapes /\ Fits(c1.shape, d1.shape)
        /\ c1.dtype \in Dtypes /\ d1.dtype \in Dtypes
        /\ Len(c1.shape) = Len(d1.shape) /\ Len(c1.shape) \in Nat
        /\ Concrete(d1.shape) => c1.shape = d1.shape
    BY StandsFacts
  <1>2. /\ cb \in Arrays /\ db \in DShapes /\ Fits(cb, db) /\ Len(cb) = Len(db)
        /\ Concrete(db) => cb = db
    BY StandsFacts
  <1>3. /\ Len(d1.shape) >= 2 /\ AllAgree(da, db)
        /\ CrossEntropyRule(d1, d2) = Value(AllJoined(da, db), d1.dtype)
    BY DEF CrossEntropyRule, RankOf
  <1>4. /\ ca \in Arrays /\ da \in DShapes /\ Fits(ca, da)
        /\ Len(ca) = Len(c1.shape) - 1 /\ Len(da) = Len(c1.shape) - 1
    BY <1>1, <1>3, FrontFits
  <1>5. p \in Dtypes /\ p \in Floats
    BY <1>1, Promotions
  <1>6. Len(c1.shape) = Len(cb) + 1
    BY <1>1, <1>2, <1>3, <1>4 DEF AllAgree
  <1>7. cross_entropy(c1, c2) =
            IF Stretches(ca, cb) THEN Value(Stretched(ca, cb), p) ELSE Refused
    BY <1>6 DEF cross_entropy, RankOf
  <1>8. ~TakenForOne(da, db)
    OBVIOUS
  <1>9. Concrete(d1.shape) /\ Concrete(d2.shape) => ca = da /\ cb = db
    BY <1>1, <1>2
  <1> HIDE DEF ca, da, cb, db, p
  <1>10. ASSUME Stretches(ca, cb)
         PROVE  /\ Stands(Value(Stretched(ca, cb), p), Value(AllJoined(da, db), d1.dtype))
                /\ Value(Stretched(ca, cb), p) # Refused
    <2>1. /\ Stretched(ca, cb) \in Arrays /\ AllJoined(da, db) \in DShapes
          /\ Fits(Stretched(ca, cb), AllJoined(da, db))
      BY <1>2, <1>3, <1>4, <1>8, <1>10, UnifiedFits
    <2> QED  BY <1>1, <1>5, <2>1, ValueStands
  <1>11. ca = da /\ cb = db => Stretches(ca, cb)
    BY <1>2, <1>3, <1>4, AgreeingStretch
  <1>12. CASE Stretches(ca, cb)
    BY <1>3, <1>7, <1>10, <1>12
  <1>13. CASE ~Stretches(ca, cb)
    BY <1>7, <1>9, <1>11, <1>13
  <1> QED  BY <1>12, <1>13

(* The last two dimensions of what a matmul reads. *)
LEMMA LastFits ==
    ASSUME NEW c \in Arrays, NEW d \in DShapes, Fits(c, d), Len(c) >= 2
    PROVE  /\ c[Len(c) - 1] \in Dims /\ d[Len(d) - 1] \in {0, c[Len(c) - 1]}
           /\ LastOf(c) \in Dims /\ LastOf(d) \in {0, LastOf(c)}
  <1>1. /\ Len(c) \in Nat /\ Len(d) = Len(c)
        /\ \A i \in 1..Len(c) : c[i] \in Dims /\ d[i] \in {0, c[i]}
    BY FitsFacts
  <1>2. Len(c) \in 1..Len(c) /\ Len(c) - 1 \in 1..Len(c)
    BY <1>1
  <1> QED  BY <1>1, <1>2 DEF LastOf

LEMMA MatmulStands ==
    ASSUME NEW ins, NEW c1, Stands(c1, ins[1]), NEW c2, Stands(c2, ins[2]),
           MatmulRule(ins) # Refused, Float(ins[1]),
           ~ (RankOf(ins[2]) > 2 /\ TakenForOne(Front2(ins[1].shape), Front2(ins[2].shape)))
    PROVE  /\ Matmul(c1, c2) # Refused => Stands(Matmul(c1, c2), MatmulRule(ins))
           /\ Concrete(ins[1].shape) /\ Concrete(ins[2].shape) => Matmul(c1, c2) # Refused
  <1> DEFINE a == c1.shape  x == ins[1].shape  b == c2.shape  y == ins[2].shape
             fa == Front2(a)  fx == Front2(x)  fb == Front2(b)  fy == Front2(y)
             p == Promote(c1.dtype, c2.dtype)  q == ins[1].dtype
             lead == IF Len(y) = 2 THEN fx ELSE AllJoined(fx, fy)
             m == a[Len(a) - 1]  mx == x[Len(x) - 1]  n == LastOf(b)  ny == LastOf(y)
             ok == /\ LastOf(a) = b[Len(b) - 1] /\ Stretches(fa, fb)
             answer == Value(Stretched(fa, fb) \o <<m, n>>, p)
             described == Value(lead \o <<mx, ny>>, q)
  <1>1. /\ a \in Arrays /\ x \in DShapes /\ Fits(a, x) /\ Len(a) = Len(x) /\ Len(a) \in Nat
        /\ c1.dtype \in Dtypes /\ q \in Dtypes /\ (q \in Floats => c1.dtype \in Floats)
        /\ Concrete(x) => a = x
    BY StandsFacts
  <1>2. /\ b \in Arrays /\ y \in DShapes /\ Fits(b, y) /\ Len(b) = Len(y) /\ Len(b) \in Nat
        /\ c2.dtype \in Dtypes
        /\ Concrete(y) => b = y
    BY StandsFacts
  <1>3. /\ Len(x) >= 2 /\ Len(y) >= 2 /\ Agree(LastOf(x), y[Len(y) - 1])
        /\ (Len(y) = 2 \/ AllAgree(fx, fy))
        /\ MatmulRule(ins) = described
    BY DEF MatmulRule
  <1>4. p \in Dtypes /\ p \in Floats
    <2>1. c1.dtype \in Floats
      BY <1>1 DEF Float, Floats
    <2> QED  BY <1>1, <1>2, <2>1, Promotions
  <1>5. Matmul(c1, c2) = IF ok THEN answer ELSE Refused
    <2>1. Float(Value(<<>>, p))
      BY <1>4 DEF Float, Floats, Value
    <2> QED  BY <2>1 DEF Matmul, RankOf
  <1>6. ~ (Len(y) > 2 /\ TakenForOne(fx, fy))
    BY DEF RankOf
  <1>7. /\ fa \in Arrays /\ fx \in DShapes /\ Fits(fa, fx) /\ Len(fa) = Len(a) - 2 /\ Len(fx) = Len(a) - 2
    BY <1>1, <1>3, Front2Fits
  <1>8. /\ fb \in Arrays /\ fy \in DShapes /\ Fits(fb, fy) /\ Len(fb) = Len(b) - 2
    BY <1>2, <1>3, Front2Fits
  <1>9. /\ m \in Dims /\ mx \in {0, m} /\ n \in Dims /\ ny \in {0, n}
    BY <1>1, <1>2, <1>3, LastFits
  <1>10. Concrete(x) /\ Concrete(y) => a = x /\ b = y /\ fa = fx /\ fb = fy
    BY <1>1, <1>2
  <1>11. /\ Concrete(x) => LastOf(x) # Symbolic
         /\ Concrete(y) => y[Len(y) - 1] # Symbolic
    <2>1. DOMAIN x = 1..Len(x) /\ DOMAIN y = 1..Len(y)
      BY <1>1, <1>2, ShapeFacts
    <2>2. Len(x) \in 1..Len(x) /\ Len(y) - 1 \in 1..Len(y)
      BY <1>1, <1>2, <1>3
    <2>3. Concrete(x) => x[Len(x)] # Symbolic
      BY <2>1, <2>2 DEF Concrete
    <2>4. Concrete(y) => y[Len(y) - 1] # Symbolic
      BY <2>1, <2>2 DEF Concrete
    <2> QED  BY <2>3, <2>4 DEF LastOf
  <1>12. <<m, n>> \in Arrays /\ <<mx, ny>> \in DShapes /\ Fits(<<m, n>>, <<mx, ny>>)
    <2> HIDE DEF m, n, mx, ny
    <2> QED  BY <1>9, PairFits
  <1> HIDE DEF a, x, b, y, fa, fx, fb, fy, m, n, mx, ny
  <1>13. Len(y) = 2 => fb = <<>>
    <2>1. Len(y) = 2 => Len(fb) = 0
      BY <1>2, <1>8
    <2>2. fb \in Seq(Dims)
      BY <1>8 DEF Arrays
    <2> QED  BY <2>1, <2>2, EmptySeq
  <1>14. ASSUME Stretches(fa, fb)
         PROVE  Stretched(fa, fb) \in Arrays /\ lead \in DShapes /\ Fits(Stretched(fa, fb), lead)
    <2>1. CASE Len(y) = 2
      <3>1. Stretched(fa, fb) = fa /\ lead = fx
        BY <1>7, <1>13, <2>1, ArrayFacts, StretchedOverNone
      <3> QED  BY <1>7, <3>1
    <2>2. CASE Len(y) # 2
      <3>1. lead = AllJoined(fx, fy) /\ AllAgree(fx, fy) /\ ~TakenForOne(fx, fy)
        BY <1>2, <1>3, <1>6, <2>2
      <3> HIDE DEF lead
      <3> QED  BY <1>7, <1>8, <1>14, <3>1, UnifiedFits
    <2> QED  BY <2>1, <2>2
  <1> HIDE DEF lead
  <1>15. ASSUME Stretches(fa, fb)
         PROVE  Stands(answer, described) /\ answer # Refused
    <2>1. /\ Stretched(fa, fb) \o <<m, n>> \in Arrays /\ lead \o <<mx, ny>> \in DShapes
          /\ Fits(Stretched(fa, fb) \o <<m, n>>, lead \o <<mx, ny>>)
      BY <1>12, <1>14, <1>15, JoinFits
    <2> QED  BY <1>1, <1>4, <2>1, ValueStands
  <1>16. ASSUME Concrete(x), Concrete(y)
         PROVE  ok
    <2>1. a = x /\ b = y /\ fa = fx /\ fb = fy
      BY <1>10, <1>16
    <2>2. LastOf(a) = b[Len(b) - 1]
      BY <1>3, <1>11, <1>16, <2>1 DEF Agree
    <2>3. CASE Len(y) = 2
      BY <1>7, <1>13, <2>2, <2>3, ArrayFacts, StretchedOverNone
    <2>4. CASE Len(y) # 2
      <3>1. AllAgree(fa, fb)
        BY <1>3, <2>1, <2>4
      <3> QED  BY <1>7, <1>8, <2>2, <3>1, AgreeingStretch
    <2> QED  BY <2>3, <2>4
  <1> HIDE DEF answer, described
  <1>17. CASE ok
    BY <1>3, <1>5, <1>15, <1>17
  <1>18. CASE ~ok
    BY <1>5, <1>16, <1>18 DEF x, y
  <1> QED  BY <1>17, <1>18

(* A row normed, scaled by a gain that lies along it and shifted by a bias *)
(* that does, is a row.                                                    *)
LEMMA NormStands ==
    ASSUME NEW n \in 2..3, NEW cs, NEW ds, Len(cs) = n, Len(ds) = n,
           \A k \in 1..n : Stands(cs[k], ds[k]),
           RankOf(ds[1]) # 0, \A i \in 2..n : LiesAlong(ds[i], ds[1])
    PROVE  /\ Normed(cs) # Refused => Stands(Normed(cs), ds[1])
           /\ (\A k \in 1..n : Concrete(ds[k].shape)) => Normed(cs) # Refused
  <1> DEFINE scaled == Arithmetic(cs[1], cs[2], F32)  q == ds[1].dtype
  <1>1. /\ 1 \in 1..n /\ 2 \in 1..n /\ 2 \in 2..n
        /\ n # 2 => 3 \in 1..n /\ 3 \in 2..n
    OBVIOUS
  <1>2. /\ Stands(cs[1], ds[1]) /\ Stands(cs[2], ds[2])
        /\ n # 2 => Stands(cs[3], ds[3])
    BY <1>1
  <1>3. /\ q \in Dtypes /\ F32 \in Dtypes /\ F32 \in Floats /\ ds[1] = Value(ds[1].shape, q)
        /\ Len(cs[1].shape) = Len(ds[1].shape)
    BY <1>2, StandsFacts, Promotions
  <1>4. /\ Stretches(ds[1].shape, ds[2].shape) /\ Stretched(ds[1].shape, ds[2].shape) = ds[1].shape
        /\ n # 2 => /\ Stretches(ds[1].shape, ds[3].shape)
                    /\ Stretched(ds[1].shape, ds[3].shape) = ds[1].shape
    BY <1>1 DEF LiesAlong
  <1>5. /\ scaled # Refused => Stands(scaled, Value(Stretched(ds[1].shape, ds[2].shape), q))
        /\ Concrete(ds[1].shape) /\ Concrete(ds[2].shape) => scaled # Refused
    BY <1>2, <1>3, <1>4, ArithmeticStands
  <1>6. scaled # Refused => Stands(scaled, ds[1])
    BY <1>3, <1>4, <1>5
  <1>7. Normed(cs) = IF n = 2 \/ scaled = Refused THEN scaled ELSE Arithmetic(scaled, cs[3], F32)
    BY <1>3 DEF Normed, RankOf
  <1> HIDE DEF scaled
  <1>8. CASE n = 2 \/ scaled = Refused
    BY <1>1, <1>5, <1>6, <1>7, <1>8
  <1>9. CASE ~ (n = 2 \/ scaled = Refused)
    <2>1. Normed(cs) = Arithmetic(scaled, cs[3], F32)
      BY <1>7, <1>9
    <2>2. Stands(scaled, ds[1]) /\ Stands(cs[3], ds[3]) /\ 3 \in 1..n
      BY <1>1, <1>2, <1>6, <1>9
    <2>3. /\ Stretches(ds[1].shape, ds[3].shape)
          /\ Stretched(ds[1].shape, ds[3].shape) = ds[1].shape
      BY <1>4, <1>9
    <2>4. /\ Arithmetic(scaled, cs[3], F32) # Refused =>
                Stands(Arithmetic(scaled, cs[3], F32), Value(Stretched(ds[1].shape, ds[3].shape), q))
          /\ Concrete(ds[1].shape) /\ Concrete(ds[3].shape) => Arithmetic(scaled, cs[3], F32) # Refused
      BY <1>3, <2>2, <2>3, ArithmeticStands
    <2> QED  BY <1>1, <1>3, <2>1, <2>2, <2>3, <2>4
  <1> QED  BY <1>8, <1>9

-----------------------------------------------------------------------------
(* Attention. *)

LEMMA TripleFits ==
    ASSUME NEW x1 \in Dims, NEW y1 \in {0, x1}, NEW x2 \in Dims, NEW y2 \in {0, x2},
           NEW x3 \in Dims, NEW y3 \in {0, x3}
    PROVE  /\ <<x1, x2, x3>> \in Arrays /\ <<y1, y2, y3>> \in DShapes
           /\ Fits(<<x1, x2, x3>>, <<y1, y2, y3>>)
  <1>1. <<x1, x2, x3>> \in Arrays /\ <<y1, y2, y3>> \in DShapes
    BY DEF Arrays, DShapes, Dims
  <1>2. /\ Len(<<x1, x2, x3>>) = 3 /\ Len(<<y1, y2, y3>>) = 3 /\ DOMAIN <<y1, y2, y3>> = 1..3
        /\ \A i \in 1..3 : <<y1, y2, y3>>[i] \in {0, <<x1, x2, x3>>[i]}
    OBVIOUS
  <1>3. Fits(<<x1, x2, x3>>, <<y1, y2, y3>>)
    BY <1>2, FitsIf
  <1> QED  BY <1>1, <1>3

LEMMA QuadFits ==
    ASSUME NEW x, NEW y, x = <<x[1], x[2], x[3], x[4]>>, y = <<y[1], y[2], y[3], y[4]>>,
           \A i \in 1..4 : x[i] \in Dims /\ y[i] \in {0, x[i]}
    PROVE  x \in Arrays /\ y \in DShapes /\ Fits(x, y)
  <1>1. \A i \in 1..4 : x[i] \in Dims /\ y[i] \in Nat /\ y[i] \in {0, x[i]}
    BY DEF Dims
  <1>2. x = [i \in 1..4 |-> x[i]] /\ y = [i \in 1..4 |-> y[i]] /\ 4 \in Nat
    OBVIOUS
  <1> QED  BY <1>1, <1>2, MadeFits

(* With the head axis grown where there is none. *)
LEMMA HeadedFits ==
    ASSUME NEW c \in Arrays, NEW d \in DShapes, Fits(c, d), Len(c) \in {3, 4}
    PROVE  \A i \in 1..4 : /\ Headed(c)[i] \in Dims /\ Headed(d)[i] \in {0, Headed(c)[i]}
                           /\ Concrete(d) => Headed(d)[i] = Headed(c)[i]
  <1>1. /\ Len(d) = Len(c)
        /\ \A i \in 1..Len(c) : c[i] \in Dims /\ d[i] \in {0, c[i]}
        /\ Concrete(d) => c = d
    BY FitsFacts
  <1>2. CASE Len(c) = 3
    <2>1. Headed(c) = <<c[1], 1, c[2], c[3]>> /\ Headed(d) = <<d[1], 1, d[2], d[3]>>
      BY <1>1, <1>2 DEF Headed
    <2>2. 1 \in Dims
      BY DEF Dims
    <2>3. 1 \in 1..Len(c) /\ 2 \in 1..Len(c) /\ 3 \in 1..Len(c)
      BY <1>2
    <2>4. \A i \in 1..4 : i = 1 \/ i = 2 \/ i = 3 \/ i = 4
      OBVIOUS
    <2> QED  BY <1>1, <2>1, <2>2, <2>3, <2>4
  <1>3. CASE Len(c) = 4
    <2>1. Headed(c) = c /\ Headed(d) = d
      BY <1>1, <1>3 DEF Headed
    <2> QED  BY <1>1, <1>3, <2>1
  <1> QED  BY <1>2, <1>3

(* Its batch is what the three agree on, its heads and positions those of  *)
(* the queries and its width that of the values.                           *)
LEMMA SdpaStands ==
    ASSUME NEW n \in 3..4, NEW cs, NEW ds, Len(cs) = n,
           \A k \in 1..n : Stands(cs[k], ds[k]),
           SdpaRule(ds) # Refused, Float(ds[1]), NEW causal \in BOOLEAN, causal \/ n = 3
    PROVE  /\ sdpa(cs, causal) # Refused => Stands(sdpa(cs, causal), SdpaRule(ds))
           /\ (\A k \in 1..n : Concrete(ds[k].shape)) => sdpa(cs, causal) # Refused
  <1> DEFINE q == Headed(cs[1].shape)  k == Headed(cs[2].shape)  v == Headed(cs[3].shape)
             dq == Headed(ds[1].shape) dk == Headed(ds[2].shape) dv == Headed(ds[3].shape)
             batch == Joined(dq[1], Joined(dk[1], dv[1]))
             p == Promote(cs[1].dtype, Promote(cs[2].dtype, cs[3].dtype))
             flat == Len(ds[1].shape) = 3
             alike == /\ q[1] = k[1] /\ q[1] = v[1] /\ k[2] = v[2] /\ k[3] = v[3]
                      /\ q[4] = k[4] /\ q[2] % k[2] = 0
             answer == IF flat THEN <<q[1], q[3], v[4]>> ELSE <<q[1], q[2], q[3], v[4]>>
             said == IF flat THEN <<batch, dq[3], dv[4]>> ELSE <<batch, dq[2], dq[3], dv[4]>>
  <1>1. 1 \in 1..n /\ 2 \in 1..n /\ 3 \in 1..n
    OBVIOUS
  <1>2. Stands(cs[1], ds[1]) /\ Stands(cs[2], ds[2]) /\ Stands(cs[3], ds[3])
    BY <1>1
  <1>3. /\ cs[1].shape \in Arrays /\ ds[1].shape \in DShapes /\ Fits(cs[1].shape, ds[1].shape)
        /\ Len(cs[1].shape) = Len(ds[1].shape)
        /\ cs[1].dtype \in Dtypes /\ ds[1].dtype \in Dtypes
        /\ ds[1].dtype \in Floats => cs[1].dtype \in Floats
    BY <1>2, StandsFacts
  <1>4. /\ cs[2].shape \in Arrays /\ ds[2].shape \in DShapes /\ Fits(cs[2].shape, ds[2].shape)
        /\ Len(cs[2].shape) = Len(ds[2].shape) /\ cs[2].dtype \in Dtypes
    BY <1>2, StandsFacts
  <1>5. /\ cs[3].shape \in Arrays /\ ds[3].shape \in DShapes /\ Fits(cs[3].shape, ds[3].shape)
        /\ Len(cs[3].shape) = Len(ds[3].shape) /\ cs[3].dtype \in Dtypes
    BY <1>2, StandsFacts
  <1>6. /\ Len(ds[1].shape) \in {3, 4}
        /\ Len(ds[2].shape) = Len(ds[1].shape) /\ Len(ds[3].shape) = Len(ds[1].shape)
        /\ Agree(dk[1], dv[1]) /\ Agree(dq[1], Joined(dk[1], dv[1]))
        /\ Agree(dk[2], dv[2]) /\ Agree(dk[3], dv[3]) /\ Agree(dq[4], dk[4])
        /\ Grouped(dq[2], dk[2])
        /\ SdpaRule(ds) = Value(said, ds[1].dtype)
    BY DEF SdpaRule, RankOf
  <1>7. p \in Dtypes /\ p \in Floats
    <2>1. cs[1].dtype \in Floats
      BY <1>3 DEF Float, Floats
    <2>2. Promote(cs[2].dtype, cs[3].dtype) \in Dtypes
      BY <1>4, <1>5, Promotions
    <2> QED  BY <1>3, <2>1, <2>2, Promotions
  <1>8. sdpa(cs, causal) = IF alike THEN Value(answer, p) ELSE Refused
    <2>1. p \in {BF16, F32}
      BY <1>7 DEF Floats
    <2>2. causal \/ Len(cs) = 3
      OBVIOUS
    <2>3. RankOf(cs[1]) = 3 <=> flat
      BY <1>3 DEF RankOf
    <2> QED  BY <2>1, <2>2, <2>3 DEF sdpa
  <1>9. \A i \in 1..4 : /\ q[i] \in Dims /\ dq[i] \in {0, q[i]}
                        /\ Concrete(ds[1].shape) => dq[i] = q[i]
    BY <1>3, <1>6, HeadedFits
  <1>10. \A i \in 1..4 : /\ k[i] \in Dims /\ dk[i] \in {0, k[i]}
                         /\ Concrete(ds[2].shape) => dk[i] = k[i]
    BY <1>4, <1>6, HeadedFits
  <1>11. \A i \in 1..4 : /\ v[i] \in Dims /\ dv[i] \in {0, v[i]}
                         /\ Concrete(ds[3].shape) => dv[i] = v[i]
    BY <1>5, <1>6, HeadedFits
  <1> HIDE DEF q, k, v, dq, dk, dv, p, flat
  <1>12. ASSUME alike
         PROVE  answer \in Arrays /\ said \in DShapes /\ Fits(answer, said)
    <2>1. 1 \in 1..4 /\ 2 \in 1..4 /\ 3 \in 1..4 /\ 4 \in 1..4
      OBVIOUS
    <2>2. dq[1] \in {0, q[1]} /\ dk[1] \in {0, q[1]} /\ dv[1] \in {0, q[1]}
      BY <1>9, <1>10, <1>11, <1>12, <2>1
    <2>3. batch \in {0, q[1]}
      BY <2>2 DEF Joined
    <2>4. /\ q[1] \in Dims /\ q[2] \in Dims /\ q[3] \in Dims /\ v[4] \in Dims
          /\ dq[2] \in {0, q[2]} /\ dq[3] \in {0, q[3]} /\ dv[4] \in {0, v[4]}
      BY <1>9, <1>11, <2>1
    <2> HIDE DEF batch
    <2>5. CASE flat
      <3>1. answer = <<q[1], q[3], v[4]>> /\ said = <<batch, dq[3], dv[4]>>
        BY <2>5
      <3>2. /\ <<q[1], q[3], v[4]>> \in Arrays /\ <<batch, dq[3], dv[4]>> \in DShapes
            /\ Fits(<<q[1], q[3], v[4]>>, <<batch, dq[3], dv[4]>>)
        BY <2>3, <2>4, TripleFits
      <3> HIDE DEF answer, said
      <3> QED  BY <3>1, <3>2
    <2>6. CASE ~flat
      <3>1. answer = <<q[1], q[2], q[3], v[4]>> /\ said = <<batch, dq[2], dq[3], dv[4]>>
        BY <2>6
      <3> HIDE DEF answer, said
      <3>2. /\ answer = <<answer[1], answer[2], answer[3], answer[4]>>
            /\ said = <<said[1], said[2], said[3], said[4]>>
        BY <3>1
      <3>3. ASSUME NEW i \in 1..4
            PROVE  answer[i] \in Dims /\ said[i] \in {0, answer[i]}
        <4>1. i = 1 \/ i = 2 \/ i = 3 \/ i = 4
          OBVIOUS
        <4> QED  BY <2>3, <2>4, <3>1, <4>1
      <3> QED  BY <3>2, <3>3, QuadFits
    <2> QED  BY <2>5, <2>6
  <1>13. ASSUME \A i \in 1..n : Concrete(ds[i].shape)
         PROVE  alike
    <2>1. Concrete(ds[1].shape) /\ Concrete(ds[2].shape) /\ Concrete(ds[3].shape)
      BY <1>1, <1>13
    <2>2. 1 \in 1..4 /\ 2 \in 1..4 /\ 3 \in 1..4 /\ 4 \in 1..4
      OBVIOUS
    <2>3. /\ q[1] = dq[1] /\ k[1] = dk[1] /\ v[1] = dv[1]
          /\ q[1] # 0 /\ k[1] # 0 /\ v[1] # 0
      BY <1>9, <1>10, <1>11, <2>1, <2>2 DEF Dims
    <2>4. /\ q[2] = dq[2] /\ k[2] = dk[2] /\ v[2] = dv[2] /\ q[2] # 0 /\ k[2] # 0 /\ v[2] # 0
      BY <1>9, <1>10, <1>11, <2>1, <2>2 DEF Dims
    <2>5. /\ k[3] = dk[3] /\ v[3] = dv[3] /\ k[3] # 0 /\ v[3] # 0
      BY <1>10, <1>11, <2>1, <2>2 DEF Dims
    <2>6. /\ q[4] = dq[4] /\ k[4] = dk[4] /\ q[4] # 0 /\ k[4] # 0
      BY <1>9, <1>10, <2>1, <2>2 DEF Dims
    <2>7. q[1] = k[1] /\ q[1] = v[1]
      BY <1>6, <2>3 DEF Agree, Joined, Symbolic
    <2>8. k[2] = v[2] /\ k[3] = v[3] /\ q[4] = k[4]
      BY <1>6, <2>4, <2>5, <2>6 DEF Agree, Symbolic
    <2>9. q[2] % k[2] = 0
      BY <1>6, <2>4 DEF Grouped, Symbolic
    <2> QED  BY <2>7, <2>8, <2>9
  <1> HIDE DEF alike, answer, said
  <1>14. CASE alike
    <2>1. Stands(Value(answer, p), Value(said, ds[1].dtype)) /\ Value(answer, p) # Refused
      BY <1>3, <1>7, <1>12, <1>14, ValueStands
    <2> QED  BY <1>6, <1>8, <1>14, <2>1
  <1>15. CASE ~alike
    BY <1>8, <1>13, <1>15
  <1> QED  BY <1>14, <1>15

-----------------------------------------------------------------------------
(* Reshape. *)

LEMMA Division ==
    ASSUME NEW a \in Nat, NEW b \in Nat, b > 0
    PROVE  a = b * (a \div b) + (a % b) /\ a \div b \in Nat
  OBVIOUS

LEMMA DividesFacts ==
    ASSUME NEW a \in Dims, NEW b \in Dims, a % b = 0
    PROVE  a \div b \in Dims /\ a = b * (a \div b)
  <1>1. a \in Nat /\ a > 0 /\ b \in Nat /\ b > 0
    BY DEF Dims
  <1>2. a = b * (a \div b) + (a % b) /\ a \div b \in Nat
    BY <1>1, Division
  <1>3. a \div b > 0
    BY <1>1
  <1> QED  BY <1>1, <1>2, <1>3 DEF Dims

LEMMA MultipleDivides ==
    ASSUME NEW a \in Dims, NEW q \in Nat
    PROVE  (a * q) % a = 0 /\ (a * q) \div a = q
  BY DEF Dims

(* What divides goes on dividing with a factor on both sides. *)
LEMMA FactorDivides ==
    ASSUME NEW p \in Dims, NEW t \in Dims, NEW k \in Dims, t % k = 0
    PROVE  (p * t) % (p * k) = 0 /\ (p * t) \div (p * k) = t \div k
  <1> DEFINE q == t \div k
  <1>1. q \in Nat /\ t = k * q
    BY DividesFacts DEF Dims
  <1>2. p * k \in Dims
    BY Positive
  <1>3. p \in Nat /\ k \in Nat
    BY DEF Dims
  <1> HIDE DEF q
  <1>4. p * (k * q) = (p * k) * q
    BY <1>1, <1>3
  <1>5. ((p * k) * q) % (p * k) = 0 /\ ((p * k) * q) \div (p * k) = q
    BY <1>1, <1>2, MultipleDivides
  <1>6. p * t = (p * k) * q
    BY <1>1, <1>4
  <1> QED  BY <1>5, <1>6 DEF q

(* The leading zeros of a target. *)
LEMMA KeptAxesFacts ==
    ASSUME NEW target \in Seq(Int)
    PROVE  /\ KeptAxes(target) \in 0..Len(target)
           /\ \A i \in 1..KeptAxes(target) : target[i] = 0
  <1> DEFINE n == Len(target)
             Ends == {k \in 0..n : k < n => target[k + 1] # 0}
  <1>1. n \in Nat /\ n \in Ends /\ Ends \in SUBSET Nat
    OBVIOUS
  <1>2. PICK m \in Ends : \A i \in Ends : m <= i
    <2> HIDE DEF Ends
    <2> QED  BY <1>1, LeastOf
  <1>3. ASSUME NEW i \in 1..m PROVE target[i] = 0
    <2>1. i - 1 \in 0..n /\ i - 1 < n /\ (i - 1) + 1 = i /\ ~ (m <= i - 1)
      BY <1>1, <1>2
    <2>2. i - 1 \notin Ends
      BY <1>2, <2>1
    <2> QED  BY <2>1, <2>2
  <1>4. \E k \in 0..Len(target) : /\ \A i \in 1..k : target[i] = 0
                                  /\ k < Len(target) => target[k + 1] # 0
    BY <1>2, <1>3
  <1> QED  BY <1>4 DEF KeptAxes

(* A target read after the dimensions it keeps. *)
Rest(target) == SubSeq(target, KeptAxes(target) + 1, Len(target))

LEMMA DropFacts ==
    ASSUME NEW s \in Seq(Int), NEW k \in Nat, NEW m \in Nat, Len(s) = k + m
    PROVE  /\ SubSeq(s, k + 1, k + m) \in Seq(Int) /\ Len(SubSeq(s, k + 1, k + m)) = m
           /\ \A j \in 1..m : SubSeq(s, k + 1, k + m)[j] = s[k + j] /\ k + j \in (k + 1)..(k + m)
  <1>1. \A i \in (k + 1)..(k + m) : s[i] \in Int
    OBVIOUS
  <1>2. k + 1 \in Int /\ k + m \in Int /\ (k + m) - (k + 1) + 1 = m /\ (k + 1 <= k + m <=> m >= 1)
    OBVIOUS
  <1>3. /\ SubSeq(s, k + 1, k + m) \in Seq(Int)
        /\ Len(SubSeq(s, k + 1, k + m)) = IF k + 1 <= k + m THEN (k + m) - (k + 1) + 1 ELSE 0
        /\ \A j \in 1..((k + m) - (k + 1) + 1) :
              SubSeq(s, k + 1, k + m)[j] = s[(k + 1) + j - 1]
    BY <1>1, <1>2, SubSeqProperties
  <1>4. Len(SubSeq(s, k + 1, k + m)) = m
    BY <1>2, <1>3
  <1>5. ASSUME NEW j \in 1..m
        PROVE  SubSeq(s, k + 1, k + m)[j] = s[k + j] /\ k + j \in (k + 1)..(k + m)
    <2>1. (k + 1) + j - 1 = k + j /\ k + j \in (k + 1)..(k + m)
      OBVIOUS
    <2> QED  BY <1>2, <1>3, <2>1
  <1> QED  BY <1>3, <1>4, <1>5

LEMMA RestFacts ==
    ASSUME NEW target \in Seq(Int), WellFormed(target), NEW k \in Nat, k = KeptAxes(target),
           NEW m \in Nat, Len(target) = k + m, NEW rest, rest = Rest(target)
    PROVE  /\ Len(rest) = m /\ rest = [j \in 1..m |-> rest[j]] /\ rest \in Seq(Int)
           /\ \A j \in 1..m : /\ rest[j] = target[k + j]
                              /\ rest[j] \in Int /\ rest[j] # 0 /\ rest[j] >= -1
           /\ \A i \in 1..k : target[i] = 0
           /\ \A i \in 1..(k + m) : target[i] = 0 => i <= k
  <1>1. \A i \in 1..k : target[i] = 0
    BY KeptAxesFacts
  <1>2. rest = SubSeq(target, k + 1, k + m)
    BY DEF Rest
  <1>3. /\ rest \in Seq(Int) /\ Len(rest) = m
        /\ \A j \in 1..m : rest[j] = target[k + j] /\ k + j \in (k + 1)..(k + m)
    <2>1. /\ SubSeq(target, k + 1, k + m) \in Seq(Int) /\ Len(SubSeq(target, k + 1, k + m)) = m
          /\ \A j \in 1..m : /\ SubSeq(target, k + 1, k + m)[j] = target[k + j]
                             /\ k + j \in (k + 1)..(k + m)
      BY DropFacts
    <2> QED  BY <1>2, <2>1
  <1>4. rest = [j \in 1..m |-> rest[j]]
    BY <1>3, SequenceIs
  <1>5. DOMAIN target = 1..(k + m) /\ \A i \in 1..(k + m) : target[i] \in Int
    <2>1. DOMAIN target = 1..(k + m)
      OBVIOUS
    <2>2. \A i \in 1..(k + m) : target[i] \in Int
      BY <2>1
    <2> QED  BY <2>1, <2>2
  <1>6. \A i \in 1..(k + m) : target[i] >= -1
    BY <1>5 DEF WellFormed
  <1>7. \A i \in (k + 1)..(k + m) : target[i] # 0
    BY DEF WellFormed
  <1>8. \A j \in (k + 1)..(k + m) : j \in 1..(k + m)
    OBVIOUS
  <1>9. ASSUME NEW j \in 1..m
        PROVE  rest[j] = target[k + j] /\ rest[j] \in Int /\ rest[j] # 0 /\ rest[j] >= -1
    BY <1>3, <1>5, <1>6, <1>7, <1>8
  <1>10. ASSUME NEW i \in 1..(k + m), target[i] = 0 PROVE i <= k
    <2>1. i > k => i \in (k + 1)..(k + m)
      OBVIOUS
    <2> QED  BY <1>7, <1>10, <2>1
  <1> QED  BY <1>1, <1>3, <1>4, <1>9, <1>10

(* What is asked for, where a dimension is to be taken from the others. *)
LEMMA FilledFits ==
    ASSUME NEW m \in Nat, NEW rest, Len(rest) = m, rest = [j \in 1..m |-> rest[j]],
           \A j \in 1..m : rest[j] \in Int /\ rest[j] # 0 /\ rest[j] >= -1,
           NEW x \in Dims, NEW y \in {0, x}
    PROVE  Filled(rest, x) \in Arrays /\ Filled(rest, y) \in DShapes /\ Fits(Filled(rest, x), Filled(rest, y))
  <1> DEFINE a == Filled(rest, x)  b == Filled(rest, y)
  <1>1. DOMAIN rest = 1..m
    OBVIOUS
  <1>2. /\ a = [j \in 1..m |-> IF rest[j] = -1 THEN x ELSE rest[j]]
        /\ b = [j \in 1..m |-> IF rest[j] = -1 THEN y ELSE rest[j]]
    BY <1>1 DEF Filled
  <1> HIDE DEF a, b
  <1>3. a = [j \in 1..m |-> a[j]] /\ b = [j \in 1..m |-> b[j]]
    BY <1>2
  <1>4. ASSUME NEW j \in 1..m
        PROVE  a[j] \in Dims /\ b[j] \in Nat /\ b[j] \in {0, a[j]}
    <2>1. /\ a[j] = IF rest[j] = -1 THEN x ELSE rest[j]
          /\ b[j] = IF rest[j] = -1 THEN y ELSE rest[j]
      BY <1>2
    <2>2. rest[j] # -1 => rest[j] \in Dims /\ rest[j] \in Nat
      BY DEF Dims
    <2>3. x \in Nat /\ y \in Nat
      BY DEF Dims
    <2> QED  BY <2>1, <2>2, <2>3
  <1>5. a \in Arrays /\ b \in DShapes /\ Fits(a, b)
    BY <1>3, <1>4, MadeFits
  <1> QED  BY <1>5 DEF a, b

-----------------------------------------------------------------------------
(* The target the engine fills in, dimension by dimension.                  *)
LEMMA KeptFacts ==
    ASSUME NEW s \in Arrays, NEW target \in Seq(Int), WellFormed(target),
           NEW k \in Nat, k = KeptAxes(target), k <= Len(s),
           NEW m \in Nat, Len(target) = k + m, NEW rest, rest = Rest(target)
    PROVE  /\ kept(target, s) = [i \in 1..(k + m) |-> kept(target, s)[i]]
           /\ \A i \in 1..k : kept(target, s)[i] = s[i] /\ s[i] \in Dims
           /\ \A j \in 1..m : kept(target, s)[k + j] = rest[j]
           /\ \A i \in 1..(k + m) : i > k => i - k \in 1..m
  <1> DEFINE full == kept(target, s)
  <1>1. DOMAIN target = 1..(k + m)
    OBVIOUS
  <1>2. full = [i \in 1..(k + m) |-> IF target[i] = 0 THEN s[i] ELSE target[i]]
    BY <1>1 DEF kept
  <1> HIDE DEF full
  <1>3. full = [i \in 1..(k + m) |-> full[i]]
    BY <1>2
  <1>4. /\ \A j \in 1..m : rest[j] = target[k + j] /\ rest[j] # 0
        /\ \A i \in 1..k : target[i] = 0
    BY RestFacts, SMTT(40)
  <1>5. Len(s) \in Nat /\ \A i \in 1..Len(s) : s[i] \in Dims
    BY ArrayFacts
  <1>6. ASSUME NEW i \in 1..k PROVE full[i] = s[i] /\ s[i] \in Dims
    <2>1. i \in 1..(k + m) /\ i \in 1..Len(s)
      BY <1>5
    <2> QED  BY <1>2, <1>4, <1>5, <2>1
  <1>7. ASSUME NEW j \in 1..m PROVE full[k + j] = rest[j]
    <2>1. k + j \in 1..(k + m)
      OBVIOUS
    <2> QED  BY <1>2, <1>4, <2>1
  <1>8. \A i \in 1..(k + m) : i > k => i - k \in 1..m
    OBVIOUS
  <1> QED  BY <1>3, <1>6, <1>7, <1>8 DEF full

(* Filling in the whole is filling in what is not kept.                     *)
LEMMA FilledWhole ==
    ASSUME NEW s \in Arrays, NEW target \in Seq(Int), WellFormed(target),
           KeptAxes(target) <= Len(s), NEW x \in Dims
    PROVE  /\ Filled(Rest(target), x) \in Arrays
           /\ Len(Filled(Rest(target), x)) = Len(Rest(target))
           /\ Filled(kept(target, s), x) = SubSeq(s, 1, KeptAxes(target)) \o Filled(Rest(target), x)
  <1> DEFINE k == KeptAxes(target)  m == Len(target) - k  rest == Rest(target)
  <1>a. k \in Nat /\ m \in Nat /\ Len(target) = k + m
    BY KeptAxesFacts
  <1> HIDE DEF m
  <1>b. k = KeptAxes(target) /\ rest = Rest(target) /\ k <= Len(s)
    OBVIOUS
  <1> HIDE DEF k, rest
  <1> DEFINE full == kept(target, s)  head == SubSeq(s, 1, k)  tail == Filled(rest, x)
             whole == Filled(full, x)
  <1>1. /\ full = [i \in 1..(k + m) |-> full[i]]
        /\ \A i \in 1..k : full[i] = s[i] /\ s[i] \in Dims
        /\ \A j \in 1..m : full[k + j] = rest[j]
        /\ \A i \in 1..(k + m) : i > k => i - k \in 1..m
    BY <1>a, <1>b, KeptFacts
  <1>2. /\ rest = [j \in 1..m |-> rest[j]] /\ Len(rest) = m
        /\ \A j \in 1..m : rest[j] \in Int /\ rest[j] # 0 /\ rest[j] >= -1
    BY <1>a, <1>b, RestFacts
  <1>3. tail \in Arrays
    BY <1>2, <1>a, FilledFits
  <1>4. head \in Arrays /\ Len(head) = k /\ \A i \in 1..k : head[i] = s[i]
    BY <1>a, <1>b, FitsItself, FirstFits
  <1>5. tail = [j \in 1..m |-> IF rest[j] = -1 THEN x ELSE rest[j]]
    <2>1. DOMAIN rest = 1..m
      BY <1>2
    <2> QED  BY <2>1 DEF Filled
  <1>6. whole = [i \in 1..(k + m) |-> IF full[i] = -1 THEN x ELSE full[i]]
    <2>1. DOMAIN full = 1..(k + m)
      <3> HIDE DEF full
      <3> QED  BY <1>1
    <2> QED  BY <2>1 DEF Filled
  <1> HIDE DEF full, head, tail, whole
  <1>7. Len(tail) = m
    BY <1>a, <1>3, <1>5, ArrayFacts
  <1>8. ASSUME NEW i \in 1..(k + m)
        PROVE  whole[i] = IF i <= k THEN head[i] ELSE tail[i - k]
    <2>1. whole[i] = IF full[i] = -1 THEN x ELSE full[i]
      BY <1>6
    <2>2. CASE i <= k
      <3>1. i \in 1..k
        BY <2>2
      <3>2. full[i] = head[i] /\ head[i] \in Dims
        BY <1>1, <1>4, <3>1
      <3>3. full[i] # -1
        BY <3>2 DEF Dims
      <3> QED  BY <2>1, <2>2, <3>2, <3>3
    <2>3. CASE ~ (i <= k)
      <3>1. i - k \in 1..m /\ k + (i - k) = i
        BY <1>a, <1>1, <2>3
      <3>2. full[i] = rest[i - k] /\ tail[i - k] = IF rest[i - k] = -1 THEN x ELSE rest[i - k]
        BY <1>1, <1>5, <3>1
      <3> QED  BY <2>1, <2>3, <3>2
    <2> QED  BY <2>2, <2>3
  <1>9. /\ head \o tail \in Seq(Dims) /\ Len(head \o tail) = k + m
        /\ \A i \in 1..(k + m) : (head \o tail)[i] = IF i <= k THEN head[i] ELSE tail[i - k]
    BY <1>3, <1>4, <1>7, ConcatProperties DEF Arrays
  <1> DEFINE both == head \o tail
  <1> HIDE DEF both
  <1>10. both = [i \in 1..(k + m) |-> both[i]] /\ whole = [i \in 1..(k + m) |-> whole[i]]
    <2>1. both \in Seq(Dims) /\ Len(both) = k + m
      BY <1>9 DEF both
    <2> QED  BY <1>6, <2>1
  <1>11. \A i \in 1..(k + m) : whole[i] = both[i]
    BY <1>8, <1>9 DEF both
  <1>12. whole = both
    BY <1>10, <1>11
  <1> QED  BY <1>2, <1>3, <1>7, <1>12 DEF both, full, head, tail, whole, k, rest

(* Where nothing is to be filled in.                                        *)
LEMMA NothingToFill ==
    ASSUME NEW m \in Nat, NEW rest, rest = [j \in 1..m |-> rest[j]], ~Infers(rest), NEW x
    PROVE  Filled(rest, x) = rest
  <1>1. DOMAIN rest = 1..m
    OBVIOUS
  <1>2. \A j \in 1..m : rest[j] # -1
    BY <1>1 DEF Infers
  <1>3. Filled(rest, x) = [j \in 1..m |-> IF rest[j] = -1 THEN x ELSE rest[j]]
    BY <1>1 DEF Filled
  <1> QED  BY <1>2, <1>3

LEMMA InfersAlike ==
    ASSUME NEW s \in Arrays, NEW target \in Seq(Int), WellFormed(target),
           NEW k \in Nat, k = KeptAxes(target), k <= Len(s),
           NEW m \in Nat, Len(target) = k + m, NEW rest, rest = Rest(target)
    PROVE  Infers(kept(target, s)) <=> Infers(rest)
  <1> DEFINE full == kept(target, s)
  <1>1. /\ full = [i \in 1..(k + m) |-> full[i]]
        /\ \A i \in 1..k : full[i] = s[i] /\ s[i] \in Dims
        /\ \A j \in 1..m : full[k + j] = rest[j]
        /\ \A i \in 1..(k + m) : i > k => i - k \in 1..m
    BY KeptFacts
  <1>2. rest = [j \in 1..m |-> rest[j]]
    BY RestFacts
  <1> HIDE DEF full
  <1>3. DOMAIN full = 1..(k + m) /\ DOMAIN rest = 1..m
    BY <1>1, <1>2
  <1>4. ASSUME NEW i \in 1..(k + m), full[i] = -1 PROVE \E j \in 1..m : rest[j] = -1
    <2>1. ASSUME i <= k PROVE FALSE
      <3>1. i \in 1..k
        BY <2>1
      <3>2. \A d \in Dims : d # -1
        BY DEF Dims
      <3>3. full[i] \in Dims
        BY <1>1, <3>1
      <3> QED  BY <1>4, <3>2, <3>3
    <2>2. i - k \in 1..m /\ k + (i - k) = i
      BY <1>1, <2>1
    <2>3. full[k + (i - k)] = rest[i - k]
      BY <1>1, <2>2
    <2>4. rest[i - k] = -1
      BY <1>4, <2>2, <2>3
    <2> QED  BY <2>2, <2>4
  <1>5. ASSUME NEW j \in 1..m, rest[j] = -1 PROVE \E i \in 1..(k + m) : full[i] = -1
    <2>1. k + j \in 1..(k + m)
      OBVIOUS
    <2> QED  BY <1>1, <1>5, <2>1
  <1> QED  BY <1>3, <1>4, <1>5 DEF Infers, full

-----------------------------------------------------------------------------
(* What a target keeps of a shape, and what it makes something else of.      *)
KeptPart(target, s) == SubSeq(s, 1, KeptAxes(target))
FreePart(target, s) == SubSeq(s, KeptAxes(target) + 1, Len(s))

LEMMA ReshapeParts ==
    ASSUME NEW s \in Arrays, NEW target \in Seq(Int), WellFormed(target),
           KeptAxes(target) <= Len(s)
    PROVE  /\ Size(KeptPart(target, s)) \in Dims /\ Size(FreePart(target, s)) \in Dims
           /\ SizeBut(-1, Rest(target)) \in Dims
           /\ Size(s) = Size(KeptPart(target, s)) * Size(FreePart(target, s))
           /\ SizeBut(-1, kept(target, s)) = Size(KeptPart(target, s)) * SizeBut(-1, Rest(target))
           /\ ~Infers(Rest(target)) => SizeBut(-1, Rest(target)) = Size(Rest(target))
           /\ Infers(kept(target, s)) <=> Infers(Rest(target))
  <1> DEFINE k == KeptAxes(target)  m == Len(target) - k  rest == Rest(target)
             P == Size(SubSeq(s, 1, k))  T == Size(SubSeq(s, k + 1, Len(s)))
             K == SizeBut(-1, rest)
  <1>a. k \in Nat /\ m \in Nat /\ Len(target) = k + m
    BY KeptAxesFacts
  <1> HIDE DEF m
  <1>b. k = KeptAxes(target) /\ rest = Rest(target) /\ k <= Len(s)
    OBVIOUS
  <1>c. P = Size(SubSeq(s, 1, k)) /\ T = Size(SubSeq(s, k + 1, Len(s))) /\ K = SizeBut(-1, rest)
    OBVIOUS
  <1>d. P = Size(KeptPart(target, s)) /\ T = Size(FreePart(target, s))
    BY DEF KeptPart, FreePart
  <1> HIDE DEF k, rest, P, T, K
  <1> DEFINE head == SubSeq(s, 1, k)  from == SubSeq(s, k + 1, Len(s))
             full == kept(target, s)  ones == Filled(rest, 1)  both == Filled(full, 1)
  <1>1. Len(s) \in Nat /\ s \in DShapes /\ Fits(s, s)
    BY ArrayFacts, FitsItself
  <1>2. head \in Arrays /\ Len(head) = k /\ \A i \in 1..k : head[i] = s[i]
    BY <1>1, <1>a, <1>b, FirstFits
  <1>3. /\ from \in Arrays /\ Len(from) = Len(s) + 1 - (k + 1)
        /\ \A i \in 1..(Len(s) + 1 - (k + 1)) : from[i] = s[i + (k + 1) - 1]
    <2>1. k + 1 \in Nat /\ 1 <= k + 1 /\ k + 1 <= Len(s) + 1 /\ Len(s) <= Len(s)
      BY <1>1, <1>a, <1>b
    <2> QED  BY <1>1, <1>a, <2>1, PartFits
  <1>4. 1 \in Dims
    BY DEF Dims
  <1>5. ones \in Arrays /\ Len(ones) = m /\ both = head \o ones
    <2>1. /\ Filled(rest, 1) \in Arrays /\ Len(Filled(rest, 1)) = Len(rest)
          /\ Filled(kept(target, s), 1) = SubSeq(s, 1, k) \o Filled(rest, 1)
      BY <1>4, <1>b, FilledWhole
    <2>2. Len(rest) = m
      BY <1>a, <1>b, RestFacts
    <2> QED  BY <2>1, <2>2
  <1>6. K = Size(ones) /\ SizeBut(-1, full) = Size(both)
    BY <1>c DEF SizeBut, Filled
  <1>7. ~Infers(rest) => K = Size(rest)
    <2>1. rest = [j \in 1..m |-> rest[j]]
      BY <1>a, <1>b, RestFacts
    <2>2. ~Infers(rest) => ones = rest
      BY <1>a, <2>1, NothingToFill
    <2> QED  BY <1>6, <2>2
  <1> HIDE DEF head, from, full, ones, both
  <1>8. P \in Dims /\ T \in Dims /\ K \in Dims
    BY <1>2, <1>3, <1>5, <1>6, <1>c, SizeIsPositive DEF head, from
  <1>9. s \in Seq(Int) /\ head \in Seq(Int) /\ from \in Seq(Int) /\ ones \in Seq(Int)
    BY <1>2, <1>3, <1>5, SizeIsPositive
  <1>10. Size(s) = P * T
    <2>1. Len(s) = Len(head) + Len(from)
      BY <1>1, <1>2, <1>3, <1>a
    <2>2. \A j \in 1..Len(from) : s[Len(head) + j] = from[j]
      <3> TAKE j \in 1..Len(from)
      <3>1. j \in 1..(Len(s) + 1 - (k + 1)) /\ j + (k + 1) - 1 = k + j
        BY <1>1, <1>3, <1>a
      <3> QED  BY <1>2, <1>3, <3>1
    <2>3. \A i \in 1..Len(head) : s[i] = head[i]
      BY <1>2
    <2>4. Size(s) = Size(head) * Size(from)
      BY <1>9, <2>1, <2>2, <2>3, SizeOfParts, ZenonT(40)
    <2> QED  BY <2>4, <1>c DEF head, from
  <1>11. SizeBut(-1, full) = P * K
    <2>1. /\ both \in Seq(Dims) /\ Len(both) = k + m
          /\ \A i \in 1..(k + m) : both[i] = IF i <= k THEN head[i] ELSE ones[i - k]
      <3>1. head \in Seq(Dims) /\ ones \in Seq(Dims) /\ Len(head) = k /\ Len(ones) = m
        BY <1>2, <1>5 DEF Arrays
      <3>2. /\ head \o ones \in Seq(Dims) /\ Len(head \o ones) = k + m
            /\ \A i \in 1..(k + m) : (head \o ones)[i] = IF i <= k THEN head[i] ELSE ones[i - k]
        <4>1. /\ head \o ones \in Seq(Dims) /\ Len(head \o ones) = Len(head) + Len(ones)
              /\ \A i \in 1..(Len(head) + Len(ones)) :
                    (head \o ones)[i] = IF i <= Len(head) THEN head[i] ELSE ones[i - Len(head)]
          BY <3>1, ConcatProperties
        <4> QED  BY <3>1, <4>1
      <3> QED  BY <1>5, <3>2
    <2>2. both \in Seq(Int)
      BY <2>1, SizeIsPositive DEF Arrays
    <2>3. Len(both) = Len(head) + Len(ones)
      BY <1>2, <1>5, <2>1
    <2>4. \A i \in 1..Len(head) : both[i] = head[i]
      <3> TAKE i \in 1..Len(head)
      <3>1. i \in 1..(k + m) /\ i <= k
        BY <1>2, <1>a
      <3> QED  BY <2>1, <3>1
    <2>5. \A j \in 1..Len(ones) : both[Len(head) + j] = ones[j]
      <3> TAKE j \in 1..Len(ones)
      <3>1. k + j \in 1..(k + m) /\ ~ (k + j <= k) /\ (k + j) - k = j
        BY <1>5, <1>a
      <3> QED  BY <1>2, <2>1, <3>1
    <2>6. Size(both) = Size(head) * Size(ones)
      BY <1>9, <2>2, <2>3, <2>4, <2>5, SizeOfParts, ZenonT(40)
    <2> QED  BY <1>6, <1>c, <2>6 DEF head
  <1>12. Infers(full) <=> Infers(rest)
    BY <1>a, <1>b, InfersAlike DEF full
  <1> QED  BY <1>7, <1>8, <1>10, <1>11, <1>12, <1>b, <1>c, <1>d DEF full, K, rest

-----------------------------------------------------------------------------
(* The parts of an array and of what was described, alike.                  *)
LEMMA PartsFit ==
    ASSUME NEW c \in Arrays, NEW d \in DShapes, Fits(c, d), NEW target \in Seq(Int),
           KeptAxes(target) <= Len(d)
    PROVE  /\ KeptPart(target, c) \in Arrays /\ KeptPart(target, d) \in DShapes
           /\ Fits(KeptPart(target, c), KeptPart(target, d))
           /\ FreePart(target, c) \in Arrays /\ FreePart(target, d) \in DShapes
           /\ Fits(FreePart(target, c), FreePart(target, d))
           /\ Concrete(d) => Concrete(FreePart(target, d))
  <1> DEFINE k == KeptAxes(target)
  <1>1. k \in Nat
    BY KeptAxesFacts
  <1> HIDE DEF k
  <1>2. Len(c) \in Nat /\ Len(d) = Len(c) /\ k <= Len(c)
    BY FitsFacts DEF k
  <1>3. /\ SubSeq(c, 1, k) \in Arrays /\ SubSeq(d, 1, k) \in DShapes
        /\ Fits(SubSeq(c, 1, k), SubSeq(d, 1, k))
    BY <1>1, <1>2, FirstFits
  <1>4. k + 1 \in Nat /\ 1 <= k + 1 /\ k + 1 <= Len(c) + 1 /\ Len(c) <= Len(c)
    BY <1>1, <1>2
  <1>5. /\ SubSeq(c, k + 1, Len(c)) \in Arrays /\ SubSeq(d, k + 1, Len(c)) \in DShapes
        /\ Fits(SubSeq(c, k + 1, Len(c)), SubSeq(d, k + 1, Len(c)))
        /\ Len(SubSeq(d, k + 1, Len(c))) = Len(c) + 1 - (k + 1)
        /\ \A i \in 1..(Len(c) + 1 - (k + 1)) :
              i + (k + 1) - 1 \in 1..Len(c) /\ SubSeq(d, k + 1, Len(c))[i] = d[i + (k + 1) - 1]
    BY <1>2, <1>4, PartFits
  <1>6. Concrete(d) => Concrete(SubSeq(d, k + 1, Len(c)))
    <2>1. DOMAIN d = 1..Len(c)
      BY <1>2, ShapeFacts
    <2>2. DOMAIN SubSeq(d, k + 1, Len(c)) = 1..(Len(c) + 1 - (k + 1))
      BY <1>5, ShapeFacts
    <2> QED  BY <1>5, <2>1, <2>2 DEF Concrete
  <1> QED  BY <1>2, <1>3, <1>5, <1>6 DEF KeptPart, FreePart, k

(* The dimensions of a concrete shape, none of them to be left out.         *)
LEMMA ConcreteSize ==
    ASSUME NEW s \in Arrays
    PROVE  SizeBut(Symbolic, s) = Size(s)
  <1>1. DOMAIN s = 1..Len(s) /\ \A i \in 1..Len(s) : s[i] # 0
    BY ArrayFacts
  <1>2. s = [i \in DOMAIN s |-> s[i]]
    BY DEF Arrays
  <1>3. [i \in DOMAIN s |-> IF s[i] = Symbolic THEN 1 ELSE s[i]] = s
    BY <1>1, <1>2 DEF Symbolic
  <1> QED  BY <1>3 DEF SizeBut

(* What the engine answers, told by the parts.                              *)
LEMMA ReshapedIs ==
    ASSUME NEW c, c.shape \in Arrays, NEW target \in Seq(Int), WellFormed(target),
           KeptAxes(target) <= Len(c.shape),
           NEW P, P = Size(KeptPart(target, c.shape)), NEW T, T = Size(FreePart(target, c.shape)),
           NEW K, K = SizeBut(-1, Rest(target))
    PROVE  Reshaped(c, target) =
             IF ~Infers(Rest(target))
             THEN When(P * T = P * K, Value(kept(target, c.shape), c.dtype))
             ELSE IF P * K > 0 /\ (P * T) % (P * K) = 0
                  THEN Value(Filled(kept(target, c.shape), (P * T) \div (P * K)), c.dtype)
                  ELSE Refused
  <1>1. /\ Size(c.shape) = P * T /\ SizeBut(-1, kept(target, c.shape)) = P * K
        /\ Infers(kept(target, c.shape)) <=> Infers(Rest(target))
    BY ReshapeParts
  <1>2. KeptAxes(target) \in 0..Len(target)
    BY KeptAxesFacts
  <1>3. \A i \in (KeptAxes(target) + 1)..Len(target) : target[i] # 0
    BY DEF WellFormed
  <1>4. ~ (\E i \in DOMAIN target : target[i] = 0 /\ i > RankOf(c))
    <2> SUFFICES ASSUME NEW i \in DOMAIN target, target[i] = 0 PROVE ~ (i > Len(c.shape))
      BY DEF RankOf
    <2>1. i \in 1..Len(target) /\ Len(target) \in Nat /\ Len(c.shape) \in Nat
      BY ArrayFacts
    <2>2. i > KeptAxes(target) => i \in (KeptAxes(target) + 1)..Len(target)
      BY <1>2, <2>1
    <2>3. ~ (i > KeptAxes(target))
      BY <1>3, <2>2
    <2> QED  BY <1>2, <2>1, <2>3
  <1> DEFINE full == kept(target, c.shape)
  <1>5. full = kept(target, c.shape)
    OBVIOUS
  <1> HIDE DEF full
  <1>6. Reshaped(c, target) =
             IF ~Infers(full)
             THEN When(Size(c.shape) = SizeBut(-1, full), Value(full, c.dtype))
             ELSE IF SizeBut(-1, full) > 0 /\ Size(c.shape) % SizeBut(-1, full) = 0
                  THEN Value(Filled(full, Size(c.shape) \div SizeBut(-1, full)), c.dtype)
                  ELSE Refused
    BY <1>4, <1>5 DEF Reshaped
  <1>7. Size(c.shape) = P * T /\ SizeBut(-1, full) = P * K /\ (Infers(full) <=> Infers(Rest(target)))
    BY <1>1, <1>5
  <1> QED  BY <1>5, <1>6, <1>7, Zenon

-----------------------------------------------------------------------------
(* What the description answers, told by the parts.                         *)
LEMMA ReshapeRuleIs ==
    ASSUME NEW d, NEW target, ReshapeRule(d, target) # Refused,
           NEW from, from = FreePart(target, d.shape), NEW rest, rest = Rest(target),
           NEW K, K = SizeBut(-1, rest), NEW total, total = SizeBut(Symbolic, from)
    PROVE  /\ WellFormed(target) /\ KeptAxes(target) <= Len(d.shape)
           /\ ~Concrete(from) => Infers(rest) /\ total = K
           /\ Concrete(from) => IF Infers(rest) THEN total % K = 0 ELSE total = K
           /\ ReshapeRule(d, target) =
                 Value(KeptPart(target, d.shape)
                           \o Filled(rest, IF Concrete(from) THEN total \div K ELSE Symbolic),
                       d.dtype)
  BY DEF ReshapeRule, FreePart, KeptPart, Rest

(* A shape of what is kept and what is filled in.                           *)
LEMMA RefilledStands ==
    ASSUME NEW c, NEW d, Stands(c, d), NEW target \in Seq(Int), WellFormed(target),
           KeptAxes(target) <= Len(d.shape), NEW x \in Dims, NEW y \in {0, x}
    PROVE  /\ Stands(Value(KeptPart(target, c.shape) \o Filled(Rest(target), x), c.dtype),
                     Value(KeptPart(target, d.shape) \o Filled(Rest(target), y), d.dtype))
           /\ Filled(kept(target, c.shape), x) = KeptPart(target, c.shape) \o Filled(Rest(target), x)
           /\ Value(KeptPart(target, c.shape) \o Filled(Rest(target), x), c.dtype) # Refused
  <1> DEFINE rest == Rest(target)  a == Filled(rest, x)  b == Filled(rest, y)
             hc == KeptPart(target, c.shape)  hd == KeptPart(target, d.shape)
  <1>1. /\ c.shape \in Arrays /\ d.shape \in DShapes /\ Fits(c.shape, d.shape)
        /\ Len(c.shape) = Len(d.shape) /\ c.dtype \in Dtypes /\ d.dtype \in Dtypes
        /\ d.dtype \in Floats => c.dtype \in Floats
    BY StandsFacts
  <1>2. hc \in Arrays /\ hd \in DShapes /\ Fits(hc, hd)
    BY <1>1, PartsFit
  <1>3. PICK m \in Nat : Len(target) = KeptAxes(target) + m
    <2>1. Len(target) - KeptAxes(target) \in Nat
      BY KeptAxesFacts
    <2>2. Len(target) = KeptAxes(target) + (Len(target) - KeptAxes(target))
      BY KeptAxesFacts
    <2> QED  BY <2>1, <2>2
  <1>4. KeptAxes(target) \in Nat
    BY KeptAxesFacts
  <1>5. /\ rest = [j \in 1..m |-> rest[j]] /\ Len(rest) = m
        /\ \A j \in 1..m : rest[j] \in Int /\ rest[j] # 0 /\ rest[j] >= -1
    BY <1>3, <1>4, RestFacts
  <1> HIDE DEF rest
  <1>6. a \in Arrays /\ b \in DShapes /\ Fits(a, b)
    BY <1>5, FilledFits
  <1>7. Filled(kept(target, c.shape), x) = hc \o a
    BY <1>1, FilledWhole DEF KeptPart, rest
  <1> HIDE DEF a, b, hc, hd
  <1>8. hc \o a \in Arrays /\ hd \o b \in DShapes /\ Fits(hc \o a, hd \o b)
    BY <1>2, <1>6, JoinFits
  <1>9. Stands(Value(hc \o a, c.dtype), Value(hd \o b, d.dtype)) /\ Value(hc \o a, c.dtype) # Refused
    BY <1>1, <1>8, ValueStands
  <1> QED  BY <1>7, <1>9 DEF a, b, hc, hd, rest

LEMMA ReshapeStands ==
    ASSUME NEW c, NEW d, Stands(c, d), NEW target \in Seq(Int), ReshapeRule(d, target) # Refused
    PROVE  /\ Reshaped(c, target) # Refused =>
                 Stands(Reshaped(c, target), ReshapeRule(d, target))
           /\ Concrete(d.shape) => Reshaped(c, target) # Refused
  <1> DEFINE from == FreePart(target, d.shape)  rest == Rest(target)  K == SizeBut(-1, rest)
             total == SizeBut(Symbolic, from)
             P == Size(KeptPart(target, c.shape))  T == Size(FreePart(target, c.shape))
             y == IF Concrete(from) THEN total \div K ELSE Symbolic
             rule == ReshapeRule(d, target)  made == Reshaped(c, target)
             Of(x) == Value(KeptPart(target, c.shape) \o Filled(rest, x), c.dtype)
  <1>1. /\ WellFormed(target) /\ KeptAxes(target) <= Len(d.shape)
        /\ ~Concrete(from) => Infers(rest) /\ total = K
        /\ Concrete(from) => IF Infers(rest) THEN total % K = 0 ELSE total = K
        /\ rule = Value(KeptPart(target, d.shape) \o Filled(rest, y), d.dtype)
    BY ReshapeRuleIs
  <1>2. /\ c.shape \in Arrays /\ d.shape \in DShapes /\ Fits(c.shape, d.shape)
        /\ Len(c.shape) = Len(d.shape)
    BY StandsFacts
  <1>3. /\ FreePart(target, c.shape) \in Arrays /\ from \in DShapes
        /\ Fits(FreePart(target, c.shape), from)
        /\ Concrete(d.shape) => Concrete(from)
    BY <1>1, <1>2, PartsFit
  <1>4. Concrete(from) => total = T
    <2>1. Concrete(from) => from = FreePart(target, c.shape)
      BY <1>3, FitsFacts
    <2> QED  BY <1>3, <2>1, ConcreteSize
  <1>5. /\ P \in Dims /\ T \in Dims /\ K \in Dims
    BY <1>1, <1>2, ReshapeParts
  <1>6. made = IF ~Infers(rest)
               THEN When(P * T = P * K, Value(kept(target, c.shape), c.dtype))
               ELSE IF P * K > 0 /\ (P * T) % (P * K) = 0
                    THEN Value(Filled(kept(target, c.shape), (P * T) \div (P * K)), c.dtype)
                    ELSE Refused
    BY <1>1, <1>2, ReshapedIs
  <1>7. \A x \in Dims : \A z \in {0, x} :
            /\ Stands(Of(x), Value(KeptPart(target, d.shape) \o Filled(rest, z), d.dtype))
            /\ Filled(kept(target, c.shape), x) = KeptPart(target, c.shape) \o Filled(rest, x)
            /\ Of(x) # Refused
    BY <1>1, RefilledStands
  <1>8. P * T \in Dims /\ P * K \in Dims
    BY <1>5, Positive
  <1>9. \A x \in Dims : /\ y \in {0, x} => Stands(Of(x), rule)
                        /\ Value(Filled(kept(target, c.shape), x), c.dtype) = Of(x)
                        /\ Of(x) # Refused
    BY <1>1, <1>7
  <1>10. 1 \in Dims
    BY DEF Dims
  <1>11. ASSUME ~Infers(rest)
         PROVE  \A x : /\ Filled(rest, x) = rest
                     /\ Filled(kept(target, c.shape), x) = kept(target, c.shape)
    <2>1. Infers(kept(target, c.shape)) <=> Infers(rest)
      BY <1>1, <1>2, ReshapeParts
    <2> DEFINE k == KeptAxes(target)  m == Len(target) - k  full == kept(target, c.shape)
    <2>2. k \in Nat /\ m \in Nat /\ Len(target) = k + m /\ k + m \in Nat
      BY KeptAxesFacts
    <2> HIDE DEF m
    <2>3. k = KeptAxes(target) /\ k <= Len(c.shape)
      BY <1>1, <1>2
    <2> HIDE DEF k
    <2>4. rest = [j \in 1..m |-> rest[j]]
      BY <1>1, <2>2, <2>3, RestFacts
    <2>5. full = [i \in 1..(k + m) |-> full[i]]
      <3>1. DOMAIN target = 1..(k + m)
        BY <2>2
      <3> QED  BY <3>1 DEF kept
    <2> HIDE DEF full, rest
    <2>6. \A x : Filled(rest, x) = rest
      BY <1>11, <2>2, <2>4, NothingToFill
    <2>7. ~Infers(full)
      BY <1>11, <2>1 DEF full
    <2>8. \A x : Filled(full, x) = full
      BY <2>2, <2>5, <2>7, NothingToFill
    <2> QED  BY <2>6, <2>8 DEF full
  <1> HIDE DEF from, rest, K, total, P, T, y, rule, made
  <1>12. CASE ~Infers(rest)
    <2>1. Concrete(from) /\ T = K
      BY <1>1, <1>4, <1>12
    <2>2. made = Value(kept(target, c.shape), c.dtype)
      BY <1>6, <1>12, <2>1 DEF When
    <2>3. made = Of(1)
      BY <1>9, <1>10, <1>11, <1>12, <2>2
    <2>4. rule = Value(KeptPart(target, d.shape) \o Filled(rest, 1), d.dtype)
      BY <1>1, <1>11, <1>12
    <2>5. Stands(made, rule) /\ made # Refused
      BY <1>7, <1>10, <2>3, <2>4
    <2> QED  BY <2>5 DEF made, rule
  <1>13. CASE Infers(rest) /\ Concrete(from)
    <2>1. total = T /\ T % K = 0 /\ y = T \div K
      BY <1>1, <1>4, <1>13 DEF y
    <2>2. (P * T) % (P * K) = 0 /\ (P * T) \div (P * K) = T \div K
      BY <1>5, <2>1, FactorDivides
    <2>3. T \div K \in Dims
      BY <1>5, <2>1, DividesFacts
    <2>4. P * K > 0
      BY <1>8 DEF Dims
    <2>5. made = Value(Filled(kept(target, c.shape), T \div K), c.dtype)
      BY <1>6, <1>13, <2>2, <2>4
    <2>6. made = Of(T \div K) /\ Stands(made, rule) /\ made # Refused
      BY <1>9, <2>1, <2>3, <2>5
    <2> QED  BY <2>6 DEF made, rule
  <1>14. CASE Infers(rest) /\ ~Concrete(from)
    <2>1. y = 0
      BY <1>14 DEF y, Symbolic
    <2>2. ASSUME made # Refused PROVE Stands(made, rule)
      <3>1. /\ (P * T) % (P * K) = 0
            /\ made = Value(Filled(kept(target, c.shape), (P * T) \div (P * K)), c.dtype)
        BY <1>6, <1>14, <2>2
      <3>2. (P * T) \div (P * K) \in Dims
        BY <1>8, <3>1, DividesFacts
      <3> QED  BY <1>9, <2>1, <3>1, <3>2
    <2> QED  BY <1>3, <1>14, <2>2 DEF made, rule
  <1> QED  BY <1>12, <1>13, <1>14

-----------------------------------------------------------------------------
(* One node: what the engine computes of what it reads stands for what the  *)
(* description inferred of what is read there.                              *)

(* The values read stand for the described ones, one by one.                *)
Reads(n, cs, ds) ==
    /\ n \in Nat /\ Len(cs) = n /\ Len(ds) = n /\ DOMAIN ds = 1..n
    /\ \A k \in 1..n : Stands(cs[k], ds[k])

AllConcrete(n, ds) == \A k \in 1..n : Concrete(ds[k].shape)

Answered(made, rule, n, ds) ==
    /\ made # Refused => Stands(made, rule)
    /\ AllConcrete(n, ds) => made # Refused

LEMMA SurelyAnswered ==
    ASSUME NEW made, NEW rule, NEW n, NEW ds, made # Refused, Stands(made, rule)
    PROVE  Answered(made, rule, n, ds)
  BY DEF Answered

LEMMA SameAsInputIs ==
    ASSUME NEW ds, SameAsInput(ds) # Refused
    PROVE  SameAsInput(ds) = ds[1]
  <1>1. OneDtype(ds) \in BOOLEAN
    BY DEF OneDtype
  <1> QED  BY <1>1, WhenFacts DEF SameAsInput

(* The ops whose answer has the shape of their input.                       *)
LEMMA UnaryAnswered ==
    ASSUME NEW op, op \in {"neg", "exp", "add_scalar", "dropout", "softmax", "rope"},
           NEW attr, NEW n, n = 1, NEW cs, NEW ds, Reads(n, cs, ds), NEW drawn \in BOOLEAN,
           Infer(op, attr, ds) # Refused, ~LeftUnlooked(op, attr, ds)
    PROVE  Answered(Apply(op, attr, cs, drawn), Infer(op, attr, ds), n, ds)
  <1> DEFINE c == cs[1]  d == ds[1]  made == Apply(op, attr, cs, drawn)
  <1>1. Stands(c, d)
    BY DEF Reads
  <1>2. Infer(op, attr, ds) = SameAsInput(ds)
    BY DEF Infer
  <1>3. Infer(op, attr, ds) = d
    BY <1>2, SameAsInputIs
  <1>4. /\ c.dtype \in Dtypes /\ d.dtype \in Dtypes /\ (d.dtype \in Floats => c.dtype \in Floats)
    BY <1>1, StandsFacts
  <1>5. /\ c = Value(c.shape, c.dtype) /\ c # Refused /\ Len(c.shape) = Len(d.shape)
    BY <1>1, StandsFacts
  <1> DEFINE p == AtLeastFloat(c.dtype)  q == Promote(c.dtype, F32)
  <1>6. p \in Dtypes /\ p \in Floats
    BY <1>4 DEF AtLeastFloat, Dtypes, Floats, Bool, I32, BF16, F32
  <1>7. q \in Dtypes /\ q \in Floats
    BY <1>4 DEF Promote, Greater, Dtypes, Floats, Bool, I32, BF16, F32
  <1> HIDE DEF p, q
  <1>8. Stands(Value(c.shape, p), d) /\ Value(c.shape, p) # Refused
    BY <1>1, <1>6, SameStands
  <1>9. Stands(Value(c.shape, q), d) /\ Value(c.shape, q) # Refused
    BY <1>1, <1>7, SameStands
  <1>10. CASE op = "neg"
    <2>1. made = c
      BY <1>10 DEF Apply
    <2> QED  BY <1>1, <1>3, <1>5, <2>1, SurelyAnswered
  <1>11. CASE op = "exp"
    <2>1. made = Value(c.shape, p)
      BY <1>11 DEF Apply, p
    <2> QED  BY <1>3, <1>8, <2>1, SurelyAnswered
  <1>12. CASE op = "add_scalar"
    <2>1. made = Value(c.shape, q)
      BY <1>12 DEF Apply, WithNumber, q
    <2> QED  BY <1>3, <1>9, <2>1, SurelyAnswered
  <1>13. CASE op = "dropout"
    <2>1. made = Value(c.shape, q) \/ made = c
      BY <1>13 DEF Apply, WithNumber, q
    <2> QED  BY <1>1, <1>3, <1>5, <1>9, <2>1, SurelyAnswered
  <1>14. CASE op = "softmax"
    <2>1. AxisIn(attr[1], RankOf(d))
      BY <1>14 DEF LeftUnlooked
    <2>2. AxisIn(attr[1], RankOf(c))
      BY <1>5, <2>1 DEF RankOf
    <2>3. made = When(AxisIn(attr[1], RankOf(c)), Value(c.shape, p))
      BY <1>14 DEF Apply, p
    <2>4. made = Value(c.shape, p)
      BY <2>2, <2>3 DEF When
    <2> QED  BY <1>3, <1>8, <2>4, SurelyAnswered
  <1>15. CASE op = "rope"
    <2>1. /\ RankOf(d) >= 2 /\ LastOf(d.shape) # Symbolic /\ LastOf(d.shape) % 2 = 0
          /\ attr[1] \in {0, LastOf(d.shape) \div 2}
      <3>1. ~ (RankOf(d) < 2)
        BY <1>15 DEF LeftUnlooked
      <3>2. RankOf(d) \in Nat
        BY <1>1, StandsFacts DEF RankOf
      <3>3. /\ LastOf(d.shape) # Symbolic /\ LastOf(d.shape) % 2 = 0
            /\ attr[1] \in {0, LastOf(d.shape) \div 2}
        BY <1>15 DEF LeftUnlooked
      <3> QED  BY <3>1, <3>2, <3>3
    <2>2. made = rope(c, attr[1])
      BY <1>15 DEF Apply
    <2>3. made # Refused /\ Stands(made, d)
      BY <1>1, <2>1, <2>2, RopeStands
    <2> QED  BY <1>3, <2>3, SurelyAnswered
  <1> QED  BY <1>10, <1>11, <1>12, <1>13, <1>14, <1>15

(* The ops that give a shape of their own.                                  *)
SlicesUnknown(op, attr, ds) ==
    op = "slice" /\ ds[1].shape[AxisAt(attr[1], RankOf(ds[1]))] = Symbolic

LEMMA ShapingAnswered ==
    ASSUME NEW op, op \in {"reshape", "transpose", "slice", "mean", "sum", "cast"},
           NEW declares, NEW attr, Attributed(op, attr, declares),
           NEW n, n = 1, NEW cs, NEW ds, Reads(n, cs, ds), NEW drawn \in BOOLEAN,
           Infer(op, attr, ds) # Refused
    PROVE  /\ Answered(Apply(op, attr, cs, drawn), Infer(op, attr, ds), n, ds)
           /\ Strays(op, attr, cs) => SlicesUnknown(op, attr, ds)
  <1> DEFINE c == cs[1]  d == ds[1]  made == Apply(op, attr, cs, drawn)  rule == Infer(op, attr, ds)
  <1>1. Stands(c, d) /\ attr \in Seq(Int) /\ (AllConcrete(n, ds) <=> Concrete(d.shape))
    BY DEF Reads, Attributed, AllConcrete
  <1>2. op # "slice" => ~Strays(op, attr, cs)
    BY DEF Strays
  <1>3. /\ c.dtype \in Dtypes /\ d.dtype \in Dtypes /\ (d.dtype \in Floats => c.dtype \in Floats)
        /\ c.shape \in Arrays /\ d.shape \in DShapes /\ Fits(c.shape, d.shape)
        /\ Len(c.shape) = Len(d.shape)
    BY <1>1, StandsFacts
  <1>4. CASE op = "reshape"
    <2>1. made = Reshaped(c, attr) /\ rule = ReshapeRule(d, attr)
      BY <1>4 DEF Apply, Infer
    <2>2. /\ made # Refused => Stands(made, rule)
          /\ Concrete(d.shape) => made # Refused
      BY <1>1, <2>1, ReshapeStands
    <2> QED  BY <1>1, <1>2, <1>4, <2>2 DEF Answered
  <1>5. CASE op = "transpose"
    <2>1. made = TransposeRule(c, attr) /\ rule = TransposeRule(d, attr)
      BY <1>5 DEF Apply, Infer
    <2>2. made # Refused /\ Stands(made, rule)
      BY <1>1, <2>1, TransposeStands
    <2> QED  BY <1>2, <1>5, <2>2, SurelyAnswered
  <1>6. CASE op = "slice"
    <2>1. made = slice(c, attr[1], attr[2], attr[3]) /\ rule = SliceRule(d, attr[1], attr[2], attr[3])
      BY <1>6 DEF Apply, Infer
    <2>2. attr[1] \in Int /\ attr[2] \in Int /\ attr[3] \in Int
      <3>1. Len(attr) = 3
        BY <1>6 DEF Attributed
      <3>2. DOMAIN attr = 1..3 /\ attr \in Seq(Int)
        BY <1>1, <3>1
      <3> HIDE DEF c, d, made, rule
      <3> QED  BY <3>2
    <2>3. /\ made # Refused /\ Stands(made, rule)
          /\ attr[2] + attr[3] > c.shape[AxisAt(attr[1], RankOf(c))] =>
                d.shape[AxisAt(attr[1], RankOf(d))] = Symbolic
      BY <1>1, <2>1, <2>2, SliceStands
    <2>4. Strays(op, attr, cs) => SlicesUnknown(op, attr, ds)
      BY <2>3 DEF Strays, SlicesUnknown
    <2> QED  BY <1>1, <2>3, <2>4, SurelyAnswered
  <1>7. CASE op \in {"mean", "sum"}
    <2> DEFINE axes == AxesOf(attr, d)  keep == KeepsFlag(attr)
               p == IF op = "mean" THEN AtLeastFloat(c.dtype) ELSE Promote(I32, c.dtype)
    <2>1. axes = AxesOf(attr, c)
      BY <1>3 DEF AxesOf, RankOf
    <2>2. keep \in BOOLEAN
      BY DEF KeepsFlag
    <2>3. made = ReduceRule(Value(c.shape, p), AxesOf(attr, c), keep)
      <3>1. CASE op = "mean"
        BY <3>1 DEF Apply
      <3>2. CASE op = "sum"
        BY <3>2 DEF Apply
      <3> QED  BY <1>7, <3>1, <3>2
    <2>4. rule = ReduceRule(d, axes, keep)
      BY <1>7 DEF Infer
    <2>5. p \in Dtypes /\ (d.dtype \in Floats => p \in Floats)
      BY <1>3, Promotions
    <2> HIDE DEF axes, keep, p
    <2>6. made # Refused /\ Stands(made, rule)
      BY <1>1, <2>1, <2>2, <2>3, <2>4, <2>5, ReduceStands
    <2> QED  BY <1>2, <1>7, <2>6, SurelyAnswered
  <1>8. CASE op = "cast"
    <2>1. made = Value(c.shape, attr[1]) /\ rule = Value(d.shape, attr[1]) /\ attr[1] \in Dtypes
      BY <1>8 DEF Apply, Infer, Attributed
    <2>2. made # Refused /\ Stands(made, rule)
      BY <1>3, <2>1, ValueStands
    <2> QED  BY <1>2, <1>8, <2>2, SurelyAnswered
  <1> QED  BY <1>4, <1>5, <1>6, <1>7, <1>8

-----------------------------------------------------------------------------
(* The ops that read two values, or three, or four.                         *)
LEMMA PairAnswered ==
    ASSUME NEW op, op \in {"add", "div", "matmul", "take", "cross_entropy"},
           NEW attr, NEW n, n = 2, NEW cs, NEW ds, Reads(n, cs, ds), NEW drawn \in BOOLEAN,
           Infer(op, attr, ds) # Refused, ~LeftUnlooked(op, attr, ds)
    PROVE  Answered(Apply(op, attr, cs, drawn), Infer(op, attr, ds), n, ds)
  <1> DEFINE c1 == cs[1]  d1 == ds[1]  c2 == cs[2]  d2 == ds[2]
             made == Apply(op, attr, cs, drawn)  rule == Infer(op, attr, ds)
  <1>1. Stands(c1, d1) /\ Stands(c2, d2)
    BY DEF Reads
  <1>2. AllConcrete(n, ds) => Concrete(d1.shape) /\ Concrete(d2.shape)
    BY DEF AllConcrete
  <1>3. /\ c1.dtype \in Dtypes /\ c2.dtype \in Dtypes
        /\ d1.dtype \in Floats => c1.dtype \in Floats
    BY <1>1, StandsFacts
  <1> DEFINE p == Promote(c1.dtype, c2.dtype)
  <1>4. p \in Dtypes /\ (d1.dtype \in Floats => p \in Floats)
    BY <1>3 DEF Promote, Greater, Dtypes, Floats, Bool, I32, BF16, F32
  <1>5. AtLeastFloat(p) \in Dtypes /\ AtLeastFloat(p) \in Floats
    BY <1>4 DEF AtLeastFloat, Dtypes, Floats, Bool, I32, BF16, F32
  <1> HIDE DEF p
  <1>6. CASE op \in {"add", "div"}
    <2> DEFINE q == IF op = "add" THEN p ELSE AtLeastFloat(p)
    <2>1. made = Arithmetic(c1, c2, q)
      <3>1. CASE op = "add"
        BY <3>1 DEF Apply, p
      <3>2. CASE op = "div"
        BY <3>2 DEF Apply, p
      <3> QED  BY <1>6, <3>1, <3>2
    <2>2. q \in Dtypes /\ (d1.dtype \in Floats => q \in Floats)
      BY <1>4, <1>5
    <2>3. rule = BroadcastRule(ds)
      BY <1>6 DEF Infer
    <2> HIDE DEF q
    <2>4. /\ made # Refused => Stands(made, rule)
          /\ Concrete(d1.shape) /\ Concrete(d2.shape) => made # Refused
      BY <1>1, <2>1, <2>2, <2>3, BroadcastStands
    <2> QED  BY <1>2, <2>4 DEF Answered
  <1>7. CASE op = "matmul"
    <2>1. made = Matmul(c1, c2) /\ rule = MatmulRule(ds)
      BY <1>7 DEF Apply, Infer
    <2>2. /\ Float(d1)
          /\ ~ (RankOf(d2) > 2 /\ TakenForOne(Front2(d1.shape), Front2(d2.shape)))
      BY <1>7 DEF LeftUnlooked
    <2>3. /\ made # Refused => Stands(made, rule)
          /\ Concrete(d1.shape) /\ Concrete(d2.shape) => made # Refused
      BY <1>1, <2>1, <2>2, MatmulStands
    <2> QED  BY <1>2, <2>3 DEF Answered
  <1>8. CASE op = "take"
    <2>1. made = Value(c2.shape \o Tail(c1.shape), c1.dtype) /\ rule = TakeRule(d1, d2)
      BY <1>8 DEF Apply, Infer
    <2>2. made # Refused /\ Stands(made, rule)
      BY <1>1, <2>1, TakeStands
    <2> QED  BY <2>2, SurelyAnswered
  <1>9. CASE op = "cross_entropy"
    <2>1. made = cross_entropy(c1, c2) /\ rule = CrossEntropyRule(d1, d2)
      BY <1>9 DEF Apply, Infer
    <2>2. ~TakenForOne(Front(d1.shape), d2.shape)
      BY <1>9 DEF LeftUnlooked
    <2>3. /\ made # Refused => Stands(made, rule)
          /\ Concrete(d1.shape) /\ Concrete(d2.shape) => made # Refused
      BY <1>1, <2>1, <2>2, CrossEntropyStands
    <2> QED  BY <1>2, <2>3 DEF Answered
  <1> QED  BY <1>6, <1>7, <1>8, <1>9

LEMMA NormAnswered ==
    ASSUME NEW op, op \in {"layer_norm", "rms_norm"},
           NEW attr, NEW n, n \in 2..3, NEW cs, NEW ds, Reads(n, cs, ds), NEW drawn \in BOOLEAN,
           Infer(op, attr, ds) # Refused, ~LeftUnlooked(op, attr, ds)
    PROVE  Answered(Apply(op, attr, cs, drawn), Infer(op, attr, ds), n, ds)
  <1> DEFINE made == Apply(op, attr, cs, drawn)  rule == Infer(op, attr, ds)
  <1>1. made = Normed(cs)
    BY DEF Apply
  <1>2. rule = SameAsInput(ds)
    BY DEF Infer
  <1>3. rule = ds[1]
    BY <1>2, SameAsInputIs
  <1>4. RankOf(ds[1]) # 0 /\ \A i \in 2..Len(ds) : LiesAlong(ds[i], ds[1])
    BY DEF LeftUnlooked
  <1>5. Len(cs) = n /\ Len(ds) = n /\ \A k \in 1..n : Stands(cs[k], ds[k])
    BY DEF Reads
  <1>6. /\ Normed(cs) # Refused => Stands(Normed(cs), ds[1])
        /\ (\A k \in 1..n : Concrete(ds[k].shape)) => Normed(cs) # Refused
    BY <1>4, <1>5, NormStands
  <1> QED  BY <1>1, <1>3, <1>6 DEF Answered, AllConcrete

LEMMA AttentionAnswered ==
    ASSUME NEW declares, NEW attr, Attributed("sdpa", attr, declares),
           NEW n, n \in 3..4, NEW cs, NEW ds, Reads(n, cs, ds), NEW drawn \in BOOLEAN,
           Infer("sdpa", attr, ds) # Refused, ~LeftUnlooked("sdpa", attr, ds)
    PROVE  Answered(Apply("sdpa", attr, cs, drawn), Infer("sdpa", attr, ds), n, ds)
  <1> DEFINE causal == attr[1] = 1
  <1>1. Apply("sdpa", attr, cs, drawn) = sdpa(cs, causal)
    BY DEF Apply
  <1>2. Infer("sdpa", attr, ds) = SdpaRule(ds)
    BY DEF Infer
  <1>3. Float(ds[1]) /\ ~ (Len(ds) = 4 /\ attr[1] = 0)
    BY DEF LeftUnlooked
  <1>4. Len(cs) = n /\ Len(ds) = n /\ \A k \in 1..n : Stands(cs[k], ds[k])
    BY DEF Reads
  <1>5. causal \in BOOLEAN /\ (causal \/ n = 3)
    BY <1>3, <1>4 DEF Attributed
  <1> HIDE DEF causal
  <1>6. /\ sdpa(cs, causal) # Refused => Stands(sdpa(cs, causal), SdpaRule(ds))
        /\ (\A k \in 1..n : Concrete(ds[k].shape)) => sdpa(cs, causal) # Refused
    BY <1>2, <1>3, <1>4, <1>5, SdpaStands
  <1> QED  BY <1>1, <1>2, <1>6 DEF Answered, AllConcrete

(* Every op of the manifest.                                                *)
LEMMA NodeAnswered ==
    ASSUME NEW op \in Ops \ {"parameter"}, NEW declares, NEW attr, Attributed(op, attr, declares),
           NEW n \in InputRange(op), NEW cs, NEW ds, Reads(n, cs, ds), NEW drawn \in BOOLEAN,
           Infer(op, attr, ds) # Refused, ~LeftUnlooked(op, attr, ds)
    PROVE  /\ Answered(Apply(op, attr, cs, drawn), Infer(op, attr, ds), n, ds)
           /\ Strays(op, attr, cs) => SlicesUnknown(op, attr, ds)
  <1>1. op # "slice" => ~Strays(op, attr, cs)
    BY DEF Strays
  <1>2. CASE op \in {"neg", "exp", "add_scalar", "dropout", "softmax", "rope"}
    <2>1. n = 1
      BY <1>2 DEF InputRange, Binary
    <2> QED  BY <1>1, <1>2, <2>1, UnaryAnswered
  <1>3. CASE op \in {"reshape", "transpose", "slice", "mean", "sum", "cast"}
    <2>1. n = 1
      BY <1>3 DEF InputRange, Binary
    <2> QED  BY <1>3, <2>1, ShapingAnswered
  <1>4. CASE op \in {"add", "div", "matmul", "take", "cross_entropy"}
    <2>1. n = 2
      BY <1>4 DEF InputRange, Binary
    <2> QED  BY <1>1, <1>4, <2>1, PairAnswered
  <1>5. CASE op \in {"layer_norm", "rms_norm"}
    <2>1. n \in 2..3
      BY <1>5 DEF InputRange, Binary
    <2> QED  BY <1>1, <1>5, <2>1, NormAnswered
  <1>6. CASE op = "sdpa"
    <2>1. n \in 3..4
      BY <1>6 DEF InputRange, Binary
    <2> QED  BY <1>1, <1>6, <2>1, AttentionAnswered
  <1> QED  BY <1>2, <1>3, <1>4, <1>5, <1>6 DEF Ops

-----------------------------------------------------------------------------
(* A graph of the DSL's is built of nodes a rule accepted, reading what was *)
(* there; a pass computes it over a batch its inputs accepted.              *)

Known == declared \in Declarations /\ training \in BOOLEAN

NodeIsBuilt(i) ==
    /\ Attributed(nodes[i].op, nodes[i].attr, Len(params))
    /\ \E n \in InputRange(nodes[i].op) : nodes[i].ins \in [1..n -> Refs(Len(inputs), i - 1)]
    /\ nodes[i].value = Inferred(nodes[i].op, nodes[i].attr, nodes[i].ins)
    /\ nodes[i].value # Refused
Built == author = "ruby" => \A i \in DOMAIN nodes : NodeIsBuilt(i)

Cleared == phase \in {"describing", "described"} => values = <<>> /\ strays = {} /\ broke = 0

Bound == phase = "running" => bind(given) /\ \A field \in Fields : given[field] \in CValues

StandsSoFar == \A i \in DOMAIN values : SoundUpTo(i) => Stands(values[i], nodes[i].value)

SInv == Known /\ Built /\ Cleared /\ Bound /\ StandsSoFar /\ FailsOnlyOverSymbols

LEMMA InputFacts ==
    ASSUME Known
    PROVE  /\ Len(inputs) \in Nat /\ DOMAIN inputs = 1..Len(inputs)
           /\ \A i \in 1..Len(inputs) : inputs[i].shape \in DShapes /\ inputs[i].dtype \in Dtypes
           /\ Len(params) \in Nat /\ DOMAIN params = 1..Len(params)
           /\ \A i \in 1..Len(params) : params[i] \in CValues
  <1> DEFINE F == {inputs[i].field : i \in DOMAIN inputs}
             R == [field : F, shape : Seq(Nat), dtype : Dtypes]
  <1>1. inputs \in Seq(R) /\ params \in Seq(CValues)
    BY DeclarationsAssumption DEF Known, inputs, params, CValues, Arrays, Dims
  <1>2. \A r \in R : r.shape \in DShapes /\ r.dtype \in Dtypes
    BY DEF DShapes
  <1> HIDE DEF R
  <1>3. /\ Len(inputs) \in Nat /\ DOMAIN inputs = 1..Len(inputs)
        /\ \A i \in 1..Len(inputs) : inputs[i] \in R
    BY <1>1
  <1>4. /\ Len(params) \in Nat /\ DOMAIN params = 1..Len(params)
        /\ \A i \in 1..Len(params) : params[i] \in CValues
    BY <1>1
  <1> QED  BY <1>2, <1>3, <1>4

(* The input a field is checked against is one that reads it.               *)
LEMMA FirstReaderReads ==
    ASSUME Known, NEW i \in DOMAIN inputs, NEW field, inputs[i].field = field
    PROVE  FirstReader(field) \in DOMAIN inputs /\ inputs[FirstReader(field)].field = field
  <1> DEFINE n == Len(inputs)  Readers == {j \in 1..n : inputs[j].field = field}
  <1>1. n \in Nat /\ DOMAIN inputs = 1..n
    BY InputFacts
  <1> HIDE DEF n
  <1>2. i \in Readers /\ Readers \in SUBSET Nat
    BY <1>1
  <1>3. PICK j \in Readers : \A k \in Readers : j <= k
    <2> HIDE DEF Readers
    <2> QED  BY <1>2, LeastOf
  <1>4. \A k \in 1..(j - 1) : inputs[k].field # field
    <2> TAKE k \in 1..(j - 1)
    <2>1. k \in 1..n /\ ~ (j <= k)
      BY <1>1, <1>3
    <2> QED  BY <1>3, <2>1
  <1>5. j \in DOMAIN inputs /\ inputs[j].field = field
    BY <1>1, <1>3
  <1> QED  BY <1>4, <1>5 DEF FirstReader

-----------------------------------------------------------------------------
(* Building.                                                                *)
LEMMA RefFacts ==
    ASSUME NEW m \in Nat, NEW k \in Nat, NEW ref \in Refs(m, k)
    PROVE  /\ ref.id \in Nat
           /\ \/ ref.kind = "input" /\ ref.id + 1 \in 1..m
              \/ ref.kind = "node" /\ ref.id + 1 \in 1..k
  BY DEF Refs, Ref

(* What a reference names is not changed by a node added behind it.         *)
LEMMA DescribedStays ==
    ASSUME Typed, NEW node, nodes' = Append(nodes, node), declared' = declared,
           NEW k \in Nat, k <= Len(nodes), NEW ref \in Refs(Len(inputs), k)
    PROVE  Described(ref)' = Described(ref)
  <1>1. /\ Len(nodes) \in Nat /\ \A i \in 1..Len(nodes) : nodes'[i] = nodes[i]
        /\ Len(inputs) \in Nat
    BY NumberedAppend DEF Typed
  <1>2. /\ ref.id \in Nat
        /\ \/ ref.kind = "input" /\ ref.id + 1 \in 1..Len(inputs)
           \/ ref.kind = "node" /\ ref.id + 1 \in 1..k
    BY <1>1, RefFacts
  <1>3. ref.kind = "node" => nodes'[ref.id + 1] = nodes[ref.id + 1]
    <2>1. ref.kind = "node" => ref.id + 1 \in 1..Len(nodes)
      BY <1>1, <1>2
    <2> QED  BY <1>1, <2>1
  <1>4. inputs' = inputs
    BY DEF inputs
  <1> QED  BY <1>2, <1>3, <1>4 DEF Described

LEMMA InferredStays ==
    ASSUME Typed, NEW node, nodes' = Append(nodes, node), declared' = declared,
           NEW k \in Nat, k <= Len(nodes),
           NEW op, NEW attr, NEW n, NEW ins \in [1..n -> Refs(Len(inputs), k)]
    PROVE  Inferred(op, attr, ins)' = Inferred(op, attr, ins)
  <1>1. \A i \in DOMAIN ins : ins[i] \in Refs(Len(inputs), k)
    OBVIOUS
  <1>2. \A i \in DOMAIN ins : Described(ins[i])' = Described(ins[i])
    BY <1>1, DescribedStays
  <1>3. [i \in DOMAIN ins |-> Described(ins[i])'] = [i \in DOMAIN ins |-> Described(ins[i])]
    BY <1>2
  <1>4. params' = params
    BY DEF params
  <1> QED  BY <1>3, <1>4 DEF Inferred

LEMMA EmitBuilds ==
    ASSUME IInv, SInv, Emit
    PROVE  Built'
  <1>1. PICK e \in declared.says[Len(nodes) + 1] :
            \E n \in InputRange(e.op) :
                \E ins \in [1..n -> Refs(Len(inputs), Len(nodes))] : emit(e.op, e.attr, ins)
    BY DEF Emit
  <1>2. PICK n \in InputRange(e.op) :
            \E ins \in [1..n -> Refs(Len(inputs), Len(nodes))] : emit(e.op, e.attr, ins)
    BY <1>1
  <1>3. PICK ins \in [1..n -> Refs(Len(inputs), Len(nodes))] : emit(e.op, e.attr, ins)
    BY <1>2
  <1> DEFINE value == Inferred(e.op, e.attr, ins)  node == Node(e.op, e.attr, ins, value)
             new == Len(nodes) + 1
  <1>4. /\ nodes' = Append(nodes, node) /\ value # Refused
        /\ author = "ruby" /\ author' = author /\ declared' = declared
    BY <1>3 DEF emit
  <1>5. /\ node.op = e.op /\ node.attr = e.attr /\ node.ins = ins /\ node.value = value
    BY DEF Node
  <1>6. /\ Typed /\ Len(nodes) \in Nat /\ Len(inputs) \in Nat /\ DOMAIN nodes = 1..Len(nodes)
        /\ DOMAIN nodes' = 1..(Len(nodes) + 1) /\ nodes'[new] = node
        /\ \A i \in 1..Len(nodes) : nodes'[i] = nodes[i]
    BY <1>4, NumberedAppend DEF IInv, Typed
  <1>7. Attributed(e.op, e.attr, Len(params))
    <2>1. /\ declared.says \in Seq(SUBSET [op : Ops, attr : Seq(Int)])
          /\ \A i \in DOMAIN declared.says : \A f \in declared.says[i] :
                Attributed(f.op, f.attr, Len(declared.params))
      BY DeclarationsAssumption DEF SInv, Known
    <2>2. DOMAIN declared.says = 1..Len(declared.says) /\ Len(declared.says) \in Nat
      BY <2>1
    <2>3. new \in DOMAIN declared.says
      BY <1>6, <2>2 DEF Emit
    <2> QED  BY <1>1, <2>1, <2>3 DEF params
  <1>8. inputs' = inputs /\ params' = params
    BY <1>4 DEF inputs, params
  <1> HIDE DEF node, value
  <1>9. Inferred(e.op, e.attr, ins)' = value
    BY <1>4, <1>6, InferredStays DEF value
  <1> SUFFICES ASSUME NEW i \in DOMAIN nodes' PROVE NodeIsBuilt(i)'
    BY DEF Built
  <1>10. CASE i = new
    <2>1. Attributed(e.op, e.attr, Len(params)') /\ i - 1 = Len(nodes)
      BY <1>6, <1>7, <1>8, <1>10
    <2>2. ins \in [1..n -> Refs(Len(inputs)', i - 1)]
      BY <1>8, <2>1
    <2>3. /\ nodes'[i].op = e.op /\ nodes'[i].attr = e.attr /\ nodes'[i].ins = ins
          /\ nodes'[i].value = value
      BY <1>5, <1>6, <1>10
    <2>4. Inferred(nodes[i].op, nodes[i].attr, nodes[i].ins)' = value
      BY <1>9, <2>3
    <2> QED  BY <1>4, <2>1, <2>2, <2>3, <2>4 DEF NodeIsBuilt
  <1>11. CASE i # new
    <2>1. i \in 1..Len(nodes) /\ i \in DOMAIN nodes /\ nodes'[i] = nodes[i]
      BY <1>6, <1>11
    <2>2. NodeIsBuilt(i)
      BY <1>4, <2>1 DEF SInv, Built
    <2>3. PICK m \in InputRange(nodes[i].op) : nodes[i].ins \in [1..m -> Refs(Len(inputs), i - 1)]
      BY <2>2 DEF NodeIsBuilt
    <2>4. i - 1 \in Nat /\ i - 1 <= Len(nodes)
      BY <1>6, <2>1
    <2>5. PICK op, attr, js : op = nodes[i].op /\ attr = nodes[i].attr /\ js = nodes[i].ins
      OBVIOUS
    <2>6. Inferred(op, attr, js)' = Inferred(op, attr, js)
      BY <1>4, <1>6, <2>3, <2>4, <2>5, InferredStays
    <2>7. /\ nodes'[i].op = op /\ nodes'[i].attr = attr /\ nodes'[i].ins = js
          /\ nodes'[i].value = nodes[i].value
      BY <2>1, <2>5
    <2>8. nodes[i].value = Inferred(op, attr, js) /\ nodes[i].value # Refused
      BY <2>2, <2>5 DEF NodeIsBuilt
    <2>9. Inferred(nodes[i].op, nodes[i].attr, nodes[i].ins)' = nodes[i].value
      BY <2>6, <2>7, <2>8
    <2>10. Attributed(op, attr, Len(params)') /\ js \in [1..m -> Refs(Len(inputs)', i - 1)]
      BY <1>8, <2>2, <2>3, <2>5 DEF NodeIsBuilt
    <2>11. m \in InputRange(op)
      BY <2>3, <2>5
    <2> QED  BY <2>7, <2>8, <2>9, <2>10, <2>11 DEF NodeIsBuilt
  <1> QED  BY <1>10, <1>11

-----------------------------------------------------------------------------
(* Binding: what a batch may carry is an array.                             *)
LEMMA TensorsAreArrays ==
    ASSUME Known, NEW t \in Tensors
    PROVE  t \in CValues
  <1>1. PICK i \in DOMAIN inputs : t \in {Value(s, inputs[i].dtype) : s \in Concretions(inputs[i].shape)}
    BY DEF Tensors
  <1>2. PICK s \in Concretions(inputs[i].shape) : t = Value(s, inputs[i].dtype)
    BY <1>1
  <1>3. inputs[i].shape \in DShapes /\ inputs[i].dtype \in Dtypes
    BY InputFacts
  <1> DEFINE shape == inputs[i].shape  n == Len(shape)
  <1>4. n \in Nat /\ DOMAIN shape = 1..n /\ \A j \in 1..n : shape[j] \in Nat
    BY <1>3, ShapeFacts
  <1>5. PICK c \in [DOMAIN shape -> Sizes] :
            s = [j \in DOMAIN shape |-> IF shape[j] = Symbolic THEN c[j] ELSE shape[j]]
    BY <1>2 DEF Concretions
  <1> HIDE DEF shape, n
  <1>6. \A j \in 1..n : c[j] \in Dims
    BY <1>4, <1>5, SizesAssumption DEF Dims
  <1>7. \A j \in 1..n : s[j] \in Dims
    BY <1>4, <1>5, <1>6 DEF Dims, Symbolic
  <1>8. DOMAIN s = 1..n /\ s = [j \in 1..n |-> s[j]]
    BY <1>4, <1>5
  <1>9. s \in Arrays
    BY <1>4, <1>7, <1>8, MadeOf DEF Arrays
  <1> QED  BY <1>2, <1>3, <1>9 DEF CValues, Value

LEMMA BindBinds ==
    ASSUME Known, Bind
    PROVE  Bound'
  <1>1. PICK batch \in [Fields -> Tensors] : bind(batch) /\ given' = batch
    BY DEF Bind
  <1>2. \A field \in Fields : batch[field] \in CValues
    BY <1>1, TensorsAreArrays
  <1>3. inputs' = inputs /\ Fields' = Fields
    BY DEF Bind, graph, inputs, Fields
  <1>4. bind(given)'
    BY <1>1, <1>3 DEF bind, bind_one, FirstReader, Fields
  <1> QED  BY <1>1, <1>2, <1>3, <1>4 DEF Bound

-----------------------------------------------------------------------------
(* What a node reads.                                                       *)
LEMMA ReadStands ==
    ASSUME IInv, SInv, phase = "running", DeclaredAlike,
           NEW k \in Nat, k <= Len(values),
           \A i \in 1..k : Stands(values[i], nodes[i].value),
           NEW ref \in Refs(Len(inputs), k)
    PROVE  Stands(read(ref), Described(ref))
  <1>1. /\ Len(inputs) \in Nat /\ DOMAIN inputs = 1..Len(inputs)
        /\ \A i \in 1..Len(inputs) : inputs[i].shape \in DShapes /\ inputs[i].dtype \in Dtypes
    BY InputFacts DEF SInv
  <1>2. /\ ref.id \in Nat
        /\ \/ ref.kind = "input" /\ ref.id + 1 \in 1..Len(inputs)
           \/ ref.kind = "node" /\ ref.id + 1 \in 1..k
    BY <1>1, RefFacts
  <1>3. CASE ref.kind = "node" /\ ref.id + 1 \in 1..k
    BY <1>3 DEF read, Described
  <1>4. CASE ref.kind = "input" /\ ref.id + 1 \in 1..Len(inputs)
    <2> DEFINE i == ref.id + 1  field == inputs[i].field  first == FirstReader(field)
               t == given[field]
    <2>1. i \in DOMAIN inputs /\ field \in Fields
      BY <1>1, <1>4 DEF Fields
    <2>2. first \in DOMAIN inputs /\ inputs[first].field = field
      BY <2>1, FirstReaderReads DEF SInv
    <2>3. bind_one(inputs[first], t) /\ t \in CValues
      BY <2>1 DEF SInv, Bound, bind
    <2>4. inputs[first].shape = inputs[i].shape /\ inputs[first].dtype = inputs[i].dtype
      BY <2>1, <2>2 DEF DeclaredAlike
    <2>5. read(ref) = t /\ Described(ref) = Value(inputs[i].shape, inputs[i].dtype)
      BY <1>4 DEF read, Described
    <2>6. inputs[i].shape \in DShapes /\ inputs[i].dtype \in Dtypes
      BY <1>1, <1>4
    <2>7. /\ Fits(t.shape, inputs[i].shape) /\ t.dtype = inputs[i].dtype
      BY <2>3, <2>4 DEF bind_one
    <2> HIDE DEF i, t, field, first
    <2>8. t = Value(t.shape, t.dtype) /\ t.shape \in Arrays
      BY <2>3 DEF CValues, Value
    <2> QED  BY <2>5, <2>6, <2>7, <2>8, ValueStands
  <1> QED  BY <1>2, <1>3, <1>4

LEMMA LenOf ==
    ASSUME NEW n \in Nat, NEW f, DOMAIN f = 1..n, f = [k \in 1..n |-> f[k]]
    PROVE  Len(f) = n
  <1>1. f \in Seq({f[k] : k \in 1..n})
    BY MadeOf
  <1> QED  BY <1>1

(* One node of a graph the DSL built.                                       *)
LEMMA NodeRuns ==
    ASSUME IInv, SInv, phase = "running", NEW i, i = Len(values) + 1, i <= Len(nodes),
           SoundUpTo(i), NEW node, node = nodes[i],
           NEW ins, ins = [k \in DOMAIN node.ins |-> read(node.ins[k])],
           NEW value, value = IF node.op = "parameter" THEN params[node.attr[1] + 1]
                              ELSE Apply(node.op, node.attr, ins, training)
    PROVE  /\ value # Refused => Stands(value, node.value)
           /\ value = Refused =>
                 \E k \in DOMAIN node.ins : ~Concrete(Described(node.ins[k]).shape)
           /\ Strays(node.op, node.attr, ins) => SlicesSymbol(node)
  <1> DEFINE op == node.op  attr == node.attr  refs == node.ins
             ds == [k \in DOMAIN refs |-> Described(refs[k])]
  <1>1. /\ Len(values) \in Nat /\ DOMAIN values = 1..Len(values) /\ Len(nodes) \in Nat
        /\ DOMAIN nodes = 1..Len(nodes)
    BY NumberedFacts DEF IInv, Typed
  <1>2. i \in DOMAIN nodes /\ i - 1 = Len(values)
    BY <1>1
  <1>3. NodeIsBuilt(i)
    BY <1>2 DEF SInv, Built, SoundUpTo
  <1>4. PICK n \in InputRange(op) : refs \in [1..n -> Refs(Len(inputs), Len(values))]
    BY <1>2, <1>3 DEF NodeIsBuilt
  <1>5. /\ Attributed(op, attr, Len(params)) /\ node.value = Inferred(op, attr, refs)
        /\ node.value # Refused
    BY <1>3 DEF NodeIsBuilt
  <1>6. \A j \in 1..Len(values) : Stands(values[j], nodes[j].value)
    <2> TAKE j \in 1..Len(values)
    <2>1. \A h \in 1..j : h \in 1..i
      BY <1>1
    <2>2. SoundUpTo(j)
      BY <2>1 DEF SoundUpTo
    <2> QED  BY <1>1, <2>2 DEF SInv, StandsSoFar
  <1>7. \A k \in 1..n : Stands(read(refs[k]), Described(refs[k]))
    <2> TAKE k \in 1..n
    <2>1. refs[k] \in Refs(Len(inputs), Len(values))
      BY <1>4
    <2>2. Len(values) <= Len(values) /\ DeclaredAlike
      BY <1>1 DEF SoundUpTo
    <2> QED  BY <1>1, <1>6, <2>1, <2>2, ReadStands
  <1>8. CASE op = "parameter"
    <2>1. attr[1] + 1 \in 1..Len(params) /\ Len(params) \in Nat
      BY <1>5, <1>8, InputFacts DEF Attributed, SInv
    <2>2. value = params[attr[1] + 1] /\ node.value = value /\ value \in CValues
      BY <1>5, <1>8, <2>1, InputFacts DEF Inferred, SInv
    <2>3. /\ value = Value(value.shape, value.dtype) /\ value.shape \in Arrays
          /\ value.dtype \in Dtypes
      BY <2>2 DEF CValues, Value
    <2>4. Stands(value, node.value) /\ value # Refused
      BY <2>2, <2>3, FitsItself, ValueStands
    <2>5. ~Strays(op, attr, ins)
      BY <1>8 DEF Strays
    <2> QED  BY <2>4, <2>5
  <1>9. CASE op # "parameter"
    <2>1. n \in Nat /\ op \in Ops \ {"parameter"} /\ training \in BOOLEAN
      BY <1>5, <1>9 DEF Attributed, InputRange, SInv, Known
    <2>2. DOMAIN refs = 1..n
      BY <1>4
    <2>3. ins = [k \in 1..n |-> read(refs[k])] /\ ds = [k \in 1..n |-> Described(refs[k])]
      BY <2>2
    <2>4. Len(ins) = n /\ Len(ds) = n /\ DOMAIN ds = 1..n
      BY <2>1, <2>3, LenOf
    <2>5. Reads(n, ins, ds)
      BY <1>7, <2>1, <2>3, <2>4 DEF Reads
    <2>6. node.value = Infer(op, attr, ds)
      BY <1>5, <1>9 DEF Inferred
    <2>7. ~LeftUnlooked(op, attr, ds)
      <3>1. i \in 1..i
        BY <1>1
      <3>2. Looked(i)
        BY <3>1 DEF SoundUpTo
      <3> QED  BY <3>2 DEF Looked
    <2>8. value = Apply(op, attr, ins, training)
      BY <1>9
    <2> DEFINE rule == Infer(op, attr, ds)
    <2>9. /\ Answered(value, node.value, n, ds)
          /\ Strays(op, attr, ins) => SlicesUnknown(op, attr, ds)
      <3>1. rule # Refused
        BY <1>5, <2>6
      <3>2. Attributed(op, attr, Len(params))
        BY <1>5
      <3> HIDE DEF ds, op, attr
      <3>3. /\ Answered(Apply(op, attr, ins, training), Infer(op, attr, ds), n, ds)
            /\ Strays(op, attr, ins) => SlicesUnknown(op, attr, ds)
        BY <1>4, <2>1, <2>5, <2>7, <3>1, <3>2, NodeAnswered
      <3> QED  BY <2>6, <2>8, <3>3
    <2>10. ~AllConcrete(n, ds) => \E k \in DOMAIN refs : ~Concrete(Described(refs[k]).shape)
      BY <2>2, <2>3 DEF AllConcrete
    <2>11. SlicesUnknown(op, attr, ds) => SlicesSymbol(node)
      <3> SUFFICES ASSUME SlicesUnknown(op, attr, ds) PROVE SlicesSymbol(node)
        OBVIOUS
      <3>1. op = "slice"
        BY DEF SlicesUnknown
      <3>2. n = 1
        BY <3>1 DEF InputRange, Binary
      <3>3. ds[1] = Described(refs[1])
        BY <2>3, <3>2
      <3> QED  BY <3>1, <3>3 DEF SlicesUnknown, SlicesSymbol
    <2> QED  BY <2>9, <2>10, <2>11 DEF Answered
  <1> QED  BY <1>8, <1>9

-----------------------------------------------------------------------------
(* One lemma per action, over both invariants.                              *)
Inv == IInv /\ SInv

LEMMA NothingRan ==
    ASSUME values = <<>>, strays = {}, broke = 0
    PROVE  StandsSoFar /\ FailsOnlyOverSymbols
  BY DEF StandsSoFar, FailsOnlyOverSymbols

LEMMA InitIsSound == Init => SInv
  <1> SUFFICES ASSUME Init PROVE SInv
    OBVIOUS
  <1>1. StandsSoFar /\ FailsOnlyOverSymbols
    BY NothingRan DEF Init
  <1>2. Built
    BY DEF Init, Built
  <1> QED  BY <1>1, <1>2 DEF Init, SInv, Known, Cleared, Bound

(* A step that leaves the graph alone.                                      *)
LEMMA GraphKept ==
    ASSUME SInv, UNCHANGED graph
    PROVE  /\ Built' /\ nodes' = nodes /\ author' = author /\ declared' = declared
           /\ \A i : SoundUpTo(i)' <=> SoundUpTo(i)
           /\ \A ref : Described(ref)' = Described(ref)
  <1>1. nodes' = nodes /\ author' = author /\ declared' = declared
    BY DEF graph
  <1>2. inputs' = inputs /\ params' = params
    BY <1>1 DEF inputs, params
  <1>3. \A ref : Described(ref)' = Described(ref)
    BY <1>1, <1>2 DEF Described
  <1>4. \A i : Looked(i)' <=> Looked(i)
    BY <1>1, <1>2 DEF Looked, Described
  <1>5. DeclaredAlike' <=> DeclaredAlike
    BY <1>2 DEF DeclaredAlike
  <1>6. \A i : SoundUpTo(i)' <=> SoundUpTo(i)
    BY <1>1, <1>4, <1>5 DEF SoundUpTo
  <1>7. \A op, attr, ins : Inferred(op, attr, ins)' = Inferred(op, attr, ins)
    BY <1>1, <1>2 DEF Inferred, Described
  <1>8. \A i : NodeIsBuilt(i)' <=> NodeIsBuilt(i)
    BY <1>1, <1>2 DEF NodeIsBuilt, Inferred, Described
  <1>9. Built'
    BY <1>1, <1>8 DEF Built, SInv
  <1> QED  BY <1>1, <1>3, <1>6, <1>9

(* What was computed stays as it was.                                       *)
LEMMA PassKept ==
    ASSUME SInv, UNCHANGED graph, UNCHANGED <<values, strays, broke>>
    PROVE  Built' /\ StandsSoFar' /\ FailsOnlyOverSymbols'
  <1>1. /\ Built' /\ nodes' = nodes
        /\ \A i : SoundUpTo(i)' <=> SoundUpTo(i)
        /\ \A ref : Described(ref)' = Described(ref)
    BY GraphKept
  <1>2. StandsSoFar'
    BY <1>1 DEF SInv, StandsSoFar
  <1>3. \A i : SlicesSymbol(nodes[i])' <=> SlicesSymbol(nodes[i])
    BY <1>1 DEF SlicesSymbol
  <1>4. FailsOnlyOverSymbols'
    BY <1>1, <1>3 DEF SInv, FailsOnlyOverSymbols
  <1> QED  BY <1>1, <1>2, <1>4

(* The batch stays bound.                                                   *)
LEMMA BoundKept ==
    ASSUME Bound, declared' = declared, given' = given, phase' = phase
    PROVE  Bound'
  <1>1. inputs' = inputs
    BY DEF inputs
  <1>2. Fields' = Fields
    BY <1>1 DEF Fields
  <1>3. \A field : FirstReader(field)' = FirstReader(field)
    BY <1>1 DEF FirstReader
  <1>4. bind(given) => bind(given)'
    BY <1>1, <1>2, <1>3 DEF bind
  <1> QED  BY <1>2, <1>4 DEF Bound

LEMMA EmitSound == Inv /\ Emit => SInv'
  <1> SUFFICES ASSUME IInv, SInv, Emit PROVE SInv'
    BY DEF Inv
  <1>1. /\ phase = "describing" /\ phase' = phase /\ declared' = declared /\ training' = training
        /\ values' = values /\ strays' = strays /\ broke' = broke
    BY DEF Emit, emit, pass
  <1>2. values = <<>> /\ strays = {} /\ broke = 0
    BY <1>1 DEF SInv, Cleared
  <1>3. StandsSoFar' /\ FailsOnlyOverSymbols'
    BY <1>1, <1>2, NothingRan DEF StandsSoFar, FailsOnlyOverSymbols
  <1>4. Built'
    BY EmitBuilds
  <1> QED  BY <1>1, <1>2, <1>3, <1>4 DEF SInv, Known, Cleared, Bound

LEMMA WriteSound == Inv /\ Write => SInv'
  <1> SUFFICES ASSUME IInv, SInv, Write PROVE SInv'
    BY DEF Inv
  <1>1. /\ phase = "describing" /\ phase' = phase /\ declared' = declared /\ training' = training
        /\ values' = values /\ strays' = strays /\ broke' = broke
        /\ author = "hand" /\ author' = author
    BY DEF Write, pass
  <1>2. values = <<>> /\ strays = {} /\ broke = 0
    BY <1>1 DEF SInv, Cleared
  <1>3. StandsSoFar' /\ FailsOnlyOverSymbols'
    BY <1>1, <1>2 DEF StandsSoFar, FailsOnlyOverSymbols
  <1>4. Built'
    BY <1>1 DEF Built
  <1> QED  BY <1>1, <1>2, <1>3, <1>4 DEF SInv, Known, Cleared, Bound

(* Describing the output leaves the nodes alone.                            *)
LEMMA DescribeSound == Inv /\ Describe => SInv'
  <1> SUFFICES ASSUME IInv, SInv, Describe PROVE SInv'
    BY DEF Inv
  <1>1. /\ phase = "describing" /\ phase' = "described" /\ declared' = declared
        /\ training' = training /\ values' = values /\ strays' = strays /\ broke' = broke
        /\ nodes' = nodes /\ author' = author
    BY DEF Describe, pass
  <1>2. values = <<>> /\ strays = {} /\ broke = 0
    BY <1>1 DEF SInv, Cleared
  <1>3. StandsSoFar' /\ FailsOnlyOverSymbols'
    BY <1>1, <1>2 DEF StandsSoFar, FailsOnlyOverSymbols
  <1>4. Built'
    BY <1>1 DEF SInv, Built, NodeIsBuilt, Inferred, Described, inputs, params
  <1> QED  BY <1>1, <1>2, <1>3, <1>4 DEF SInv, Known, Cleared, Bound

LEMMA OpenSound == Inv /\ Open => SInv'
  <1> SUFFICES ASSUME IInv, SInv, Open PROVE SInv'
    BY DEF Inv
  <1>1. /\ phase = "described" /\ phase' \in {"opened", "refused"} /\ UNCHANGED graph
        /\ training' = training /\ UNCHANGED <<values, strays, broke>>
    BY DEF Open, pass
  <1>2. Built' /\ StandsSoFar' /\ FailsOnlyOverSymbols' /\ declared' = declared
    BY <1>1, PassKept, GraphKept
  <1> QED  BY <1>1, <1>2 DEF SInv, Known, Cleared, Bound

LEMMA BindSound == Inv /\ Bind => SInv'
  <1> SUFFICES ASSUME IInv, SInv, Bind PROVE SInv'
    BY DEF Inv
  <1>1. /\ phase' = "running" /\ UNCHANGED graph /\ training' \in BOOLEAN
        /\ values' = <<>> /\ strays' = {} /\ broke' = 0
    BY DEF Bind
  <1>2. StandsSoFar' /\ FailsOnlyOverSymbols'
    BY <1>1 DEF StandsSoFar, FailsOnlyOverSymbols
  <1>3. Built' /\ declared' = declared
    BY <1>1, GraphKept
  <1>4. Bound'
    BY BindBinds DEF SInv
  <1> QED  BY <1>1, <1>2, <1>3, <1>4 DEF SInv, Known, Cleared

LEMMA AnswerSound == Inv /\ Answer => SInv'
  <1> SUFFICES ASSUME IInv, SInv, Answer PROVE SInv'
    BY DEF Inv
  <1>1. /\ phase' \in {"opened", "panicked"} /\ UNCHANGED graph
        /\ training' = training /\ UNCHANGED <<values, strays, broke>>
    BY DEF Answer, Panic, pass
  <1>2. Built' /\ StandsSoFar' /\ FailsOnlyOverSymbols' /\ declared' = declared
    BY <1>1, PassKept, GraphKept
  <1> QED  BY <1>1, <1>2 DEF SInv, Known, Cleared, Bound

LEMMA StutterSound == Inv /\ UNCHANGED vars => SInv'
  <1> SUFFICES ASSUME IInv, SInv, UNCHANGED vars PROVE SInv'
    BY DEF Inv
  <1>1. /\ phase' = phase /\ UNCHANGED graph /\ given' = given
        /\ training' = training /\ UNCHANGED <<values, strays, broke>>
    BY DEF vars, graph
  <1>2. Built' /\ StandsSoFar' /\ FailsOnlyOverSymbols' /\ declared' = declared
    BY <1>1, PassKept, GraphKept
  <1>3. Bound'
    BY <1>1, <1>2, BoundKept DEF SInv
  <1> QED  BY <1>1, <1>2, <1>3 DEF SInv, Known, Cleared

(* A node that is computed adds one value; one that is not ends the pass.   *)
LEMMA RunNodeSound == Inv /\ RunNode => SInv'
  <1> SUFFICES ASSUME IInv, SInv, RunNode PROVE SInv'
    BY DEF Inv
  <1> DEFINE i == Len(values) + 1  node == nodes[i]
             ins == [k \in DOMAIN node.ins |-> read(node.ins[k])]
             value == IF node.op = "parameter" THEN params[node.attr[1] + 1]
                      ELSE Apply(node.op, node.attr, ins, training)
             Symbols(j) == \E k \in DOMAIN nodes[j].ins : ~Concrete(Described(nodes[j].ins[k]).shape)
             Slices(j) == SlicesSymbol(nodes[j])
  <1>1. phase = "running" /\ i <= Len(nodes)
    BY DEF RunNode
  <1>2. /\ Numbered(values) /\ Len(values) \in Nat /\ DOMAIN values = 1..Len(values)
    BY NumberedFacts DEF IInv, Typed
  <1>3. ASSUME SoundUpTo(i)
        PROVE  /\ value # Refused => Stands(value, nodes[i].value)
               /\ value = Refused => Symbols(i)
               /\ Strays(node.op, node.attr, ins) => Slices(i)
    BY <1>1, <1>3, NodeRuns
  <1>4. UNCHANGED graph /\ given' = given /\ training' = training
    BY DEF RunNode, Produce, Panic, pass
  <1>5. /\ Built' /\ nodes' = nodes /\ declared' = declared
        /\ \A j : SoundUpTo(j)' <=> SoundUpTo(j)
        /\ \A ref : Described(ref)' = Described(ref)
        /\ \A j : Slices(j)' <=> Slices(j)
    BY <1>4, GraphKept DEF SlicesSymbol
  <1>6. \/ phase' = "panicked" /\ UNCHANGED <<values, strays, broke>>
        \/ /\ value # Refused /\ values' = Append(values, value) /\ phase' = phase /\ broke' = broke
           /\ strays' \in {strays, strays \cup {i}}
           /\ strays' # strays => Strays(node.op, node.attr, ins)
        \/ /\ value = Refused /\ broke' = i /\ phase' = "opened" /\ UNCHANGED <<values, strays>>
    BY DEF RunNode, Produce, Panic, pass
  <1> HIDE DEF i, node, ins, value, Symbols, Slices
  <1>7. CASE phase' = "panicked" /\ UNCHANGED <<values, strays, broke>>
    <2>1. StandsSoFar' /\ FailsOnlyOverSymbols'
      BY <1>4, <1>7, PassKept
    <2> QED  BY <1>4, <1>5, <1>7, <2>1 DEF SInv, Known, Cleared, Bound
  <1>8. CASE /\ value # Refused /\ values' = Append(values, value) /\ phase' = phase
             /\ broke' = broke /\ strays' \in {strays, strays \cup {i}}
             /\ strays' # strays => Strays(node.op, node.attr, ins)
    <2>1. /\ DOMAIN values' = 1..(Len(values) + 1) /\ values'[Len(values) + 1] = value
          /\ \A j \in 1..Len(values) : values'[j] = values[j]
      BY <1>2, <1>8, NumberedAppend
    <2>2. StandsSoFar'
      <3> SUFFICES ASSUME NEW j \in DOMAIN values', SoundUpTo(j)'
                   PROVE  Stands(values'[j], nodes[j].value)
        BY <1>5 DEF StandsSoFar
      <3>1. SoundUpTo(j)
        BY <1>5
      <3>2. CASE j = i
        BY <1>3, <1>8, <2>1, <3>1, <3>2 DEF i
      <3>3. CASE j # i
        <4>1. j \in 1..Len(values)
          BY <1>2, <2>1, <3>3 DEF i
        <4> QED  BY <1>2, <2>1, <3>1, <4>1 DEF SInv, StandsSoFar
      <3> QED  BY <3>2, <3>3
    <2>3. FailsOnlyOverSymbols'
      <3>1. ASSUME broke # 0, SoundUpTo(broke) PROVE Symbols(broke)
        BY <3>1 DEF SInv, FailsOnlyOverSymbols, Symbols
      <3>2. ASSUME NEW j \in strays', SoundUpTo(j) PROVE Slices(j)
        <4>1. CASE j \in strays
          BY <3>2, <4>1 DEF SInv, FailsOnlyOverSymbols, Slices
        <4>2. CASE j \notin strays
          <5>1. j = i /\ strays' # strays
            BY <1>8, <3>2, <4>2
          <5> QED  BY <1>3, <1>8, <3>2, <5>1
        <4> QED  BY <4>1, <4>2
      <3> QED  BY <1>5, <1>8, <3>1, <3>2 DEF FailsOnlyOverSymbols, Symbols, Slices
    <2>4. Bound'
      BY <1>4, <1>5, <1>8, BoundKept DEF SInv
    <2> QED  BY <1>1, <1>4, <1>5, <1>8, <2>2, <2>3, <2>4 DEF SInv, Known, Cleared
  <1>9. CASE /\ value = Refused /\ broke' = i /\ phase' = "opened" /\ UNCHANGED <<values, strays>>
    <2>1. StandsSoFar'
      BY <1>5, <1>9 DEF SInv, StandsSoFar
    <2>2. FailsOnlyOverSymbols'
      <3>1. ASSUME SoundUpTo(i) PROVE Symbols(i)
        BY <1>3, <1>9, <3>1
      <3>2. ASSUME NEW j \in strays, SoundUpTo(j) PROVE Slices(j)
        BY <3>2 DEF SInv, FailsOnlyOverSymbols, Slices
      <3> QED  BY <1>5, <1>9, <3>1, <3>2 DEF FailsOnlyOverSymbols, Symbols, Slices
    <2> QED  BY <1>4, <1>5, <1>9, <2>1, <2>2 DEF SInv, Known, Cleared, Bound
  <1> QED  BY <1>6, <1>7, <1>8, <1>9

-----------------------------------------------------------------------------
(* Of a graph of the DSL's, every node was accepted by its rule; a pass     *)
(* computes it over a batch bind_one accepted, node by node, and what each  *)
(* answers stands for what was described.                                   *)
THEOREM Soundness == Spec => [](IInv /\ SInv)
  <1>1. Init => Inv
    BY InitHolds, InitIsSound DEF Inv
  <1>2. Inv /\ [Next]_vars => Inv'
    <2> SUFFICES ASSUME Inv, [Next]_vars PROVE IInv' /\ SInv'
      BY DEF Inv
    <2>1. IInv'
      BY EmitKeeps, WriteKeeps, DescribeKeeps, OpenKeeps, BindKeeps, RunNodeKeeps, AnswerKeeps,
         StutterKeeps DEF Next, Inv
    <2>2. SInv'
      BY EmitSound, WriteSound, DescribeSound, OpenSound, BindSound, RunNodeSound, AnswerSound,
         StutterSound DEF Next
    <2> QED  BY <2>1, <2>2
  <1>3. Inv <=> IInv /\ SInv
    BY DEF Inv
  <1> QED  BY <1>1, <1>2, <1>3, PTL DEF Spec

LEMMA StandingFits == SInv => RunsAsDescribed
  <1> SUFFICES ASSUME SInv, NEW i \in DOMAIN values, SoundUpTo(i)
               PROVE  Fits(values[i].shape, nodes[i].value.shape)
    BY DEF RunsAsDescribed
  <1> QED  BY StandsFacts DEF SInv, StandsSoFar

(* What a batch is turned into has the shape shape.rb inferred, whatever    *)
(* the graph, as long as its nodes are ones whose rules look at everything. *)
THEOREM RunningAsDescribed == Spec => []RunsAsDescribed
  BY Soundness, StandingFits, PTL

(* A described graph whose rules look at everything fails a pass only at a  *)
(* node reading a dimension left to the batch, and reads outside an array   *)
(* only at a slice along one (which nothing checks, SlicesAreChecked).      *)
THEOREM FailingOverSymbols == Spec => []FailsOnlyOverSymbols
  <1>1. SInv => FailsOnlyOverSymbols
    BY DEF SInv
  <1> QED  BY Soundness, <1>1, PTL
=============================================================================
