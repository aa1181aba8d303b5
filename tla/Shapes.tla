------------------------------- MODULE Shapes -------------------------------
(***************************************************************************)
(* What one node makes of what it reads, said twice:                       *)
(*   - as the description infers it when the graph is built                *)
(*     (lib/torobi/shape.rb), over shapes with symbolic dimensions;        *)
(*   - as the engine's interpreter computes it over the arrays of one      *)
(*     batch (engine/src/interp.rs), through MLX's own rules for shapes    *)
(*     and dtypes, which are external.                                     *)
(* The numbers in the arrays are left out.                                 *)
(***************************************************************************)
EXTENDS Integers, Sequences, FiniteSets, SequencesExt

-----------------------------------------------------------------------------
(* Dtypes, in the order MLX promotes them, and shapes. *)

Bool == 0
I32  == 1
BF16 == 2
F32  == 3
Dtypes == {Bool, I32, BF16, F32}

Symbolic == 0                     \* a dimension the batch decides (nil)

Value(shape, dtype) == [shape |-> shape, dtype |-> dtype]
Refused == Value(<<>>, -1)        \* no value: a refusal, or an MLX error

Greater(a, b) == IF a >= b THEN a ELSE b
Promote(d, e) == Greater(d, e)
AtLeastFloat(d) == IF d \in {Bool, I32} THEN F32 ELSE d

Size(shape) ==
    LET upto[k \in 0..Len(shape)] == IF k = 0 THEN 1 ELSE upto[k - 1] * shape[k]
    IN  upto[Len(shape)]
SizeBut(d, shape) == Size([i \in DOMAIN shape |-> IF shape[i] = d THEN 1 ELSE shape[i]])

Concrete(shape) == \A i \in DOMAIN shape : shape[i] # Symbolic
RankOf(v) == Len(v.shape)
LastOf(shape) == shape[Len(shape)]
Front2(shape) == SubSeq(shape, 1, Len(shape) - 2)

(* A concrete shape is one of those a described shape stands for. *)
Fits(concrete, described) ==
    /\ Len(concrete) = Len(described)
    /\ \A i \in DOMAIN described : described[i] \in {Symbolic, concrete[i]}

-----------------------------------------------------------------------------
(* Dimension arithmetic. *)

AxisIn(axis, rank) == axis \in (-rank)..(rank - 1)
AxisAt(axis, rank) == IF axis < 0 THEN axis + rank + 1 ELSE axis + 1

Agree(a, b)  == a = Symbolic \/ b = Symbolic \/ a = b
Joined(a, b) == IF a = Symbolic THEN b ELSE a

AllAgree(a, b) == Len(a) = Len(b) /\ \A i \in DOMAIN a : Agree(a[i], b[i])
AllJoined(a, b) == [i \in DOMAIN a |-> Joined(a[i], b[i])]

Padded(shape, rank) == [i \in 1..(rank - Len(shape)) |-> 1] \o shape

Stretches(a, b) ==
    LET rank == Greater(Len(a), Len(b))
        x == Padded(a, rank)
        y == Padded(b, rank)
    IN  \A i \in 1..rank : x[i] = 1 \/ y[i] = 1 \/ Agree(x[i], y[i])

Stretched(a, b) ==
    LET rank == Greater(Len(a), Len(b))
        x == Padded(a, rank)
        y == Padded(b, rank)
    IN  [i \in 1..rank |-> IF x[i] = 1 THEN y[i]
                           ELSE IF y[i] = 1 THEN x[i] ELSE Joined(x[i], y[i])]

-----------------------------------------------------------------------------
(* The rules of the description. Each answers Refused where the rule raises. *)

When(ok, value) == IF ok THEN value ELSE Refused

OneDtype(ins) == \A i, j \in DOMAIN ins : ins[i].dtype = ins[j].dtype

SameAsInput(ins) == When(OneDtype(ins), ins[1])

BroadcastRule(ins) ==
    When(/\ Stretches(ins[1].shape, ins[2].shape)
         /\ OneDtype(ins),
         Value(Stretched(ins[1].shape, ins[2].shape), ins[1].dtype))

(* Leading zeros keep a dimension; one -1 takes what is left over. *)
KeptAxes(target) ==
    CHOOSE k \in 0..Len(target) :
        /\ \A i \in 1..k : target[i] = 0
        /\ k < Len(target) => target[k + 1] # 0
Infers(target) == \E i \in DOMAIN target : target[i] = -1
WellFormed(target) ==
    /\ \A i \in DOMAIN target : target[i] >= -1
    /\ \A i \in (KeptAxes(target) + 1)..Len(target) : target[i] # 0
    /\ \A i, j \in DOMAIN target : target[i] = -1 /\ target[j] = -1 => i = j

Filled(rest, d) == [i \in DOMAIN rest |-> IF rest[i] = -1 THEN d ELSE rest[i]]

ReshapeRule(x, target) ==
    LET keep  == KeptAxes(target)
        from  == SubSeq(x.shape, keep + 1, Len(x.shape))
        rest  == SubSeq(target, keep + 1, Len(target))
        known == SizeBut(-1, rest)
        total == SizeBut(Symbolic, from)
        ok == IF ~Concrete(from) THEN Infers(rest) /\ total = known
              ELSE IF Infers(rest) THEN total % known = 0 ELSE total = known
        taken == IF Concrete(from) THEN total \div known ELSE Symbolic
    IN  IF WellFormed(target) /\ keep <= Len(x.shape) /\ ok
        THEN Value(SubSeq(x.shape, 1, keep) \o Filled(rest, taken), x.dtype)
        ELSE Refused

IsPermutation(axes, rank) ==
    /\ Len(axes) = rank
    /\ {axes[i] : i \in DOMAIN axes} = 0..(rank - 1)
Permuted(shape, axes) == [i \in DOMAIN axes |-> shape[axes[i] + 1]]

TransposeRule(x, axes) ==
    IF IsPermutation(axes, RankOf(x))
    THEN Value(Permuted(x.shape, axes), x.dtype) ELSE Refused

(* A slip: the start is held to the dimension, the end is not. *)
SliceByStart(x, axis, start, length) ==
    LET at  == AxisAt(axis, RankOf(x))
    IN  IF /\ AxisIn(axis, RankOf(x))
           /\ length > 0 /\ start >= 0
           /\ x.shape[at] # Symbolic => start < x.shape[at]
        THEN Value([x.shape EXCEPT ![at] = length], x.dtype) ELSE Refused

(* A symbolic dimension has no length to hold the range to. *)
SliceRule(x, axis, start, length) ==
    LET at  == AxisAt(axis, RankOf(x))
    IN  IF /\ AxisIn(axis, RankOf(x))
           /\ length > 0 /\ start >= 0
           /\ x.shape[at] # Symbolic => start + length <= x.shape[at]
        THEN Value([x.shape EXCEPT ![at] = length], x.dtype) ELSE Refused

(* The axes that stay, in order. *)
Left(rank, axes) ==
    LET upto[k \in 0..rank] ==
            IF k = 0 THEN <<>>
            ELSE IF k \in axes THEN upto[k - 1] ELSE Append(upto[k - 1], k)
    IN  upto[rank]

Without(shape, axes, keep) ==
    IF keep THEN [i \in DOMAIN shape |-> IF i \in axes THEN 1 ELSE shape[i]]
    ELSE LET left == Left(Len(shape), axes) IN [j \in DOMAIN left |-> shape[left[j]]]

ReduceRule(x, axes, keep) ==
    LET at == {AxisAt(axes[i], RankOf(x)) : i \in DOMAIN axes}
    IN  When(/\ \A i \in DOMAIN axes : AxisIn(axes[i], RankOf(x))
             /\ Cardinality(at) = Len(axes),
             Value(Without(x.shape, at, keep), x.dtype))

MatmulRule(ins) ==
    LET a == ins[1].shape
        b == ins[2].shape
        lead == IF Len(b) = 2 THEN Front2(a) ELSE AllJoined(Front2(a), Front2(b))
    IN  IF /\ Len(a) >= 2 /\ Len(b) >= 2
           /\ Agree(LastOf(a), b[Len(b) - 1])
           /\ Len(b) = 2 \/ AllAgree(Front2(a), Front2(b))
           /\ OneDtype(ins)
        THEN Value(lead \o <<a[Len(a) - 1], LastOf(b)>>, ins[1].dtype)
        ELSE Refused

TakeRule(table, ids) ==
    When(ids.dtype = I32 /\ RankOf(table) >= 2,
         Value(ids.shape \o Tail(table.shape), table.dtype))

(* Attention over [batch, heads, positions, width], or without the heads. *)
Headed(shape) == IF Len(shape) = 3 THEN <<shape[1], 1, shape[2], shape[3]>> ELSE shape

Grouped(heads, kv) == heads = Symbolic \/ kv = Symbolic \/ heads % kv = 0

SdpaRule(ins) ==
    LET rank == RankOf(ins[1])
        q == Headed(ins[1].shape)
        k == Headed(ins[2].shape)
        v == Headed(ins[3].shape)
        batch == Joined(q[1], Joined(k[1], v[1]))
    IN  IF /\ rank \in {3, 4} /\ RankOf(ins[2]) = rank /\ RankOf(ins[3]) = rank
           /\ Agree(k[1], v[1]) /\ Agree(q[1], Joined(k[1], v[1]))
           /\ Agree(k[2], v[2]) /\ Agree(k[3], v[3]) /\ Agree(q[4], k[4])
           /\ Grouped(q[2], k[2])
           /\ OneDtype(SubSeq(ins, 1, 3))
        THEN Value(IF rank = 3 THEN <<batch, q[3], v[4]>>
                   ELSE <<batch, q[2], q[3], v[4]>>, ins[1].dtype)
        ELSE Refused

CrossEntropyRule(logits, targets) ==
    IF targets.dtype = I32 /\ RankOf(logits) >= 2
       /\ AllAgree(Front(logits.shape), targets.shape)
    THEN Value(AllJoined(Front(logits.shape), targets.shape), logits.dtype)
    ELSE Refused

-----------------------------------------------------------------------------
(* A node's value as the description gives it: one rule per op of the      *)
(* manifest. attr holds the op's attributes as numbers, ins what it reads.  *)

KeepsFlag(attr) == attr[1] = 1
AxesOf(attr, x) ==
    IF attr[2] = 1 THEN [i \in 1..RankOf(x) |-> i - 1] ELSE SubSeq(attr, 3, Len(attr))

Infer(op, attr, ins) ==
    CASE op \in {"add", "div"} -> BroadcastRule(ins)
      [] op = "reshape"        -> ReshapeRule(ins[1], attr)
      [] op = "transpose"      -> TransposeRule(ins[1], attr)
      [] op = "slice"          -> SliceRule(ins[1], attr[1], attr[2], attr[3])
      [] op \in {"mean", "sum"} -> ReduceRule(ins[1], AxesOf(attr, ins[1]), KeepsFlag(attr))
      [] op = "cast"           -> Value(ins[1].shape, attr[1])
      [] op = "matmul"         -> MatmulRule(ins)
      [] op = "take"           -> TakeRule(ins[1], ins[2])
      [] op = "sdpa"           -> SdpaRule(ins)
      [] op = "cross_entropy"  -> CrossEntropyRule(ins[1], ins[2])
      [] OTHER                 -> SameAsInput(ins)

-----------------------------------------------------------------------------
(* A node's value as the engine computes it, over concrete shapes. Refused *)
(* where MLX, or the engine's own check, answers with an error.            *)

Float(v) == v.dtype \in {BF16, F32}

Arithmetic(a, b, dtype) ==
    When(Stretches(a.shape, b.shape), Value(Stretched(a.shape, b.shape), dtype))

(* The engine's numbers are f32 arrays of no dimension. *)
WithNumber(x) == Value(x.shape, Promote(x.dtype, F32))

kept(target, from) ==
    [i \in DOMAIN target |-> IF target[i] = 0 THEN from[i] ELSE target[i]]

Reshaped(x, target) ==
    IF \E i \in DOMAIN target : target[i] = 0 /\ i > RankOf(x) THEN Refused
    ELSE LET full  == kept(target, x.shape)
             known == SizeBut(-1, full)
             total == Size(x.shape)
         IN  IF ~Infers(full)
             THEN When(total = known, Value(full, x.dtype))
             ELSE IF known > 0 /\ total % known = 0
                  THEN Value(Filled(full, total \div known), x.dtype)
                  ELSE Refused

(* take_axis over the indices start .. start+length-1: MLX checks none of  *)
(* them against the axis.                                                  *)
slice(x, axis, start, length) ==
    IF AxisIn(axis, RankOf(x)) /\ length >= 0
    THEN Value([x.shape EXCEPT ![AxisAt(axis, RankOf(x))] = length], x.dtype)
    ELSE Refused

rope(x, freqs) ==
    LET half == LastOf(x.shape) \div 2
    IN  When(freqs \in {0, half},
             Value([x.shape EXCEPT ![RankOf(x)] = 2 * half], Promote(x.dtype, F32)))

(* Scaled by the gain, shifted by the bias where there is one; eps is f32. *)
Normed(ins) ==
    LET scaled == Arithmetic(ins[1], ins[2], F32)
    IN  IF RankOf(ins[1]) = 0 THEN Refused
        ELSE IF Len(ins) = 2 \/ scaled = Refused THEN scaled
        ELSE Arithmetic(scaled, ins[3], F32)

Matmul(a, b) ==
    IF /\ LastOf(a.shape) = b.shape[RankOf(b) - 1]
       /\ Stretches(Front2(a.shape), Front2(b.shape))
       /\ Float(Value(<<>>, Promote(a.dtype, b.dtype)))
    THEN Value(Stretched(Front2(a.shape), Front2(b.shape))
                   \o <<a.shape[RankOf(a) - 1], LastOf(b.shape)>>,
               Promote(a.dtype, b.dtype))
    ELSE Refused

(* A mask is broadcast against the scores, one of three axes after growing *)
(* the head axis the queries grew.                                         *)
MaskFits(mask, flat, scores, dtype) ==
    LET shape == IF flat /\ RankOf(mask) = 3 THEN Headed(mask.shape) ELSE mask.shape
    IN  /\ Stretches(shape, scores) /\ Stretched(shape, scores) = scores
        /\ mask.dtype = Bool \/ Promote(mask.dtype, dtype) = dtype

sdpa(ins, causal) ==
    LET flat == RankOf(ins[1]) = 3
        q == Headed(ins[1].shape)
        k == Headed(ins[2].shape)
        v == Headed(ins[3].shape)
        dtype == Promote(ins[1].dtype, Promote(ins[2].dtype, ins[3].dtype))
        out == IF flat THEN <<q[1], q[3], v[4]>> ELSE <<q[1], q[2], q[3], v[4]>>
    IN  IF /\ q[1] = k[1] /\ q[1] = v[1] /\ k[2] = v[2] /\ k[3] = v[3]
           /\ q[4] = k[4] /\ q[2] % k[2] = 0
           /\ dtype \in {BF16, F32}
           /\ \/ causal \/ Len(ins) = 3
              \/ MaskFits(ins[4], flat, <<q[1], q[2], q[3], k[3]>>, dtype)
        THEN Value(out, dtype) ELSE Refused

cross_entropy(logits, targets) ==
    IF /\ RankOf(logits) = RankOf(targets) + 1
       /\ Stretches(Front(logits.shape), targets.shape)
    THEN Value(Stretched(Front(logits.shape), targets.shape), AtLeastFloat(logits.dtype))
    ELSE Refused

Apply(op, attr, ins, training) ==
    CASE op \in {"neg"}         -> ins[1]
      [] op = "exp"             -> Value(ins[1].shape, AtLeastFloat(ins[1].dtype))
      [] op = "add_scalar"      -> WithNumber(ins[1])
      [] op = "dropout"         -> IF training THEN WithNumber(ins[1]) ELSE ins[1]
      [] op = "add"  -> Arithmetic(ins[1], ins[2], Promote(ins[1].dtype, ins[2].dtype))
      [] op = "div"  -> Arithmetic(ins[1], ins[2],
                                   AtLeastFloat(Promote(ins[1].dtype, ins[2].dtype)))
      [] op = "softmax" -> When(AxisIn(attr[1], RankOf(ins[1])),
                                Value(ins[1].shape, AtLeastFloat(ins[1].dtype)))
      [] op = "rope"      -> rope(ins[1], attr[1])
      [] op = "transpose" -> TransposeRule(ins[1], attr)
      [] op = "reshape"   -> Reshaped(ins[1], attr)
      [] op = "slice"     -> slice(ins[1], attr[1], attr[2], attr[3])
      [] op = "mean" -> ReduceRule(Value(ins[1].shape, AtLeastFloat(ins[1].dtype)),
                                   AxesOf(attr, ins[1]), KeepsFlag(attr))
      [] op = "sum"  -> ReduceRule(Value(ins[1].shape, Promote(I32, ins[1].dtype)),
                                   AxesOf(attr, ins[1]), KeepsFlag(attr))
      [] op = "cast"   -> Value(ins[1].shape, attr[1])
      [] op = "matmul" -> Matmul(ins[1], ins[2])
      [] op = "take"   -> Value(ins[2].shape \o Tail(ins[1].shape), ins[1].dtype)
      [] op \in {"layer_norm", "rms_norm"} -> Normed(ins)
      [] op = "sdpa"   -> sdpa(ins, attr[1] = 1)
      [] OTHER         -> cross_entropy(ins[1], ins[2])

(* The rotary embedding indexes the second axis from the end of the shape. *)
Panics(op, ins) == op = "rope" /\ RankOf(ins[1]) < 2

(* A slice whose last index is past its axis reads outside the array. *)
Strays(op, attr, ins) ==
    /\ op = "slice" /\ AxisIn(attr[1], RankOf(ins[1]))
    /\ attr[2] + attr[3] > ins[1].shape[AxisAt(attr[1], RankOf(ins[1]))]

(* What the rule "same as the input" (and the ones beside it) leaves       *)
(* unlooked at: the axis of a softmax, the width a rope turns in pairs, a  *)
(* gain that does not lie along the row, a mask, integers where MLX wants  *)
(* floats, and a symbolic dimension unified with a 1, which MLX stretches. *)
LiesAlong(gain, x) ==
    Stretches(x.shape, gain.shape) /\ Stretched(x.shape, gain.shape) = x.shape

TakenForOne(a, b) == \E i \in DOMAIN a : {a[i], b[i]} = {Symbolic, 1}

LeftUnlooked(op, attr, ins) ==
    \/ op = "softmax" /\ ~AxisIn(attr[1], RankOf(ins[1]))
    \/ op = "rope" /\ \/ RankOf(ins[1]) < 2
                      \/ LastOf(ins[1].shape) = Symbolic \/ LastOf(ins[1].shape) % 2 # 0
                      \/ attr[1] \notin {0, LastOf(ins[1].shape) \div 2}
    \/ op \in {"layer_norm", "rms_norm"} /\ \/ RankOf(ins[1]) = 0
                                            \/ \E i \in 2..Len(ins) : ~LiesAlong(ins[i], ins[1])
    \/ op = "matmul" /\ \/ ~Float(ins[1])
                        \/ /\ RankOf(ins[2]) > 2
                           /\ TakenForOne(Front2(ins[1].shape), Front2(ins[2].shape))
    \/ op = "cross_entropy" /\ TakenForOne(Front(ins[1].shape), ins[2].shape)
    \/ op = "sdpa" /\ \/ ~Float(ins[1])
                      \/ Len(ins) = 4 /\ attr[1] = 0
=============================================================================
