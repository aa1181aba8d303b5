---------------------------- MODULE BindingsProofs ----------------------------
(***************************************************************************)
(* That every handle mlx-c makes has one owner, whatever a function of the *)
(* binding is made of, whatever fails and however a closure ends; and that *)
(* an operation is reported for its first failure: for any lists, numbers  *)
(* of handles and failures.                                                *)
(***************************************************************************)
EXTENDS Bindings, TLAPS

-----------------------------------------------------------------------------
(* A stack of frames, each of which owns what no other does, and nothing   *)
(* twice.                                                                  *)

Numbered(s) == \E S : s \in Seq(S)
IsFrame(f) == f = [fn |-> f.fn, pc |-> f.pc, temp |-> f.temp, out |-> f.out]
Single(f) == IsFrame(f) /\ f.temp \cap f.out = {}

Apart(stack) ==
    /\ Numbered(stack)
    /\ \A i \in DOMAIN stack : Single(stack[i])
    /\ \A i, j \in DOMAIN stack : i # j => Owned(stack[i]) \cap Owned(stack[j]) = {}
AllOf(stack) == UNION {Owned(stack[i]) : i \in DOMAIN stack}

(* The engine is given handles only when the last frame is gone.           *)
HandlesInv ==
    /\ Apart(frames)
    /\ live = kept \cup AllOf(frames)
    /\ frames # <<>> => kept = {}

-----------------------------------------------------------------------------
(* Stacks.                                                                 *)

LEMMA NumberedFacts ==
    ASSUME NEW s, Numbered(s)
    PROVE  Len(s) \in Nat /\ DOMAIN s = 1..Len(s) /\ (s # <<>> => Len(s) >= 1)
           /\ (Len(s) = 0 => s = <<>>)
  BY DEF Numbered

LEMMA FrontFacts ==
    ASSUME NEW s, Numbered(s), s # <<>>
    PROVE  /\ Numbered(Front(s)) /\ Len(Front(s)) = Len(s) - 1
           /\ DOMAIN Front(s) = 1..(Len(s) - 1)
           /\ \A i \in 1..(Len(s) - 1) : Front(s)[i] = s[i]
           /\ Last(s) = s[Len(s)]
  <1>1. PICK S : s \in Seq(S)
    BY DEF Numbered
  <1>2. Len(s) \in Nat /\ Len(s) >= 1
    BY <1>1
  <1>3. /\ SubSeq(s, 1, Len(s) - 1) \in Seq(S)
        /\ Len(SubSeq(s, 1, Len(s) - 1)) = Len(s) - 1
        /\ \A i \in 1..(Len(s) - 1) : SubSeq(s, 1, Len(s) - 1)[i] = s[i]
    BY <1>1, <1>2
  <1> QED  BY <1>3, <1>2 DEF Front, Last, Numbered

LEMMA PushFacts ==
    ASSUME NEW s, NEW e, Numbered(s)
    PROVE  /\ Numbered(s \o <<e>>) /\ Append(s, e) = s \o <<e>> /\ s \o <<e>> # <<>>
           /\ DOMAIN (s \o <<e>>) = 1..(Len(s) + 1) /\ Len(s \o <<e>>) = Len(s) + 1
           /\ \A i \in 1..Len(s) : (s \o <<e>>)[i] = s[i]
           /\ (s \o <<e>>)[Len(s) + 1] = e
  <1>1. PICK S : s \in Seq(S)
    BY DEF Numbered
  <1>2. s \in Seq(S \cup {e}) /\ <<e>> \in Seq(S \cup {e}) /\ Len(<<e>>) = 1 /\ Len(s) \in Nat
    BY <1>1
  <1>3. s \o <<e>> \in Seq(S \cup {e}) /\ Len(s \o <<e>>) = Len(s) + 1
    BY <1>2
  <1>4. /\ \A i \in 1..Len(s) : (s \o <<e>>)[i] = s[i]
        /\ (s \o <<e>>)[Len(s) + 1] = e
    BY <1>2
  <1>5. Append(s, e) = s \o <<e>>
    BY <1>2
  <1>6. Numbered(s \o <<e>>)
    BY <1>3 DEF Numbered
  <1> QED  BY <1>2, <1>3, <1>4, <1>5, <1>6

(* The frame on top is gone, and what it owned.                            *)
LEMMA TopGoes ==
    ASSUME NEW stack, Apart(stack), stack # <<>>
    PROVE  /\ Apart(Front(stack)) /\ Single(Last(stack))
           /\ AllOf(stack) = AllOf(Front(stack)) \cup Owned(Last(stack))
           /\ AllOf(Front(stack)) \cap Owned(Last(stack)) = {}
  <1> DEFINE n == Len(stack)
  <1>1. n \in Nat /\ n >= 1 /\ DOMAIN stack = 1..n
    BY NumberedFacts DEF Apart
  <1>2. /\ Numbered(Front(stack)) /\ DOMAIN Front(stack) = 1..(n - 1)
        /\ \A i \in 1..(n - 1) : Front(stack)[i] = stack[i]
        /\ Last(stack) = stack[n]
    BY FrontFacts DEF Apart
  <1> HIDE DEF n
  <1>3. Apart(Front(stack)) /\ Single(Last(stack))
    BY <1>1, <1>2 DEF Apart
  <1>4. AllOf(stack) = AllOf(Front(stack)) \cup Owned(Last(stack))
    <2>1. ASSUME NEW h PROVE h \in AllOf(stack) <=> \E i \in 1..n : h \in Owned(stack[i])
      BY <1>1 DEF AllOf
    <2>2. ASSUME NEW h PROVE h \in AllOf(Front(stack)) <=> \E i \in 1..(n - 1) : h \in Owned(stack[i])
      BY <1>2 DEF AllOf
    <2>3. \A i \in 1..n : i = n \/ i \in 1..(n - 1)
      BY <1>1
    <2>4. n \in 1..n /\ \A i \in 1..(n - 1) : i \in 1..n
      BY <1>1
    <2> QED  BY <1>2, <2>1, <2>2, <2>3, <2>4
  <1>5. AllOf(Front(stack)) \cap Owned(Last(stack)) = {}
    <2>1. \A i \in 1..(n - 1) : i \in DOMAIN stack /\ n \in DOMAIN stack /\ i # n
      BY <1>1
    <2>2. \A i \in 1..(n - 1) : Owned(stack[i]) \cap Owned(stack[n]) = {}
      BY <2>1 DEF Apart
    <2> QED  BY <1>2, <2>2 DEF AllOf
  <1> QED  BY <1>3, <1>4, <1>5

(* A frame comes on top that owns what nobody did.                         *)
LEMMA TopComes ==
    ASSUME NEW stack, Apart(stack), NEW f, Single(f), AllOf(stack) \cap Owned(f) = {}
    PROVE  /\ Apart(stack \o <<f>>) /\ stack \o <<f>> # <<>> /\ Append(stack, f) = stack \o <<f>>
           /\ AllOf(stack \o <<f>>) = AllOf(stack) \cup Owned(f)
  <1> DEFINE n == Len(stack)
             grown == stack \o <<f>>
  <1>1. n \in Nat /\ DOMAIN stack = 1..n
    BY NumberedFacts DEF Apart
  <1>2. /\ Numbered(grown) /\ Append(stack, f) = grown /\ grown # <<>>
        /\ DOMAIN grown = 1..(n + 1)
        /\ \A i \in 1..n : grown[i] = stack[i]
        /\ grown[n + 1] = f
    BY PushFacts DEF Apart
  <1> HIDE DEF n, grown
  <1>3. \A i \in 1..(n + 1) : i = n + 1 \/ i \in 1..n
    BY <1>1
  <1>4. \A i \in 1..n : Owned(grown[i]) \cap Owned(f) = {}
    BY <1>1, <1>2 DEF AllOf
  <1>5. \A i, j \in DOMAIN grown : i # j => Owned(grown[i]) \cap Owned(grown[j]) = {}
    <2> SUFFICES ASSUME NEW i \in 1..(n + 1), NEW j \in 1..(n + 1), i # j
                 PROVE  Owned(grown[i]) \cap Owned(grown[j]) = {}
      BY <1>2
    <2>1. CASE i \in 1..n /\ j \in 1..n
      BY <1>1, <1>2, <2>1 DEF Apart
    <2>2. CASE i = n + 1 /\ j \in 1..n
      BY <1>2, <1>4, <2>2
    <2>3. CASE j = n + 1 /\ i \in 1..n
      BY <1>2, <1>4, <2>3
    <2> QED  BY <1>3, <2>1, <2>2, <2>3
  <1>6. \A i \in DOMAIN grown : Single(grown[i])
    BY <1>1, <1>2, <1>3 DEF Apart
  <1>7. AllOf(grown) = AllOf(stack) \cup Owned(f)
    <2>1. ASSUME NEW h PROVE h \in AllOf(grown) <=> \E i \in 1..(n + 1) : h \in Owned(grown[i])
      BY <1>2 DEF AllOf
    <2>2. ASSUME NEW h PROVE h \in AllOf(stack) <=> \E i \in 1..n : h \in Owned(grown[i])
      BY <1>1, <1>2 DEF AllOf
    <2>3. n + 1 \in 1..(n + 1) /\ \A i \in 1..n : i \in 1..(n + 1)
      BY <1>1
    <2> QED  BY <1>2, <1>3, <2>1, <2>2, <2>3
  <1> QED  BY <1>2, <1>5, <1>6, <1>7 DEF Apart, grown

-----------------------------------------------------------------------------
(* Frames.                                                                 *)

LEMMA EnteredOwnsNothing == \A fn : Single(Entered(fn)) /\ Owned(Entered(fn)) = {}
  BY DEF Entered, Single, IsFrame, Owned

LEMMA WentOwnsTheSame ==
    ASSUME NEW f, Single(f)
    PROVE  Single(Went(f)) /\ Owned(Went(f)) = Owned(f)
  BY DEF Single, IsFrame, Went, Owned

LEMMA HoldingOwns ==
    ASSUME NEW f, Single(f), NEW role, NEW handles, handles \cap Owned(f) = {}
    PROVE  /\ Single(Holding(f, role, handles))
           /\ Owned(Holding(f, role, handles)) = Owned(f) \cup handles
  <1>1. CASE role = "out"
    <2>1. Holding(f, role, handles) = [fn |-> f.fn, pc |-> f.pc, temp |-> f.temp, out |-> f.out \cup handles]
      BY <1>1 DEF Holding, Single, IsFrame
    <2> QED  BY <2>1 DEF Single, IsFrame, Owned
  <1>2. CASE role # "out"
    <2>1. Holding(f, role, handles) = [fn |-> f.fn, pc |-> f.pc, temp |-> f.temp \cup handles, out |-> f.out]
      BY <1>2 DEF Holding, Single, IsFrame
    <2> QED  BY <2>1 DEF Single, IsFrame, Owned
  <1> QED  BY <1>1, <1>2

(* The frame on top goes on, with handles nobody on the stack owned.       *)
LEMMA TopGoesOn ==
    ASSUME NEW stack, Apart(stack), stack # <<>>, NEW role, NEW handles,
           handles \cap AllOf(stack) = {}
    PROVE  LET grown == Front(stack) \o <<Went(Holding(Last(stack), role, handles))>>
           IN  Apart(grown) /\ grown # <<>> /\ AllOf(grown) = AllOf(stack) \cup handles
  <1> DEFINE f == Went(Holding(Last(stack), role, handles))
  <1>1. /\ Apart(Front(stack)) /\ Single(Last(stack))
        /\ AllOf(stack) = AllOf(Front(stack)) \cup Owned(Last(stack))
        /\ AllOf(Front(stack)) \cap Owned(Last(stack)) = {}
    BY TopGoes
  <1>2. Single(f) /\ Owned(f) = Owned(Last(stack)) \cup handles
    BY <1>1, HoldingOwns, WentOwnsTheSame
  <1>3. AllOf(Front(stack)) \cap Owned(f) = {}
    BY <1>1, <1>2
  <1> HIDE DEF f
  <1>4. Apart(Front(stack) \o <<f>>) /\ Front(stack) \o <<f>> # <<>>
        /\ AllOf(Front(stack) \o <<f>>) = AllOf(Front(stack)) \cup Owned(f)
    BY <1>1, <1>2, <1>3, TopComes
  <1> QED  BY <1>1, <1>2, <1>4 DEF f

LEMMA TopSteps ==
    ASSUME Apart(frames), frames # <<>>
    PROVE  Apart(With(Went(Top))) /\ With(Went(Top)) # <<>> /\ AllOf(With(Went(Top))) = AllOf(frames)
  <1>1. /\ Apart(Front(frames)) /\ Single(Top)
        /\ AllOf(frames) = AllOf(Front(frames)) \cup Owned(Top)
        /\ AllOf(Front(frames)) \cap Owned(Top) = {}
    BY TopGoes DEF Top
  <1>2. Single(Went(Top)) /\ Owned(Went(Top)) = Owned(Top)
    BY <1>1, WentOwnsTheSame
  <1> QED  BY <1>1, <1>2, TopComes DEF With

(* What a frame returns goes to the one below, if there is one.            *)
LEMMA GivenOwns ==
    ASSUME NEW rest, Apart(rest), NEW handles, handles \cap AllOf(rest) = {}
    PROVE  /\ Apart(Given(rest, handles))
           /\ rest # <<>> => AllOf(Given(rest, handles)) = AllOf(rest) \cup handles
           /\ rest = <<>> <=> Given(rest, handles) = <<>>
  <1>1. CASE rest = <<>>
    BY <1>1 DEF Given
  <1>2. CASE rest # <<>>
    <2> DEFINE role == Scripts[Last(rest).fn][Last(rest).pc].role
    <2>1. Given(rest, handles) = Front(rest) \o <<Went(Holding(Last(rest), role, handles))>>
      BY <1>2 DEF Given
    <2> HIDE DEF role
    <2> QED  BY <1>2, <2>1, TopGoesOn
  <1> QED  BY <1>1, <1>2

LEMMA NothingOwned == AllOf(<<>>) = {} /\ Apart(<<>>)
  <1>1. <<>> \in Seq({}) /\ DOMAIN <<>> = {}
    OBVIOUS
  <1> QED  BY <1>1 DEF AllOf, Apart, Numbered

-----------------------------------------------------------------------------
(* One lemma per action.                                                   *)

LEMMA InitHolds == BindingsInit => HandlesInv
  BY NothingOwned DEF BindingsInit, HandlesInv

LEMMA BeginKeeps == ASSUME NEW fn, HandlesInv, Starts(fn) PROVE HandlesInv'
  <1>1. frames = <<>> /\ frames' = <<Entered(fn)>> /\ kept = {} /\ UNCHANGED <<live, kept>>
    BY DEF Starts, Idle
  <1>2. Single(Entered(fn)) /\ Owned(Entered(fn)) = {}
    BY EnteredOwnsNothing
  <1>3. Apart(<<>> \o <<Entered(fn)>>) /\ AllOf(<<>> \o <<Entered(fn)>>) = {}
    BY <1>2, NothingOwned, TopComes
  <1>4. <<>> \o <<Entered(fn)>> = <<Entered(fn)>>
    OBVIOUS
  <1> QED  BY <1>1, <1>3, <1>4, NothingOwned DEF HandlesInv

LEMMA LetGoKeeps == HandlesInv /\ LetGo => HandlesInv'
  <1> SUFFICES ASSUME HandlesInv, LetGo PROVE HandlesInv'
    OBVIOUS
  <1>1. frames = <<>> /\ frames' = frames /\ live' = live \ kept /\ kept' = {}
    BY DEF LetGo, Idle
  <1> QED  BY <1>1, NothingOwned DEF HandlesInv

LEMMA TakesKeeps == HandlesInv /\ Takes => HandlesInv'
  <1> SUFFICES ASSUME HandlesInv, Takes PROVE HandlesInv'
    OBVIOUS
  <1> DEFINE h == FreshHandle
             role == Step.role
  <1>1. frames # <<>> /\ kept' = kept
    BY DEF Takes, At, Running, Idle
  <1>2. h \notin live
    BY DEF Takes, FreshHandle
  <1>3. frames' = Front(frames) \o <<Went(Holding(Last(frames), role, {h}))>> /\ live' = live \cup {h}
    BY DEF Takes, With, Top
  <1> HIDE DEF h, role
  <1>4. {h} \cap AllOf(frames) = {}
    BY <1>2 DEF HandlesInv
  <1>5. Apart(frames') /\ AllOf(frames') = AllOf(frames) \cup {h}
    BY <1>1, <1>3, <1>4, TopGoesOn DEF HandlesInv
  <1> QED  BY <1>1, <1>3, <1>5 DEF HandlesInv

LEMMA GoesOnKeeps ==
    ASSUME HandlesInv, frames # <<>>, frames' = With(Went(Top)), UNCHANGED <<live, kept>>
    PROVE  HandlesInv'
  BY TopSteps DEF HandlesInv

LEMMA StaysKeeps == HandlesInv /\ UNCHANGED <<frames, live, kept>> => HandlesInv'
  BY DEF HandlesInv

LEMMA CallsKeeps == HandlesInv /\ Calls => HandlesInv'
  <1> SUFFICES ASSUME HandlesInv, Calls PROVE HandlesInv'
    OBVIOUS
  <1> DEFINE f == Entered(Step.fn)
  <1>1. frames # <<>> /\ frames' = Append(frames, f) /\ UNCHANGED <<live, kept>>
    BY DEF Calls, At, Running, Idle
  <1>2. Single(f) /\ Owned(f) = {}
    BY EnteredOwnsNothing
  <1> HIDE DEF f
  <1>3. Apart(frames') /\ AllOf(frames') = AllOf(frames)
    BY ZenonT(40), <1>1, <1>2, TopComes DEF HandlesInv
  <1> QED  BY <1>1, <1>3 DEF HandlesInv

LEMMA ReturnsKeeps == HandlesInv /\ Returns => HandlesInv'
  <1> SUFFICES ASSUME HandlesInv, Returns PROVE HandlesInv'
    OBVIOUS
  <1> DEFINE rest == Front(frames)
  <1>1. /\ frames # <<>> /\ frames' = Given(rest, Top.out) /\ live' = live \ Top.temp
        /\ kept' = IF Len(frames) = 1 THEN Top.out ELSE kept
    BY DEF Returns, Running, Idle
  <1>2. /\ Apart(rest) /\ Single(Top) /\ AllOf(frames) = AllOf(rest) \cup Owned(Top)
        /\ AllOf(rest) \cap Owned(Top) = {}
    BY <1>1, TopGoes DEF HandlesInv, Top
  <1>3. Len(frames) = 1 <=> rest = <<>>
    <2>1. Len(frames) \in Nat /\ Numbered(frames) /\ Len(frames) >= 1
      BY <1>1, NumberedFacts DEF HandlesInv, Apart
    <2>2. Numbered(rest) /\ Len(rest) = Len(frames) - 1
      BY <1>1, <2>1, FrontFacts
    <2>3. Len(rest) = 0 <=> rest = <<>>
      BY <2>2, NumberedFacts
    <2> QED  BY <2>1, <2>2, <2>3
  <1>4. live = AllOf(rest) \cup Owned(Top) /\ kept = {}
    BY <1>1, <1>2 DEF HandlesInv
  <1> HIDE DEF rest
  <1>5. Owned(Top) = Top.temp \cup Top.out /\ Top.temp \cap Top.out = {}
    BY <1>2 DEF Owned, Single
  <1>6. Top.out \cap AllOf(rest) = {}
    BY <1>2, <1>5
  <1>7. live' = AllOf(rest) \cup Top.out
    BY <1>1, <1>2, <1>4, <1>5
  <1>8. CASE rest = <<>>
    <2>1. frames' = <<>> /\ kept' = Top.out
      BY <1>1, <1>3, <1>8 DEF Given
    <2> QED  BY <1>7, <1>8, <2>1, NothingOwned DEF HandlesInv
  <1>9. CASE rest # <<>>
    <2>1. Apart(frames') /\ AllOf(frames') = AllOf(rest) \cup Top.out /\ kept' = {}
      BY <1>1, <1>2, <1>3, <1>4, <1>6, <1>9, GivenOwns
    <2> QED  BY <1>7, <2>1 DEF HandlesInv
  <1> QED  BY <1>8, <1>9

(* A frame is left by an error, and what it owned is freed.                *)
LEMMA LeavesKeeps ==
    ASSUME HandlesInv, frames # <<>>, frames' \in {Front(frames), Given(Front(frames), {})},
           live' = live \ Owned(Top), kept' = kept
    PROVE  HandlesInv'
  <1> DEFINE rest == Front(frames)
  <1>1. /\ Apart(rest) /\ AllOf(frames) = AllOf(rest) \cup Owned(Top)
        /\ AllOf(rest) \cap Owned(Top) = {}
    BY TopGoes DEF HandlesInv, Top
  <1>2. kept = {} /\ live' = AllOf(rest)
    BY <1>1 DEF HandlesInv
  <1>3. Apart(Given(rest, {})) /\ (rest # <<>> => AllOf(Given(rest, {})) = AllOf(rest))
        /\ (rest = <<>> <=> Given(rest, {}) = <<>>)
    <2>1. {} \cap AllOf(rest) = {}
      OBVIOUS
    <2>2. AllOf(rest) \cup {} = AllOf(rest)
      OBVIOUS
    <2> QED  BY <1>1, <2>1, <2>2, GivenOwns
  <1>4. Apart(frames') /\ AllOf(frames') = AllOf(rest)
    BY <1>1, <1>3
  <1> QED  BY <1>2, <1>4 DEF HandlesInv

LEMMA NextKeeps == HandlesInv /\ [BindingsNext]_bindingVars => HandlesInv'
  <1> SUFFICES ASSUME HandlesInv, [BindingsNext]_bindingVars PROVE HandlesInv'
    OBVIOUS
  <1>1. ASSUME NEW fn \in Operations, Starts(fn) PROVE HandlesInv'
    BY <1>1, BeginKeeps
  <1>2. CASE LetGo \/ Takes \/ Calls \/ Returns
    BY <1>2, LetGoKeeps, TakesKeeps, CallsKeeps, ReturnsKeeps
  <1>3. CASE Succeeds \/ Settles
    <2>1. frames # <<>> /\ frames' = With(Went(Top)) /\ UNCHANGED <<live, kept>>
      BY <1>3 DEF Succeeds, Settles, At, Running, Idle
    <2> QED  BY <2>1, GoesOnKeeps
  <1>4. CASE RefusedAtGate \/ MlxFails \/ RustFails \/ UNCHANGED bindingVars
    BY <1>4, StaysKeeps DEF RefusedAtGate, MlxFails, RustFails, bindingVars
  <1>5. CASE ClosureCallFails
    <2>1. /\ frames # <<>> /\ frames' = Given(Front(frames), {})
          /\ live' = live \ Owned(Top) /\ kept' = kept
      BY <1>5 DEF ClosureCallFails, Running, Idle
    <2> QED  BY <2>1, LeavesKeeps
  <1>6. CASE Unwinds \/ Parks
    <2>1. /\ frames # <<>> /\ frames' \in {Front(frames), Given(Front(frames), {})}
          /\ live' = live \ Owned(Top) /\ kept' = kept
      BY <1>6 DEF Unwinds, Parks, Idle, Freed
    <2> QED  BY <2>1, LeavesKeeps
  <1> QED  BY <1>1, <1>2, <1>3, <1>4, <1>5, <1>6 DEF BindingsNext

-----------------------------------------------------------------------------
(* The inductive invariant: the frames own the live handles, each once,    *)
(* and the engine none until the last frame is gone.                       *)
THEOREM HandlesInvariance == BindingsSpec => []HandlesInv
  BY InitHolds, NextKeeps, PTL DEF BindingsSpec

(* Whatever an operation is made of and however it ends, by a return, an   *)
(* error of MLX's or Rust's, or a panic through a closure, no handle of    *)
(* mlx-c's is leaked, and none has two owners who would free it.           *)
THEOREM HandlesHaveOneOwner == BindingsSpec => []EveryHandleHasOneOwner
  <1>1. HandlesInv => EveryHandleHasOneOwner
    BY DEF HandlesInv, EveryHandleHasOneOwner, Apart, AllOf, Single
  <1> QED  BY HandlesInvariance, <1>1, PTL

-----------------------------------------------------------------------------
(* What the functions are made of.  Only apply calls mlx-c's closure, and  *)
(* only mlx-c the trampoline.                                              *)

Ordinary == {"current", "cpu", "made", "try_from_op", "next_entry", "clone", "on_stream",
             "op", "vector_of", "read", "item", "item_converted", "as_slice", "eval",
             "joined", "take_along_axis", "attention", "draw", "split", "gelu", "load",
             "save", "memory", "report", "clear_cache", "metallib", "closure_new",
             "value_and_grad", "closure", "apply"}

Roles == {"temp", "out"}

(* A step other than those two calls.                                      *)
Plain == {New(role) : role \in Roles} \cup {Made(role) : role \in Roles}
           \cup {Checked, MayRefuse, Graph, Settle}
           \cup {Call(fn, role) : fn \in Ordinary, role \in Roles}

LEMMA PlainSteps ==
    /\ \A role \in Roles : New(role) \in Plain /\ Made(role) \in Plain
    /\ Checked \in Plain /\ MayRefuse \in Plain /\ Graph \in Plain /\ Settle \in Plain
    /\ \A fn \in Ordinary, role \in Roles : Call(fn, role) \in Plain
  BY DEF Plain

LEMMA PlainCalls ==
    \A s \in Plain : IF s.k = "call" THEN s.fn \in Ordinary ELSE s.fn = "none"
  <1>1. /\ \A role \in Roles : New(role).k # "call" /\ New(role).fn = "none"
        /\ \A role \in Roles : Made(role).k # "call" /\ Made(role).fn = "none"
        /\ \A fn \in Ordinary, role \in Roles : Call(fn, role).k = "call" /\ Call(fn, role).fn = fn
    BY DEF New, Made, Call
  <1>2. \A s \in {Checked, MayRefuse, Graph, Settle} : s.k # "call" /\ s.fn = "none"
    BY DEF Checked, MayRefuse, Graph, Settle
  <1> QED  BY <1>1, <1>2 DEF Plain

LEMMA TimesPlain == ASSUME NEW n \in Nat, NEW step \in Plain PROVE Times(n, step) \in Seq(Plain)
  BY DEF Times

LEMMA ScriptOf ==
    /\ DOMAIN Scripts = Ordinary \cup {"mlx_c", "trampoline"}
    /\ Scripts["apply"] = Apply /\ Scripts["mlx_c"] = MlxC
    /\ Scripts["trampoline"] = Trampoline
  BY DEF Scripts, Ordinary

LEMMA PlainScripts == \A fn \in Ordinary \ {"apply"} : Scripts[fn] \in Seq(Plain)
  <1> USE DEF Ordinary, Roles
  <1>1. Device \in Seq(Plain) /\ WrittenOut \in Seq(Plain) /\ NextEntry \in Seq(Plain)
        /\ Ctor \in Seq(Plain)
    BY PlainSteps DEF Device, WrittenOut, NextEntry, Ctor
  <1>2. OnStream \in Seq(Plain) /\ OneCall \in Seq(Plain) /\ Evaluated \in Seq(Plain)
        /\ Joined \in Seq(Plain) /\ AlongAxis \in Seq(Plain) /\ Attention \in Seq(Plain)
    BY PlainSteps DEF OnStream, OneCall, Evaluated, Joined, AlongAxis, Attention
  <1>3. Drawn \in Seq(Plain) /\ KeysOf \in Seq(Plain)
    BY PlainSteps DEF Drawn, KeysOf
  <1>4. Item \in Seq(Plain) /\ ItemConverted \in Seq(Plain) /\ AsSlice \in Seq(Plain)
    BY PlainSteps DEF Item, ItemConverted, AsSlice
  <1>5. Gelu \in Seq(Plain)
    BY PlainSteps DEF Gelu
  <1>6. VectorOf \in Seq(Plain) /\ VectorRead \in Seq(Plain)
    <2>1. Times(Arrays, Checked) \in Seq(Plain) /\ Times(Arrays, Call("try_from_op", "out")) \in Seq(Plain)
      BY PlainSteps, TimesPlain, BindingsAssumption
    <2>2. <<New("out")>> \in Seq(Plain)
      BY PlainSteps
    <2> QED  BY <2>1, <2>2 DEF VectorOf, VectorRead
  <1>7. Load \in Seq(Plain)
    <2>1. Times(Arrays, Call("next_entry", "out")) \in Seq(Plain)
      BY PlainSteps, TimesPlain, BindingsAssumption
    <2>2. <<MayRefuse, Call("cpu", "temp"), New("temp"), New("temp"), Checked, New("temp")>> \in Seq(Plain)
          /\ <<New("temp")>> \in Seq(Plain)
      BY PlainSteps
    <2> QED  BY <2>1, <2>2 DEF Load
  <1>8. SaveTo \in Seq(Plain)
    <2>1. Inserts \in Seq(Plain)
      <3>1. 2 * Arrays \in Nat
        BY BindingsAssumption
      <3> QED  BY <3>1, PlainSteps DEF Inserts
    <2>2. <<MayRefuse, New("temp")>> \in Seq(Plain)
          /\ <<New("temp"), MayRefuse, Checked, Checked>> \in Seq(Plain)
      BY PlainSteps
    <2> QED  BY <2>1, <2>2 DEF SaveTo
  <1>9. Counter \in Seq(Plain) /\ Report \in Seq(Plain) /\ ClearCache \in Seq(Plain)
        /\ Metallib \in Seq(Plain) /\ ClosureNew \in Seq(Plain) /\ Gradient \in Seq(Plain)
        /\ ClosureBody \in Seq(Plain)
    <2>1. Report \in Seq(Plain) /\ ClearCache \in Seq(Plain)
      BY PlainSteps, TimesPlain DEF Report, ClearCache
    <2>2. Counter \in Seq(Plain) /\ Metallib \in Seq(Plain) /\ ClosureNew \in Seq(Plain)
      BY PlainSteps DEF Counter, Metallib, ClosureNew
    <2>3. Gradient \in Seq(Plain) /\ ClosureBody \in Seq(Plain)
      BY PlainSteps DEF Gradient, ClosureBody
    <2> QED  BY <2>1, <2>2, <2>3
  <1>10. \A fn \in {"current", "cpu", "made", "try_from_op", "next_entry", "clone"} :
           Scripts[fn] \in Seq(Plain)
    BY <1>1 DEF Scripts
  <1>11. \A fn \in {"on_stream", "op", "eval", "joined", "take_along_axis", "attention"} :
           Scripts[fn] \in Seq(Plain)
    BY <1>2 DEF Scripts
  <1>12. \A fn \in {"draw", "split", "item", "item_converted", "as_slice", "gelu"} :
           Scripts[fn] \in Seq(Plain)
    BY <1>3, <1>4, <1>5 DEF Scripts
  <1>13. \A fn \in {"vector_of", "read", "load", "save"} : Scripts[fn] \in Seq(Plain)
    BY <1>6, <1>7, <1>8 DEF Scripts
  <1>14. \A fn \in {"memory", "report", "clear_cache", "metallib", "closure_new",
                     "value_and_grad", "closure"} : Scripts[fn] \in Seq(Plain)
    BY <1>9 DEF Scripts
  <1> QED  BY <1>10, <1>11, <1>12, <1>13, <1>14 DEF Ordinary

LEMMA SpecialScripts ==
    /\ Len(Apply) = 7 /\ Apply[4] = Call("mlx_c", "temp") /\ Apply[5] = Settle
    /\ \A pc \in {1, 2, 3, 5, 6, 7} : Apply[pc] \in Plain
    /\ Len(MlxC) = 3 /\ MlxC[3] = Call("trampoline", "temp")
    /\ MlxC[1] \in Plain /\ MlxC[2] \in Plain
    /\ Trampoline \in Seq(Plain)
  <1>1. Trampoline \in Seq(Plain)
    BY PlainSteps DEF Trampoline, Ordinary, Roles
  <1>2. \A pc \in {1, 2, 3, 5, 6, 7} : Apply[pc] \in Plain
    BY PlainSteps DEF Apply, Ordinary, Roles
  <1>3. MlxC[1] \in Plain /\ MlxC[2] \in Plain
    BY PlainSteps DEF MlxC, Roles
  <1> QED  BY <1>1, <1>2, <1>3 DEF Apply, MlxC

(* What a step calls, and from where the two special calls are made.       *)
LEMMA StepFacts ==
    ASSUME NEW fn \in DOMAIN Scripts, NEW pc \in 1 .. Len(Scripts[fn])
    PROVE  /\ Scripts[fn][pc].k = "call" => Scripts[fn][pc].fn \in DOMAIN Scripts
           /\ Scripts[fn][pc].fn = "mlx_c" => fn = "apply" /\ pc = 4
           /\ Scripts[fn][pc].fn = "trampoline" => fn = "mlx_c" /\ pc = 3
  <1>1. \A s \in Plain : /\ s.k = "call" => s.fn \in DOMAIN Scripts
                         /\ s.fn # "mlx_c" /\ s.fn # "trampoline"
    BY PlainCalls, ScriptOf DEF Ordinary
  <1>2. CASE fn \in Ordinary \ {"apply"}
    <2>1. Scripts[fn][pc] \in Plain
      BY <1>2, PlainScripts
    <2> QED  BY <1>1, <2>1
  <1>3. CASE fn = "apply"
    <2>1. pc \in 1 .. 7 /\ Scripts[fn][pc] = Apply[pc]
      BY <1>3, ScriptOf, SpecialScripts
    <2>2. CASE pc = 4
      BY <1>3, <2>1, <2>2, SpecialScripts, ScriptOf DEF Call
    <2>3. CASE pc # 4
      <3>1. pc \in {1, 2, 3, 5, 6, 7}
        BY <2>1, <2>3
      <3> QED  BY <1>1, <2>1, <3>1, SpecialScripts
    <2> QED  BY <2>2, <2>3
  <1>4. CASE fn = "mlx_c"
    <2>1. pc \in 1 .. 3 /\ Scripts[fn][pc] = MlxC[pc]
      BY <1>4, ScriptOf, SpecialScripts
    <2>2. CASE pc = 3
      BY <1>4, <2>1, <2>2, SpecialScripts, ScriptOf DEF Call
    <2>3. CASE pc # 3
      <3>1. pc \in {1, 2}
        BY <2>1, <2>3
      <3> QED  BY <1>1, <2>1, <3>1, SpecialScripts
    <2> QED  BY <2>2, <2>3
  <1>5. CASE fn = "trampoline"
    <2>1. Scripts[fn][pc] \in Plain
      BY <1>5, ScriptOf, SpecialScripts
    <2> QED  BY <1>1, <2>1
  <1> QED  BY <1>2, <1>3, <1>4, <1>5, ScriptOf

-----------------------------------------------------------------------------
(* A stack on which each frame was called by the one below it, the lowest  *)
(* by the engine.                                                          *)

Proper(f) == IsFrame(f) /\ f.fn \in DOMAIN Scripts /\ f.pc \in Nat \ {0}
Awaits(f, fn) == f.pc <= Len(Scripts[f.fn]) /\ Scripts[f.fn][f.pc].fn = fn

Chained(stack) ==
    /\ Numbered(stack)
    /\ \A i \in DOMAIN stack : Proper(stack[i])
    /\ \A i \in DOMAIN stack : i = 1 => stack[i].fn \in Operations
    /\ \A i \in DOMAIN stack : i > 1 => Awaits(stack[i - 1], stack[i].fn)

LEMMA LowestCalled ==
    /\ Operations \subseteq DOMAIN Scripts
    /\ "mlx_c" \notin Operations /\ "trampoline" \notin Operations
  BY ScriptOf DEF Operations, Ordinary

LEMMA ChainShrinks ==
    ASSUME NEW stack, Chained(stack), stack # <<>>
    PROVE  /\ Chained(Front(stack)) /\ Proper(Last(stack))
           /\ Front(stack) = <<>> => Last(stack).fn \in Operations
           /\ Front(stack) # <<>> => /\ Proper(Last(Front(stack)))
                                     /\ Awaits(Last(Front(stack)), Last(stack).fn)
           /\ (Len(stack) = 1) <=> (Front(stack) = <<>>)
  <1> DEFINE n == Len(stack)
             rest == Front(stack)
  <1>1. n \in Nat /\ n >= 1 /\ DOMAIN stack = 1..n
    BY NumberedFacts DEF Chained
  <1>2. /\ Numbered(rest) /\ Len(rest) = n - 1 /\ DOMAIN rest = 1..(n - 1)
        /\ \A i \in 1..(n - 1) : rest[i] = stack[i]
        /\ Last(stack) = stack[n]
    BY FrontFacts DEF Chained
  <1>3. (n = 1) <=> (rest = <<>>)
    BY <1>1, <1>2, NumberedFacts
  <1>4. rest # <<>> => Last(rest) = stack[n - 1] /\ n > 1 /\ n - 1 \in 1..(n - 1)
    BY <1>1, <1>2, <1>3, FrontFacts
  <1> HIDE DEF n, rest
  <1>5. \A i \in 1..(n - 1) : i \in 1..n /\ (i > 1 => i - 1 \in 1..(n - 1))
    BY <1>1
  <1>6. Chained(rest)
    BY <1>1, <1>2, <1>5 DEF Chained
  <1>7. n \in DOMAIN stack
    BY <1>1
  <1> QED  BY <1>1, <1>2, <1>3, <1>4, <1>5, <1>6, <1>7 DEF Chained, n, rest

LEMMA ChainGrows ==
    ASSUME NEW stack, Chained(stack), NEW f, Proper(f),
           IF stack = <<>> THEN f.fn \in Operations ELSE Awaits(Last(stack), f.fn)
    PROVE  /\ Chained(stack \o <<f>>) /\ stack \o <<f>> # <<>> /\ Append(stack, f) = stack \o <<f>>
           /\ Last(stack \o <<f>>) = f
  <1> DEFINE n == Len(stack)
             grown == stack \o <<f>>
  <1>1. n \in Nat /\ DOMAIN stack = 1..n /\ (n = 0 <=> stack = <<>>)
    BY NumberedFacts DEF Chained
  <1>2. /\ Numbered(grown) /\ Append(stack, f) = grown /\ grown # <<>>
        /\ DOMAIN grown = 1..(n + 1) /\ Len(grown) = n + 1
        /\ \A i \in 1..n : grown[i] = stack[i]
        /\ grown[n + 1] = f
    BY PushFacts DEF Chained
  <1>3. Last(grown) = f
    BY <1>2 DEF Last
  <1>4. n # 0 => Last(stack) = stack[n]
    BY DEF Last
  <1> HIDE DEF n, grown
  <1>5. \A i \in DOMAIN grown : Proper(grown[i])
    <2>1. \A i \in 1..(n + 1) : i = n + 1 \/ i \in 1..n
      BY <1>1
    <2> QED  BY <1>1, <1>2, <2>1 DEF Chained
  <1>6. ASSUME NEW i \in DOMAIN grown, i = 1 PROVE grown[i].fn \in Operations
    <2>1. CASE n = 0
      BY <1>1, <1>2, <1>6, <2>1
    <2>2. CASE n # 0
      <3>1. 1 \in 1..n
        BY <1>1, <2>2
      <3> QED  BY <1>1, <1>2, <1>6, <3>1 DEF Chained
    <2> QED  BY <2>1, <2>2
  <1>7. ASSUME NEW i \in DOMAIN grown, i > 1 PROVE Awaits(grown[i - 1], grown[i].fn)
    <2>1. CASE i = n + 1
      <3>1. n # 0 /\ n \in 1..n /\ i - 1 = n
        BY <1>1, <1>7, <2>1
      <3>2. grown[i - 1] = Last(stack) /\ grown[i] = f /\ stack # <<>>
        BY <1>1, <1>2, <1>4, <2>1, <3>1
      <3> QED  BY <3>2
    <2>2. CASE i # n + 1
      <3>1. i \in 1..n /\ i - 1 \in 1..n
        BY <1>1, <1>2, <1>7, <2>2
      <3> QED  BY <1>1, <1>2, <1>7, <3>1 DEF Chained
    <2> QED  BY <2>1, <2>2
  <1> QED  BY <1>2, <1>3, <1>5, <1>6, <1>7 DEF Chained, grown

LEMMA HoldingIsProper ==
    ASSUME NEW f, Proper(f), NEW role, NEW handles
    PROVE  /\ Proper(Went(f)) /\ Went(f).fn = f.fn /\ Went(f).pc = f.pc + 1
           /\ Proper(Holding(f, role, handles))
           /\ Holding(f, role, handles).fn = f.fn /\ Holding(f, role, handles).pc = f.pc
  <1>1. IsFrame(f) /\ f.pc \in Nat /\ f.pc + 1 \in Nat \ {0}
    BY DEF Proper
  <1>2. Went(f) = [fn |-> f.fn, pc |-> f.pc + 1, temp |-> f.temp, out |-> f.out]
    BY <1>1 DEF Went, IsFrame
  <1>3. \/ Holding(f, role, handles) = [fn |-> f.fn, pc |-> f.pc, temp |-> f.temp, out |-> f.out \cup handles]
        \/ Holding(f, role, handles) = [fn |-> f.fn, pc |-> f.pc, temp |-> f.temp \cup handles, out |-> f.out]
    BY <1>1 DEF Holding, IsFrame
  <1> QED  BY <1>1, <1>2, <1>3 DEF Proper, IsFrame

LEMMA ChainGoesOn ==
    ASSUME NEW stack, Chained(stack), stack # <<>>, NEW f, Proper(f), f.fn = Last(stack).fn
    PROVE  LET grown == Front(stack) \o <<f>>
           IN  Chained(grown) /\ grown # <<>> /\ Last(grown) = f
  <1>1. Chained(Front(stack)) /\ (IF Front(stack) = <<>> THEN f.fn \in Operations
                                  ELSE Awaits(Last(Front(stack)), f.fn))
    BY ChainShrinks
  <1> QED  BY <1>1, ChainGrows

LEMMA ChainGiven ==
    ASSUME NEW rest, Chained(rest), NEW handles
    PROVE  /\ Chained(Given(rest, handles)) /\ (Given(rest, handles) = <<>> <=> rest = <<>>)
           /\ rest # <<>> => /\ Last(Given(rest, handles)).fn = Last(rest).fn
                             /\ Last(Given(rest, handles)).pc = Last(rest).pc + 1
  <1>1. CASE rest = <<>>
    BY <1>1 DEF Given
  <1>2. CASE rest # <<>>
    <2> DEFINE g == Holding(Last(rest), Scripts[Last(rest).fn][Last(rest).pc].role, handles)
               f == Went(g)
    <2>1. Given(rest, handles) = Front(rest) \o <<f>>
      BY <1>2 DEF Given
    <2>2. Proper(Last(rest))
      BY <1>2, ChainShrinks
    <2>3. Proper(g) /\ g.fn = Last(rest).fn /\ g.pc = Last(rest).pc
      BY <2>2, HoldingIsProper
    <2> HIDE DEF g
    <2>4. Proper(f) /\ f.fn = Last(rest).fn /\ f.pc = Last(rest).pc + 1
      BY <2>3, HoldingIsProper
    <2> HIDE DEF f
    <2> QED  BY <1>2, <2>1, <2>4, ChainGoesOn
  <1> QED  BY <1>1, <1>2

LEMMA EnteredIsProper ==
    \A fn \in DOMAIN Scripts : Proper(Entered(fn)) /\ Entered(fn).fn = fn
  BY DEF Entered, Proper, IsFrame

(* What a return leaves: the caller, one step on.                          *)
LEMMA ChainReturns ==
    ASSUME NEW stack, Chained(stack), stack # <<>>, NEW handles
    PROVE  /\ Chained(Given(Front(stack), handles))
           /\ Last(stack).fn = "mlx_c" =>
                 /\ Given(Front(stack), handles) # <<>>
                 /\ Last(Given(Front(stack), handles)).fn = "apply"
                 /\ Last(Given(Front(stack), handles)).pc = 5
           /\ Last(stack).fn = "trampoline" =>
                 /\ Given(Front(stack), handles) # <<>>
                 /\ Last(Given(Front(stack), handles)).fn = "mlx_c"
                 /\ Last(Given(Front(stack), handles)).pc = 4
  <1> DEFINE rest == Front(stack)
             caller == Last(rest)
  <1>1. /\ Chained(rest)
        /\ rest = <<>> => Last(stack).fn \in Operations
        /\ rest # <<>> => Proper(caller) /\ Awaits(caller, Last(stack).fn)
    BY ChainShrinks
  <1>2. /\ Chained(Given(rest, handles)) /\ (Given(rest, handles) = <<>> <=> rest = <<>>)
        /\ rest # <<>> => /\ Last(Given(rest, handles)).fn = caller.fn
                          /\ Last(Given(rest, handles)).pc = caller.pc + 1
    BY <1>1, ChainGiven
  <1> HIDE DEF rest, caller
  <1>3. ASSUME Last(stack).fn \in {"mlx_c", "trampoline"}
        PROVE  rest # <<>> /\ caller.fn \in DOMAIN Scripts
               /\ caller.pc \in 1 .. Len(Scripts[caller.fn])
               /\ Scripts[caller.fn][caller.pc].fn = Last(stack).fn
    <2>1. rest # <<>> /\ Proper(caller) /\ Awaits(caller, Last(stack).fn)
      BY <1>1, <1>3, LowestCalled
    <2>2. Len(Scripts[caller.fn]) \in Nat
      <3>1. CASE caller.fn \in Ordinary \ {"apply"}
        BY <3>1, PlainScripts
      <3>2. CASE caller.fn \in {"apply", "mlx_c", "trampoline"}
        BY <3>2, ScriptOf, SpecialScripts
      <3> QED  BY <2>1, <3>1, <3>2, ScriptOf DEF Proper
    <2> QED  BY <2>1, <2>2 DEF Proper, Awaits
  <1>4. ASSUME Last(stack).fn = "mlx_c" PROVE caller.fn = "apply" /\ caller.pc = 4
    BY <1>3, <1>4, StepFacts
  <1>5. ASSUME Last(stack).fn = "trampoline" PROVE caller.fn = "mlx_c" /\ caller.pc = 3
    BY <1>3, <1>5, StepFacts
  <1>6. 4 + 1 = 5 /\ 3 + 1 = 4
    OBVIOUS
  <1> QED  BY <1>2, <1>3, <1>4, <1>5, <1>6 DEF rest

-----------------------------------------------------------------------------
(* Every step keeps the stack a chain of calls.                            *)

LEMMA LinesOfScripts == \A fn \in DOMAIN Scripts : Len(Scripts[fn]) \in Nat
  <1>1. \A fn \in Ordinary \ {"apply"} : Len(Scripts[fn]) \in Nat
    BY PlainScripts
  <1>2. \A fn \in {"apply", "mlx_c", "trampoline"} : Len(Scripts[fn]) \in Nat
    BY ScriptOf, SpecialScripts
  <1> QED  BY <1>1, <1>2, ScriptOf

LEMMA ChainInit == BindingsInit => Chained(frames)
  <1>1. Numbered(<<>>) /\ DOMAIN <<>> = {}
    BY DEF Numbered
  <1> QED  BY <1>1 DEF BindingsInit, Chained

LEMMA ChainNext == Chained(frames) /\ [BindingsNext]_bindingVars => Chained(frames')
  <1> SUFFICES ASSUME Chained(frames), [BindingsNext]_bindingVars PROVE Chained(frames')
    OBVIOUS
  <1>1. ASSUME NEW fn \in Operations, Starts(fn) PROVE Chained(frames')
    <2>1. frames' = <<Entered(fn)>> /\ Proper(Entered(fn)) /\ Entered(fn).fn \in Operations
      BY <1>1, EnteredIsProper, LowestCalled DEF Starts
    <2>2. Chained(<<>>)
      BY <1>1 DEF Starts, Idle
    <2>3. Chained(<<>> \o <<Entered(fn)>>)
      BY <2>1, <2>2, ChainGrows
    <2>4. <<>> \o <<Entered(fn)>> = <<Entered(fn)>>
      OBVIOUS
    <2> QED  BY <2>1, <2>3, <2>4
  <1>2. CASE Takes
    <2> DEFINE g == Holding(Top, Step.role, {FreshHandle})
               f == Went(g)
    <2>1. frames # <<>> /\ frames' = Front(frames) \o <<f>>
      BY <1>2 DEF Takes, With, At, Running, Idle
    <2>2. Proper(Last(frames))
      BY <2>1, ChainShrinks
    <2>3. Proper(g) /\ g.fn = Last(frames).fn
      BY <2>2, HoldingIsProper DEF Top
    <2> HIDE DEF g
    <2>4. Proper(f) /\ f.fn = Last(frames).fn
      BY <2>3, HoldingIsProper
    <2> HIDE DEF f
    <2> QED  BY <2>1, <2>4, ChainGoesOn
  <1>3. CASE Succeeds \/ Settles
    <2>1. frames # <<>> /\ frames' = Front(frames) \o <<Went(Last(frames))>>
      BY <1>3 DEF Succeeds, Settles, With, At, Running, Idle, Top
    <2>2. Proper(Last(frames))
      BY <2>1, ChainShrinks
    <2>3. Proper(Went(Last(frames))) /\ Went(Last(frames)).fn = Last(frames).fn
      BY <2>2, HoldingIsProper
    <2> QED  BY <2>1, <2>3, ChainGoesOn
  <1>4. CASE Calls
    <2>1. frames # <<>> /\ frames' = Append(frames, Entered(Step.fn)) /\ Step.k = "call" /\ ~AtEnd
      BY <1>4 DEF Calls, At, Running, Idle
    <2>2. Proper(Top)
      BY <2>1, ChainShrinks DEF Top
    <2>3. Top.fn \in DOMAIN Scripts /\ Top.pc \in 1 .. Len(Scripts[Top.fn])
      BY <2>1, <2>2, LinesOfScripts DEF AtEnd, Proper
    <2>4. Step.fn \in DOMAIN Scripts
      BY <2>1, <2>3, StepFacts DEF Step
    <2>5. Proper(Entered(Step.fn)) /\ Entered(Step.fn).fn = Step.fn
      BY <2>4, EnteredIsProper
    <2>6. Awaits(Last(frames), Step.fn)
      BY <2>3 DEF Awaits, Step, Top
    <2> QED  BY <2>1, <2>5, <2>6, ChainGrows
  <1>5. CASE Returns \/ ClosureCallFails \/ Parks
    <2>1. frames # <<>> /\ \E handles : frames' = Given(Front(frames), handles)
      BY <1>5 DEF Returns, ClosureCallFails, Parks, Running, Idle
    <2> QED  BY <2>1, ChainReturns
  <1>6. CASE Unwinds
    <2>1. frames # <<>> /\ frames' = Front(frames)
      BY <1>6 DEF Unwinds, Idle
    <2> QED  BY <2>1, ChainShrinks
  <1>7. CASE LetGo \/ RefusedAtGate \/ MlxFails \/ RustFails \/ UNCHANGED bindingVars
    <2>1. frames' = frames
      BY <1>7 DEF LetGo, RefusedAtGate, MlxFails, RustFails, bindingVars
    <2> QED  BY <2>1
  <1> QED  BY <1>1, <1>2, <1>3, <1>4, <1>5, <1>6, <1>7 DEF BindingsNext

-----------------------------------------------------------------------------
(* Where a failure waits.  While an operation goes on nothing waits and it *)
(* has not failed; what is on its way out is its first failure; from the   *)
(* trampoline to settle that failure is parked, or, if no closure ran, is  *)
(* the status; and when it is over nothing waits for the next one.         *)

ToldOf(e, failure, panic) ==
    /\ e.kind \in {"error", "panic"} /\ (e.kind = "panic" <=> panic)
    /\ failure # 0 /\ e.cause = failure /\ e.what \in {0, failure}
    /\ e = [kind |-> e.kind, cause |-> e.cause, what |-> e.what]
Told(e) == ToldOf(e, first, panicked)

NothingWaits == status = 0 /\ parked = Fine /\ said = 0
Unfailed == first = 0 /\ panicked = FALSE

GoesWell == ~Idle /\ err = Fine /\ NothingWaits /\ Unfailed /\ ended = Fine
OnItsWay == ~Idle /\ err # Fine /\ NothingWaits /\ Told(err)
InMlx == /\ ~Idle /\ err = Fine /\ status # 0 /\ Top.fn = "mlx_c" /\ Top.pc = 4
         /\ said = 0 /\ parked # Fine /\ Told(parked)
AtSettle == /\ ~Idle /\ err = Fine /\ status # 0 /\ Top.fn = "apply" /\ Top.pc = 5
            /\ \/ parked # Fine /\ Told(parked)
               \/ /\ parked = Fine /\ status = first /\ panicked = FALSE
                  /\ said \in {0, first}
Over == /\ Idle /\ err = Fine /\ NothingWaits
        /\ (ended = Fine /\ Unfailed) \/ Told(ended)

CauseInv == /\ Chained(frames) /\ failures \in Nat
            /\ GoesWell \/ OnItsWay \/ InMlx \/ AtSettle \/ Over

(* An operation that is running, and not on its way out, does what its     *)
(* script says only if nothing failed yet; apply's settle is the exception.*)
LEMMA RunsWhenWell ==
    ASSUME CauseInv, Running,
           \/ ~AtEnd /\ Step.k # "settle"
           \/ AtEnd /\ status = 0
    PROVE  GoesWell
  <1>1. ASSUME InMlx PROVE FALSE
    <2>1. Top.fn = "mlx_c" /\ Top.pc = 4 /\ status # 0 /\ Len(Scripts["mlx_c"]) = 3
      BY <1>1, ScriptOf, SpecialScripts DEF InMlx
    <2> QED  BY <2>1 DEF AtEnd
  <1>2. ASSUME AtSettle PROVE FALSE
    <2>1. /\ Top.fn = "apply" /\ Top.pc = 5 /\ status # 0 /\ Len(Scripts["apply"]) = 7
          /\ Scripts["apply"][5] = Settle
      BY <1>2, ScriptOf, SpecialScripts DEF AtSettle
    <2> QED  BY <2>1 DEF AtEnd, Step, Settle
  <1> QED  BY <1>1, <1>2 DEF CauseInv, OnItsWay, Over, Running

LEMMA CauseInit == BindingsInit => CauseInv
  BY ChainInit DEF BindingsInit, CauseInv, Over, Idle, NothingWaits, Unfailed

(* Steps that leave the outcome alone.                                     *)
LEMMA WellStays ==
    ASSUME GoesWell, frames' # <<>>,
           UNCHANGED <<said, parked, status, err, first, panicked, ended>>
    PROVE  GoesWell'
  BY DEF GoesWell, Idle, NothingWaits, Unfailed

LEMMA FailsFirst ==
    ASSUME CauseInv, GoesWell, CountFailure, frames' = frames, parked' = parked,
           status' = status, said' = 0,
           NEW kind \in {"error", "panic"}, NEW what \in {0, Number},
           err' = Failed(kind, Number, what), panicked' = (kind = "panic")
    PROVE  OnItsWay'
  <1>1. first' = Number /\ Number # 0
    BY DEF CauseInv, CountFailure, Number, GoesWell, Unfailed
  <1>2. /\ err'.kind = kind /\ err'.cause = Number /\ err'.what = what
        /\ err' = [kind |-> err'.kind, cause |-> err'.cause, what |-> err'.what]
    BY DEF Failed
  <1>3. err' # Fine
    BY <1>2 DEF Fine
  <1>4. Told(err)'
    BY <1>1, <1>2 DEF Told, ToldOf
  <1> QED  BY <1>3, <1>4 DEF OnItsWay, GoesWell, NothingWaits, Idle

LEMMA CauseNext == CauseInv /\ [BindingsNext]_bindingVars => CauseInv'
  <1> SUFFICES ASSUME CauseInv, [BindingsNext]_bindingVars PROVE CauseInv'
    OBVIOUS
  <1>0. Chained(frames)' /\ (frames # <<>> => Proper(Top))
    BY ChainNext, ChainShrinks DEF CauseInv, Top
  <1>1. ASSUME NEW fn \in Operations, Starts(fn) PROVE CauseInv'
    <2>1. Over
      BY <1>1 DEF Starts, CauseInv, GoesWell, OnItsWay, InMlx, AtSettle, Over
    <2>2. frames' # <<>> /\ failures' \in Nat
      BY <1>1 DEF Starts, CauseInv
    <2>3. GoesWell'
      BY <1>1, <2>1, <2>2 DEF Starts, Over, GoesWell, Idle, NothingWaits, Unfailed
    <2> QED  BY <1>0, <2>2, <2>3 DEF CauseInv
  <1>2. CASE LetGo \/ RefusedAtGate \/ UNCHANGED bindingVars
    <2>1. UNCHANGED <<frames, said, parked, status, err, failures, first, panicked, ended>>
      BY <1>2 DEF LetGo, RefusedAtGate, bindingVars
    <2> QED
      BY <1>0, <2>1 DEF CauseInv, GoesWell, OnItsWay, InMlx, AtSettle, Over, Idle, Top,
                        NothingWaits, Unfailed, Told, ToldOf
  <1>3. CASE Takes \/ Succeeds \/ Calls
    <2>1. Running /\ ~AtEnd /\ Step.k # "settle"
      BY <1>3 DEF Takes, Succeeds, Calls, At
    <2>2. GoesWell
      BY <2>1, RunsWhenWell
    <2>3. Chained(frames) /\ frames # <<>>
      BY <2>1 DEF CauseInv, Running, Idle
    <2>4. frames' # <<>>
      BY <1>3, <2>3, PushFacts, ChainShrinks DEF Takes, Succeeds, Calls, With, Chained
    <2>5. UNCHANGED <<said, parked, status, err, failures, first, panicked, ended>>
      BY <1>3 DEF Takes, Succeeds, Calls
    <2> QED  BY <1>0, <2>2, <2>4, <2>5, WellStays DEF CauseInv
  <1>4. CASE MlxFails
    <2>1. Running /\ ~AtEnd /\ Step.k # "settle"
      BY <1>4 DEF MlxFails, At
    <2>2. GoesWell
      BY <2>1, RunsWhenWell
    <2>3. PICK says \in BOOLEAN : err' = Failed("error", Number, Saying(says))
      BY <1>4 DEF MlxFails
    <2>4. Saying(says) \in {0, Number}
      BY <2>2 DEF Saying, GoesWell, NothingWaits
    <2>5. OnItsWay'
      BY <1>4, <2>2, <2>3, <2>4, FailsFirst DEF MlxFails, GoesWell, Unfailed
    <2> QED  BY <1>0, <1>4, <2>5 DEF CauseInv, MlxFails, CountFailure, Number
  <1>5. CASE RustFails
    <2>1. Running /\ ~AtEnd /\ Step.k # "settle"
      BY <1>5 DEF RustFails, At
    <2>2. GoesWell
      BY <2>1, RunsWhenWell
    <2>3. PICK kind \in {"error", "panic"} : /\ err' = Failed(kind, Number, Number)
                                             /\ panicked' = (panicked \/ kind = "panic")
      BY <1>5 DEF RustFails
    <2>4. panicked' = (kind = "panic") /\ said' = 0
      BY <1>5, <2>2, <2>3 DEF RustFails, GoesWell, Unfailed, NothingWaits
    <2>5. OnItsWay'
      BY <1>5, <2>2, <2>3, <2>4, FailsFirst DEF RustFails
    <2> QED  BY <1>0, <1>5, <2>5 DEF CauseInv, RustFails, CountFailure, Number
  <1>6. CASE Returns
    <2>1. GoesWell
      BY <1>6, RunsWhenWell DEF Returns
    <2>2. /\ UNCHANGED <<said, parked, status, err, failures, first, panicked, ended>>
          /\ frames # <<>> /\ frames' = Given(Front(frames), Top.out)
      BY <1>6 DEF Returns, Running, Idle
    <2>3. CASE frames' = <<>>
      BY <1>0, <2>1, <2>2, <2>3 DEF CauseInv, Over, GoesWell, Idle, NothingWaits, Unfailed
    <2>4. CASE frames' # <<>>
      BY <1>0, <2>1, <2>2, <2>4, WellStays DEF CauseInv
    <2> QED  BY <2>3, <2>4
  <1>7. CASE ClosureCallFails
    <2>1. /\ Running /\ frames # <<>> /\ Top.fn = "mlx_c"
          /\ CountFailure /\ status' = Number /\ said' \in {said, Number}
          /\ frames' = Given(Front(frames), {})
          /\ UNCHANGED <<parked, err, panicked>>
      BY <1>7 DEF ClosureCallFails, Running, Idle, Saying
    <2>2. failures' \in Nat /\ Number # 0 /\ status' # 0 /\ first' = IF first = 0 THEN Number ELSE first
      BY <2>1 DEF CauseInv, CountFailure, Number
    <2>3. frames' # <<>> /\ Last(frames').fn = "apply" /\ Last(frames').pc = 5
      BY <2>1, ChainReturns DEF CauseInv, Top
    <2>4. ~Idle' /\ Top'.fn = "apply" /\ Top'.pc = 5
      BY <2>3 DEF Idle, Top
    <2>5. GoesWell \/ InMlx
      BY <2>1 DEF CauseInv, OnItsWay, Over, AtSettle, Running
    <2>6. CASE GoesWell
      <3>1. first' = Number /\ said' \in {0, first'} /\ panicked' = FALSE /\ parked' = Fine /\ err' = Fine
        BY <2>1, <2>2, <2>6 DEF GoesWell, NothingWaits, Unfailed
      <3> QED  BY <1>0, <2>1, <2>2, <2>4, <3>1 DEF AtSettle, CauseInv
    <2>7. CASE InMlx
      <3>1. first' = first /\ Told(parked) /\ parked # Fine /\ err = Fine
        BY <2>2, <2>7 DEF InMlx, Told, ToldOf
      <3>2. Told(parked)' /\ parked' # Fine /\ err' = Fine
        BY <2>1, <3>1 DEF Told, ToldOf
      <3> QED  BY <1>0, <2>2, <2>4, <3>2 DEF AtSettle, CauseInv
    <2> QED  BY <2>5, <2>6, <2>7
  <1>8. CASE Unwinds
    <2> DEFINE leaving == IF Top.fn = "clone" THEN [err EXCEPT !.kind = "panic"] ELSE err
    <2>1. /\ frames # <<>> /\ err # Fine
          /\ panicked' = (panicked \/ Top.fn = "clone")
          /\ IF Len(frames) = 1 THEN ended' = leaving /\ err' = Fine
                                ELSE err' = leaving
          /\ frames' = Front(frames)
          /\ UNCHANGED <<said, parked, status, failures, first>>
      BY <1>8 DEF Unwinds, Idle
    <2>2. OnItsWay
      BY <2>1 DEF CauseInv, GoesWell, InMlx, AtSettle, Over
    <2>3. ToldOf(leaving, first', panicked') /\ leaving.kind # "fine"
      <3>1. CASE Top.fn = "clone"
        <4>1. leaving = [kind |-> "panic", cause |-> err.cause, what |-> err.what]
          BY <2>2, <3>1 DEF OnItsWay, Told, ToldOf
        <4>2. panicked' = TRUE
          BY <2>1, <3>1
        <4> HIDE DEF leaving
        <4>3. leaving.kind = "panic" /\ leaving.cause = first' /\ leaving.what \in {0, first'} /\ first' # 0
              /\ leaving = [kind |-> leaving.kind, cause |-> leaving.cause, what |-> leaving.what]
          BY <2>1, <2>2, <4>1 DEF OnItsWay, Told, ToldOf
        <4> QED  BY <4>2, <4>3 DEF Told, ToldOf
      <3>2. CASE Top.fn # "clone"
        <4>1. leaving = err /\ Told(err) /\ (panicked' <=> panicked)
          BY <2>1, <2>2, <3>2 DEF OnItsWay
        <4> HIDE DEF leaving
        <4> QED  BY <2>1, <4>1 DEF Told, ToldOf
      <3> QED  BY <3>1, <3>2
    <2> HIDE DEF leaving
    <2>4. leaving # Fine
      BY <2>3 DEF Fine
    <2>5. (Len(frames) = 1) <=> (frames' = <<>>)
      BY <2>1, ChainShrinks DEF CauseInv
    <2>6. CASE Len(frames) = 1
      <3>1. Over'
        BY <2>1, <2>2, <2>3, <2>5, <2>6 DEF Over, OnItsWay, NothingWaits, Idle, Told
      <3> QED  BY <1>0, <2>1, <3>1 DEF CauseInv
    <2>7. CASE Len(frames) # 1
      <3>1. OnItsWay'
        BY <2>1, <2>2, <2>3, <2>4, <2>5, <2>7 DEF OnItsWay, NothingWaits, Idle, Told
      <3> QED  BY <1>0, <2>1, <3>1 DEF CauseInv
    <2> QED  BY <2>6, <2>7
  <1>9. CASE Parks
    <2>1. /\ frames # <<>> /\ err # Fine /\ Top.fn = "trampoline"
          /\ parked' = err /\ err' = Fine /\ status' = err.cause
          /\ frames' = Given(Front(frames), {})
          /\ UNCHANGED <<said, failures, first, panicked>>
      BY <1>9 DEF Parks, Idle
    <2>2. OnItsWay
      BY <2>1 DEF CauseInv, GoesWell, InMlx, AtSettle, Over
    <2>3. frames' # <<>> /\ Last(frames').fn = "mlx_c" /\ Last(frames').pc = 4
      BY <2>1, ChainReturns DEF CauseInv, Top
    <2>4. ~Idle' /\ Top'.fn = "mlx_c" /\ Top'.pc = 4
      BY <2>3 DEF Idle, Top
    <2>5. Told(parked)' /\ status' # 0 /\ said' = 0
      BY <2>1, <2>2 DEF OnItsWay, Told, ToldOf, NothingWaits
    <2> QED  BY <1>0, <2>1, <2>4, <2>5 DEF CauseInv, InMlx
  <1>10. CASE Settles
    <2>1. /\ Running /\ ~AtEnd /\ frames # <<>>
          /\ err' = Settled.err /\ said' = Settled.said /\ parked' = Fine /\ status' = 0
          /\ frames' = Front(frames) \o <<Went(Top)>>
          /\ UNCHANGED <<failures, first, panicked, ended>>
      BY <1>10 DEF Settles, At, Running, Idle, With
    <2>2. frames' # <<>>
      BY <2>1, PushFacts, ChainShrinks DEF CauseInv, Chained
    <2>3. GoesWell \/ AtSettle
      <3>1. ASSUME InMlx PROVE FALSE
        <4>1. Top.fn = "mlx_c" /\ Top.pc = 4 /\ Len(Scripts["mlx_c"]) = 3
          BY <3>1, ScriptOf, SpecialScripts DEF InMlx
        <4> QED  BY <2>1, <4>1 DEF AtEnd
      <3> QED  BY <2>1, <3>1 DEF CauseInv, OnItsWay, Over, Running
    <2>4. CASE GoesWell
      <3>1. Settled = [err |-> Fine, said |-> 0]
        BY <2>4 DEF Settled, GoesWell, NothingWaits, Fine
      <3>2. GoesWell'
        BY <2>1, <2>2, <2>4, <3>1 DEF GoesWell, NothingWaits, Unfailed, Idle
      <3> QED  BY <1>0, <2>1, <3>2 DEF CauseInv
    <2>5. CASE AtSettle /\ parked # Fine
      <3>1. Told(parked) /\ status # 0
        BY <2>5 DEF AtSettle
      <3>2. Settled = [err |-> parked, said |-> 0]
        BY <3>1 DEF Settled, Told, ToldOf
      <3>3. OnItsWay'
        BY <2>1, <2>2, <2>5, <3>1, <3>2 DEF OnItsWay, NothingWaits, Idle, Told, ToldOf
      <3> QED  BY <1>0, <2>1, <3>3 DEF CauseInv
    <2>6. CASE AtSettle /\ parked = Fine
      <3>1. status # 0 /\ status = first /\ panicked = FALSE /\ said \in {0, first}
        BY <2>6 DEF AtSettle
      <3>2. Settled = [err |-> Failed("error", status, said), said |-> 0]
        BY <2>6, <3>1 DEF Settled, Fine
      <3>3. err' = [kind |-> "error", cause |-> first, what |-> said] /\ said' = 0
        BY <2>1, <3>1, <3>2 DEF Failed
      <3>4. err' # Fine /\ Told(err)'
        BY <2>1, <3>1, <3>3 DEF Told, ToldOf, Fine
      <3> QED  BY <1>0, <2>1, <2>2, <3>3, <3>4 DEF OnItsWay, NothingWaits, Idle, CauseInv
    <2> QED  BY <2>3, <2>4, <2>5, <2>6
  <1> QED  BY <1>1, <1>2, <1>3, <1>4, <1>5, <1>6, <1>7, <1>8, <1>9, <1>10 DEF BindingsNext

(* Nothing of a failure is left behind for the next operation, and what is *)
(* on its way out is the operation's first.                                *)
THEOREM CauseInvariance == BindingsSpec => []CauseInv
  BY CauseInit, CauseNext, PTL DEF BindingsSpec

(* An operation that failed is reported for its first failure, as an error *)
(* or as the panic it was, in that failure's words or in none: whatever    *)
(* mlx-c said and whichever closure failed below it, for any number of     *)
(* arrays, handles and failures.                                           *)
THEOREM FirstFailureComesOut == BindingsSpec => []TheCauseComesOut
  <1>1. CauseInv => TheCauseComesOut
    BY DEF CauseInv, TheCauseComesOut, GoesWell, OnItsWay, InMlx, AtSettle, Over, Told, ToldOf,
           Unfailed, Fine
  <1> QED  BY CauseInvariance, <1>1, PTL
=============================================================================
