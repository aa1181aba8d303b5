---------------------------- MODULE WindowProofs ----------------------------
(***************************************************************************)
(* That Window keeps its types, that the hooks' fence comes down, and that *)
(* a replay of the journal's file ends where the engine is: whatever hooks *)
(* are registered, however deep spans and firings nest, and however long   *)
(* the file is.                                                            *)
(***************************************************************************)
EXTENDS Window, WellFoundedInduction, TLAPS

-----------------------------------------------------------------------------
(* The inductive invariant. *)

Kinds  == {"none", "span", "accumulate", "adjust", "freeze", "put", "checkpoint", "restored"}
Events == {"none", "step", "span_end", "checkpoint_written"}

Entries == [kind : Kinds, loss : {"none", "finite", "nan"}, taken : BOOLEAN, parts : 0..MaxParts,
            lr : Rates, frozen : BOOLEAN]
CallsUnderWay == [phase : {"none", "entry", "fire"}, entry : Entries, event : Events]
Frames == [kind : {"hook", "span"}, event : Events, step : 0..MaxSteps, at : Nat]

(* A frame of a hook is one of a hook that was registered for its event.   *)
Registers(frame) ==
    frame.kind = "hook" => frame.at \in DOMAIN Registered
                           /\ Registered[frame.at].event = frame.event

Typed ==
    /\ engine \in Engines
    /\ disk \in Engines \cup {Nowhere}
    /\ file \in Seq(Entries)
    /\ silent \in BOOLEAN /\ firing \in BOOLEAN
    /\ stack \in Seq(Frames)
    /\ \A k \in DOMAIN stack : Registers(stack[k])
    /\ call \in CallsUnderWay

(* The fence is up only while a hook runs. *)
FenceIsAHooks == firing => \E k \in DOMAIN stack : stack[k].kind = "hook"

IInv == Typed /\ FenceIsAHooks

-----------------------------------------------------------------------------
(* Facts about data. *)

(* A set of numbers that is not empty has a least one. *)
LEMMA LeastOf ==
    ASSUME NEW S \in SUBSET Nat, S # {}
    PROVE  \E j \in S : \A i \in S : j <= i
  <1> DEFINE R == OpToRel(<, Nat)
  <1>1. IsWellFoundedOn(R, Nat)
    BY NatLessThanWellFounded
  <1>2. \A x, y \in S : y < x => <<y, x>> \in R
    BY DEF OpToRel
  <1> HIDE DEF R
  <1>3. PICK j \in S : \A y \in S : ~ (<<y, j>> \in R)
    BY <1>1, WFMin
  <1>4. \A i \in S : ~ (i < j)
    BY <1>2, <1>3
  <1>5. \A i \in S : j <= i
    BY <1>4
  <1> QED  BY <1>5

(* A set of positions that is not empty has a greatest one: the least of   *)
(* its bounds.                                                             *)
LEMMA GreatestOf ==
    ASSUME NEW n \in Nat, NEW S \in SUBSET (1..n), S # {}
    PROVE  \E x \in S : \A y \in S : y <= x
  <1> DEFINE Bounds == {u \in Nat : \A y \in S : y <= u}
  <1>1. n \in Bounds
    OBVIOUS
  <1>2. PICK m \in Bounds : \A u \in Bounds : m <= u
    BY <1>1, LeastOf
  <1>3. m \in S
    <2> SUFFICES ASSUME m \notin S
                 PROVE  FALSE
      OBVIOUS
    <2>0. \A y \in S : y \in Nat /\ y <= m /\ y # m
      OBVIOUS
    <2>1. \A y \in S : y <= m - 1
      BY <2>0
    <2>2. PICK y \in S : TRUE
      OBVIOUS
    <2>3. m \in Nat /\ y \in Nat /\ y >= 1 /\ y <= m - 1
      BY <2>1, <2>2
    <2>4. m - 1 \in Nat
      BY <2>3
    <2>5. m - 1 \in Bounds
      BY <2>1, <2>4
    <2>6. m <= m - 1
      BY <1>2, <2>5
    <2> QED  BY <2>3, <2>6
  <1> QED  BY <1>2, <1>3

(* The next hook there is, if there is one, is registered for the event.   *)
LEMMA NextHookIsRegistered ==
    ASSUME NEW event, NEW step, NEW k, NextHook(event, step, k) # 0
    PROVE  /\ NextHook(event, step, k) \in DOMAIN Registered
           /\ NextHook(event, step, k) \in Nat
           /\ Registered[NextHook(event, step, k)].event = event
  <1> DEFINE due == {j \in DOMAIN Registered :
                       j > k /\ Registered[j].event = event /\ step % Registered[j].every = 0}
  <1>1. NextHook(event, step, k) =
            IF due = {} THEN 0 ELSE CHOOSE j \in due : \A i \in due : j <= i
    BY DEF NextHook
  <1>2. due # {}
    BY <1>1
  <1>3. DOMAIN Registered \subseteq Nat
    BY RegisteredAssumption
  <1>4. due \in SUBSET Nat
    BY <1>3
  <1>5. \E j \in due : \A i \in due : j <= i
    <2> HIDE DEF due
    <2> QED  BY <1>2, <1>4, LeastOf
  <1>6. NextHook(event, step, k) \in due
    <2> HIDE DEF due
    <2> QED  BY <1>1, <1>2, <1>5
  <1> QED  BY <1>3, <1>6

(* What the helpers on engines return is an engine. *)
LEMMA SteppedIsAnEngine ==
    ASSUME NEW e \in Engines, e.step < MaxSteps, NEW o \in Outcomes, NEW parts \in 0..MaxParts
    PROVE  Stepped(e, o[1], o[2], parts) \in Engines
  <1>1. o[1] \in {"finite", "nan"} /\ o[2] \in BOOLEAN
    BY LossesAssumption DEF Outcomes
  <1>2. <<e.lr, e.frozen, parts>> \in (Rates \cup {"written"}) \X BOOLEAN \X (0..MaxParts)
    BY DEF Engines
  <1>3. e.step + 1 \in 0..MaxSteps
    BY BoundsAssumption DEF Engines
  <1>4. Append(e.weights, <<e.lr, e.frozen, parts>>)
            \in Seq((Rates \cup {"written"}) \X BOOLEAN \X (0..MaxParts))
    BY <1>2 DEF Engines
  <1> QED  BY <1>1, <1>3, <1>4 DEF Stepped, Engines

LEMMA AppliedIsAnEngine ==
    ASSUME NEW e \in Engines, e.step < MaxSteps, NEW o \in Outcomes
    PROVE  Applied(e, o[1], o[2]) \in Engines
  <1>1. e.waiting \in 0..MaxParts /\ 0 \in 0..MaxParts
    BY BoundsAssumption DEF Engines
  <1>2. Stepped(e, o[1], o[2], e.waiting) \in Engines
    BY <1>1, SteppedIsAnEngine
  <1> QED  BY <1>1, <1>2 DEF Applied, Engines

LEMMA OpenedIsAnEngine == Opened \in Engines
  BY RatesAssumption, BoundsAssumption DEF Opened, Engines

LEMMA EntryIsAnEntry ==
    ASSUME NEW kind \in Kinds, NEW loss \in {"none", "finite", "nan"}, NEW taken \in BOOLEAN
    PROVE  Entry(kind, loss, taken) \in Entries
  BY RatesAssumption, BoundsAssumption DEF Entry, Entries

LEMMA NoCallIsACall == NoCall \in CallsUnderWay
  BY EntryIsAnEntry DEF NoCall, CallsUnderWay, Kinds, Events

-----------------------------------------------------------------------------
(* Facts about frames. *)

(* An exception leaves a part of the frames, and of the hooks' among them  *)
(* none if the fence stays up.                                             *)
LEMMA UnwindsKeeps ==
    ASSUME IInv, Unwinds
    PROVE  /\ stack' \in Seq(Frames) /\ \A k \in DOMAIN stack' : Registers(stack'[k])
           /\ firing' \in BOOLEAN
           /\ FenceIsAHooks'
           /\ call' \in CallsUnderWay
  <1>1. PICK d \in 0..Len(stack) :
            /\ stack' = SubSeq(stack, 1, d)
            /\ firing' = FenceAfter(SubSeq(stack, d + 1, Len(stack)))
    BY DEF Unwinds
  <1>2. stack \in Seq(Frames) /\ Len(stack) \in Nat /\ d \in Nat
    BY DEF IInv, Typed
  <1>3. /\ stack' \in Seq(Frames) /\ Len(stack') = d
        /\ \A k \in DOMAIN stack' : k \in DOMAIN stack /\ stack'[k] = stack[k]
    BY <1>1, <1>2
  <1>4. \A k \in DOMAIN stack' : Registers(stack'[k])
    BY <1>3 DEF IInv, Typed
  <1>5. firing' \in BOOLEAN
    BY <1>1 DEF FenceAfter, IInv, Typed
  <1>6. FenceIsAHooks'
    <2> DEFINE left == SubSeq(stack, d + 1, Len(stack))
    <2> SUFFICES ASSUME firing'
                 PROVE  \E k \in DOMAIN stack' : stack'[k].kind = "hook"
      BY DEF FenceIsAHooks
    <2>1. firing /\ \A k \in DOMAIN left : left[k].kind # "hook"
      BY <1>1 DEF FenceAfter
    <2>2. PICK k \in DOMAIN stack : stack[k].kind = "hook"
      BY <2>1 DEF IInv, FenceIsAHooks
    <2>3. k \in 1..Len(stack)
      BY <1>2, <2>2
    <2>4. k <= d
      <3> SUFFICES ASSUME k > d
                   PROVE  FALSE
        BY <1>2, <2>3
      <3>1. k - d \in DOMAIN left /\ left[k - d] = stack[k]
        BY <1>2, <2>3
      <3> QED  BY <2>1, <2>2, <3>1
    <2>5. k \in DOMAIN stack' /\ stack'[k] = stack[k]
      BY <1>1, <1>2, <1>3, <2>3, <2>4
    <2> QED  BY <2>2, <2>5
  <1>7. call' \in CallsUnderWay
    BY NoCallIsACall DEF Unwinds
  <1> QED  BY <1>3, <1>4, <1>5, <1>6, <1>7

(* A firing starts with a hook of its own, or leaves the fence down. *)
LEMMA FiresKeeps ==
    ASSUME engine \in Engines, NEW event \in Events, NEW frames \in Seq(Frames),
           \A k \in DOMAIN frames : Registers(frames[k]), Fires(event, frames)
    PROVE  /\ stack' \in Seq(Frames) /\ \A k \in DOMAIN stack' : Registers(stack'[k])
           /\ firing' \in BOOLEAN
           /\ FenceIsAHooks'
  <1> DEFINE k == NextHook(event, engine.step, 0)
             frame == Frame("hook", event, engine.step, k)
  <1>1. CASE firing \/ k = 0
    BY <1>1 DEF Fires, FenceIsAHooks
  <1>2. CASE ~(firing \/ k = 0)
    <2>1. firing' = TRUE /\ stack' = Append(frames, frame)
      BY <1>2 DEF Fires
    <2>2. k \in Nat /\ k \in DOMAIN Registered /\ Registered[k].event = event
      BY <1>2, NextHookIsRegistered
    <2>3. frame \in Frames /\ Registers(frame) /\ frame.kind = "hook"
      <3> HIDE DEF k
      <3> QED  BY <2>2 DEF Frame, Frames, Registers, Engines
    <2> HIDE DEF frame
    <2>4. /\ stack' \in Seq(Frames)
          /\ DOMAIN stack' = 1..(Len(frames) + 1) /\ Len(frames) \in Nat
          /\ DOMAIN frames = 1..Len(frames)
          /\ stack'[Len(frames) + 1] = frame
          /\ \A j \in 1..Len(frames) : stack'[j] = frames[j]
      BY <2>1, <2>3
    <2>5. \A j \in DOMAIN stack' : Registers(stack'[j])
      <3> TAKE j \in DOMAIN stack'
      <3>1. CASE j = Len(frames) + 1
        BY <2>3, <2>4, <3>1
      <3>2. CASE j \in 1..Len(frames)
        BY <2>4, <3>2
      <3> QED  BY <2>4, <3>1, <3>2
    <2>6. FenceIsAHooks'
      BY <2>3, <2>4 DEF FenceIsAHooks
    <2> QED  BY <2>1, <2>4, <2>5, <2>6
  <1> QED  BY <1>1, <1>2

-----------------------------------------------------------------------------
(* One lemma per call. *)

(* A call that gets through moves the engine and says what its line is.    *)
LEMMA MovesKeeps ==
    ASSUME IInv, NEW name, NEW e \in Engines, NEW entry \in Entries, NEW event \in Events,
           Moves(name, e, entry, event), disk' \in Engines \cup {Nowhere}
    PROVE  IInv'
  <1>1. engine' \in Engines /\ call' \in CallsUnderWay
    BY DEF Moves, CallsUnderWay
  <1>2. UNCHANGED <<file, silent, stack, firing>>
    BY DEF Moves
  <1> QED  BY <1>1, <1>2 DEF IInv, Typed, FenceIsAHooks

LEMMA StepKeeps == ASSUME IInv, StepOnce PROVE IInv'
  <1>1. engine \in Engines /\ disk' \in Engines \cup {Nowhere} /\ engine.step < MaxSteps
    BY DEF IInv, Typed, StepOnce
  <1>2. PICK o \in Outcomes :
            Moves("step!", Stepped(engine, o[1], o[2], 0), Entry("span", o[1], o[2]), "step")
    BY DEF StepOnce
  <1>3. Stepped(engine, o[1], o[2], 0) \in Engines
    BY <1>1, BoundsAssumption, SteppedIsAnEngine
  <1>4. Entry("span", o[1], o[2]) \in Entries
    <2>1. o[1] \in {"none", "finite", "nan"} /\ o[2] \in BOOLEAN
      BY LossesAssumption DEF Outcomes
    <2> QED  BY <2>1, EntryIsAnEntry DEF Kinds
  <1>5. "step" \in Events
    BY DEF Events
  <1> QED  BY <1>1, <1>2, <1>3, <1>4, <1>5, MovesKeeps

LEMMA AccumulateKeeps == ASSUME IInv, Accumulate PROVE IInv'
  <1>1. engine \in Engines /\ disk' \in Engines \cup {Nowhere} /\ engine.waiting < MaxParts
    BY DEF IInv, Typed, Accumulate
  <1>2. PICK l \in Losses :
            Moves("accumulate", Accumulated(engine, l = "finite"),
                  Entry("accumulate", l, l = "finite"), "none")
    BY DEF Accumulate
  <1>3. Accumulated(engine, l = "finite") \in Engines
    <2>1. engine.waiting + 1 \in 0..MaxParts
      BY <1>1, BoundsAssumption DEF Engines
    <2> QED  BY <1>1, <2>1 DEF Accumulated, Engines
  <1>4. Entry("accumulate", l, l = "finite") \in Entries
    <2>1. l \in {"none", "finite", "nan"} /\ (l = "finite") \in BOOLEAN
      BY LossesAssumption
    <2> QED  BY <2>1, EntryIsAnEntry DEF Kinds
  <1>5. "none" \in Events
    BY DEF Events
  <1> QED  BY <1>1, <1>2, <1>3, <1>4, <1>5, MovesKeeps

LEMMA ApplyKeeps == ASSUME IInv, Apply PROVE IInv'
  <1>1. engine \in Engines /\ disk' \in Engines \cup {Nowhere} /\ engine.step < MaxSteps
    BY DEF IInv, Typed, Apply
  <1>2. PICK o \in Outcomes :
            Moves("apply!", Applied(engine, o[1], o[2]),
                  [Entry("span", o[1], o[2]) EXCEPT !.parts = engine.waiting], "step")
    BY DEF Apply
  <1>3. Applied(engine, o[1], o[2]) \in Engines
    BY <1>1, AppliedIsAnEngine
  <1>4. [Entry("span", o[1], o[2]) EXCEPT !.parts = engine.waiting] \in Entries
    <2>1. o[1] \in {"none", "finite", "nan"} /\ o[2] \in BOOLEAN
      BY LossesAssumption DEF Outcomes
    <2>2. Entry("span", o[1], o[2]) \in Entries
      BY <2>1, EntryIsAnEntry DEF Kinds
    <2> QED  BY <1>1, <2>2 DEF Entries, Engines
  <1>5. "step" \in Events
    BY DEF Events
  <1> QED  BY <1>1, <1>2, <1>3, <1>4, <1>5, MovesKeeps

LEMMA DiscardKeeps == ASSUME IInv, Discard PROVE IInv'
  <1>1. engine' \in Engines
    BY BoundsAssumption DEF Discard, IInv, Typed, Engines
  <1>2. silent' \in BOOLEAN
    BY DEF Discard, IInv, Typed
  <1>3. UNCHANGED <<disk, file, stack, firing, call>>
    BY DEF Discard
  <1> QED  BY <1>1, <1>2, <1>3 DEF IInv, Typed, FenceIsAHooks

LEMMA AdjustKeeps == ASSUME IInv, NEW x \in Rates, Adjust(x) PROVE IInv'
  <1>1. [engine EXCEPT !.lr = x] \in Engines /\ disk' \in Engines \cup {Nowhere}
    BY DEF Adjust, IInv, Typed, Engines
  <1>2. [Entry("adjust", "none", FALSE) EXCEPT !.lr = x] \in Entries
    <2>1. Entry("adjust", "none", FALSE) \in Entries
      BY EntryIsAnEntry DEF Kinds
    <2> QED  BY <2>1 DEF Entries
  <1>3. "none" \in Events
    BY DEF Events
  <1> QED  BY <1>1, <1>2, <1>3, MovesKeeps DEF Adjust

LEMMA AdjustInPartKeeps == ASSUME IInv, NEW x \in Rates, AdjustInPart(x) PROVE IInv'
  <1>1. engine' \in Engines
    BY DEF AdjustInPart, IInv, Typed, Engines
  <1>2. silent' \in BOOLEAN
    BY DEF AdjustInPart, IInv, Typed
  <1>3. Unwinds /\ UNCHANGED <<disk, file>>
    BY DEF AdjustInPart
  <1> QED  BY <1>1, <1>2, <1>3, UnwindsKeeps DEF IInv, Typed

LEMMA SetFrozenKeeps == ASSUME IInv, NEW f \in BOOLEAN, SetFrozen(f) PROVE IInv'
  <1>1. [engine EXCEPT !.frozen = f] \in Engines /\ disk' \in Engines \cup {Nowhere}
    BY DEF SetFrozen, IInv, Typed, Engines
  <1>2. [Entry("freeze", "none", FALSE) EXCEPT !.frozen = f] \in Entries
    <2>1. Entry("freeze", "none", FALSE) \in Entries
      BY EntryIsAnEntry DEF Kinds
    <2> QED  BY <2>1 DEF Entries
  <1>3. "none" \in Events
    BY DEF Events
  <1> QED  BY <1>1, <1>2, <1>3, MovesKeeps DEF SetFrozen

LEMMA PutKeeps == ASSUME IInv, Put PROVE IInv'
  <1>1. engine \in Engines /\ disk' \in Engines \cup {Nowhere}
    BY DEF IInv, Typed, Put
  <1>2. Written(engine) \in Engines
    <2>1. <<"written", FALSE, 0>> \in (Rates \cup {"written"}) \X BOOLEAN \X (0..MaxParts)
      <3>1. 0 \in 0..MaxParts
        BY BoundsAssumption
      <3>2. "written" \in Rates \cup {"written"} /\ FALSE \in BOOLEAN
        OBVIOUS
      <3> QED  BY <3>1, <3>2, Zenon
    <2>2. Append(engine.weights, <<"written", FALSE, 0>>)
              \in Seq((Rates \cup {"written"}) \X BOOLEAN \X (0..MaxParts))
      BY <1>1, <2>1 DEF Engines
    <2> QED  BY <1>1, <2>2 DEF Written, Engines
  <1>3. Entry("put", "none", FALSE) \in Entries
    BY EntryIsAnEntry DEF Kinds
  <1>4. "none" \in Events
    BY DEF Events
  <1> QED  BY <1>1, <1>2, <1>3, <1>4, MovesKeeps DEF Put

LEMMA CheckpointKeeps == ASSUME IInv, Checkpoint PROVE IInv'
  <1>1. engine \in Engines /\ disk' \in Engines \cup {Nowhere}
    BY DEF IInv, Typed, Checkpoint, Saved
  <1>2. Entry("checkpoint", "none", FALSE) \in Entries
    BY EntryIsAnEntry DEF Kinds
  <1>3. "checkpoint_written" \in Events
    BY DEF Events
  <1> QED  BY <1>1, <1>2, <1>3, MovesKeeps DEF Checkpoint

LEMMA RestoreKeeps == ASSUME IInv, Restore PROVE IInv'
  <1>1. engine \in Engines /\ disk \in Engines /\ disk' \in Engines \cup {Nowhere}
    BY DEF IInv, Typed, Restore
  <1>2. Restored(engine, disk) \in Engines
    BY <1>1 DEF Restored, Engines
  <1>3. Entry("restored", "none", FALSE) \in Entries
    BY EntryIsAnEntry DEF Kinds
  <1>4. "none" \in Events
    BY DEF Events
  <1> QED  BY <1>1, <1>2, <1>3, <1>4, MovesKeeps DEF Restore

-----------------------------------------------------------------------------
(* Lines, exceptions, spans and hooks. *)

LEMMA RecordsKeeps == ASSUME IInv, Records PROVE IInv'
  <1>1. UNCHANGED <<engine, disk>>
    BY DEF Records
  <1>2. CASE Writable(call.entry)
    <2>1. /\ file' = Append(file, call.entry)
          /\ call' = IF call.event = "none" THEN NoCall ELSE [call EXCEPT !.phase = "fire"]
          /\ UNCHANGED <<stack, firing, silent>>
      BY <1>2 DEF Records
    <2>2. file' \in Seq(Entries)
      BY <2>1 DEF IInv, Typed, CallsUnderWay
    <2>3. call' \in CallsUnderWay
      BY <2>1, NoCallIsACall DEF IInv, Typed, CallsUnderWay
    <2> QED  BY <1>1, <2>1, <2>2, <2>3 DEF IInv, Typed, FenceIsAHooks
  <1>3. CASE ~Writable(call.entry)
    <2>1. silent' = TRUE /\ Unwinds /\ UNCHANGED file
      BY <1>3 DEF Records
    <2> QED  BY <1>1, <2>1, UnwindsKeeps DEF IInv, Typed
  <1> QED  BY <1>2, <1>3

LEMMA RaisesKeeps == ASSUME IInv, Raises PROVE IInv'
  <1>1. Unwinds /\ UNCHANGED <<engine, disk, file, silent>>
    BY DEF Raises
  <1> QED  BY <1>1, UnwindsKeeps DEF IInv, Typed

LEMMA FireKeeps == ASSUME IInv, Fire PROVE IInv'
  <1>1. UNCHANGED <<engine, disk, file, silent>> /\ call' \in CallsUnderWay
    BY NoCallIsACall DEF Fire
  <1>2. engine \in Engines /\ call.event \in Events /\ stack \in Seq(Frames)
        /\ \A k \in DOMAIN stack : Registers(stack[k])
    BY DEF IInv, Typed, CallsUnderWay
  <1>3. Fires(call.event, stack)
    BY DEF Fire
  <1> QED  BY <1>1, <1>2, <1>3, FiresKeeps DEF IInv, Typed

(* The frames but the last. *)
LEMMA FrontFacts ==
    ASSUME NEW S, NEW s \in Seq(S), s # << >>
    PROVE  /\ Front(s) \in Seq(S) /\ Len(Front(s)) = Len(s) - 1
           /\ \A k \in DOMAIN Front(s) : k \in DOMAIN s /\ Front(s)[k] = s[k]
           /\ Last(s) = s[Len(s)] /\ Len(s) \in DOMAIN s
  <1>1. Len(s) \in Nat \ {0} /\ DOMAIN s = 1..Len(s)
    OBVIOUS
  <1> QED  BY <1>1 DEF Front, Last

LEMMA HookReturnsKeeps == ASSUME IInv, HookReturns PROVE IInv'
  <1> DEFINE top  == Last(stack)
             next == NextHook(top.event, top.step, top.at)
             put  == [top EXCEPT !.at = next]
  <1>1. stack \in Seq(Frames) /\ stack # << >> /\ top.kind = "hook"
    BY DEF HookReturns, Running, IInv, Typed
  <1>2. UNCHANGED <<engine, disk, file, silent, call>>
    BY DEF HookReturns
  <1>3. /\ Front(stack) \in Seq(Frames)
        /\ \A k \in DOMAIN Front(stack) : Registers(Front(stack)[k])
        /\ top \in Frames
    BY <1>1, FrontFacts DEF IInv, Typed
  <1>4. CASE next = 0
    <2>1. firing' = FALSE /\ stack' = Front(stack)
      BY <1>4 DEF HookReturns
    <2> QED  BY <1>2, <1>3, <2>1 DEF IInv, Typed, FenceIsAHooks
  <1>5. CASE next # 0
    <2>1. stack' = Append(Front(stack), put) /\ UNCHANGED firing
      BY <1>5 DEF HookReturns
    <2>2. next \in Nat /\ next \in DOMAIN Registered /\ Registered[next].event = top.event
      BY <1>5, NextHookIsRegistered
    <2>3. put \in Frames /\ Registers(put) /\ put.kind = "hook"
      <3> HIDE DEF next, top
      <3> QED  BY <1>1, <1>3, <2>2 DEF Frames, Registers
    <2> HIDE DEF put
    <2>4. /\ stack' \in Seq(Frames)
          /\ DOMAIN stack' = 1..(Len(Front(stack)) + 1) /\ Len(Front(stack)) \in Nat
          /\ DOMAIN Front(stack) = 1..Len(Front(stack))
          /\ stack'[Len(Front(stack)) + 1] = put
          /\ \A j \in 1..Len(Front(stack)) : stack'[j] = Front(stack)[j]
      BY <1>3, <2>1, <2>3
    <2>5. \A j \in DOMAIN stack' : Registers(stack'[j])
      <3> TAKE j \in DOMAIN stack'
      <3>1. CASE j = Len(Front(stack)) + 1
        BY <2>3, <2>4, <3>1
      <3>2. CASE j \in 1..Len(Front(stack))
        BY <1>3, <2>4, <3>2
      <3> QED  BY <2>4, <3>1, <3>2
    <2>6. FenceIsAHooks'
      BY <2>3, <2>4 DEF FenceIsAHooks
    <2> QED  BY <1>2, <2>1, <2>4, <2>5, <2>6 DEF IInv, Typed
  <1> QED  BY <1>4, <1>5

LEMMA StartSpanKeeps == ASSUME IInv, StartSpan PROVE IInv'
  <1> DEFINE frame == Frame("span", "none", engine.step, 0)
  <1>1. /\ stack' = Append(stack, frame) /\ ~firing
        /\ UNCHANGED <<engine, disk, file, silent, firing, call>>
    BY DEF StartSpan
  <1>2. frame \in Frames /\ Registers(frame)
    BY DEF IInv, Typed, Engines, Frame, Frames, Events, Registers
  <1> HIDE DEF frame
  <1>3. /\ stack' \in Seq(Frames)
        /\ \A k \in DOMAIN stack' : Registers(stack'[k])
    BY <1>1, <1>2 DEF IInv, Typed
  <1> QED  BY <1>1, <1>3 DEF IInv, Typed, FenceIsAHooks

LEMMA EndSpanKeeps == ASSUME IInv, EndSpan PROVE IInv'
  <1>1. UNCHANGED <<engine, disk, file, silent, call>>
    BY DEF EndSpan
  <1>2. stack \in Seq(Frames) /\ stack # << >>
    BY DEF EndSpan, Running, IInv, Typed
  <1>3. /\ Front(stack) \in Seq(Frames)
        /\ \A k \in DOMAIN Front(stack) : Registers(Front(stack)[k])
    BY <1>2, FrontFacts DEF IInv, Typed
  <1>4. engine \in Engines /\ "span_end" \in Events /\ Fires("span_end", Front(stack))
    BY DEF EndSpan, IInv, Typed, Events
  <1> QED  BY <1>1, <1>3, <1>4, FiresKeeps DEF IInv, Typed

-----------------------------------------------------------------------------
(* The theorems. *)

LEMMA InitIsTyped == Init => IInv
  <1> SUFFICES ASSUME Init PROVE IInv
    OBVIOUS
  <1>1. engine \in Engines /\ call \in CallsUnderWay
    BY OpenedIsAnEngine, NoCallIsACall DEF Init
  <1>2. file = << >> /\ stack = << >> /\ silent = FALSE /\ firing = FALSE /\ disk = Nowhere
    BY DEF Init
  <1>3. file \in Seq(Entries) /\ stack \in Seq(Frames) /\ DOMAIN stack = {}
    BY <1>2
  <1> QED  BY <1>1, <1>2, <1>3 DEF IInv, Typed, FenceIsAHooks

LEMMA NextKeeps == IInv /\ [Next]_vars => IInv'
  <1> SUFFICES ASSUME IInv, [Next]_vars PROVE IInv'
    OBVIOUS
  <1>1. CASE UNCHANGED vars
    BY <1>1 DEF vars, IInv, Typed, FenceIsAHooks
  <1>2. CASE StepOnce \/ Accumulate \/ Apply \/ Discard \/ Put \/ Checkpoint \/ Restore
    BY <1>2, StepKeeps, AccumulateKeeps, ApplyKeeps, DiscardKeeps, PutKeeps, CheckpointKeeps,
       RestoreKeeps
  <1>3. CASE \E x \in Rates : Adjust(x) \/ AdjustInPart(x)
    BY <1>3, AdjustKeeps, AdjustInPartKeeps
  <1>4. CASE \E f \in BOOLEAN : SetFrozen(f)
    BY <1>4, SetFrozenKeeps
  <1>5. CASE Records \/ Raises
    BY <1>5, RecordsKeeps, RaisesKeeps
  <1>6. CASE Fire \/ HookReturns \/ StartSpan \/ EndSpan
    BY <1>6, FireKeeps, HookReturnsKeeps, StartSpanKeeps, EndSpanKeeps
  <1> QED  BY <1>1, <1>2, <1>3, <1>4, <1>5, <1>6 DEF Next

(* The window keeps its types, and the fence is up only while a hook runs. *)
THEOREM Invariance == Spec => []IInv
  <1>1. Init => IInv
    BY InitIsTyped
  <1>2. IInv /\ [Next]_vars => IInv'
    BY NextKeeps
  <1> QED  BY <1>1, <1>2, PTL DEF Spec

(* Every variable of a window keeps its type, and whatever hook runs was   *)
(* registered for the event it was called for (Hooks#fire).                *)
THEOREM TypeCorrect == Spec => []TypeOK
  <1>1. IInv => TypeOK
    <2> SUFFICES ASSUME IInv PROVE TypeOK
      OBVIOUS
    <2>1. \A k \in DOMAIN file : file[k].lr \in Rates /\ file[k].taken \in BOOLEAN
      <3>1. \A k \in DOMAIN file : file[k] \in Entries
        BY DEF IInv, Typed
      <3> QED  BY <3>1 DEF Entries
    <2>2. call.phase \in {"none", "entry", "fire"}
      BY DEF IInv, Typed, CallsUnderWay
    <2> QED  BY <2>1, <2>2 DEF IInv, Typed, TypeOK, Registers
  <1> QED  BY <1>1, Invariance, PTL

(* However hooks end, by themselves or by an exception through any number  *)
(* of frames, the fence is down once none runs (the ensure of Hooks#fire). *)
THEOREM FenceAlwaysFalls == Spec => []FenceFalls
  <1>1. IInv => FenceFalls
    BY DEF IInv, FenceIsAHooks, FenceFalls
  <1> QED  BY <1>1, Invariance, PTL

-----------------------------------------------------------------------------
(* What a replay makes of a file, and of one more line.  Replayed is a     *)
(* recursive function, that is, a function CHOSEN to satisfy a recurrence; *)
(* that there is one, and that any two agree, is shown by the least line   *)
(* that would be an exception.                                             *)

(* f is what the recurrence of Replayed asks for, up to n lines. *)
Redoes(f, lines, n) ==
    /\ f = [k \in 0..n |-> f[k]]
    /\ f[0] = Opened
    /\ \A k \in 1..n : f[k] = Redone(f[k - 1], lines[k])

(* The recurrence in the form Replayed states it. *)
LEMMA RedoesIs ==
    ASSUME NEW n \in Nat, NEW lines, NEW f
    PROVE  Redoes(f, lines, n) <=>
              f = [k \in 0..n |-> IF k = 0 THEN Opened ELSE Redone(f[k - 1], lines[k])]
  <1> DEFINE g == [k \in 0..n |-> IF k = 0 THEN Opened ELSE Redone(f[k - 1], lines[k])]
  <1>1. ASSUME f = g
        PROVE  Redoes(f, lines, n)
    <2>1. f[0] = Opened
      BY <1>1
    <2>2. ASSUME NEW k \in 1..n
          PROVE  f[k] = Redone(f[k - 1], lines[k])
      BY <1>1
    <2>3. f = [k \in 0..n |-> f[k]]
      BY <1>1
    <2> QED  BY <2>1, <2>2, <2>3 DEF Redoes
  <1>2. ASSUME Redoes(f, lines, n)
        PROVE  f = g
    <2>1. f = [k \in 0..n |-> f[k]]
      BY <1>2 DEF Redoes
    <2>2. ASSUME NEW k \in 0..n
          PROVE  f[k] = g[k]
      BY <1>2 DEF Redoes
    <2> QED  BY <2>1, <2>2
  <1> QED  BY <1>1, <1>2

(* There is such a function: it can be continued by one line. *)
LEMMA RedoesExists ==
    ASSUME NEW n \in Nat, NEW lines
    PROVE  \E f : Redoes(f, lines, n)
  <1> DEFINE Without == {m \in Nat : ~ \E f : Redoes(f, lines, m)}
  <1> SUFFICES ASSUME Without # {}
               PROVE  FALSE
    OBVIOUS
  <1>1. PICK m \in Without : \A i \in Without : m <= i
    BY LeastOf
  <1>2. CASE m = 0
    <2> DEFINE f == [k \in 0..0 |-> Opened]
    <2>1. Redoes(f, lines, 0)
      BY DEF Redoes
    <2> QED  BY <1>1, <1>2, <2>1
  <1>3. CASE m # 0
    <2>1. m - 1 \in Nat /\ ~ (m <= m - 1)
      BY <1>3
    <2>2. PICK f : Redoes(f, lines, m - 1)
      BY <1>1, <2>1
    <2> DEFINE g == [k \in 0..m |-> IF k = m THEN Redone(f[m - 1], lines[m]) ELSE f[k]]
    <2>3. g[0] = Opened
      BY <1>3, <2>2 DEF Redoes
    <2>4. ASSUME NEW k \in 1..m
          PROVE  g[k] = Redone(g[k - 1], lines[k])
      <3>1. k - 1 \in 0..m /\ k - 1 # m
        OBVIOUS
      <3>2. g[k - 1] = f[k - 1]
        BY <3>1
      <3>3. CASE k = m
        BY <3>2, <3>3
      <3>4. CASE k # m
        <4>1. k \in 1..(m - 1)
          BY <3>4
        <4>2. f[k] = Redone(f[k - 1], lines[k])
          BY <2>2, <4>1 DEF Redoes
        <4> QED  BY <3>2, <3>4, <4>2
      <3> QED  BY <3>3, <3>4
    <2>5. g = [k \in 0..m |-> g[k]]
      OBVIOUS
    <2>6. Redoes(g, lines, m)
      <3> HIDE DEF g
      <3> QED  BY <2>3, <2>4, <2>5 DEF Redoes
    <2> QED  BY <1>1, <2>6
  <1> QED  BY <1>2, <1>3

(* And any two that follow the recurrence come out the same. *)
LEMMA RedoesAgrees ==
    ASSUME NEW n \in Nat, NEW lines, NEW f, NEW g,
           Redoes(f, lines, n), g[0] = Opened,
           \A k \in 1..n : g[k] = Redone(g[k - 1], lines[k])
    PROVE  f[n] = g[n]
  <1> DEFINE Differ == {m \in 0..n : f[m] # g[m]}
  <1> SUFFICES ASSUME f[n] # g[n]
               PROVE  FALSE
    OBVIOUS
  <1>1. n \in Differ /\ Differ \in SUBSET Nat
    OBVIOUS
  <1>2. PICK m \in Differ : \A i \in Differ : m <= i
    BY <1>1, LeastOf
  <1>3. f[0] = Opened /\ \A k \in 1..n : f[k] = Redone(f[k - 1], lines[k])
    BY DEF Redoes
  <1>4. m # 0
    BY <1>2, <1>3
  <1>5. m \in 1..n /\ m - 1 \in 0..n /\ ~ (m <= m - 1)
    BY <1>2, <1>4
  <1>6. f[m - 1] = g[m - 1]
    BY <1>2, <1>5
  <1> QED  BY <1>2, <1>3, <1>5, <1>6

(* So the replay of a file is what any of them has at its last line. *)
LEMMA ReplayedIs ==
    ASSUME NEW lines \in Seq(Entries), NEW f, Redoes(f, lines, Len(lines))
    PROVE  Replayed(lines) = f[Len(lines)]
  <1> DEFINE g == CHOOSE a : a = [k \in 0..Len(lines) |->
                                    IF k = 0 THEN Opened ELSE Redone(a[k - 1], lines[k])]
  <1>1. Len(lines) \in Nat
    OBVIOUS
  <1>2. f = [k \in 0..Len(lines) |-> IF k = 0 THEN Opened ELSE Redone(f[k - 1], lines[k])]
    BY <1>1, RedoesIs
  <1>3. g = [k \in 0..Len(lines) |-> IF k = 0 THEN Opened ELSE Redone(g[k - 1], lines[k])]
    BY <1>2
  <1>4. Replayed(lines) = g[Len(lines)]
    BY DEF Replayed
  <1> HIDE DEF g
  <1>5. Redoes(g, lines, Len(lines))
    BY <1>1, <1>3, RedoesIs
  <1>6. f[0] = Opened /\ \A k \in 1..Len(lines) : f[k] = Redone(f[k - 1], lines[k])
    BY DEF Redoes
  <1>7. g[Len(lines)] = f[Len(lines)]
    BY <1>1, <1>5, <1>6, RedoesAgrees
  <1> QED  BY <1>4, <1>7

(* A file without lines leaves the session as it was opened. *)
LEMMA ReplayedNone == Replayed(<< >>) = Opened
  <1>1. PICK f : Redoes(f, << >>, 0)
    BY RedoesExists
  <1>2. Len(<< >>) = 0 /\ << >> \in Seq(Entries)
    OBVIOUS
  <1>3. Replayed(<< >>) = f[0]
    BY <1>1, <1>2, ReplayedIs
  <1> QED  BY <1>1, <1>3 DEF Redoes

(* One more line is redone on top of what was replayed before it. *)
LEMMA ReplayedMore ==
    ASSUME NEW lines \in Seq(Entries), NEW entry \in Entries
    PROVE  Replayed(Append(lines, entry)) = Redone(Replayed(lines), entry)
  <1> DEFINE n == Len(lines)  more == Append(lines, entry)
  <1>1. /\ n \in Nat /\ more \in Seq(Entries) /\ Len(more) = n + 1
        /\ more[n + 1] = entry /\ \A k \in 1..n : more[k] = lines[k]
    OBVIOUS
  <1>2. PICK f : Redoes(f, lines, n)
    BY <1>1, RedoesExists
  <1>3. PICK g : Redoes(g, more, n + 1)
    BY <1>1, RedoesExists
  <1> HIDE DEF n, more
  <1>4. Replayed(lines) = f[n] /\ Replayed(more) = g[n + 1]
    BY <1>1, <1>2, <1>3, ReplayedIs DEF n
  <1>5. g[0] = Opened /\ \A k \in 1..(n + 1) : g[k] = Redone(g[k - 1], more[k])
    BY <1>3 DEF Redoes
  <1>6. \A k \in 1..n : g[k] = Redone(g[k - 1], lines[k])
    BY <1>1, <1>5
  <1>7. f[n] = g[n]
    BY <1>1, <1>2, <1>5, <1>6, RedoesAgrees
  <1>8. n + 1 \in 1..(n + 1) /\ (n + 1) - 1 = n
    BY <1>1
  <1>9. g[n + 1] = Redone(g[n], more[n + 1])
    BY <1>5, <1>8
  <1> QED  BY <1>1, <1>4, <1>7, <1>9 DEF more

(* The state a replay has reached at the last checkpoint's line. *)
CheckpointLines(lines) == {k \in DOMAIN lines : lines[k].kind = "checkpoint"}
Greatest(S) == CHOOSE k \in S : \A j \in S : j <= k
LastSaved(lines) ==
    IF CheckpointLines(lines) = {} THEN Nowhere
    ELSE Replayed(SubSeq(lines, 1, Greatest(CheckpointLines(lines))))

(* Between the engine and its line a replay is one entry behind, which is  *)
(* in the call's hands; and a checkpoint is on disk before its line is.    *)
Tracks ==
    ~silent /\ Replayable(file) =>
        /\ call.phase # "entry" => engine = Replayed(file)
        /\ call.phase = "entry" /\ call.entry.kind \notin {"put", "restored"} =>
              engine = Redone(Replayed(file), call.entry)
        /\ IF call.phase = "entry" /\ call.entry.kind = "checkpoint" THEN disk = engine
           ELSE disk = LastSaved(file)

(* What one more line makes of the last checkpoint. *)
LEMMA MoreLines ==
    ASSUME NEW lines \in Seq(Entries), NEW entry \in Entries
    PROVE  /\ Replayable(Append(lines, entry)) =>
                 Replayable(lines) /\ entry.kind \notin {"put", "restored"}
           /\ entry.kind = "checkpoint" =>
                 LastSaved(Append(lines, entry)) = Replayed(Append(lines, entry))
           /\ entry.kind # "checkpoint" => LastSaved(Append(lines, entry)) = LastSaved(lines)
  <1> DEFINE n == Len(lines)  more == Append(lines, entry)
             C == CheckpointLines(lines)  D == CheckpointLines(more)
  <1>1. /\ n \in Nat /\ more \in Seq(Entries) /\ Len(more) = n + 1
        /\ more[n + 1] = entry /\ \A k \in 1..n : more[k] = lines[k]
        /\ DOMAIN lines = 1..n /\ DOMAIN more = 1..(n + 1)
    OBVIOUS
  <1>2. \A k \in 1..(n + 1) : k \in 1..n \/ k = n + 1
    BY <1>1
  <1>2a. \A k \in 1..n : k \in 1..(n + 1)
    BY <1>1
  <1>2b. n + 1 \in 1..(n + 1)
    BY <1>1
  <1> HIDE DEF n, more
  <1>3. Replayable(more) => Replayable(lines) /\ entry.kind \notin {"put", "restored"}
    BY <1>1, <1>2a, <1>2b DEF Replayable
  <1>4. C \subseteq 1..n /\ D \subseteq 1..(n + 1)
    BY <1>1 DEF CheckpointLines
  <1>5. ASSUME entry.kind = "checkpoint"
        PROVE  LastSaved(more) = Replayed(more)
    <2>1. n + 1 \in D /\ \A j \in D : j <= n + 1
      BY <1>1, <1>2b, <1>4, <1>5 DEF CheckpointLines
    <2> DEFINE last == Greatest(D)
    <2>2. last \in D /\ n + 1 <= last /\ last <= n + 1
      BY <2>1 DEF Greatest
    <2>3. last = n + 1
      BY <1>1, <1>4, <2>2
    <2>4. SubSeq(more, 1, n + 1) = more
      BY <1>1
    <2> QED  BY <2>1, <2>3, <2>4 DEF LastSaved
  <1>6. ASSUME entry.kind # "checkpoint"
        PROVE  LastSaved(more) = LastSaved(lines)
    <2>1. D = C
      <3>1. \A k \in 1..n : k \in D <=> k \in C
        BY <1>1, <1>2a DEF CheckpointLines
      <3>2. n + 1 \notin D
        BY <1>1, <1>6 DEF CheckpointLines
      <3> QED  BY <1>2, <1>4, <3>1, <3>2
    <2> DEFINE last == Greatest(C)
    <2>2. CASE C = {}
      BY <2>1, <2>2 DEF LastSaved
    <2>3. CASE C # {}
      <3>1. \E k \in C : \A j \in C : j <= k
        BY <1>1, <1>4, <2>3, GreatestOf
      <3>2. last \in 1..n
        BY <1>4, <3>1 DEF Greatest
      <3> HIDE DEF last
      <3>3. SubSeq(more, 1, last) = SubSeq(lines, 1, last)
        <4>1. last \in Nat /\ last <= n /\ last >= 1 /\ \A k \in 1..last : more[k] = lines[k]
          BY <1>1, <3>2
        <4>2. /\ SubSeq(more, 1, last) \in Seq(Entries) /\ Len(SubSeq(more, 1, last)) = last
              /\ \A k \in 1..last : SubSeq(more, 1, last)[k] = more[k]
          BY <1>1, <4>1
        <4>3. /\ SubSeq(lines, 1, last) \in Seq(Entries) /\ Len(SubSeq(lines, 1, last)) = last
              /\ \A k \in 1..last : SubSeq(lines, 1, last)[k] = lines[k]
          BY <1>1, <4>1 DEF n
        <4> QED  BY <4>1, <4>2, <4>3
      <3> QED  BY <2>1, <2>3, <3>3 DEF LastSaved, last
    <2> QED  BY <2>2, <2>3
  <1> QED  BY <1>3, <1>5, <1>6 DEF more

-----------------------------------------------------------------------------
(* That no action loses track. *)

(* A call that gets through: a replay would do to the engine what it did.  *)
LEMMA MovesTracks ==
    ASSUME Tracks, NEW name, NEW e, NEW entry, NEW event, Moves(name, e, entry, event),
           entry.kind \notin {"put", "restored"} => e = Redone(engine, entry),
           disk' = IF entry.kind = "checkpoint" THEN e ELSE disk
    PROVE  Tracks'
  <1>1. call.phase = "none" /\ engine' = e /\ UNCHANGED <<file, silent>>
    BY DEF Moves
  <1>2. call'.phase = "entry" /\ call'.entry = entry
    BY DEF Moves
  <1> SUFFICES ASSUME ~silent', Replayable(file')
               PROVE  Tracks!2'
    BY DEF Tracks
  <1>3. engine = Replayed(file) /\ disk = LastSaved(file)
    BY <1>1 DEF Tracks
  <1> QED  BY <1>1, <1>2, <1>3

(* What leaves the engine, the file and the checkpoint alone, and neither  *)
(* has nor brings a call between the engine and its line.                  *)
LEMMA QuietTracks ==
    ASSUME Tracks, UNCHANGED <<engine, disk, file, silent>>,
           call.phase # "entry", call'.phase # "entry"
    PROVE  Tracks'
  BY DEF Tracks

(* What is counted as silent, or moves nothing after all. *)
LEMMA SilentTracks ==
    ASSUME Tracks, UNCHANGED <<disk, file>>, silent' \/ (silent' = silent /\ engine' = engine),
           call.phase # "entry", call'.phase # "entry"
    PROVE  Tracks'
  BY DEF Tracks

(* A rate turned to where it was, or nothing discarded, moves nothing. *)
LEMMA SameEngine ==
    ASSUME NEW e \in Engines
    PROVE  [e EXCEPT !.waiting = e.waiting] = e /\ [e EXCEPT !.lr = e.lr] = e
  BY DEF Engines

(* What an entry has in it. *)
LEMMA EntryFacts ==
    ASSUME NEW kind, NEW loss, NEW taken
    PROVE  /\ Entry(kind, loss, taken).kind = kind /\ Entry(kind, loss, taken).loss = loss
           /\ Entry(kind, loss, taken).taken = taken /\ Entry(kind, loss, taken).parts = 0
  BY DEF Entry

(* Each call that gets through, with the entry it writes. *)
LEMMA CallsTrack ==
    ASSUME IInv, Tracks, StepOnce \/ Accumulate \/ Apply \/ Put \/ Checkpoint \/ Restore
    PROVE  Tracks'
  <1>1. CASE StepOnce
    <2>1. PICK o \in Outcomes :
              Moves("step!", Stepped(engine, o[1], o[2], 0), Entry("span", o[1], o[2]), "step")
      BY <1>1 DEF StepOnce
    <2>2. Redone(engine, Entry("span", o[1], o[2])) = Stepped(engine, o[1], o[2], 0)
      BY EntryFacts DEF Redone
    <2> QED  BY <1>1, <2>1, <2>2, EntryFacts, MovesTracks DEF StepOnce
  <1>2. CASE Accumulate
    <2>1. PICK l \in Losses :
              Moves("accumulate", Accumulated(engine, l = "finite"),
                    Entry("accumulate", l, l = "finite"), "none")
      BY <1>2 DEF Accumulate
    <2>2. Redone(engine, Entry("accumulate", l, l = "finite")) = Accumulated(engine, l = "finite")
      BY EntryFacts DEF Redone
    <2> QED  BY <1>2, <2>1, <2>2, EntryFacts, MovesTracks DEF Accumulate
  <1>3. CASE Apply
    <2> DEFINE entry(o) == [Entry("span", o[1], o[2]) EXCEPT !.parts = engine.waiting]
    <2>1. PICK o \in Outcomes : Moves("apply!", Applied(engine, o[1], o[2]), entry(o), "step")
      BY <1>3 DEF Apply
    <2>2. /\ entry(o).kind = "span" /\ entry(o).loss = o[1] /\ entry(o).taken = o[2]
          /\ entry(o).parts = engine.waiting
      BY DEF Entry
    <2> HIDE DEF entry
    <2>3. Redone(engine, entry(o)) = Applied(engine, o[1], o[2])
      BY <1>3, <2>2 DEF Redone, Apply
    <2> QED  BY <1>3, <2>1, <2>2, <2>3, MovesTracks DEF Apply
  <1>4. CASE Put
    <2>1. Entry("put", "none", FALSE).kind = "put"
      BY ZenonT(40), EntryFacts
    <2> QED  BY <1>4, <2>1, MovesTracks DEF Put
  <1>5. CASE Checkpoint
    <2> DEFINE entry == Entry("checkpoint", "none", FALSE)
    <2>1. entry.kind = "checkpoint"
      BY ZenonT(40), EntryFacts
    <2>2. Moves("checkpoint!", engine, entry, "checkpoint_written") /\ disk' = engine
      BY <1>5 DEF Checkpoint, Saved
    <2> HIDE DEF entry
    <2>3. Redone(engine, entry) = engine
      BY <2>1 DEF Redone
    <2> QED  BY <2>1, <2>2, <2>3, MovesTracks
  <1>6. CASE Restore
    <2>1. Entry("restored", "none", FALSE).kind = "restored"
      BY ZenonT(40), EntryFacts
    <2> QED  BY <1>6, <2>1, MovesTracks DEF Restore
  <1> QED  BY <1>1, <1>2, <1>3, <1>4, <1>5, <1>6

(* Turning a rate and freezing, which write what they turned to. *)
LEMMA TurnsTrack ==
    ASSUME IInv, Tracks,
           \/ \E x \in Rates : Adjust(x)
           \/ \E f \in BOOLEAN : SetFrozen(f)
    PROVE  Tracks'
  <1>1. ASSUME NEW x \in Rates, Adjust(x)
        PROVE  Tracks'
    <2> DEFINE entry == [Entry("adjust", "none", FALSE) EXCEPT !.lr = x]
    <2>1. entry.kind = "adjust" /\ entry.lr = x
      BY DEF Entry
    <2>2. Moves("adjust", [engine EXCEPT !.lr = x], entry, "none") /\ UNCHANGED disk
      BY <1>1 DEF Adjust
    <2> HIDE DEF entry
    <2>3. Redone(engine, entry) = [engine EXCEPT !.lr = x]
      BY <2>1 DEF Redone
    <2> QED  BY <2>1, <2>2, <2>3, MovesTracks
  <1>2. ASSUME NEW f \in BOOLEAN, SetFrozen(f)
        PROVE  Tracks'
    <2> DEFINE entry == [Entry("freeze", "none", FALSE) EXCEPT !.frozen = f]
    <2>1. entry.kind = "freeze" /\ entry.frozen = f
      BY DEF Entry
    <2>2. Moves("freeze!", [engine EXCEPT !.frozen = f], entry, "none") /\ UNCHANGED disk
      BY <1>2 DEF SetFrozen
    <2> HIDE DEF entry
    <2>3. Redone(engine, entry) = [engine EXCEPT !.frozen = f]
      BY <2>1 DEF Redone
    <2> QED  BY <2>1, <2>2, <2>3, MovesTracks
  <1> QED  BY <1>1, <1>2

(* What leaves no line, although it may move the engine. *)
LEMMA LinelessTrack ==
    ASSUME IInv, Tracks, Discard \/ \E x \in Rates : AdjustInPart(x)
    PROVE  Tracks'
  <1>0. engine \in Engines /\ silent \in BOOLEAN
    BY DEF IInv, Typed
  <1>1. CASE Discard
    <2>1. call.phase = "none" /\ UNCHANGED <<disk, file, call>>
      BY <1>1 DEF Discard
    <2>2. silent' \/ (silent' = silent /\ engine' = engine)
      <3>1. CASE engine.waiting > 0
        BY <1>1, <3>1 DEF Discard
      <3>2. CASE ~(engine.waiting > 0)
        <4>1. engine.waiting = 0
          BY <1>0, <3>2, BoundsAssumption DEF Engines
        <4>2. engine' = [engine EXCEPT !.waiting = engine.waiting]
          BY <1>1, <4>1 DEF Discard
        <4>3. engine' = engine
          BY <1>0, <4>2, SameEngine
        <4> QED  BY <1>0, <1>1, <3>2, <4>3 DEF Discard
      <3> QED  BY <3>1, <3>2
    <2> QED  BY <2>1, <2>2, SilentTracks
  <1>2. ASSUME NEW x \in Rates, AdjustInPart(x)
        PROVE  Tracks'
    <2>1. /\ call.phase = "none" /\ UNCHANGED <<disk, file>>
          /\ call' = NoCall /\ engine' = [engine EXCEPT !.lr = x]
          /\ silent' = (silent \/ x # engine.lr)
      BY <1>2 DEF AdjustInPart, Unwinds
    <2>2. call'.phase = "none"
      BY <2>1 DEF NoCall
    <2>3. silent' \/ (silent' = silent /\ engine' = engine)
      <3>1. CASE x # engine.lr
        BY <2>1, <3>1
      <3>2. CASE x = engine.lr
        <4>1. engine' = engine
          BY <1>0, <2>1, <3>2, SameEngine
        <4> QED  BY <1>0, <2>1, <3>2, <4>1
      <3> QED  BY <3>1, <3>2
    <2> QED  BY <2>1, <2>2, <2>3, SilentTracks
  <1> QED  BY <1>1, <1>2

(* The line catches up with the engine, or cannot be written. *)
LEMMA RecordsTrack == ASSUME IInv, Tracks, Records PROVE Tracks'
  <1>1. /\ call.phase = "entry" /\ UNCHANGED <<engine, disk>>
        /\ file \in Seq(Entries) /\ call.entry \in Entries
    BY DEF Records, IInv, Typed, CallsUnderWay
  <1>2. CASE Writable(call.entry)
    <2> DEFINE more == Append(file, call.entry)
    <2>1. file' = more /\ UNCHANGED silent
      BY <1>2 DEF Records
    <2>2. call'.phase # "entry"
      <3>1. call' = IF call.event = "none" THEN NoCall ELSE [call EXCEPT !.phase = "fire"]
        BY <1>2 DEF Records
      <3>2. [call EXCEPT !.phase = "fire"].phase = "fire"
        BY DEF IInv, Typed, CallsUnderWay
      <3>3. NoCall.phase = "none"
        BY DEF NoCall
      <3> QED  BY <3>1, <3>2, <3>3
    <2>3. Replayed(more) = Redone(Replayed(file), call.entry)
      BY <1>1, ReplayedMore
    <2>4. /\ Replayable(more) => Replayable(file) /\ call.entry.kind \notin {"put", "restored"}
          /\ call.entry.kind = "checkpoint" => LastSaved(more) = Replayed(more)
          /\ call.entry.kind # "checkpoint" => LastSaved(more) = LastSaved(file)
      BY <1>1, MoreLines
    <2> HIDE DEF more
    <2> SUFFICES ASSUME ~silent, Replayable(more)
                 PROVE  engine = Replayed(more) /\ disk = LastSaved(more)
      BY <1>1, <2>1, <2>2 DEF Tracks
    <2>5. engine = Replayed(more)
      BY <1>1, <2>3, <2>4 DEF Tracks
    <2>6. disk = LastSaved(more)
      BY <1>1, <2>4, <2>5 DEF Tracks
    <2> QED  BY <2>5, <2>6
  <1>3. CASE ~Writable(call.entry)
    BY <1>3 DEF Records, Tracks
  <1> QED  BY <1>2, <1>3

LEMMA TheRestTracks ==
    ASSUME IInv, Tracks, Raises \/ Fire \/ HookReturns \/ StartSpan \/ EndSpan
    PROVE  Tracks'
  <1>1. UNCHANGED <<engine, disk, file, silent>>
    BY DEF Raises, Fire, HookReturns, StartSpan, EndSpan
  <1>2. call.phase # "entry"
    BY DEF Raises, Masked, Fire, HookReturns, StartSpan, EndSpan, Running
  <1>3. call' \in {call, NoCall}
    BY DEF Raises, Unwinds, Fire, HookReturns, StartSpan, EndSpan
  <1>4. call'.phase # "entry"
    <2>1. NoCall.phase = "none"
      BY DEF NoCall
    <2> QED  BY <1>2, <1>3, <2>1
  <1> QED  BY <1>1, <1>2, <1>4, QuietTracks

LEMMA InitTracks == Init => Tracks
  <1> SUFFICES ASSUME Init PROVE Tracks
    OBVIOUS
  <1>1. engine = Opened /\ disk = Nowhere /\ file = << >> /\ call.phase = "none"
    BY DEF Init, NoCall
  <1>2. CheckpointLines(<< >>) = {}
    BY DEF CheckpointLines
  <1> QED  BY <1>1, <1>2, ReplayedNone DEF Tracks, LastSaved

LEMMA NextTracks == IInv /\ Tracks /\ [Next]_vars => Tracks'
  <1> SUFFICES ASSUME IInv, Tracks, [Next]_vars PROVE Tracks'
    OBVIOUS
  <1>1. CASE UNCHANGED vars
    BY <1>1 DEF vars, Tracks
  <1>2. CASE StepOnce \/ Accumulate \/ Apply \/ Put \/ Checkpoint \/ Restore
    BY <1>2, CallsTrack
  <1>3. CASE (\E x \in Rates : Adjust(x)) \/ \E f \in BOOLEAN : SetFrozen(f)
    BY <1>3, TurnsTrack
  <1>4. CASE Discard \/ \E x \in Rates : AdjustInPart(x)
    BY <1>4, LinelessTrack
  <1>5. CASE Records
    BY <1>5, RecordsTrack
  <1>6. CASE Raises \/ Fire \/ HookReturns \/ StartSpan \/ EndSpan
    BY <1>6, TheRestTracks
  <1> QED  BY <1>1, <1>2, <1>3, <1>4, <1>5, <1>6 DEF Next

(* The file tracks the engine: between a call and its line a replay is one *)
(* entry behind, and otherwise it is where the engine is.                  *)
THEOREM TheFileTracks == Spec => []Tracks
  <1>1. Init => Tracks
    BY InitTracks
  <1>2. IInv /\ Tracks /\ [Next]_vars => Tracks'
    BY NextTracks
  <1> QED  BY <1>1, <1>2, Invariance, PTL DEF Spec

(* Whenever Ruby runs, a replay of the journal's lines on a fresh session  *)
(* ends in the engine's state, unless something moved it in silence or a   *)
(* line is of those Replay passes over (Session#atomically, Replay#apply). *)
THEOREM AReplayReproduces == Spec => []ReplayReproduces
  <1>1. Tracks => ReplayReproduces
    BY DEF Tracks, ReplayReproduces, Settled
  <1> QED  BY <1>1, TheFileTracks, PTL

(* And the checkpoint there is holds what a replay reached at the last     *)
(* line that says one was written (Session#checkpoint!).                   *)
THEOREM ACheckpointIsInTheJournal == Spec => []CheckpointIsInTheJournal
  <1>1. Tracks => CheckpointIsInTheJournal
    BY DEF Tracks, CheckpointIsInTheJournal, Settled, LastSaved, CheckpointLines, Greatest
  <1> QED  BY <1>1, TheFileTracks, PTL

=============================================================================
