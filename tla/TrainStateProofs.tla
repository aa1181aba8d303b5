-------------------------- MODULE TrainStateProofs --------------------------
(***************************************************************************)
(* That TrainState keeps its types, its parallel vectors lined up and its  *)
(* counters in agreement, and what its steps and restores promise: for any *)
(* plan, update rule, knobs, seeds, patterns and bounds.                   *)
(***************************************************************************)
EXTENDS TrainState, TLAPS

-----------------------------------------------------------------------------
(* Sequences as functions. *)

(* A function over the first n places is a sequence of that length. *)
LEMMA FunctionIsSeq ==
    ASSUME NEW S, NEW n \in Nat, NEW f \in [1..n -> S]
    PROVE  f \in Seq(S) /\ Len(f) = n /\ DOMAIN f = 1..n
  OBVIOUS

(* And the other way round. *)
LEMMA SeqIsFunction ==
    ASSUME NEW S, NEW s \in Seq(S)
    PROVE  Len(s) \in Nat /\ DOMAIN s = 1..Len(s) /\ s \in [1..Len(s) -> S]
  OBVIOUS

(* What argnums may be is an ordered sequence of candidates, which are     *)
(* positions of the plan.                                                  *)
LEMMA OrdersAreSeqs ==
    ASSUME NEW nums \in Orders
    PROVE  /\ nums \in Seq(Candidates) /\ Increasing(nums)
           /\ \A k \in DOMAIN nums : nums[k] \in Positions /\ nums[k] \in Candidates
  BY NumParamsAssumption, CandidatesAssumption, FunctionIsSeq DEF Orders

(* An ordered sequence holds each position once, so looking a position up  *)
(* finds its only place.                                                   *)
LEMMA OnePlaceEach ==
    ASSUME NEW s \in Seq(Positions), Increasing(s),
           NEW j \in DOMAIN s, NEW k \in DOMAIN s, s[j] = s[k]
    PROVE  j = k
  <1>1. Len(s) \in Nat /\ DOMAIN s = 1..Len(s)
    BY SeqIsFunction
  <1>2. s[j] \in Int /\ s[k] \in Int
    BY NumParamsAssumption DEF Positions
  <1>3. ~(j < k) /\ ~(k < j)
    BY <1>2 DEF Increasing
  <1> QED  BY <1>1, <1>3

(* Fresh slots are slots, one per differentiated parameter and built for   *)
(* it.                                                                     *)
LEMMA FreshSlotsFacts ==
    ASSUME NEW nums \in Seq(Positions)
    PROVE  /\ FreshSlots(nums) \in Seq(Slot)
           /\ Rule = "sgd" => FreshSlots(nums) = << >>
           /\ Rule = "adamw" =>
                /\ DOMAIN FreshSlots(nums) = DOMAIN nums
                /\ Len(FreshSlots(nums)) = Len(nums)
                /\ \A k \in DOMAIN nums : FreshSlots(nums)[k] = ZeroSlot(nums[k])
  <1>1. CASE Rule = "sgd"
    BY <1>1 DEF FreshSlots
  <1>2. CASE Rule = "adamw"
    <2>1. DOMAIN nums = 1..Len(nums) /\ Len(nums) \in Nat
      BY SeqIsFunction
    <2>2. \A k \in DOMAIN nums : ZeroSlot(nums[k]) \in Slot
      BY DEF ZeroSlot, Slot
    <2>3. FreshSlots(nums) = [k \in 1..Len(nums) |-> ZeroSlot(nums[k])]
      BY <1>2, <2>1 DEF FreshSlots
    <2>4. FreshSlots(nums) \in [1..Len(nums) -> Slot]
      BY <2>1, <2>2, <2>3
    <2> QED  BY <1>2, <2>1, <2>3, <2>4, FunctionIsSeq
  <1> QED  BY <1>1, <1>2, RuleAssumption

-----------------------------------------------------------------------------
(* The invariant.  LinedUp alone is not inductive: a restore takes its     *)
(* slots from the checkpoint, so the checkpoint has to have filed a slot   *)
(* for exactly what was trained when it was written.                       *)
FiledIsTrained ==
    disk # NoCheckpoint =>
        Filed(disk) = IF Rule = "sgd" THEN {} ELSE disk.trained

IInv == TypeOK /\ LinedUp /\ FiledIsTrained

(* argnums is a sequence of positions. *)
LEMMA ArgnumsFacts ==
    ASSUME TypeOK
    PROVE  /\ argnums \in Seq(Positions) /\ Increasing(argnums)
           /\ Len(argnums) \in Nat /\ DOMAIN argnums = 1..Len(argnums)
           /\ \A k \in DOMAIN argnums : argnums[k] \in Positions
           /\ Range(argnums) \subseteq Positions
  BY CandidatesAssumption, SeqIsFunction DEF TypeOK, Range

(* What refit makes of the slots: one for each parameter of the new set,   *)
(* the old one where there was one and a fresh one where there was not.    *)
LEMMA RefittedFacts ==
    ASSUME TypeOK, LinedUp, NEW now \in Seq(Positions)
    PROVE  /\ Refitted(argnums, now) \in Seq(Slot)
           /\ Rule = "sgd" => Refitted(argnums, now) = << >>
           /\ Rule = "adamw" =>
                /\ Len(Refitted(argnums, now)) = Len(now)
                /\ DOMAIN Refitted(argnums, now) = DOMAIN now
                /\ \A k \in DOMAIN now :
                     /\ Refitted(argnums, now)[k].of = now[k]
                     /\ IF now[k] \in Range(argnums)
                        THEN \E j \in DOMAIN argnums :
                               /\ argnums[j] = now[k]
                               /\ Refitted(argnums, now)[k] = moments[j]
                        ELSE Refitted(argnums, now)[k] = ZeroSlot(now[k])
  <1>1. CASE Rule = "sgd"
    BY <1>1 DEF Refitted, LinedUp, TypeOK
  <1>2. CASE Rule = "adamw"
    <2> DEFINE Old(p) == CHOOSE j \in DOMAIN argnums : argnums[j] = p
               New(p) == IF p \in Range(argnums) THEN moments[Old(p)] ELSE ZeroSlot(p)
    <2>1. DOMAIN now = 1..Len(now) /\ Len(now) \in Nat
      BY SeqIsFunction
    <2>2. Refitted(argnums, now) = [k \in 1..Len(now) |-> New(now[k])]
      BY <1>2, <2>1 DEF Refitted
    <2>3. DOMAIN moments = DOMAIN argnums /\ moments \in [DOMAIN argnums -> Slot]
      BY <1>2, ArgnumsFacts, SeqIsFunction DEF LinedUp, TypeOK
    <2>4. \A p \in Range(argnums) :
            /\ Old(p) \in DOMAIN argnums /\ argnums[Old(p)] = p
            /\ moments[Old(p)] \in Slot /\ moments[Old(p)].of = p
      BY <1>2, <2>3 DEF Range, LinedUp
    <2>5. \A p \in Positions : ZeroSlot(p) \in Slot /\ ZeroSlot(p).of = p
      BY DEF ZeroSlot, Slot
    <2>6. \A k \in DOMAIN now : now[k] \in Positions
      BY <2>1
    <2>7. \A k \in 1..Len(now) : New(now[k]) \in Slot /\ New(now[k]).of = now[k]
      BY <2>1, <2>4, <2>5, <2>6
    <2>8. Refitted(argnums, now) \in [1..Len(now) -> Slot]
      BY <2>2, <2>7
    <2>9. /\ Refitted(argnums, now) \in Seq(Slot)
          /\ Len(Refitted(argnums, now)) = Len(now)
          /\ DOMAIN Refitted(argnums, now) = DOMAIN now
      BY <2>1, <2>8, FunctionIsSeq
    <2>10. ASSUME NEW k \in DOMAIN now
           PROVE  /\ Refitted(argnums, now)[k].of = now[k]
                  /\ IF now[k] \in Range(argnums)
                     THEN \E j \in DOMAIN argnums :
                            /\ argnums[j] = now[k]
                            /\ Refitted(argnums, now)[k] = moments[j]
                     ELSE Refitted(argnums, now)[k] = ZeroSlot(now[k])
      <3>1. Refitted(argnums, now)[k] = New(now[k])
        BY <2>1, <2>2
      <3>2. CASE now[k] \in Range(argnums)
        <4>1. New(now[k]) = moments[Old(now[k])]
          BY <3>2
        <4> HIDE DEF Old, New
        <4> QED  BY <3>1, <3>2, <4>1, <2>4
      <3>3. CASE now[k] \notin Range(argnums)
        BY <3>1, <3>3, <2>5, <2>6
      <3> QED  BY <3>2, <3>3
    <2> QED  BY <1>2, <2>9, <2>10
  <1> QED  BY <1>1, <1>2, RuleAssumption

(* What a checkpoint records: a slot under the path of each differentiated *)
(* parameter, and none elsewhere.                                          *)
LEMMA RecordFacts ==
    ASSUME TypeOK, LinedUp
    PROVE  /\ Record \in Checkpoint
           /\ Filed(Record) = IF Rule = "sgd" THEN {} ELSE Record.trained
           /\ \A p \in Filed(Record) : Record.slots[p].of = p
  <1> DEFINE At(p) == CHOOSE k \in DOMAIN argnums : argnums[k] = p
  <1>1. \A p \in Range(argnums) : At(p) \in DOMAIN argnums /\ argnums[At(p)] = p
    BY DEF Range
  <1>2. ASSUME Rule = "adamw", NEW p \in Range(argnums)
        PROVE  moments[At(p)] \in Slot /\ moments[At(p)].of = p
    <2>1. DOMAIN moments = DOMAIN argnums /\ moments \in [DOMAIN argnums -> Slot]
      BY <1>2, ArgnumsFacts, SeqIsFunction DEF LinedUp, TypeOK
    <2> HIDE DEF At
    <2> QED  BY <1>1, <1>2, <2>1 DEF LinedUp
  <1>3. \A p \in Positions :
          /\ Rule = "adamw" /\ p \in Range(argnums) => Slots[p] = moments[At(p)]
          /\ ~(Rule = "adamw" /\ p \in Range(argnums)) => Slots[p] = NoSlot
    BY DEF Slots
  <1>4. \A s \in Slot : s # NoSlot
    BY NumParamsAssumption DEF Slot, NoSlot, Positions
  <1> HIDE DEF At
  <1>5. Slots \in [Positions -> Slot \cup {NoSlot}]
    <2>1. \A p \in Positions : Slots[p] \in Slot \cup {NoSlot}
      BY <1>2, <1>3
    <2>2. DOMAIN Slots = Positions /\ Slots = [p \in Positions |-> Slots[p]]
      BY DEF Slots
    <2> QED  BY <2>1, <2>2
  <1>6. Record \in Checkpoint
    BY <1>5, ArgnumsFacts DEF Record, Checkpoint, TypeOK
  <1>7. Filed(Record) = {p \in Positions : Slots[p] # NoSlot}
    BY DEF Filed, Record
  <1>8. Record.trained = Range(argnums) /\ Record.slots = Slots
    BY DEF Record
  <1>9. Filed(Record) = IF Rule = "sgd" THEN {} ELSE Record.trained
    BY <1>2, <1>3, <1>4, <1>7, <1>8, ArgnumsFacts, RuleAssumption
  <1>10. \A p \in Filed(Record) : Record.slots[p].of = p
    BY <1>2, <1>3, <1>7, <1>8
  <1> QED  BY <1>6, <1>9, <1>10

(* One gradient per differentiated parameter, and adding one more part to  *)
(* gradients that line up leaves them lined up.                            *)
LEMMA GradientsFacts ==
    ASSUME TypeOK
    PROVE  /\ GradientsNow \in Gradients
           /\ Summed(<< >>, GradientsNow) = GradientsNow
           /\ Summed(GradientsNow, GradientsNow) = GradientsNow
  <1>1. GradientsNow \in [1..Len(argnums) -> SUBSET Positions]
    BY ArgnumsFacts DEF GradientsNow
  <1>2. GradientsNow \in Gradients /\ DOMAIN GradientsNow = 1..Len(argnums)
    BY <1>1, ArgnumsFacts, FunctionIsSeq DEF Gradients
  <1>3. Summed(<< >>, GradientsNow) = GradientsNow
    BY DEF Summed
  <1>4. CASE GradientsNow = << >>
    BY <1>2, <1>3, <1>4
  <1>5. CASE GradientsNow # << >>
    <2>1. Summed(GradientsNow, GradientsNow)
            = [k \in DOMAIN GradientsNow |-> GradientsNow[k] \cup GradientsNow[k]]
      BY <1>5 DEF Summed
    <2>2. \A k \in DOMAIN GradientsNow :
            GradientsNow[k] \cup GradientsNow[k] = GradientsNow[k]
      OBVIOUS
    <2>3. GradientsNow = [k \in DOMAIN GradientsNow |-> GradientsNow[k]]
      BY <1>1
    <2> QED  BY <1>2, <1>3, <2>1, <2>2, <2>3
  <1> QED  BY <1>2, <1>3, <1>4, <1>5

-----------------------------------------------------------------------------
(* Each call preserves the invariant. *)

(* Fresh slots line up with what they were made for. *)
LEMMA FreshLinedUp ==
    ASSUME NEW nums \in Seq(Positions), Rule = "adamw"
    PROVE  /\ Len(FreshSlots(nums)) = Len(nums)
           /\ \A k \in DOMAIN nums : FreshSlots(nums)[k].of = nums[k]
  <1>1. \A p : ZeroSlot(p).of = p
    BY DEF ZeroSlot
  <1>2. \A k \in DOMAIN nums : FreshSlots(nums)[k] = ZeroSlot(nums[k])
    BY FreshSlotsFacts
  <1> QED  BY <1>1, <1>2, FreshSlotsFacts

(* A run that begins, for the first time or over an older checkpoint. *)
LEMMA InitInv == Init => IInv
  <1> SUFFICES ASSUME Init PROVE IInv
    OBVIOUS
  <1>1. argnums \in Seq(Candidates) /\ argnums \in Seq(Positions) /\ Increasing(argnums)
    BY OrdersAreSeqs, CandidatesAssumption DEF Init
  <1>2. TypeOK
    BY <1>1, FreshSlotsFacts, ReadingsAssumption
    DEF Init, TypeOK, KeyOf, Key, Nothing, Gradients, Answers
  <1>3. LinedUp
    <2>1. IF Rule = "sgd" THEN moments = << >>
          ELSE /\ Len(moments) = Len(argnums)
               /\ \A k \in DOMAIN argnums : moments[k].of = argnums[k]
      BY <1>1, FreshLinedUp, FreshSlotsFacts, RuleAssumption DEF Init
    <2> QED  BY <2>1 DEF Init, LinedUp, Nothing
  <1>4. FiledIsTrained
    BY DEF Init, FiledIsTrained
  <1> QED  BY <1>2, <1>3, <1>4 DEF IInv

(* A session opened over whatever is on disk. *)
LEMMA ReopenInv == IInv /\ Reopen => IInv'
  <1> SUFFICES ASSUME IInv, Reopen PROVE IInv'
    OBVIOUS
  <1>1. argnums' \in Seq(Candidates) /\ argnums' \in Seq(Positions) /\ Increasing(argnums')
    BY OrdersAreSeqs, CandidatesAssumption DEF Reopen
  <1>2. TypeOK'
    BY <1>1, FreshSlotsFacts, ReadingsAssumption
    DEF IInv, Reopen, TypeOK, KeyOf, Key, Nothing, Gradients, Answers
  <1>3. LinedUp'
    <2>1. IF Rule = "sgd" THEN moments' = << >>
          ELSE /\ Len(moments') = Len(argnums')
               /\ \A k \in DOMAIN argnums' : moments'[k].of = argnums'[k]
      BY <1>1, FreshLinedUp, FreshSlotsFacts, RuleAssumption DEF Reopen
    <2> QED  BY <2>1 DEF IInv, Reopen, LinedUp, Nothing, Filed
  <1>4. FiledIsTrained'
    BY DEF IInv, Reopen, FiledIsTrained, Filed
  <1> QED  BY <1>2, <1>3, <1>4 DEF IInv

(* A call that leaves run and disk alone preserves anything said of them. *)
LEMMA IdleInv ==
    ASSUME IInv, UNCHANGED <<run, disk>>, answer' \in Answers
    PROVE  IInv'
  BY DEF IInv, TypeOK, LinedUp, FiledIsTrained, Filed, GradientsNow,
         run, optimizer, draws, readings

(* A step moves parameters and slots place by place, so everything stays   *)
(* where it was; the accumulator is kept or emptied.                       *)
LEMMA AdvanceInv ==
    ASSUME IInv, NEW grads, NEW l \in Readings, NEW n \in Readings,
           Advance(grads, l, n), waiting' = waiting \/ waiting' = Nothing
    PROVE  IInv'
  <1>1. /\ Aged \in Seq(Slot) /\ Len(Aged) = Len(moments) /\ DOMAIN Aged = DOMAIN moments
        /\ \A k \in DOMAIN moments : Aged[k].of = moments[k].of
    <2>1. /\ Len(moments) \in Nat /\ DOMAIN moments = 1..Len(moments)
          /\ moments \in [1..Len(moments) -> Slot]
      BY SeqIsFunction DEF IInv, TypeOK
    <2>2. Aged \in [1..Len(moments) -> Slot]
      BY <2>1 DEF Aged, Slot
    <2>3. \A k \in DOMAIN moments : Aged[k].of = moments[k].of
      BY <2>1 DEF Aged, Slot
    <2> QED  BY <2>1, <2>2, <2>3, FunctionIsSeq
  <1>2. Updated \in [Positions -> Nat]
    BY DEF Updated, IInv, TypeOK
  <1>3. Split(rng) \in Key
    BY DEF Split, Key, IInv, TypeOK
  <1>4. waiting' \in [grads : Gradients, parts : Nat]
    <2>1. Nothing \in [grads : Gradients, parts : Nat]
      BY DEF Nothing, Gradients
    <2> QED  BY <2>1 DEF IInv, TypeOK
  <1>5. (IF l = "finite" THEN n ELSE "nan") \in Readings
    BY ReadingsAssumption
  <1>6. moments' \in Seq(Slot) /\ params' \in [Positions -> Nat] /\ t' \in Nat
        /\ answer' \in Answers
    BY <1>1, <1>2 DEF Advance, IInv, TypeOK, Answers
  <1>7. TypeOK'
    BY <1>3, <1>4, <1>5, <1>6 DEF Advance, IInv, TypeOK
  <1>8. LinedUp'
    <2>1. IF Rule = "sgd" THEN moments' = << >>
          ELSE /\ Len(moments') = Len(argnums)
               /\ \A k \in DOMAIN argnums : moments'[k].of = argnums[k]
      <3>1. CASE UNCHANGED moments
        BY <3>1 DEF IInv, LinedUp
      <3>2. CASE moments' = Aged
        <4>1. CASE Rule = "sgd"
          BY <3>2, <4>1, <1>1 DEF IInv, LinedUp, Aged
        <4>2. CASE Rule = "adamw"
          <5>1. DOMAIN moments = DOMAIN argnums
            BY <4>2, ArgnumsFacts, SeqIsFunction DEF IInv, LinedUp, TypeOK
          <5> QED  BY <3>2, <4>2, <5>1, <1>1 DEF IInv, LinedUp
        <4> QED  BY <4>1, <4>2, RuleAssumption
      <3> QED  BY <3>1, <3>2 DEF Advance
    <2>2. IF waiting'.parts = 0 THEN waiting'.grads = << >>
          ELSE waiting'.grads = GradientsNow /\ argnums # << >>
      BY DEF Nothing, IInv, LinedUp
    <2> QED  BY <2>1, <2>2 DEF LinedUp, Advance, GradientsNow, Filed, IInv
  <1>9. FiledIsTrained'
    BY DEF Advance, FiledIsTrained, Filed, IInv
  <1> QED  BY <1>7, <1>8, <1>9 DEF IInv

(* A step on one batch, taken, skipped or failed. *)
LEMMA StepInv == IInv /\ Step => IInv'
  <1> SUFFICES ASSUME IInv, Step PROVE IInv'
    OBVIOUS
  <1>1. CASE Refuse \/ Fail
    BY <1>1, IdleInv DEF Refuse, Fail, Answers
  <1>2. CASE /\ \E l, n \in Readings : Advance(GradientsNow, l, n)
             /\ UNCHANGED waiting
    BY <1>2, AdvanceInv
  <1> QED  BY <1>1, <1>2 DEF Step

(* A part added to what waits, or left out. *)
LEMMA AccumulateInv == IInv /\ Accumulate => IInv'
  <1> SUFFICES ASSUME IInv, Accumulate PROVE IInv'
    OBVIOUS
  <1>1. CASE Refuse \/ Fail \/ Idle
    BY <1>1, IdleInv DEF Refuse, Fail, Idle, Answers
  <1>2. CASE /\ Trains
             /\ waiting' = [grads |-> Summed(waiting.grads, GradientsNow),
                            parts |-> waiting.parts + 1]
             /\ answer' = "done"
             /\ UNCHANGED <<params, argnums, optimizer, draws, readings, disk>>
    <2>1. waiting.grads = << >> \/ waiting.grads = GradientsNow
      BY DEF IInv, LinedUp
    <2>2. Summed(waiting.grads, GradientsNow) = GradientsNow
      BY <2>1, GradientsFacts DEF IInv
    <2>3. waiting.parts \in Nat
      BY DEF IInv, TypeOK
    <2>4. /\ waiting' \in [grads : Gradients, parts : Nat]
          /\ waiting'.grads = GradientsNow /\ waiting'.parts # 0
      BY <1>2, <2>2, <2>3, GradientsFacts DEF IInv
    <2>5. TypeOK'
      BY <1>2, <2>4 DEF IInv, TypeOK, Answers, optimizer, draws, readings
    <2>6. LinedUp'
      BY <1>2, <2>4
      DEF IInv, LinedUp, Trains, GradientsNow, Filed, optimizer, draws, readings
    <2>7. FiledIsTrained'
      BY <1>2 DEF IInv, FiledIsTrained, Filed
    <2> QED  BY <2>5, <2>6, <2>7 DEF IInv
  <1> QED  BY <1>1, <1>2 DEF Accumulate

(* A step on what was waiting. *)
LEMMA ApplyInv == IInv /\ Apply => IInv'
  <1> SUFFICES ASSUME IInv, Apply PROVE IInv'
    OBVIOUS
  <1>1. CASE Refuse \/ Fail
    BY <1>1, IdleInv DEF Refuse, Fail, Answers
  <1>2. CASE /\ \E l, n \in Readings : Advance(waiting.grads, l, n)
             /\ waiting' = Nothing
    BY <1>2, AdvanceInv
  <1> QED  BY <1>1, <1>2 DEF Apply

(* An empty accumulator is typed, and lines up with anything. *)
LEMMA NothingFacts ==
    /\ Nothing \in [grads : Gradients, parts : Nat]
    /\ Nothing.parts = 0 /\ Nothing.grads = << >>
  BY DEF Nothing, Gradients

(* What was waiting is thrown away. *)
LEMMA DiscardInv == IInv /\ Discard => IInv'
  BY NothingFacts
  DEF IInv, Discard, TypeOK, LinedUp, FiledIsTrained, Filed, Answers,
      optimizer, draws, readings

(* Freezing and thawing: the slots follow, and nothing was waiting. *)
LEMMA SetFrozenInv ==
    ASSUME IInv, NEW matches, NEW frozen, SetFrozen(matches, frozen)
    PROVE  IInv'
  <1>1. CASE Refuse \/ Fail \/ Idle
    BY <1>1, IdleInv DEF Refuse, Fail, Idle, Answers
  <1>2. CASE /\ waiting.parts = 0
             /\ argnums' \in Orders
             /\ moments' = Refitted(argnums, argnums')
             /\ answer' = "done"
             /\ UNCHANGED <<params, config, t, draws, readings, waiting, disk>>
    <2>1. /\ argnums' \in Seq(Candidates) /\ argnums' \in Seq(Positions)
          /\ Increasing(argnums')
      BY <1>2, OrdersAreSeqs, CandidatesAssumption
    <2>2. /\ moments' \in Seq(Slot)
          /\ Rule = "sgd" => moments' = << >>
          /\ Rule = "adamw" =>
               /\ Len(moments') = Len(argnums')
               /\ \A k \in DOMAIN argnums' : moments'[k].of = argnums'[k]
      BY <1>2, <2>1, RefittedFacts DEF IInv
    <2>3. TypeOK'
      BY <1>2, <2>1, <2>2 DEF IInv, TypeOK, Answers, draws, readings
    <2>4. LinedUp'
      BY <1>2, <2>2, RuleAssumption DEF IInv, LinedUp, Filed
    <2>5. FiledIsTrained'
      BY <1>2 DEF IInv, FiledIsTrained, Filed
    <2> QED  BY <2>3, <2>4, <2>5 DEF IInv
  <1> QED  BY <1>1, <1>2 DEF SetFrozen

(* A parameter written from outside. *)
LEMMA PutInv ==
    ASSUME IInv, NEW p \in Positions, NEW v \in PutValues, Put(p, v)
    PROVE  IInv'
  <1>1. CASE Fail
    BY <1>1, IdleInv DEF Fail, Answers
  <1>2. CASE /\ params' = [params EXCEPT ![p] = v]
             /\ answer' = "done"
             /\ UNCHANGED <<argnums, optimizer, draws, readings, waiting, disk>>
    <2>1. params' \in [Positions -> Nat]
      BY <1>2, PutValuesAssumption DEF IInv, TypeOK
    <2> QED
      BY <1>2, <2>1
      DEF IInv, TypeOK, LinedUp, FiledIsTrained, Filed, GradientsNow, Answers,
          optimizer, draws, readings
  <1> QED  BY <1>1, <1>2 DEF Put

(* A knob turned. *)
LEMMA TurnInv ==
    ASSUME IInv, NEW c \in Config, Turn(c)
    PROVE  IInv'
  BY DEF IInv, Turn, TypeOK, LinedUp, FiledIsTrained, Filed, GradientsNow, Answers,
         draws, readings

(* The run reseeded, with its key or without. *)
LEMMA SetSeedInv ==
    ASSUME IInv, NEW s \in Seeds, SetSeed(s)
    PROVE  IInv'
  <1>1. rng' \in Key /\ seed' \in Seeds /\ answer' \in Answers
    BY DEF SetSeed, KeyOf, Key, Answers, IInv, TypeOK
  <1> QED
    BY <1>1
    DEF IInv, SetSeed, TypeOK, LinedUp, FiledIsTrained, Filed, GradientsNow,
        optimizer, readings

(* A checkpoint of this run takes the name. *)
LEMMA SaveInv == IInv /\ Save => IInv'
  <1> SUFFICES ASSUME IInv, Save PROVE IInv'
    OBVIOUS
  <1>1. CASE Refuse \/ Fail
    BY <1>1, IdleInv DEF Refuse, Fail, Answers
  <1>2. CASE disk' = Record /\ answer' = "done" /\ UNCHANGED run
    <2>1. /\ disk' \in Checkpoint
          /\ Filed(disk') = IF Rule = "sgd" THEN {} ELSE disk'.trained
          /\ \A p \in Filed(disk') : disk'.slots[p].of = p
      BY <1>2, RecordFacts DEF IInv
    <2>2. TypeOK'
      BY <1>2, <2>1 DEF IInv, TypeOK, Answers, run, optimizer, draws, readings
    <2>3. LinedUp'
      BY <1>2, <2>1
      DEF IInv, LinedUp, GradientsNow, run, optimizer, draws, readings
    <2>4. FiledIsTrained'
      BY <2>1 DEF FiledIsTrained
    <2> QED  BY <2>2, <2>3, <2>4 DEF IInv
  <1> QED  BY <1>1, <1>2 DEF Save

(* A restore looks every slot up under its own path, for the session's own *)
(* set; what accept checked is that there is one for each.                 *)
LEMMA RestoreInv == IInv /\ Restore => IInv'
  <1> SUFFICES ASSUME IInv, Restore PROVE IInv'
    OBVIOUS
  <1>1. CASE Refuse \/ Fail
    BY <1>1, IdleInv DEF Refuse, Fail, Answers
  <1>2. CASE ~(Refuse \/ Fail)
    <2> DEFINE slots == IF Rule = "sgd" THEN << >>
                        ELSE [k \in DOMAIN argnums |-> disk.slots[argnums[k]]]
    <2>1. /\ disk # NoCheckpoint /\ Accepts(disk)
          /\ params' = disk.params /\ moments' = slots /\ t' = disk.t
          /\ rng' = disk.rng /\ seed' = disk.seed /\ step' = disk.step
          /\ loss' = "nan" /\ waiting' = Nothing /\ answer' = "restored"
          /\ UNCHANGED <<argnums, config, gradNorm, disk>>
      BY <1>2 DEF Restore
    <2>2. disk \in Checkpoint
      BY <2>1 DEF IInv, TypeOK
    <2>3. \A p \in Filed(disk) : disk.slots[p] \in Slot /\ disk.slots[p].of = p
      BY <2>1, <2>2 DEF Filed, Checkpoint, IInv, LinedUp
    <2>4. CASE Rule = "sgd"
      <3>1. slots = << >>
        BY <2>4
      <3> QED
        BY <2>1, <2>2, <2>4, <3>1, NothingFacts, ReadingsAssumption
        DEF IInv, TypeOK, LinedUp, FiledIsTrained, Filed, Checkpoint, Answers
    <2>5. CASE Rule = "adamw"
      <3>1. \A k \in DOMAIN argnums : argnums[k] \in Filed(disk)
        BY <2>1, <2>5 DEF Accepts, Range
      <3>2. slots \in [1..Len(argnums) -> Slot]
        BY <2>3, <2>5, <3>1, ArgnumsFacts DEF IInv
      <3>3. slots \in Seq(Slot) /\ Len(slots) = Len(argnums)
        BY <3>2, ArgnumsFacts, FunctionIsSeq DEF IInv
      <3>4. \A k \in DOMAIN argnums : slots[k].of = argnums[k]
        BY <2>3, <2>5, <3>1
      <3> HIDE DEF slots
      <3>5. TypeOK'
        BY <2>1, <2>2, <3>3, NothingFacts, ReadingsAssumption
        DEF IInv, TypeOK, Checkpoint, Answers
      <3>6. LinedUp'
        BY <2>1, <2>5, <3>3, <3>4, NothingFacts DEF IInv, LinedUp, Filed
      <3>7. FiledIsTrained'
        BY <2>1 DEF IInv, FiledIsTrained, Filed
      <3> QED  BY <3>5, <3>6, <3>7 DEF IInv
    <2> QED  BY <2>4, <2>5, RuleAssumption
  <1> QED  BY <1>1, <1>2

(* Every step of the specification. *)
LEMMA NextInv == IInv /\ [Next]_vars => IInv'
  <1> SUFFICES ASSUME IInv, [Next]_vars PROVE IInv'
    OBVIOUS
  <1>1. CASE Reopen
    BY <1>1, ReopenInv
  <1>2. CASE Step
    BY <1>2, StepInv
  <1>3. CASE Accumulate
    BY <1>3, AccumulateInv
  <1>4. CASE Apply
    BY <1>4, ApplyInv
  <1>5. CASE Discard
    BY <1>5, DiscardInv
  <1>6. ASSUME NEW matches \in Patterns, NEW frozen \in BOOLEAN, SetFrozen(matches, frozen)
        PROVE  IInv'
    BY <1>6, SetFrozenInv
  <1>7. ASSUME NEW p \in Positions, NEW v \in PutValues, Put(p, v)
        PROVE  IInv'
    BY <1>7, PutInv
  <1>8. ASSUME NEW x \in Lrs, SetLr(x)
        PROVE  IInv'
    <2>1. [config EXCEPT !.lr = x] \in Config
      BY DEF IInv, TypeOK, Config
    <2> QED  BY <1>8, <2>1, TurnInv DEF SetLr
  <1>9. ASSUME NEW x \in Clips, SetClip(x)
        PROVE  IInv'
    <2>1. [config EXCEPT !.clip = x] \in Config
      BY DEF IInv, TypeOK, Config
    <2> QED  BY <1>9, <2>1, TurnInv DEF SetClip
  <1>10. ASSUME NEW s \in Seeds, SetSeed(s)
         PROVE  IInv'
    BY <1>10, SetSeedInv
  <1>11. CASE Save
    BY <1>11, SaveInv
  <1>12. CASE Restore
    BY <1>12, RestoreInv
  <1>13. CASE UNCHANGED vars
    <2>1. UNCHANGED <<run, disk>> /\ answer' = answer
      BY <1>13 DEF vars, run, optimizer, draws, readings
    <2> QED  BY <2>1, IdleInv DEF IInv, TypeOK
  <1> QED
    BY <1>1, <1>2, <1>3, <1>4, <1>5, <1>6, <1>7, <1>8, <1>9, <1>10, <1>11, <1>12,
       <1>13 DEF Next

-----------------------------------------------------------------------------
(* The counters, and that something is always differentiated: neither      *)
(* needs more than the invariant above to be kept.                         *)

NeverEmpty == Candidates # {} => argnums # << >>
CountInv   == IInv /\ CountersAgree /\ NeverEmpty

(* Everything the counters are read from stays as it is. *)
LEMMA SameCounts ==
    ASSUME CountInv, IInv',
           UNCHANGED <<argnums, t, moments, step, disk>>, rng'.splits <= rng.splits
    PROVE  CountInv'
  <1>1. rng.splits \in Nat /\ rng'.splits \in Nat /\ step \in Nat
    BY DEF CountInv, IInv, TypeOK, Key
  <1>2. Agree(t, moments, rng', step)
    BY <1>1 DEF CountInv, CountersAgree, Agree
  <1>3. CountersAgree'
    BY <1>2 DEF CountInv, CountersAgree
  <1> QED  BY <1>3 DEF CountInv, NeverEmpty

(* Fresh slots have absorbed nothing. *)
LEMMA FreshCounts ==
    ASSUME NEW nums \in Seq(Positions)
    PROVE  \A k \in DOMAIN FreshSlots(nums) : FreshSlots(nums)[k].age = 0
  <1>1. CASE Rule = "sgd"
    <2>1. FreshSlots(nums) = << >>
      BY <1>1, FreshSlotsFacts
    <2> QED  BY <2>1
  <1>2. CASE Rule = "adamw"
    <2>1. \A p : ZeroSlot(p).age = 0
      BY DEF ZeroSlot
    <2>2. /\ DOMAIN FreshSlots(nums) = DOMAIN nums
          /\ \A k \in DOMAIN nums : FreshSlots(nums)[k] = ZeroSlot(nums[k])
      BY <1>2, FreshSlotsFacts
    <2> QED  BY <2>1, <2>2
  <1> QED  BY <1>1, <1>2, RuleAssumption

(* A session just opened: nothing counted, everything differentiated. *)
LEMMA OpenedCounts ==
    ASSUME NEW nums \in Orders, Range(nums) = Candidates, NEW s
    PROVE  Agree(0, FreshSlots(nums), KeyOf(s), 0) /\ (Candidates # {} => nums # << >>)
  <1>1. nums \in Seq(Positions)
    BY OrdersAreSeqs, CandidatesAssumption
  <1>2. Agree(0, FreshSlots(nums), KeyOf(s), 0)
    BY <1>1, FreshCounts DEF Agree, KeyOf
  <1> QED  BY <1>2 DEF Range

(* A step counts once in each counter it counts in, and no slot absorbs    *)
(* more than is counted.                                                   *)
LEMMA AdvanceCounts ==
    ASSUME CountInv, NEW grads, NEW l, NEW n, Advance(grads, l, n)
    PROVE  CountersAgree' /\ NeverEmpty'
  <1>1. /\ t \in Nat /\ step \in Nat /\ rng.splits \in Nat /\ t <= step /\ rng.splits <= step
        /\ \A k \in DOMAIN moments : moments[k].age \in Nat /\ moments[k].age <= t
    <2>1. \A k \in DOMAIN moments : moments[k] \in Slot
      BY SeqIsFunction DEF CountInv, IInv, TypeOK
    <2> QED  BY <2>1 DEF CountInv, IInv, TypeOK, Key, Slot, CountersAgree, Agree
  <1>2. /\ step' = step + 1 /\ rng'.splits = rng.splits + 1
        /\ (t' = t + 1 /\ moments' = Aged) \/ (t' = t /\ moments' = moments)
        /\ UNCHANGED <<argnums, disk>>
    BY DEF Advance, Split, CountInv, IInv, TypeOK, Key
  <1>3. Agree(t', moments', rng', step')
    <2>1. CASE t' = t + 1 /\ moments' = Aged
      <3>1. /\ DOMAIN moments' = DOMAIN moments
            /\ \A k \in DOMAIN moments : moments'[k].age = moments[k].age + 1
        <4>1. \A k \in DOMAIN moments : moments[k] \in Slot
          BY SeqIsFunction DEF CountInv, IInv, TypeOK
        <4> QED  BY <2>1, <4>1 DEF Aged, Slot
      <3> QED  BY <1>1, <1>2, <2>1, <3>1 DEF Agree
    <2>2. CASE t' = t /\ moments' = moments
      BY <1>1, <1>2, <2>2 DEF Agree
    <2> QED  BY <1>2, <2>1, <2>2
  <1> QED  BY <1>2, <1>3 DEF CountInv, CountersAgree, NeverEmpty

(* Freezing and thawing: kept slots have the age they had, new ones none.  *)
LEMMA SetFrozenCounts ==
    ASSUME CountInv, NEW matches, NEW frozen, SetFrozen(matches, frozen)
    PROVE  CountersAgree' /\ NeverEmpty'
  <1> DEFINE wanted == {p \in Candidates : IF p \in matches THEN ~frozen ELSE p \in Range(argnums)}
  <1>1. CASE UNCHANGED <<run, disk>>
    BY <1>1 DEF CountInv, CountersAgree, NeverEmpty, run, optimizer, draws, readings
  <1>2. CASE /\ argnums' \in Orders /\ Range(argnums') = wanted /\ wanted # {}
             /\ moments' = Refitted(argnums, argnums')
             /\ UNCHANGED <<params, config, t, draws, readings, waiting, disk>>
    <2>1. argnums' # << >>
      BY <1>2 DEF Range
    <2>2. argnums' \in Seq(Positions)
      BY <1>2, OrdersAreSeqs, CandidatesAssumption
    <2>3. \A k \in DOMAIN moments' : moments'[k].age <= t
      <3>1. t \in Nat /\ \A k \in DOMAIN moments : moments[k].age <= t
        BY DEF CountInv, IInv, TypeOK, CountersAgree, Agree
      <3>2. Rule = "sgd" => moments' = << >>
        BY <1>2, <2>2, RefittedFacts DEF CountInv, IInv
      <3>3. ASSUME Rule = "adamw", NEW k \in DOMAIN moments' PROVE moments'[k].age <= t
        <4>1. /\ DOMAIN moments = DOMAIN argnums /\ k \in DOMAIN argnums'
          BY <1>2, <2>2, <3>3, RefittedFacts, ArgnumsFacts, SeqIsFunction
          DEF CountInv, IInv, LinedUp, TypeOK
        <4>2. \/ \E j \in DOMAIN argnums : moments'[k] = moments[j]
              \/ moments'[k] = ZeroSlot(argnums'[k])
          BY <1>2, <2>2, <3>3, <4>1, RefittedFacts DEF CountInv, IInv
        <4> QED  BY <3>1, <4>1, <4>2 DEF ZeroSlot
      <3> QED  BY <3>2, <3>3, RuleAssumption
    <2>4. CountersAgree'
      BY <1>2, <2>3 DEF CountInv, CountersAgree, Agree, draws, readings
    <2> QED  BY <2>1, <2>4 DEF NeverEmpty
  <1> QED  BY <1>1, <1>2 DEF SetFrozen, Refuse, Fail, Idle

(* What a checkpoint files is as old as the run says. *)
LEMMA RecordCounts ==
    ASSUME CountInv
    PROVE  Agree(Record.t, Record.slots, Record.rng, Record.step)
  <1> DEFINE At(p) == CHOOSE k \in DOMAIN argnums : argnums[k] = p
  <1>1. Record.t = t /\ Record.slots = Slots /\ Record.rng = rng /\ Record.step = step
    BY DEF Record
  <1>2. t \in Nat /\ Agree(t, moments, rng, step)
    BY DEF CountInv, IInv, TypeOK, CountersAgree
  <1>3. DOMAIN Slots = Positions
    BY DEF Slots
  <1>4. ASSUME NEW p \in Positions PROVE Slots[p].age <= t
    <2>1. CASE Rule = "adamw" /\ p \in Range(argnums)
      <3>1. Slots[p] = moments[At(p)] /\ At(p) \in DOMAIN argnums
        BY <2>1 DEF Slots, Range
      <3>2. DOMAIN moments = DOMAIN argnums
        BY <2>1, ArgnumsFacts, SeqIsFunction DEF CountInv, IInv, LinedUp, TypeOK
      <3> QED  BY <1>2, <3>1, <3>2 DEF Agree
    <2>2. CASE ~(Rule = "adamw" /\ p \in Range(argnums))
      BY <1>2, <2>2 DEF Slots, NoSlot
    <2> QED  BY <2>1, <2>2
  <1> QED  BY <1>1, <1>2, <1>3, <1>4 DEF Agree

LEMMA RestoreCounts == ASSUME CountInv, Restore PROVE CountersAgree' /\ NeverEmpty'
  <1>1. CASE UNCHANGED <<run, disk>>
    BY <1>1 DEF CountInv, CountersAgree, NeverEmpty, run, optimizer, draws, readings
  <1>2. CASE /\ disk # NoCheckpoint
             /\ moments' = IF Rule = "sgd" THEN << >>
                           ELSE [k \in DOMAIN argnums |-> disk.slots[argnums[k]]]
             /\ t' = disk.t /\ rng' = disk.rng /\ step' = disk.step
             /\ UNCHANGED <<argnums, disk>>
    <2>1. Agree(disk.t, disk.slots, disk.rng, disk.step) /\ DOMAIN disk.slots = Positions
      BY <1>2 DEF CountInv, CountersAgree, IInv, TypeOK, Checkpoint
    <2>2. \A k \in DOMAIN argnums : argnums[k] \in Positions
      BY ArgnumsFacts DEF CountInv, IInv
    <2>3. \A k \in DOMAIN moments' : moments'[k].age <= disk.t
      BY <1>2, <2>1, <2>2 DEF Agree
    <2>4. Agree(t', moments', rng', step')
      BY <1>2, <2>1, <2>3 DEF Agree
    <2> QED  BY <1>2, <2>1, <2>4 DEF CountInv, CountersAgree, NeverEmpty
  <1> QED  BY <1>1, <1>2 DEF Restore, Refuse, Fail

LEMMA CountsKeep == CountInv /\ [Next]_vars => CountInv'
  <1> SUFFICES ASSUME CountInv, [Next]_vars PROVE CountInv'
    OBVIOUS
  <1>1. IInv' /\ rng.splits \in Nat
    BY NextInv DEF CountInv, IInv, TypeOK, Key
  <1>2. CASE \/ UNCHANGED <<run, disk>> \/ UNCHANGED vars
             \/ UNCHANGED <<argnums, t, moments, rng, step, disk>>
    BY <1>1, <1>2, SameCounts DEF vars, run, optimizer, draws, readings
  <1>3. CASE Reopen
    BY <1>1, <1>3, OpenedCounts DEF Reopen, CountInv, CountersAgree, NeverEmpty
  <1>4. ASSUME NEW grads, NEW l, NEW n, Advance(grads, l, n) PROVE CountInv'
    BY <1>1, <1>4, AdvanceCounts DEF CountInv
  <1>5. CASE Step
    BY <1>2, <1>4, <1>5 DEF Step, Refuse, Fail
  <1>6. CASE Accumulate \/ Discard
    BY <1>2, <1>6 DEF Accumulate, Discard, Refuse, Fail, Idle, run, optimizer, draws, readings
  <1>7. CASE Apply
    BY <1>2, <1>4, <1>7 DEF Apply, Refuse, Fail
  <1>8. ASSUME NEW matches, NEW frozen, SetFrozen(matches, frozen) PROVE CountInv'
    BY <1>1, <1>8, SetFrozenCounts DEF CountInv
  <1>9. ASSUME NEW p, NEW v, Put(p, v) PROVE CountInv'
    BY <1>2, <1>9 DEF Put, Fail, optimizer, draws, readings
  <1>10. ASSUME NEW x, SetLr(x) \/ SetClip(x) PROVE CountInv'
    BY <1>2, <1>10 DEF SetLr, SetClip, Turn, draws, readings
  <1>11. ASSUME NEW s, SetSeed(s) PROVE CountInv'
    <2>1. rng'.splits <= rng.splits
      BY <1>1, <1>11 DEF SetSeed, KeyOf
    <2> QED  BY <1>1, <1>11, <2>1, SameCounts DEF SetSeed, optimizer, readings
  <1>12. CASE Save
    <2>1. CASE disk' = Record /\ UNCHANGED run
      BY <1>1, <2>1, RecordCounts DEF CountInv, CountersAgree, NeverEmpty, run, optimizer, draws, readings
    <2> QED  BY <1>2, <1>12, <2>1 DEF Save, Refuse, Fail
  <1>13. CASE Restore
    BY <1>1, <1>13, RestoreCounts DEF CountInv
  <1> QED
    BY <1>2, <1>3, <1>5, <1>6, <1>7, <1>8, <1>9, <1>10, <1>11, <1>12, <1>13 DEF Next

LEMMA InitCounts == Init => CountInv
  <1> SUFFICES ASSUME Init PROVE CountInv
    OBVIOUS
  <1> QED  BY InitInv, OpenedCounts DEF Init, CountInv, CountersAgree, NeverEmpty

-----------------------------------------------------------------------------
(* What a step does, read off its answer.                                  *)

(* Only a step answers as one. *)
LEMMA OnlyAdvance ==
    ASSUME Next, answer' \in {"stepped", "skipped"}
    PROVE  \E grads, l, n : Advance(grads, l, n)
  <1>1. CASE Step \/ Apply
    BY <1>1 DEF Step, Apply, Refuse, Fail
  <1>2. CASE Reopen \/ Accumulate \/ Discard \/ Save \/ Restore
    BY <1>2 DEF Reopen, Accumulate, Discard, Save, Restore, Refuse, Fail, Idle
  <1>3. ASSUME NEW matches, NEW frozen, SetFrozen(matches, frozen) PROVE FALSE
    BY <1>3 DEF SetFrozen, Refuse, Fail, Idle
  <1>4. ASSUME NEW p, NEW v, Put(p, v) PROVE FALSE
    BY <1>4 DEF Put, Fail
  <1>5. ASSUME NEW x, SetLr(x) \/ SetClip(x) \/ SetSeed(x) PROVE FALSE
    BY <1>5 DEF SetLr, SetClip, SetSeed, Turn
  <1> QED  BY <1>1, <1>2, <1>3, <1>4, <1>5 DEF Next

LEMMA AdvanceIsWhole ==
    ASSUME TypeOK, NEW grads, NEW l, NEW n, Advance(grads, l, n)
    PROVE  /\ step' = step + 1 /\ rng' = Split(rng)
           /\ \/ answer' = "skipped" /\ UNCHANGED <<params, moments, t>>
              \/ /\ answer' = "stepped"
                 /\ t' = t + 1
                 /\ {p \in Positions : params'[p] # params[p]} = Range(argnums)
                 /\ \A k \in DOMAIN moments : moments'[k].age = moments[k].age + 1
  <1>1. CASE l = "finite" /\ n = "finite"
    <2>1. /\ step' = step + 1 /\ rng' = Split(rng) /\ params' = Updated /\ moments' = Aged
          /\ t' = t + 1 /\ answer' = "stepped"
      BY <1>1 DEF Advance
    <2>2. \A p \in Positions : params[p] \in Nat /\ params[p] + 1 # params[p]
      BY DEF TypeOK
    <2>3. \A p \in Positions : params'[p] # params[p] <=> p \in Range(argnums)
      BY <2>1, <2>2 DEF Updated
    <2>4. {p \in Positions : params'[p] # params[p]} = Range(argnums)
      BY <2>3, ArgnumsFacts
    <2>5. \A k \in DOMAIN moments : moments[k] \in Slot
      BY SeqIsFunction DEF TypeOK
    <2>6. \A k \in DOMAIN moments : moments'[k].age = moments[k].age + 1
      BY <2>1, <2>5 DEF Aged, Slot
    <2> QED  BY <2>1, <2>4, <2>6
  <1>2. CASE ~(l = "finite" /\ n = "finite")
    BY <1>2 DEF Advance
  <1> QED  BY <1>1, <1>2

(* The differentiated set moves in Reopen and SetFrozen alone. *)
LEMMA SlotsFollow ==
    ASSUME IInv, Next, argnums' # argnums, answer' # "opened"
    PROVE  /\ waiting.parts = 0
           /\ Rule = "adamw" =>
                \A k \in DOMAIN argnums' :
                   IF argnums'[k] \in Range(argnums)
                   THEN \E j \in DOMAIN argnums :
                           argnums[j] = argnums'[k] /\ moments'[k] = moments[j]
                   ELSE moments'[k].age = 0
  <1>1. ASSUME Reopen \/ Step \/ Accumulate \/ Apply \/ Discard \/ Save \/ Restore
        PROVE  FALSE
    BY <1>1 DEF Reopen, Step, Accumulate, Apply, Advance, Discard, Save, Restore, Refuse, Fail,
                Idle, run
  <1>2. ASSUME NEW p, NEW v, Put(p, v) PROVE FALSE
    BY <1>2 DEF Put, Fail, run
  <1>3. ASSUME NEW x, SetLr(x) \/ SetClip(x) \/ SetSeed(x) PROVE FALSE
    BY <1>3 DEF SetLr, SetClip, SetSeed, Turn
  <1>4. PICK matches, frozen : SetFrozen(matches, frozen)
    BY <1>1, <1>2, <1>3 DEF Next
  <1>5. /\ waiting.parts = 0 /\ argnums' \in Orders /\ moments' = Refitted(argnums, argnums')
    BY <1>4 DEF SetFrozen, Refuse, Fail, Idle, run
  <1>6. argnums' \in Seq(Positions)
    BY <1>5, OrdersAreSeqs, CandidatesAssumption
  <1>7. ASSUME Rule = "adamw", NEW k \in DOMAIN argnums'
        PROVE  IF argnums'[k] \in Range(argnums)
               THEN \E j \in DOMAIN argnums :
                       argnums[j] = argnums'[k] /\ moments'[k] = moments[j]
               ELSE moments'[k] = ZeroSlot(argnums'[k])
    BY <1>5, <1>6, <1>7, RefittedFacts DEF IInv
  <1>8. \A p : ZeroSlot(p).age = 0
    BY DEF ZeroSlot
  <1> QED  BY <1>5, <1>7, <1>8

LEMMA WaitingStays ==
    ASSUME TypeOK, Next, waiting'.parts < waiting.parts
    PROVE  \/ answer' \in {"discarded", "restored", "opened"}
           \/ answer' \in {"stepped", "skipped"} /\ step' = step + 1
  <1>1. waiting.parts \in Nat
    BY DEF TypeOK
  <1>2. waiting' # waiting
    BY <1>1
  <1>3. CASE Reopen \/ Discard \/ Restore \/ Save
    BY <1>2, <1>3 DEF Reopen, Discard, Restore, Save, Refuse, Fail, run
  <1>4. CASE Step
    BY <1>2, <1>4 DEF Step, Refuse, Fail, run
  <1>5. CASE Accumulate
    <2>1. waiting'.parts = waiting.parts + 1
      BY <1>2, <1>5 DEF Accumulate, Refuse, Fail, Idle, run
    <2> QED  BY <1>1, <2>1
  <1>6. CASE Apply
    BY <1>2, <1>6 DEF Apply, Advance, Refuse, Fail, run
  <1>7. ASSUME NEW matches, NEW frozen, SetFrozen(matches, frozen) PROVE FALSE
    BY <1>2, <1>7 DEF SetFrozen, Refuse, Fail, Idle, run
  <1>8. ASSUME NEW p, NEW v, Put(p, v) PROVE FALSE
    BY <1>2, <1>8 DEF Put, Fail, run
  <1>9. ASSUME NEW x, SetLr(x) \/ SetClip(x) \/ SetSeed(x) PROVE FALSE
    BY <1>2, <1>9 DEF SetLr, SetClip, SetSeed, Turn
  <1> QED  BY <1>3, <1>4, <1>5, <1>6, <1>7, <1>8, <1>9 DEF Next

(* Only a restore answers as one, and it takes from the checkpoint all     *)
(* that the next steps depend on.                                          *)
LEMMA OnlyRestore ==
    ASSUME Next, answer' = "restored"
    PROVE  /\ disk # NoCheckpoint /\ Accepts(disk)
           /\ params' = disk.params /\ t' = disk.t /\ rng' = disk.rng
           /\ moments' = IF Rule = "sgd" THEN << >>
                         ELSE [k \in DOMAIN argnums |-> disk.slots[argnums[k]]]
           /\ UNCHANGED <<argnums, config, disk>>
  <1>1. CASE Restore
    BY <1>1 DEF Restore, Refuse, Fail
  <1>2. CASE Reopen \/ Step \/ Accumulate \/ Apply \/ Discard \/ Save
    BY <1>2 DEF Reopen, Step, Accumulate, Apply, Advance, Discard, Save, Refuse, Fail, Idle
  <1>3. ASSUME NEW matches, NEW frozen, SetFrozen(matches, frozen) PROVE FALSE
    BY <1>3 DEF SetFrozen, Refuse, Fail, Idle
  <1>4. ASSUME NEW p, NEW v, Put(p, v) PROVE FALSE
    BY <1>4 DEF Put, Fail
  <1>5. ASSUME NEW x, SetLr(x) \/ SetClip(x) \/ SetSeed(x) PROVE FALSE
    BY <1>5 DEF SetLr, SetClip, SetSeed, Turn
  <1> QED  BY <1>1, <1>2, <1>3, <1>4, <1>5 DEF Next

LEMMA RestoredIsPromised ==
    ASSUME IInv, Next, answer' = "restored", disk.trained = Range(argnums)
    PROVE  Future' = Promised(disk)
  <1>1. /\ disk # NoCheckpoint /\ Accepts(disk)
        /\ params' = disk.params /\ t' = disk.t /\ rng' = disk.rng
        /\ moments' = IF Rule = "sgd" THEN << >>
                      ELSE [k \in DOMAIN argnums |-> disk.slots[argnums[k]]]
        /\ UNCHANGED <<argnums, config, disk>>
    BY OnlyRestore
  <1>2. disk \in Checkpoint /\ disk.slots \in [Positions -> Slot \cup {NoSlot}]
    BY <1>1 DEF IInv, TypeOK, Checkpoint
  <1>3. Filed(disk) = IF Rule = "sgd" THEN {} ELSE Range(argnums)
    BY <1>1 DEF IInv, FiledIsTrained
  <1>4. ASSUME NEW p \in Positions PROVE Slots'[p] = disk.slots[p]
    <2> DEFINE At == CHOOSE k \in DOMAIN argnums : argnums[k] = p
    <2>1. Slots'[p] = IF Rule = "adamw" /\ p \in Range(argnums) THEN moments'[At] ELSE NoSlot
      BY <1>1 DEF Slots
    <2>2. CASE Rule = "adamw" /\ p \in Range(argnums)
      <3>1. At \in DOMAIN argnums /\ argnums[At] = p
        BY <2>2 DEF Range
      <3> HIDE DEF At
      <3>2. moments'[At] = disk.slots[p]
        BY <1>1, <2>2, <3>1
      <3> QED  BY <2>1, <2>2, <3>2
    <2>3. CASE ~(Rule = "adamw" /\ p \in Range(argnums))
      <3>1. p \notin Filed(disk)
        BY <1>3, <2>3, RuleAssumption
      <3> QED  BY <2>1, <2>3, <3>1 DEF Filed
    <2> QED  BY <2>2, <2>3
  <1>5. Slots' = disk.slots
    <2>1. DOMAIN Slots' = Positions /\ Slots' = [p \in Positions |-> Slots'[p]]
      BY DEF Slots
    <2> QED  BY <1>2, <1>4, <2>1
  <1>6. config = disk.config
    BY <1>1 DEF Accepts
  <1> QED  BY <1>1, <1>5, <1>6 DEF Future, Promised

LEMMA OwnIsAccepted == CountInv => OwnCheckpointIsAccepted
  <1> SUFFICES ASSUME CountInv, disk # NoCheckpoint, disk.config = config,
                      disk.trained = Range(argnums), Candidates # {}
               PROVE  Accepts(disk)
    BY DEF OwnCheckpointIsAccepted
  <1>1. Filed(disk) = IF Rule = "sgd" THEN {} ELSE Range(argnums)
    BY DEF CountInv, IInv, FiledIsTrained
  <1>2. Range(argnums) # {}
    BY ArgnumsFacts DEF CountInv, IInv, NeverEmpty, Range
  <1> QED  BY <1>1, <1>2 DEF Accepts

-----------------------------------------------------------------------------
(* The theorems. *)

(* The inductive invariant holds in every reachable state. *)
THEOREM Invariance == Spec => []IInv
  <1> QED  BY InitInv, NextInv, PTL DEF Spec

(* Every variable stays in its type; the differentiated set stays an       *)
(* ordered set of candidates (TrainState in state.rs).                     *)
THEOREM TypeCorrect == Spec => []TypeOK
  <1>1. IInv => TypeOK
    BY DEF IInv
  <1> QED  BY <1>1, Invariance, PTL

(* Slots, waiting gradients and argnums stay lined up, and a checkpoint    *)
(* files slots under their own paths: optimizer.rs refit, state.rs         *)
(* set_frozen, apply and restore together.                                 *)
THEOREM AlwaysLinedUp == Spec => []LinedUp
  <1>1. IInv => LinedUp
    BY DEF IInv
  <1> QED  BY <1>1, Invariance, PTL

(* The inductive invariant with the counters, and with something always    *)
(* differentiated where the plan declares anything trainable.              *)
THEOREM CountInvariance == Spec => []CountInv
  <1> QED  BY InitCounts, CountsKeep, PTL DEF Spec

(* However steps are skipped, slots thawed, keys reseeded and checkpoints  *)
(* restored, a run never counts more updates or splits than steps, nor a   *)
(* slot more than the bias correction counts (state.rs, optimizer.rs).     *)
THEOREM CountersAlwaysAgree == Spec => []CountersAgree
  <1>1. CountInv => CountersAgree
    BY DEF CountInv
  <1> QED  BY <1>1, CountInvariance, PTL

(* Restore accepts what checkpoint! wrote with the same knobs and the same *)
(* differentiated set (checkpoint.rs, Loaded::accept).                     *)
THEOREM OwnCheckpointAccepted == Spec => []OwnCheckpointIsAccepted
  <1> QED  BY OwnIsAccepted, CountInvariance, PTL

(* A step is all or nothing: TrainState::advance commits the parameters,   *)
(* the slots and the count together, or none of them.                      *)
THEOREM StepsAreWhole == Spec => StepIsWhole
  <1>1. IInv /\ [Next]_vars
          => [answer' \in {"stepped", "skipped"} =>
                /\ step' = step + 1 /\ rng' = Split(rng)
                /\ \/ /\ answer' = "skipped"
                      /\ UNCHANGED <<params, moments, t>>
                   \/ /\ answer' = "stepped"
                      /\ t' = t + 1
                      /\ {p \in Positions : params'[p] # params[p]} = Range(argnums)
                      /\ \A k \in DOMAIN moments : moments'[k].age = moments[k].age + 1]_vars
    BY OnlyAdvance, AdvanceIsWhole DEF IInv
  <1> QED  BY <1>1, Invariance, PTL DEF Spec, StepIsWhole

(* Freezing and thawing take each slot along with its parameter: refit     *)
(* keeps what stays and starts what thaws at zero, and set_frozen refuses  *)
(* while gradients of the old set wait.                                    *)
THEOREM SlotsAlwaysFollow == Spec => SlotsFollowTheSet
  <1>1. IInv /\ [Next]_vars
          => [argnums' # argnums /\ answer' # "opened" =>
                /\ waiting.parts = 0
                /\ Rule = "adamw" =>
                     \A k \in DOMAIN argnums' :
                        IF argnums'[k] \in Range(argnums)
                        THEN \E j \in DOMAIN argnums :
                                argnums[j] = argnums'[k] /\ moments'[k] = moments[j]
                        ELSE moments'[k].age = 0]_vars
    BY SlotsFollow
  <1> QED  BY <1>1, Invariance, PTL DEF Spec, SlotsFollowTheSet

(* Accumulated gradients leave by a step, a discard, a restore or with the *)
(* session, never by a call that failed (state.rs, apply).                 *)
THEOREM WaitingIsNeverLost == Spec => WaitingIsKept
  <1>1. IInv /\ [Next]_vars
          => [waiting'.parts < waiting.parts =>
                \/ answer' \in {"discarded", "restored", "opened"}
                \/ answer' \in {"stepped", "skipped"} /\ step' = step + 1]_vars
    BY WaitingStays DEF IInv
  <1> QED  BY <1>1, Invariance, PTL DEF Spec, WaitingIsKept

(* A restored run goes on where the checkpointed one was, in everything    *)
(* its next steps depend on (state.rs, restore).                           *)
THEOREM RestoreGoesOn == Spec => RestoreContinues
  <1>1. IInv /\ [Next]_vars
          => [answer' = "restored" /\ disk.trained = Range(argnums)
                => Future' = Promised(disk)]_vars
    BY RestoredIsPromised
  <1> QED  BY <1>1, Invariance, PTL DEF Spec, RestoreContinues

=============================================================================
