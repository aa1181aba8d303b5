------------------------------ MODULE TrainState ------------------------------
(***************************************************************************)
(* What a training run moves: the parameters, the set of them autodiff     *)
(* differentiates, the optimizer's slots, the RNG, the counters and the    *)
(* gradients waiting for a step (src/engine/src/state.rs), driven through  *)
(* the calls of a session (src/engine/src/session.rs).  A session makes    *)
(* one call at a time, so every call is one action; module SessionGate     *)
(* says why that is so.                                                    *)
(*                                                                         *)
(* Arrays are abstracted to what the rest of the state depends on:         *)
(*   - a parameter is the number of updates it absorbed since it was last  *)
(*     written from outside;                                               *)
(*   - a slot (AdamW's m and v, which always travel together) is the       *)
(*     position it was built for and the number of updates it absorbed;    *)
(*   - a gradient is the set of positions whose gradients were summed into *)
(*     it, so that two gradients that do not line up show when added;      *)
(*   - a key is the seed it comes from and how often it was split;         *)
(*   - a loss or a norm is whether it is finite.                           *)
(***************************************************************************)
EXTENDS Integers, Sequences, Functions

CONSTANTS
    NumParams,    \* how many parameters the plan has (Plan::paths)
    Candidates,   \* the positions the plan declares trainable
    Rule,         \* the update rule: "sgd" keeps no slots, "adamw" does
    Lrs,          \* learning rates a caller sets
    Clips,        \* caps a caller sets ("no cap" is one of them)
    Seeds,        \* seeds a caller sets
    PutValues,    \* what a caller writes over a parameter
    Patterns,     \* what a freeze pattern can match, as sets of positions
    Readings,     \* what a loss or a norm may come out as
    NoCheckpoint, \* nothing has the checkpoint's name
    MaxStep,      \* bound: steps a run takes
    MaxParts      \* bound: parts accumulated before a step

Positions == 1..NumParams

ASSUME NumParamsAssumption == NumParams \in Nat
ASSUME CandidatesAssumption == Candidates \subseteq Positions
ASSUME RuleAssumption == Rule \in {"sgd", "adamw"}
ASSUME PatternsAssumption == Patterns \subseteq SUBSET Positions
ASSUME ReadingsAssumption ==
    {"finite", "nan"} \subseteq Readings /\ Readings \subseteq {"finite", "inf", "nan"}
ASSUME PutValuesAssumption == PutValues \subseteq Nat
ASSUME BoundsAssumption == MaxStep \in Nat /\ MaxParts \in Nat

VARIABLES
    params,    \* the parameters, by position
    argnums,   \* the positions autodiff differentiates now, in order
    config,    \* the knobs of the update rule
    moments,   \* the slots, parallel to argnums (none for sgd)
    t,         \* updates taken, for the bias correction
    rng,       \* the key every draw comes from
    seed,      \* the seed the run says it has
    step,      \* steps attempted
    loss,      \* the last step's loss
    gradNorm,  \* the last step's gradient norm
    waiting,   \* gradients accumulated for one step
    disk,      \* the checkpoint that has the name, or NoCheckpoint
    answer     \* what the last call came to

vars == <<params, argnums, config, moments, t, rng, seed, step, loss, gradNorm,
          waiting, disk, answer>>

(* Everything a pass, a step or a checkpoint reads. *)
optimizer == <<config, moments, t>>
draws     == <<rng, seed>>
readings  == <<step, loss, gradNorm>>
run       == <<params, argnums, optimizer, draws, readings, waiting>>

-----------------------------------------------------------------------------
(* The values. *)

Slot      == [of : Positions, age : Nat]
NoSlot    == [of |-> 0, age |-> 0]   \* a checkpoint holds none for a path
Config    == [lr : Lrs, clip : Clips]
Key       == [seed : Seeds, splits : Nat]
Answers   == {"opened", "stepped", "skipped", "discarded", "restored", "done", "error"}

Increasing(s) == \A j, k \in DOMAIN s : j < k => s[j] < s[k]

(* Slip: in whatever order a pattern found them. *)
AnyOrders == {s \in UNION {[1..n -> Candidates] : n \in 0..NumParams} :
                \A j, k \in DOMAIN s : s[j] = s[k] => j = k}

(* The orders argnums can have: candidates, in the order of the plan. *)
Orders == {s \in UNION {[1..n -> Candidates] : n \in 0..NumParams} : Increasing(s)}

Gradients == Seq(SUBSET Positions)

Checkpoint == [params : [Positions -> Nat], trained : SUBSET Positions,
               slots : [Positions -> Slot \cup {NoSlot}],
               config : Config, t : Nat, rng : Key, seed : Seeds, step : Nat]

-----------------------------------------------------------------------------
(* The pieces the calls are made of. *)

(* optimizer.rs zeros_for: where a slot starts. *)
ZeroSlot(p) == [of |-> p, age |-> 0]

(* Optimizer::new, and TrainState::new's argnums. *)
FreshSlots(nums) ==
    IF Rule = "sgd" THEN << >> ELSE [k \in DOMAIN nums |-> ZeroSlot(nums[k])]

(* Slip: a slot stays at its place while the parameters move. *)
RefittedByPlace(was, now) ==
    [k \in DOMAIN now |-> IF k \in DOMAIN was THEN moments[k] ELSE ZeroSlot(now[k])]

(* Slip: everything starts again. *)
RefittedAfresh(was, now) == FreshSlots(now)

(* Optimizer::refit: kept for what stays, zero for what thaws, dropped for *)
(* what freezes.                                                           *)
Refitted(was, now) ==
    IF Rule = "sgd" THEN moments
    ELSE [k \in DOMAIN now |->
            IF now[k] \in Range(was)
            THEN moments[CHOOSE j \in DOMAIN was : was[j] = now[k]]
            ELSE ZeroSlot(now[k])]

(* mlxc random::key and random::split. *)
KeyOf(s)   == [seed |-> s, splits |-> 0]
Split(key) == [key EXCEPT !.splits = @ + 1]

(* executor::differentiate: one gradient per differentiated parameter. *)
GradientsNow == [k \in DOMAIN argnums |-> {argnums[k]}]

Nothing == [grads |-> << >>, parts |-> 0]

(* Accumulator::add. *)
Summed(held, new) ==
    IF held = << >> THEN new
    ELSE [k \in DOMAIN held \cap DOMAIN new |-> held[k] \cup new[k]]

(* Optimizer::apply's two checks. *)
Fits(grads) ==
    /\ Len(grads) = Len(argnums)
    /\ Rule = "sgd" \/ Len(moments) = Len(argnums)

(* Slip: everything declared trainable, frozen or not. *)
UpdatedCandidates ==
    [p \in Positions |-> IF p \in Candidates THEN params[p] + 1 ELSE params[p]]

(* Optimizer::apply: every differentiated parameter and its slot. *)
Updated ==
    [p \in Positions |-> IF p \in Range(argnums) THEN params[p] + 1 ELSE params[p]]

Aged == [k \in DOMAIN moments |-> [moments[k] EXCEPT !.age = @ + 1]]

(* TrainState::advance: outcome, then commit.  A loss or a norm that is    *)
(* not finite is a step not taken, and the counters and the key still      *)
(* move; otherwise the update is the state's as a whole.                   *)
Advance(grads, l, n) ==
    /\ step' = step + 1
    /\ rng' = Split(rng)
    /\ loss' = l
    /\ gradNorm' = IF l = "finite" THEN n ELSE "nan"
    /\ IF l = "finite" /\ n = "finite"
       THEN /\ Fits(grads)
            /\ params' = Updated
            /\ moments' = Aged
            /\ t' = t + 1
            /\ answer' = "stepped"
       ELSE /\ UNCHANGED <<params, moments, t>>
            /\ answer' = "skipped"
    /\ UNCHANGED <<argnums, config, seed, disk>>

Slots == [p \in Positions |->
            IF Rule = "adamw" /\ p \in Range(argnums)
            THEN moments[CHOOSE k \in DOMAIN argnums : argnums[k] = p]
            ELSE NoSlot]

(* Slip: the step count stands in for the optimizer's own count, which     *)
(* starts over. *)
RecordWithoutCount ==
    [params |-> params, trained |-> Range(argnums), slots |-> Slots,
     config |-> config, t |-> 0, rng |-> rng, seed |-> seed, step |-> step]

(* What a checkpoint records of this run, slots filed by path. *)
Record ==
    [params  |-> params,
     trained |-> Range(argnums),
     slots   |-> Slots,
     config  |-> config, t |-> t, rng |-> rng, seed |-> seed, step |-> step]

(* checkpoint::read: the paths optimizer.safetensors has a slot for. *)
Filed(c) == {p \in Positions : c.slots[p] # NoSlot}

(* Slip: the slots of everything trainable are asked for. *)
AcceptsAllSlots(c) ==
    /\ c.config = config
    /\ Rule = "adamw" => Candidates \subseteq Filed(c)

(* Slip: the knobs are not compared. *)
AcceptsAnyKnobs(c) ==
    IF Rule = "sgd" THEN Filed(c) = {} ELSE Range(argnums) \subseteq Filed(c)

(* Loaded::accept and moments_for.  What the checkpoint says was trained   *)
(* is not among the things compared.                                       *)
Accepts(c) ==
    /\ c.config = config
    /\ IF Rule = "sgd" THEN Filed(c) = {}
       ELSE Filed(c) # {} /\ Range(argnums) \subseteq Filed(c)

(* A call refused by a check, and one that fails below (a batch that does  *)
(* not fit, an evaluation, a file): both before anything was assigned.     *)
Refuse == answer' = "error" /\ UNCHANGED <<run, disk>>

(* Slip: what was waiting is taken out before the step that may fail. *)
FailTakingWaiting ==
    /\ answer' = "error" /\ waiting' = Nothing
    /\ UNCHANGED <<params, argnums, optimizer, draws, readings, disk>>

Fail == answer' = "error" /\ UNCHANGED <<run, disk>>

(* A call that succeeds and finds nothing to change. *)
Idle == answer' = "done" /\ UNCHANGED <<run, disk>>

-----------------------------------------------------------------------------
(* The calls. *)

(* TrainState::new *)
Init ==
    /\ params = [p \in Positions |-> 0]
    /\ argnums \in Orders /\ Range(argnums) = Candidates
    /\ config \in Config
    /\ moments = FreshSlots(argnums)
    /\ t = 0 /\ step = 0
    /\ seed \in Seeds /\ rng = KeyOf(seed)
    /\ loss = "nan" /\ gradNorm = "nan"
    /\ waiting = Nothing
    /\ disk = NoCheckpoint
    /\ answer = "opened"

(* The session is gone (closed, or its process died) and another one opens *)
(* the same graph, with its own knobs and seed.                            *)
Reopen ==
    /\ params' = [p \in Positions |-> 0]
    /\ argnums' \in Orders /\ Range(argnums') = Candidates
    /\ config' \in Config
    /\ moments' = FreshSlots(argnums')
    /\ t' = 0 /\ step' = 0
    /\ seed' \in Seeds /\ rng' = KeyOf(seed')
    /\ loss' = "nan" /\ gradNorm' = "nan"
    /\ waiting' = Nothing
    /\ answer' = "opened"
    /\ UNCHANGED disk

(* Session::trains, which run_step and accumulate ask first. *)
Trains == argnums # << >>

(* Session::run_step. *)
Step ==
    IF ~Trains THEN Refuse
    ELSE \/ Fail
         \/ /\ step < MaxStep
            /\ \E l, n \in Readings : Advance(GradientsNow, l, n)
            /\ UNCHANGED waiting

(* Session::accumulate: a part whose loss is not finite is not added. *)
Accumulate ==
    IF ~Trains THEN Refuse
    ELSE \/ Fail
         \/ /\ waiting.parts < MaxParts
            /\ waiting' = [grads |-> Summed(waiting.grads, GradientsNow),
                           parts |-> waiting.parts + 1]
            /\ answer' = "done"
            /\ UNCHANGED <<params, argnums, optimizer, draws, readings, disk>>
         \/ Idle

(* TrainState::apply: what was waiting goes once its step is over, taken   *)
(* or skipped, and stays when the step fails.                              *)
Apply ==
    IF waiting.parts = 0 THEN Refuse
    ELSE \/ Fail
         \/ /\ step < MaxStep
            /\ \E l, n \in Readings : Advance(waiting.grads, l, n)
            /\ waiting' = Nothing

Discard ==
    /\ waiting' = Nothing
    /\ answer' = "discarded"
    /\ UNCHANGED <<params, argnums, optimizer, draws, readings, disk>>

(* TrainState::set_frozen, for a pattern that matches the given positions. *)
SetFrozen(matches, frozen) ==
    LET live   == Range(argnums)
        wanted == {p \in Candidates : IF p \in matches THEN ~frozen ELSE p \in live}
    IN  IF matches \cap Candidates = {} THEN Refuse
        ELSE IF wanted = live
        THEN Idle
        ELSE IF waiting.parts # 0 \/ wanted = {} THEN Refuse
        ELSE \/ Fail
             \/ /\ argnums' \in Orders /\ Range(argnums') = wanted
                /\ moments' = Refitted(argnums, argnums')
                /\ answer' = "done"
                /\ UNCHANGED <<params, config, t, draws, readings, waiting, disk>>

(* TrainState::put: the slots and the waiting gradients are left alone. *)
Put(p, v) ==
    \/ Fail
    \/ /\ params' = [params EXCEPT ![p] = v]
       /\ answer' = "done"
       /\ UNCHANGED <<argnums, optimizer, draws, readings, waiting, disk>>

Turn(c) ==
    /\ config' = c
    /\ answer' = "done"
    /\ UNCHANGED <<params, argnums, moments, t, draws, readings, waiting, disk>>

SetLr(x)   == Turn([config EXCEPT !.lr = x])
SetClip(x) == Turn([config EXCEPT !.clip = x])

(* TrainState::set_seed assigns the seed before it builds the key, so a    *)
(* key that cannot be built leaves the new seed beside the old key.        *)
SetSeed(s) ==
    /\ seed' = s
    /\ \/ rng' = KeyOf(s) /\ answer' = "done"
       \/ rng' = rng /\ answer' = "error"
    /\ UNCHANGED <<params, argnums, optimizer, readings, waiting, disk>>

(* TrainState::save, with checkpoint::write as one step: module            *)
(* CheckpointStore takes it apart.                                         *)
Save ==
    IF waiting.parts # 0 THEN Refuse
    ELSE \/ Fail
         \/ disk' = Record /\ answer' = "done" /\ UNCHANGED run

(* TrainState::restore.  The knobs and the differentiated set are the      *)
(* session's own; the slots are looked up by path for that set.            *)
Restore ==
    IF disk = NoCheckpoint THEN Refuse
    ELSE IF ~Accepts(disk) THEN Refuse
    ELSE \/ Fail
         \/ /\ params' = disk.params
            /\ moments' = IF Rule = "sgd" THEN << >>
                          ELSE [k \in DOMAIN argnums |-> disk.slots[argnums[k]]]
            /\ t' = disk.t
            /\ rng' = disk.rng
            /\ seed' = disk.seed
            /\ step' = disk.step
            /\ loss' = "nan"
            /\ waiting' = Nothing
            /\ answer' = "restored"
            /\ UNCHANGED <<argnums, config, gradNorm, disk>>

Next ==
    \/ Reopen
    \/ Step
    \/ Accumulate
    \/ Apply
    \/ Discard
    \/ \E matches \in Patterns, frozen \in BOOLEAN : SetFrozen(matches, frozen)
    \/ \E p \in Positions, v \in PutValues : Put(p, v)
    \/ \E x \in Lrs : SetLr(x)
    \/ \E x \in Clips : SetClip(x)
    \/ \E s \in Seeds : SetSeed(s)
    \/ Save
    \/ Restore

Spec == Init /\ [][Next]_vars

-----------------------------------------------------------------------------
(* What the calls keep true. *)

(* Every variable stays in its type; argnums is always an ordered subset   *)
(* of the plan's candidates.                                               *)
TypeOK ==
    /\ params \in [Positions -> Nat]
    /\ argnums \in Seq(Candidates) /\ Increasing(argnums)
    /\ config \in Config
    /\ moments \in Seq(Slot)
    /\ t \in Nat
    /\ rng \in Key
    /\ seed \in Seeds
    /\ step \in Nat
    /\ loss \in Readings
    /\ gradNorm \in Readings
    /\ waiting \in [grads : Gradients, parts : Nat]
    /\ disk \in Checkpoint \cup {NoCheckpoint}
    /\ answer \in Answers

(* The slots, the differentiated set and the waiting gradients are three   *)
(* vectors nothing but position ties together (state.rs, "parallel to      *)
(* argnums, which is this module's invariant to keep").  They line up      *)
(* through freezing, thawing, restoring and stepping: each slot belongs to *)
(* the parameter at its place, each waiting gradient is of that parameter  *)
(* alone, and a checkpoint files each slot under its own path.             *)
LinedUp ==
    /\ IF Rule = "sgd" THEN moments = << >>
       ELSE /\ Len(moments) = Len(argnums)
            /\ \A k \in DOMAIN argnums : moments[k].of = argnums[k]
    /\ IF waiting.parts = 0 THEN waiting.grads = << >>
       ELSE waiting.grads = GradientsNow /\ argnums # << >>
    /\ disk # NoCheckpoint => \A p \in Filed(disk) : disk.slots[p].of = p

(* The counters of a run and of a checkpoint never disagree about how far  *)
(* it is: no more updates than steps, no more splits of the key than       *)
(* steps, and no slot that absorbed more updates than the bias correction  *)
(* counts.  Skipped steps, thawed slots, reseeding and restores all pull   *)
(* these apart.                                                            *)
Agree(updates, slots, key, steps) ==
    /\ updates <= steps
    /\ key.splits <= steps
    /\ \A k \in DOMAIN slots : slots[k].age <= updates

CountersAgree ==
    /\ Agree(t, moments, rng, step)
    /\ disk # NoCheckpoint => Agree(disk.t, disk.slots, disk.rng, disk.step)

(* A checkpoint that was saved with these knobs and this differentiated    *)
(* set is one restore accepts (session.rb, "Restores what `checkpoint!`    *)
(* wrote"), in this session or in a later one over the same graph.         *)
OwnCheckpointIsAccepted ==
    /\ disk # NoCheckpoint
    /\ disk.config = config
    /\ disk.trained = Range(argnums)
    /\ Candidates # {}
    => Accepts(disk)

(* A step, direct or from what was accumulated, is all or nothing: the key *)
(* is drawn from once, and either every differentiated parameter, its slot *)
(* and the update count move together and nothing else does, or (a skipped *)
(* step) none of them does.                                                *)
StepIsWhole ==
    [][answer' \in {"stepped", "skipped"} =>
        /\ step' = step + 1 /\ rng' = Split(rng)
        /\ \/ /\ answer' = "skipped"
              /\ UNCHANGED <<params, moments, t>>
           \/ /\ answer' = "stepped"
              /\ t' = t + 1
              /\ {p \in Positions : params'[p] # params[p]} = Range(argnums)
              /\ \A k \in DOMAIN moments : moments'[k].age = moments[k].age + 1]_vars

(* When the differentiated set moves without the session being reopened,   *)
(* a parameter that stays keeps its slot, one that thaws starts at zero,   *)
(* and no gradient was waiting for the old set (docs/plan.md 5A.1 and      *)
(* 15.35).                                                                 *)
SlotsFollowTheSet ==
    [][argnums' # argnums /\ answer' # "opened" =>
        /\ waiting.parts = 0
        /\ Rule = "adamw" =>
             \A k \in DOMAIN argnums' :
                IF argnums'[k] \in Range(argnums)
                THEN \E j \in DOMAIN argnums :
                        argnums[j] = argnums'[k] /\ moments'[k] = moments[j]
                ELSE moments'[k].age = 0]_vars

(* Gradients that wait are never lost on the way: they leave by the step   *)
(* they are for, by being discarded, by a restore or with the session, and *)
(* never by a call that failed or was refused.                             *)
WaitingIsKept ==
    [][waiting'.parts < waiting.parts =>
        \/ answer' \in {"discarded", "restored", "opened"}
        \/ answer' \in {"stepped", "skipped"} /\ step' = step + 1]_vars

(* What the next steps of a run depend on. *)
Future == [params |-> params, trained |-> Range(argnums),
           slots |-> Slots, config |-> config, t |-> t, rng |-> rng]

Promised(c) == [params |-> c.params, trained |-> c.trained, slots |-> c.slots,
                config |-> c.config, t |-> c.t, rng |-> c.rng]

(* A session that restores a checkpoint while it differentiates what the   *)
(* checkpoint's run did goes on exactly where that run was: parameters,    *)
(* slots by path, knobs, update count and key.                             *)
RestoreContinues ==
    [][answer' = "restored" /\ disk.trained = Range(argnums) =>
        Future' = Promised(disk)]_vars
=============================================================================
