----------------------------- MODULE SessionGate -----------------------------
(***************************************************************************)
(* Ruby threads calling native sessions (src/ext/torobi/src/lib.rs,        *)
(* gvl.rs) that share one engine runtime (src/engine/src/runtime.rs).      *)
(*                                                                         *)
(* Four locks are in play: Ruby's GVL, which every call starts with, gives *)
(* up while the engine works and needs again to return; the process-wide   *)
(* gate around MLX; and, per session, the mutexes of its slot and of its   *)
(* snapshot, each held for a few instructions with or without the GVL.     *)
(* Besides, a session is claimed by one engine call at a time.             *)
(*                                                                         *)
(* A thread between calls is "idle" and does not hold the GVL; Begin takes *)
(* it and Return gives it up.  What a call computes is module TrainState's *)
(* business: here it succeeds, fails or panics.                            *)
(***************************************************************************)
EXTENDS Naturals, FiniteSets

CONSTANTS
    Threads,
    Sessions,
    Attempts,  \* ENTRY_ATTEMPTS
    None       \* no thread, no session

ASSUME AttemptsAssumption == Attempts \in Nat \ {0}
ASSUME NoneAssumption == None \notin Threads \cup Sessions
ASSUME ThreadsAssumption == Threads \cap {"none", "slot", "leaked"} = {}

VARIABLES
    pc,       \* where each thread is
    kind,     \* which call it is in
    target,   \* on which session
    tries,    \* entries into the blocking region that Ruby refused
    gvl,      \* who holds the GVL
    claimed,  \* in_flight, and whose call it is
    slot,     \* what each session's slot says, "none" if there is no session
    slotLock, \* who holds the slot's mutex
    snapLock, \* who holds the snapshot's mutex
    engine,   \* where each engine is: "slot", a thread's frame, or nowhere
    stale,    \* the engine has moved since its numbers were published
    gate,     \* who holds the gate
    poisoned, \* whether the gate is
    child     \* whether this process is a forked child

threads == <<pc, kind, target, tries>>
session == <<claimed, slot, slotLock, snapLock, engine, stale>>
runtime == <<gate, poisoned, child>>
vars    == <<threads, gvl, session, runtime>>

Kinds == {"open", "work", "read", "close", "sweep", "watch", "ask"}

PCs == {"idle", "gone", "enter", "check", "resume", "take", "taking", "gate",
        "inside", "publish", "publishing", "put back", "putting back",
        "poison", "poisoning", "closing", "let go", "release", "freeing",
        "watch", "copying", "asking", "busy", "return"}

-----------------------------------------------------------------------------

To(t, p) == pc' = [pc EXCEPT ![t] = p] /\ UNCHANGED <<kind, target, tries>>

(* t, between calls, starts one on s: it has the GVL until it says so.     *)
Begin(t, k, s, p) ==
    /\ pc[t] = "idle" /\ gvl = None
    /\ gvl' = t
    /\ pc' = [pc EXCEPT ![t] = p]
    /\ kind' = [kind EXCEPT ![t] = k]
    /\ target' = [target EXCEPT ![t] = s]
    /\ UNCHANGED tries

Idle(t) ==
    /\ gvl' = None
    /\ pc' = [pc EXCEPT ![t] = "idle"]
    /\ kind' = [kind EXCEPT ![t] = "none"]
    /\ target' = [target EXCEPT ![t] = None]
    /\ tries' = [tries EXCEPT ![t] = 0]

(* Slip: an interrupt leaves the claim behind. *)
NeverUnclaimed(t) == claimed

(* The guard of the claim is dropped, which only engine calls have. *)
Unclaimed(t) == [s \in Sessions |-> IF claimed[s] = t THEN None ELSE claimed[s]]

Using(s) == {t \in Threads : target[t] = s /\ pc[t] # "gone"}

-----------------------------------------------------------------------------
(* with_engine: claim, then leave the GVL. *)

Claim(t, s, k) ==
    /\ slot[s] # "none"
    /\ Begin(t, k, s, IF claimed[s] = None THEN "enter" ELSE "busy")
    /\ claimed' = [claimed EXCEPT ![s] = IF @ = None THEN t ELSE @]
    /\ UNCHANGED <<slot, slotLock, snapLock, engine, stale, runtime>>

(* Opening claims nothing: there is no session yet. *)
Open(t, s) ==
    /\ slot[s] = "none" /\ Using(s) = {}
    /\ Begin(t, "open", s, "enter")
    /\ UNCHANGED <<session, runtime>>

(* What the region is entered for. *)
Body(t) == IF kind[t] = "open" THEN "gate" ELSE "take"

Enter(t) ==
    /\ pc[t] = "enter"
    /\ To(t, Body(t))
    /\ gvl' = None
    /\ UNCHANGED <<session, runtime>>

(* Ruby's interrupt flag was set, whatever for: the region is not entered. *)
EntryRefused(t) ==
    /\ pc[t] = "enter"
    /\ pc' = [pc EXCEPT ![t] = "check"]
    /\ tries' = [tries EXCEPT ![t] = @ + 1]
    /\ UNCHANGED <<kind, target, gvl, session, runtime>>

(* check_ints raises what Ruby held ... *)
Raises(t) ==
    /\ pc[t] = "check"
    /\ claimed' = Unclaimed(t)
    /\ Idle(t)
    /\ UNCHANGED <<slot, slotLock, snapLock, engine, stale, runtime>>

(* ... or it was the timer, or masked, and other threads get their turn.   *)
Yields(t) ==
    /\ pc[t] = "check"
    /\ To(t, "resume")
    /\ gvl' = None
    /\ UNCHANGED <<session, runtime>>

(* Slip: a refused entry is tried again for ever. *)
AlwaysEnters(t) == "enter"

(* After the last attempt the work runs with the GVL held. *)
AfterRefusal(t) == IF tries[t] < Attempts THEN "enter" ELSE Body(t)

Resume(t) ==
    /\ pc[t] = "resume" /\ gvl = None
    /\ To(t, AfterRefusal(t))
    /\ gvl' = t
    /\ UNCHANGED <<session, runtime>>

-----------------------------------------------------------------------------
(* run: take the engine, use it, put it back. *)

(* try_lock: a slot somebody is looking at is not waited for. *)
Take(t) ==
    /\ pc[t] = "take"
    /\ LET s == target[t]
       IN  IF slotLock[s] = None
           THEN slotLock' = [slotLock EXCEPT ![s] = t] /\ To(t, "taking")
           ELSE UNCHANGED slotLock /\ To(t, "busy")
    /\ UNCHANGED <<gvl, claimed, slot, snapLock, engine, stale, runtime>>

(* Slip: what the slot held is not put back when it is no engine. *)
LeavesAnyway(s, next) == [slot EXCEPT ![s] = next]

(* A slot that is not ready keeps what it holds. *)
Leaves(s, next) == [slot EXCEPT ![s] = IF @ = "ready" THEN next ELSE @]

(* take_leaving, with the slot's mutex held. *)
TakeLeaving(t, next, taken) ==
    LET s == target[t]
    IN  /\ slot' = Leaves(s, next)
        /\ engine' = [engine EXCEPT ![s] = IF slot[s] = "ready" THEN t ELSE @]
        /\ slotLock' = [slotLock EXCEPT ![s] = None]
        /\ To(t, CASE slot[s] = "ready"   -> taken
                  [] slot[s] = "running" -> "busy"
                  [] OTHER               -> "return")
        /\ UNCHANGED <<gvl, claimed, snapLock, stale, runtime>>

(* A read never reaches MLX; the rest waits at the gate. *)
Taking(t) ==
    /\ pc[t] = "taking"
    /\ TakeLeaving(t, "running", IF kind[t] = "work" THEN "gate" ELSE "publish")

(* Slip: what the engine refused does not go back to the slot. *)
KeepsOnRefusal(t) == "return"

AfterRefused(t) == IF kind[t] = "open" THEN "return" ELSE "publish"

(* Slip: the engine goes back before its numbers are published. *)
PutsBackFirst(t) == IF kind[t] = "open" THEN "return" ELSE "put back"

AfterWork(t) == IF kind[t] = "open" THEN "return" ELSE "publish"

(* Slip: the gate is waited for before the process is asked about. *)
WaitsFirst(t) ==
    /\ pc[t] = "gate" /\ gate = None
    /\ IF child \/ poisoned
       THEN To(t, AfterRefused(t)) /\ UNCHANGED gate
       ELSE To(t, "inside") /\ gate' = t
    /\ UNCHANGED <<gvl, session, poisoned, child>>

(* Runtime::enter: the process first, and before the gate. *)
EnterGate(t) ==
    /\ pc[t] = "gate"
    /\ child \/ gate = None
    /\ IF child \/ poisoned
       THEN To(t, AfterRefused(t)) /\ UNCHANGED gate
       ELSE To(t, "inside") /\ gate' = t
    /\ UNCHANGED <<gvl, session, poisoned, child>>

(* The work is done, or refused by the engine: an error may have moved the *)
(* state as well (the seed is set before its key is made).                 *)
Works(t) ==
    /\ pc[t] = "inside" /\ kind[t] = "work"
    /\ gate' = None
    /\ \E moved \in BOOLEAN : stale' = [stale EXCEPT ![target[t]] = moved]
    /\ To(t, AfterWork(t))
    /\ UNCHANGED <<gvl, claimed, slot, slotLock, snapLock, engine, poisoned, child>>

Builds(t) ==
    /\ pc[t] = "inside" /\ kind[t] = "open"
    /\ gate' = None
    /\ \E built \in BOOLEAN :
           engine' = [engine EXCEPT ![target[t]] = IF built THEN t ELSE @]
    /\ To(t, AfterWork(t))
    /\ UNCHANGED <<gvl, claimed, slot, slotLock, snapLock, stale, poisoned, child>>

(* The panic unwinds through the guard of the gate. *)
Panics(t) ==
    /\ pc[t] = "inside"
    /\ gate' = None /\ poisoned' = TRUE
    /\ To(t, IF kind[t] = "open" THEN "return" ELSE "poison")
    /\ UNCHANGED <<gvl, session, child>>

Publish(t) ==
    /\ pc[t] = "publish" /\ snapLock[target[t]] = None
    /\ snapLock' = [snapLock EXCEPT ![target[t]] = t]
    /\ To(t, "publishing")
    /\ UNCHANGED <<gvl, claimed, slot, slotLock, engine, stale, runtime>>

Publishing(t) ==
    /\ pc[t] = "publishing"
    /\ snapLock' = [snapLock EXCEPT ![target[t]] = None]
    /\ stale' = [stale EXCEPT ![target[t]] = FALSE]
    /\ To(t, "put back")
    /\ UNCHANGED <<gvl, claimed, slot, slotLock, engine, runtime>>

(* put_back waits for the slot's mutex. *)
PutBack(t) ==
    /\ pc[t] \in {"put back", "poison"} /\ slotLock[target[t]] = None
    /\ slotLock' = [slotLock EXCEPT ![target[t]] = t]
    /\ To(t, IF pc[t] = "poison" THEN "poisoning" ELSE "putting back")
    /\ UNCHANGED <<gvl, claimed, slot, snapLock, engine, stale, runtime>>

PuttingBack(t) ==
    /\ pc[t] = "putting back"
    /\ slot' = [slot EXCEPT ![target[t]] = "ready"]
    /\ engine' = [engine EXCEPT ![target[t]] = "slot"]
    /\ slotLock' = [slotLock EXCEPT ![target[t]] = None]
    /\ To(t, "return")
    /\ UNCHANGED <<gvl, claimed, snapLock, stale, runtime>>

(* The engine that panicked is dropped once the slot says so. *)
Poisoning(t) ==
    /\ pc[t] = "poisoning"
    /\ slot' = [slot EXCEPT ![target[t]] = "poisoned"]
    /\ slotLock' = [slotLock EXCEPT ![target[t]] = None]
    /\ To(t, "release")
    /\ UNCHANGED <<gvl, claimed, snapLock, engine, stale, runtime>>

-----------------------------------------------------------------------------
(* close, which claims nothing, and the drop of a session nobody refers to *)

Close(t, s) ==
    /\ slot[s] # "none"
    /\ Begin(t, "close", s, IF slotLock[s] = None THEN "closing" ELSE "busy")
    /\ slotLock' = [slotLock EXCEPT ![s] = IF @ = None THEN t ELSE @]
    /\ UNCHANGED <<claimed, slot, snapLock, engine, stale, runtime>>

(* A second close answers false; a poisoned session refuses. *)
Closing(t) ==
    /\ pc[t] = "closing"
    /\ TakeLeaving(t, "closed", "let go")

(* One attempt to leave the GVL, and no interrupt is looked for. *)
LetGo(t) ==
    /\ pc[t] = "let go"
    /\ To(t, "release")
    /\ gvl' \in {t, None}
    /\ UNCHANGED <<session, runtime>>

(* The garbage collector, on whichever thread has the GVL. *)
Sweep(t, s) ==
    /\ slot[s] \in {"ready", "poisoned", "closed"} /\ Using(s) = {}
    /\ Begin(t, "sweep", s, IF slot[s] = "ready" THEN "release" ELSE "return")
    /\ slot' = [slot EXCEPT ![s] = "none"]
    /\ engine' = [engine EXCEPT ![s] = IF slot[s] = "ready" THEN t ELSE @]
    /\ UNCHANGED <<claimed, slotLock, snapLock, stale, runtime>>

(* Runtime::release: in a child the engine is leaked; a poisoned gate does *)
(* not matter.                                                             *)
ReleaseHere(t) ==
    /\ pc[t] = "release"
    /\ child
    /\ engine' = [engine EXCEPT ![target[t]] = "leaked"]
    /\ To(t, "return")
    /\ UNCHANGED <<gvl, claimed, slot, slotLock, snapLock, stale, runtime>>

(* Slip: the engine is freed without waiting for the gate. *)
ReleaseAtOnce(t) ==
    /\ pc[t] = "release" /\ ~child
    /\ To(t, "freeing")
    /\ UNCHANGED <<gvl, session, runtime>>

Release(t) ==
    /\ pc[t] = "release" /\ ~child /\ gate = None
    /\ gate' = t
    /\ To(t, "freeing")
    /\ UNCHANGED <<gvl, session, poisoned, child>>

Freeing(t) ==
    /\ pc[t] = "freeing"
    /\ engine' = [engine EXCEPT ![target[t]] = "none"]
    /\ gate' = None
    /\ To(t, "return")
    /\ UNCHANGED <<gvl, claimed, slot, slotLock, snapLock, stale, poisoned, child>>

-----------------------------------------------------------------------------
(* Looking without serving: both keep the GVL throughout. *)

(* watch waits for the snapshot's mutex ... *)
Watch(t, s) ==
    /\ slot[s] # "none"
    /\ Begin(t, "watch", s, "watch")
    /\ UNCHANGED <<session, runtime>>

Look(t) ==
    /\ pc[t] = "watch" /\ snapLock[target[t]] = None
    /\ snapLock' = [snapLock EXCEPT ![target[t]] = t]
    /\ To(t, "copying")
    /\ UNCHANGED <<gvl, claimed, slot, slotLock, engine, stale, runtime>>

Copying(t) ==
    /\ pc[t] = "copying"
    /\ snapLock' = [snapLock EXCEPT ![target[t]] = None]
    /\ To(t, "return")
    /\ UNCHANGED <<gvl, claimed, slot, slotLock, engine, stale, runtime>>

(* ... and closed and poisoned do not wait for the slot's. *)
Ask(t, s) ==
    /\ slot[s] # "none"
    /\ Begin(t, "ask", s, IF slotLock[s] = None THEN "asking" ELSE "return")
    /\ slotLock' = [slotLock EXCEPT ![s] = IF @ = None THEN t ELSE @]
    /\ UNCHANGED <<claimed, slot, snapLock, engine, stale, runtime>>

Asking(t) ==
    /\ pc[t] = "asking"
    /\ slotLock' = [slotLock EXCEPT ![target[t]] = None]
    /\ To(t, "return")
    /\ UNCHANGED <<gvl, claimed, slot, snapLock, engine, stale, runtime>>

-----------------------------------------------------------------------------

(* Back in Ruby with the GVL, answer or error in hand. *)
Return(t) ==
    /\ pc[t] \in {"return", "busy"} /\ gvl \in {t, None}
    /\ claimed' = Unclaimed(t)
    /\ IF kind[t] = "open" /\ engine[target[t]] = t
       THEN /\ slot' = [slot EXCEPT ![target[t]] = "ready"]
            /\ engine' = [engine EXCEPT ![target[t]] = "slot"]
            /\ stale' = [stale EXCEPT ![target[t]] = FALSE]
       ELSE UNCHANGED <<slot, engine, stale>>
    /\ Idle(t)
    /\ UNCHANGED <<slotLock, snapLock, runtime>>

(* A thread between calls forks, and we follow the child: it is the only   *)
(* thread there, and whatever the others held stays held.                  *)
Fork(t) ==
    /\ pc[t] = "idle" /\ gvl = None /\ ~child
    /\ child' = TRUE
    /\ pc' = [u \in Threads |-> IF u = t THEN "idle" ELSE "gone"]
    /\ UNCHANGED <<kind, target, tries, gvl, session, gate, poisoned>>

Calls(t) ==
    \/ \E s \in Sessions :
          \/ \E k \in {"work", "read"} : Claim(t, s, k)
          \/ Open(t, s) \/ Close(t, s) \/ Sweep(t, s) \/ Watch(t, s) \/ Ask(t, s)
    \/ Fork(t)

(* The steps of a call under way. *)
Continue(t) ==
    \/ Enter(t) \/ EntryRefused(t) \/ Raises(t) \/ Yields(t) \/ Resume(t)
    \/ Take(t) \/ Taking(t) \/ EnterGate(t) \/ Works(t) \/ Builds(t) \/ Panics(t)
    \/ Publish(t) \/ Publishing(t) \/ PutBack(t) \/ PuttingBack(t) \/ Poisoning(t)
    \/ Closing(t) \/ LetGo(t) \/ ReleaseHere(t) \/ Release(t) \/ Freeing(t)
    \/ Look(t) \/ Copying(t) \/ Asking(t) \/ Return(t)

Init ==
    /\ pc = [t \in Threads |-> "idle"]
    /\ kind = [t \in Threads |-> "none"]
    /\ target = [t \in Threads |-> None]
    /\ tries = [t \in Threads |-> 0]
    /\ gvl = None
    /\ claimed = [s \in Sessions |-> None]
    /\ slot = [s \in Sessions |-> "none"]
    /\ slotLock = [s \in Sessions |-> None]
    /\ snapLock = [s \in Sessions |-> None]
    /\ engine = [s \in Sessions |-> "none"]
    /\ stale = [s \in Sessions |-> FALSE]
    /\ gate = None /\ poisoned = FALSE /\ child = FALSE

Next == \E t \in Threads : Calls(t) \/ Continue(t)

(* A call under way goes on, and no thread waits for ever on a lock that   *)
(* keeps coming free; nobody has to call, fork or be interrupted.          *)
Fairness == \A t \in Threads : SF_vars(Continue(t))

Spec == Init /\ [][Next]_vars /\ Fairness

-----------------------------------------------------------------------------
(* What the calls keep true. *)

(* Every variable stays in its type. *)
TypeOK ==
    /\ pc \in [Threads -> PCs]
    /\ kind \in [Threads -> Kinds \cup {"none"}]
    /\ target \in [Threads -> Sessions \cup {None}]
    /\ tries \in [Threads -> 0..Attempts]
    /\ gvl \in Threads \cup {None}
    /\ claimed \in [Sessions -> Threads \cup {None}]
    /\ slot \in [Sessions -> {"none", "ready", "running", "poisoned", "closed"}]
    /\ slotLock \in [Sessions -> Threads \cup {None}]
    /\ snapLock \in [Sessions -> Threads \cup {None}]
    /\ engine \in [Sessions -> {"none", "slot", "leaked"} \cup Threads]
    /\ stale \in [Sessions -> BOOLEAN]
    /\ gate \in Threads \cup {None}
    /\ poisoned \in BOOLEAN /\ child \in BOOLEAN

(* Between taking the engine and saying what became of it. *)
InRun == {"gate", "inside", "publish", "publishing", "put back", "putting back",
          "poison", "poisoning", "gone"}

(* A slot is ready exactly while the engine is in it, and one that says    *)
(* "running" has a call that will put the engine back: no interrupt, error *)
(* or panic leaves a session busy for good (lib.rs, Session).              *)
EngineInOnePlace ==
    \A s \in Sessions :
        /\ slot[s] = "ready" <=> engine[s] = "slot"
        /\ slot[s] = "running" =>
               \E t \in Threads : engine[s] = t /\ target[t] = s /\ pc[t] \in InRun

(* A session is claimed by the one call that goes on with it, and by       *)
(* nobody once that call is back, however it came back: a second call is   *)
(* refused and not queued behind the gate (lib.rs, in_flight).             *)
ClaimedIsServed ==
    \A s \in Sessions, t \in Threads :
        LET serves == target[t] = s /\ kind[t] \in {"work", "read"}
        IN  /\ claimed[s] = t => serves
            /\ serves /\ pc[t] # "busy" => claimed[s] = t

(* Nobody finds a ready session whose published numbers are a step behind  *)
(* its engine (lib.rs, run).                                               *)
FreshWhenReady == \A s \in Sessions : slot[s] = "ready" => ~stale[s]

(* A closed or poisoned session never serves again, whatever was running   *)
(* when it went.                                                           *)
GoneStaysGone ==
    [][\A s \in Sessions :
           slot[s] \in {"closed", "poisoned"} => slot'[s] \in {slot[s], "none"}]_vars

(* MLX is entered one call at a time, by whichever session, on live        *)
(* engines only; see module EngineUse.                                     *)
Use == INSTANCE EngineUse WITH
    inside  <- {<<t, target[t], IF kind[t] = "work" THEN "use" ELSE "build">> :
                    t \in {u \in Threads : pc[u] = "inside"}},
    alive   <- {s \in Sessions : engine[s] # "none"},
    foreign <- child

UsesMLXAsPromised == Use!Spec

(* Every call comes back, whatever locks it meets and however often Ruby   *)
(* refuses it the blocking region: no thread that holds the GVL waits for  *)
(* one that needs it.  In a forked child, only a watch may hang.           *)
EveryCallReturns ==
    \A t \in Threads :
        pc[t] \notin {"idle", "gone"} ~>
            \/ pc[t] \in {"idle", "gone"}
            \/ child /\ kind[t] = "watch"
=============================================================================
