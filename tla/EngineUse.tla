------------------------------ MODULE EngineUse ------------------------------
(***************************************************************************)
(* What the runtime promises about MLX, whoever calls it                   *)
(* (src/engine/src/runtime.rs: "one queue, one lock"): calls enter it one  *)
(* at a time, on an engine that has been built and not freed, in the       *)
(* process that loaded it and never after a panic; an engine is freed      *)
(* once, while nobody is inside.  Module SessionGate is shown to implement *)
(* it.                                                                     *)
(***************************************************************************)
CONSTANTS
    Threads,
    Sessions

VARIABLES
    inside,   \* the call in MLX, if any: who, on which engine, what for
    alive,    \* the engines whose device memory is there
    poisoned, \* a call panicked inside
    foreign   \* this is a forked child

vars == <<inside, alive, poisoned, foreign>>

Init ==
    /\ inside = {}
    /\ alive = {}
    /\ poisoned = FALSE
    /\ foreign = FALSE

Enter(t, s, what) ==
    /\ inside = {} /\ ~poisoned /\ ~foreign
    /\ what = "use" <=> s \in alive
    /\ inside' = {<<t, s, what>>}
    /\ UNCHANGED <<alive, poisoned, foreign>>

Leave(t, s, what) ==
    /\ inside = {<<t, s, what>>}
    /\ inside' = {}
    /\ \/ UNCHANGED alive
       \/ what = "build" /\ alive' = alive \cup {s}
    /\ UNCHANGED <<poisoned, foreign>>

Panic ==
    /\ inside # {}
    /\ inside' = {}
    /\ poisoned' = TRUE
    /\ UNCHANGED <<alive, foreign>>

(* Even after a panic. *)
Free(s) ==
    /\ inside = {} /\ s \in alive /\ ~foreign
    /\ alive' = alive \ {s}
    /\ UNCHANGED <<inside, poisoned, foreign>>

(* A child takes nothing of what was running with it, and never reaches    *)
(* MLX again.                                                              *)
Fork ==
    /\ ~foreign
    /\ foreign' = TRUE
    /\ inside' = {}
    /\ UNCHANGED <<alive, poisoned>>

Next ==
    \/ \E t \in Threads, s \in Sessions, what \in {"use", "build"} :
           Enter(t, s, what) \/ Leave(t, s, what)
    \/ Panic
    \/ \E s \in Sessions : Free(s)
    \/ Fork

Spec == Init /\ [][Next]_vars
=============================================================================
