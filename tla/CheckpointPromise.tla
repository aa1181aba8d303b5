-------------------------- MODULE CheckpointPromise --------------------------
(***************************************************************************)
(* What writing a checkpoint promises, without files                       *)
(* (src/engine/src/checkpoint.rs, publish).  The name of a checkpoint goes *)
(* from an older save to none and from none to the newest: it is not taken *)
(* over in one step, and a save that dies in between leaves it empty, the  *)
(* older checkpoint standing aside whole.  Nothing else moves the one or   *)
(* loses the other.  Saves are numbered in the order they begin.           *)
(***************************************************************************)
EXTENDS Naturals

VARIABLES
    begun,  \* the saves that have begun
    named,  \* the save the name stands for; 0 while it stands for none
    aside   \* the one that had the name, while none has; nobody opens it

promised == <<begun, named, aside>>

Init == begun = 0 /\ named = 0 /\ aside = 0

Begin == begun' = begun + 1 /\ UNCHANGED <<named, aside>>

(* A newer save moves the checkpoint there is out of the way. *)
Displace ==
    /\ named # 0 /\ named < begun
    /\ named' = 0 /\ aside' = named
    /\ UNCHANGED begun

(* The newest save takes the name, which is free; what stood aside may go. *)
Take ==
    /\ named = 0 /\ aside < begun
    /\ named' = begun /\ aside' = 0
    /\ UNCHANGED begun

Next == Begin \/ Displace \/ Take

Spec == Init /\ [][Next]_promised
=============================================================================
