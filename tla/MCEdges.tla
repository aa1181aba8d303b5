------------------------------- MODULE MCEdges -------------------------------
(* The engine's two edges, MLX (Bindings) and the file system               *)
(* (CheckpointStore), for TLC.  They share nothing, so one is at its start  *)
(* whenever the other moves.                                                *)
EXTENDS Bindings, CheckpointStore

AtMlx  == Init /\ ~adam /\ UNCHANGED vars
AtDisk == BindingsInit /\ UNCHANGED bindingVars

EdgesInit == BindingsInit /\ Init

EdgesNext ==
    \/ \E fn \in Operations : AtMlx /\ Starts(fn)
    \/ AtMlx /\ LetGo
    \/ AtMlx /\ RefusedAtGate
    \/ AtMlx /\ Takes
    \/ AtMlx /\ Succeeds
    \/ AtMlx /\ MlxFails
    \/ AtMlx /\ RustFails
    \/ AtMlx /\ Calls
    \/ AtMlx /\ Returns
    \/ AtMlx /\ ClosureCallFails
    \/ AtMlx /\ Unwinds
    \/ AtMlx /\ Parks
    \/ AtMlx /\ Settles
    \/ AtDisk /\ Begin
    \/ AtDisk /\ ClearStaging
    \/ AtDisk /\ Create
    \/ AtDisk /\ LayOut
    \/ AtDisk /\ ReadBack
    \/ AtDisk /\ Sync
    \/ AtDisk /\ Look
    \/ AtDisk /\ ClearAside
    \/ AtDisk /\ MoveAside
    \/ AtDisk /\ Take
    \/ AtDisk /\ Drop
    \/ AtDisk /\ Done
    \/ AtDisk /\ Fails
    \/ AtDisk /\ Restart
    \/ AtDisk /\ StartReading
    \/ AtDisk /\ ReadFile
    \/ AtDisk /\ StopReading

EdgesSpec == EdgesInit /\ [][EdgesNext]_<<bindingVars, vars>>
==============================================================================
