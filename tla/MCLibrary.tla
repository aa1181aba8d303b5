------------------------------ MODULE MCLibrary ------------------------------
(* Two parts of the Ruby library, graphs (Description) and the policies of  *)
(* a run (Policies), for TLC.  They share nothing, so one is at its start   *)
(* whenever the other moves.                                                *)
EXTENDS MCDescription, Policies

\* One order of the policies, and one graph, stand for a part that waits.
OneOrder == registered = <<"guard", "best", "cut", "stop">>
OneGraph == declared = Fixed /\ author = "ruby"

AtGraph  == all = <<>> /\ OneOrder /\ UNCHANGED policyVars
AtPolicy ==
    /\ OneGraph /\ phase = "describing" /\ nodes = <<>>
    /\ UNCHANGED vars

LibraryInit == Init /\ PoliciesInit /\ (OneGraph \/ OneOrder)

LibraryNext ==
    \/ AtGraph /\ Emit
    \/ AtGraph /\ Write
    \/ AtGraph /\ Describe
    \/ AtGraph /\ Open
    \/ AtGraph /\ Bind
    \/ AtGraph /\ RunNode
    \/ AtGraph /\ Answer
    \/ \E loss \in Losses \cup {NotFinite} : AtPolicy /\ Steps(loss)
    \/ AtPolicy /\ GuardLooksAway
    \/ AtPolicy /\ GuardGivesUp
    \/ AtPolicy /\ GuardAnswers
    \/ AtPolicy /\ GuardIsRefused
    \/ AtPolicy /\ BestLooksAway
    \/ AtPolicy /\ BestKeeps
    \/ AtPolicy /\ CutLooksAway
    \/ AtPolicy /\ CutsRate
    \/ AtPolicy /\ StopCalled

LibrarySpec == LibraryInit /\ [][LibraryNext]_<<vars, policyVars>>
==============================================================================
