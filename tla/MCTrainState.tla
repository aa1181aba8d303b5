---------------------------- MODULE MCTrainState ----------------------------
(* Small instances of TrainState.  The first position is a parameter the   *)
(* plan keeps frozen, so that a position and its place in argnums differ.  *)
EXTENDS TrainState

MCCandidates == {2, 3}
MCPatterns   == {{1}, {2}, {2, 3}}   \* no candidate, one of them, both
=============================================================================
