-------------------------- MODULE SessionGateProofs --------------------------
(***************************************************************************)
(* That no session is lost, shared, shown stale or revived, and that MLX   *)
(* is used as its runtime promises: for any number of threads, sessions    *)
(* and attempts to leave the GVL.                                          *)
(***************************************************************************)
EXTENDS SessionGate, TLAPS

-----------------------------------------------------------------------------
(* Where a thread has an engine in its frame: on its way through MLX and   *)
(* back to the slot, or on its way to dropping it.                         *)

InMLX    == {"gate", "inside", "publish", "publishing", "put back", "putting back",
             "poison", "poisoning"}
Dropping == {"let go", "release", "freeing"}
Served   == {"work", "read"}

Owns(t) == pc[t] \in Dropping \/ (pc[t] \in InMLX /\ kind[t] \in Served)

(* What is true of a thread by where it is.                                *)
Kinded(t) ==
    /\ kind[t] = "none" => target[t] = None /\ pc[t] \in {"idle", "gone"}
    /\ kind[t] # "none" => target[t] \in Sessions /\ pc[t] # "idle"
    /\ pc[t] \in {"enter", "check", "resume"} => kind[t] \in {"open", "work", "read"}
    /\ pc[t] \in {"gate", "inside"} => kind[t] \in {"open", "work"}
    /\ pc[t] \in {"take", "taking"} \cup (InMLX \ {"gate", "inside"}) => kind[t] \in Served
    /\ pc[t] \in Dropping \cup {"closing", "busy"} => kind[t] # "open"
    /\ pc[t] = "idle" => tries[t] = 0
    /\ pc[t] = "enter" => tries[t] < Attempts
HasGvl(t)  == pc[t] \in {"enter", "check", "closing", "let go"} => gvl = t
HasGate(t) == pc[t] \in {"inside", "freeing"} => gate = t /\ ~child
Holds(t) ==
    Owns(t) => /\ engine[target[t]] = t
               /\ slot[target[t]] \in IF pc[t] \in InMLX THEN {"running"}
                                      ELSE {"poisoned", "closed", "none"}
Opening(t) ==
    kind[t] = "open" /\ pc[t] # "gone" =>
        /\ slot[target[t]] = "none"
        /\ pc[t] # "return" /\ ~child => engine[target[t]] = "none"
Published(t) == pc[t] \in {"put back", "putting back"} => ~stale[target[t]]
Claims(t) ==
    kind[t] \in Served /\ claimed[target[t]] # t => pc[t] = "busy" /\ gvl = t
Local(t) == /\ Kinded(t) /\ HasGvl(t) /\ HasGate(t) /\ Holds(t) /\ Opening(t)
            /\ Published(t) /\ Claims(t) /\ (pc[t] = "gone" => child)

(* An engine outside its slot is with a thread that knows of it; a session *)
(* that is not there yet has one thread; a claim is the claimer's.         *)
HeldBy ==
    \A s \in Sessions, t \in Threads :
        engine[s] = t =>
            /\ target[t] = s
            /\ Owns(t) \/ pc[t] = "gone" \/ (pc[t] = "return" /\ kind[t] = "open")
Alone == \A s \in Sessions : slot[s] = "none" => \A t, u \in Using(s) : t = u
ClaimedBy ==
    \A s \in Sessions, t \in Threads :
        claimed[s] = t => target[t] = s /\ kind[t] \in Served
Leaked == \A s \in Sessions : engine[s] = "leaked" => child

GateInv == /\ TypeOK /\ (\A t \in Threads : Local(t)) /\ HeldBy /\ Alone /\ ClaimedBy
           /\ Leaked /\ EngineInOnePlace /\ FreshWhenReady

-----------------------------------------------------------------------------
(* What one thread does leaves the others where they are: it takes no lock *)
(* they hold, and changes only a session that none of them has.            *)

LeavesAlone(u) ==
    /\ pc'[u] = pc[u] /\ kind'[u] = kind[u] /\ target'[u] = target[u] /\ tries'[u] = tries[u]
    /\ child' = child
    /\ gvl = u => gvl' = u
    /\ gate = u => gate' = u
    /\ \A s \in Sessions : claimed[s] = u => claimed'[s] = u
    /\ \A s \in Sessions :
          \/ slot'[s] = slot[s] /\ engine'[s] = engine[s] /\ stale'[s] = stale[s]
          \/ pc[u] = "gone"
          \/ engine[s] # u /\ ~(kind[u] = "open" /\ target[u] = s)

LEMMA OthersKeep ==
    ASSUME NEW u \in Threads, TypeOK, Local(u), LeavesAlone(u)
    PROVE  Local(u)'
  <1>1. Kinded(u)'
    BY DEF Local, Kinded, LeavesAlone
  <1>2. HasGvl(u)' /\ HasGate(u)' /\ (pc[u] = "gone" => child)'
    BY DEF Local, HasGvl, HasGate, LeavesAlone
  <1>3. Claims(u)'
    <2> SUFFICES ASSUME kind[u] \in Served, claimed'[target[u]] # u
                 PROVE  pc[u] = "busy" /\ gvl' = u
      BY DEF Claims, LeavesAlone
    <2>1. target[u] \in Sessions
      BY DEF Local, Kinded, Served
    <2>2. claimed[target[u]] # u
      BY <2>1 DEF LeavesAlone
    <2> QED  BY <2>2 DEF Local, Claims, LeavesAlone
  <1>4. CASE pc[u] = "gone"
    BY <1>1, <1>2, <1>3, <1>4
    DEF Local, Holds, Opening, Published, Owns, InMLX, Dropping, LeavesAlone
  <1>5. CASE kind[u] = "none"
    <2>1. pc[u] \in {"idle", "gone"}
      BY <1>5 DEF Local, Kinded
    <2> QED  BY <1>1, <1>2, <1>3, <1>5, <2>1
             DEF Local, Holds, Opening, Published, Owns, InMLX, Dropping, LeavesAlone
  <1>6. CASE kind[u] # "none" /\ pc[u] # "gone"
    <2> DEFINE s == target[u]
    <2>1. s \in Sessions /\ pc'[u] = pc[u] /\ kind'[u] = kind[u] /\ target'[u] = s /\ child' = child
      BY <1>6 DEF Local, Kinded, LeavesAlone
    <2>2. \/ slot'[s] = slot[s] /\ engine'[s] = engine[s] /\ stale'[s] = stale[s]
          \/ engine[s] # u /\ kind[u] # "open"
      BY <1>6, <2>1 DEF LeavesAlone
    <2> HIDE DEF s
    <2>3. CASE slot'[s] = slot[s] /\ engine'[s] = engine[s] /\ stale'[s] = stale[s]
      <3>1. Holds(u)'
        BY <2>1, <2>3 DEF Local, Holds, Owns, s
      <3>2. Opening(u)' /\ Published(u)'
        BY <2>1, <2>3 DEF Local, Opening, Published, s
      <3> QED  BY <1>1, <1>2, <1>3, <3>1, <3>2 DEF Local
    <2>4. CASE engine[s] # u /\ kind[u] # "open"
      <3>1. ~Owns(u)
        BY <2>4 DEF Local, Holds, s
      <3>2. pc[u] \notin {"put back", "putting back"}
        BY <3>1 DEF Local, Kinded, Owns, InMLX
      <3> QED  BY <1>1, <1>2, <1>3, <2>1, <2>4, <3>1, <3>2
               DEF Local, Holds, Opening, Published, Owns
    <2> QED  BY <2>2, <2>3, <2>4
  <1> QED  BY <1>4, <1>5, <1>6

(* A session whose engine is in its slot, with t or not built yet is       *)
(* nobody else's.                                                          *)
LEMMA NobodyElses ==
    ASSUME GateInv, NEW t \in Threads, NEW s \in Sessions, target[t] = s, pc[t] # "gone",
           engine[s] \in {t, "slot", "none"}, NEW u \in Threads \ {t}
    PROVE  pc[u] = "gone" \/ (engine[s] # u /\ ~(kind[u] = "open" /\ target[u] = s))
  <1>1. engine[s] # u
    BY ThreadsAssumption
  <1>2. ASSUME kind[u] = "open", target[u] = s, pc[u] # "gone" PROVE FALSE
    <2>1. slot[s] = "none"
      BY <1>2 DEF GateInv, Local, Opening
    <2>2. t \in Using(s) /\ u \in Using(s)
      BY <1>2 DEF Using
    <2> QED  BY <2>1, <2>2 DEF GateInv, Alone
  <1> QED  BY <1>1, <1>2

-----------------------------------------------------------------------------
(* t goes on, and no session changes.                                      *)

Moves(t, q) ==
    /\ pc' = [pc EXCEPT ![t] = q] /\ UNCHANGED <<kind, target, child>>
    /\ \A u \in Threads \ {t} : tries'[u] = tries[u]
    /\ gvl' = gvl \/ gvl \in {t, None}
    /\ gate' = gate \/ gate \in {t, None}

LEMMA MovesLeavesAlone ==
    ASSUME GateInv, NEW t \in Threads, NEW q, Moves(t, q), claimed' = claimed,
           NEW u \in Threads \ {t},
           \A s \in Sessions :
              \/ slot'[s] = slot[s] /\ engine'[s] = engine[s] /\ stale'[s] = stale[s]
              \/ pc[u] = "gone"
              \/ engine[s] # u /\ ~(kind[u] = "open" /\ target[u] = s)
    PROVE  LeavesAlone(u) /\ Local(u)'
  <1>1. pc'[u] = pc[u] /\ kind'[u] = kind[u] /\ target'[u] = target[u] /\ tries'[u] = tries[u]
    BY DEF Moves, GateInv, TypeOK
  <1>2. (gvl = u => gvl' = u) /\ (gate = u => gate' = u) /\ child' = child
    BY NoneAssumption DEF Moves
  <1>3. LeavesAlone(u)
    BY <1>1, <1>2 DEF LeavesAlone
  <1> QED  BY <1>3, OthersKeep DEF GateInv

LEMMA OnlyMoves ==
    ASSUME GateInv, NEW t \in Threads, NEW q \in PCs, Moves(t, q), TypeOK',
           UNCHANGED <<claimed, slot, engine, stale>>, Kinded(t)', HasGvl(t)', HasGate(t)',
           pc[t] \notin {"idle", "gone", "return", "busy"}, q \notin {"idle", "gone"},
           Owns(t)' <=> Owns(t), Owns(t) => (pc[t] \in InMLX <=> q \in InMLX),
           q \in {"put back", "putting back"} => pc[t] = "put back"
    PROVE  GateInv'
  <1>1. /\ pc'[t] = q /\ \A u \in Threads \ {t} : pc'[u] = pc[u]
        /\ kind' = kind /\ target' = target /\ child' = child
    BY DEF Moves, GateInv, TypeOK
  <1>a. Local(t)
    BY DEF GateInv
  <1>b. Holds(t)'
    BY <1>1, <1>a DEF Local, Holds
  <1>c. Opening(t)' /\ Published(t)' /\ Claims(t)'
    BY <1>1, <1>a DEF Local, Opening, Published, Claims
  <1>d. Local(t)'
    BY <1>1, <1>b, <1>c DEF Local
  <1>2. \A u \in Threads : Local(u)'
    BY <1>d, MovesLeavesAlone
  <1>3. HeldBy'
    <2> SUFFICES ASSUME NEW s \in Sessions, NEW u \in Threads, engine[s] = u
                 PROVE  /\ target[u] = s
                        /\ Owns(u)' \/ pc'[u] = "gone" \/ (pc'[u] = "return" /\ kind[u] = "open")
      BY <1>1 DEF HeldBy
    <2>1. target[u] = s /\ (Owns(u) \/ pc[u] = "gone" \/ (pc[u] = "return" /\ kind[u] = "open"))
      BY DEF GateInv, HeldBy
    <2> QED  BY <1>1, <2>1 DEF Owns
  <1>4. \A s \in Sessions : Using(s)' = Using(s)
    BY <1>1 DEF Using
  <1>e. Alone' /\ Leaked'
    BY <1>1, <1>4 DEF GateInv, Alone, Leaked
  <1>5. ClaimedBy' /\ FreshWhenReady'
    BY <1>1 DEF GateInv, ClaimedBy, FreshWhenReady
  <1>6. EngineInOnePlace'
    <2> SUFFICES ASSUME NEW s \in Sessions
                 PROVE  /\ slot[s] = "ready" <=> engine[s] = "slot"
                        /\ slot[s] = "running" =>
                               \E u \in Threads : engine[s] = u /\ target[u] = s /\ pc'[u] \in InRun
      BY <1>1 DEF EngineInOnePlace
    <2>1. slot[s] = "ready" <=> engine[s] = "slot"
      BY DEF GateInv, EngineInOnePlace
    <2>2. ASSUME slot[s] = "running"
          PROVE  \E u \in Threads : engine[s] = u /\ target[u] = s /\ pc'[u] \in InRun
      <3>1. PICK u \in Threads : engine[s] = u /\ target[u] = s /\ pc[u] \in InRun
        BY <2>2 DEF GateInv, EngineInOnePlace
      <3>2. CASE u # t
        BY <1>1, <3>1, <3>2
      <3>3. CASE u = t
        <4>1. Owns(t)
          <5>1. HeldBy /\ engine[s] = t
            BY <3>1, <3>3 DEF GateInv
          <5> QED  BY <5>1 DEF HeldBy
        <4>2. pc[t] \in InMLX
          BY <3>1, <3>3 DEF InRun, InMLX
        <4>3. q \in InRun
          BY <4>1, <4>2 DEF InRun, InMLX
        <4> QED  BY <1>1, <3>1, <3>3, <4>3
      <3> QED  BY <3>2, <3>3
    <2> QED  BY <2>1, <2>2
  <1> QED  BY <1>2, <1>3, <1>e, <1>5, <1>6 DEF GateInv

(* t goes on and changes its session, which is nobody else's.              *)
LEMMA MovesAndChanges ==
    ASSUME GateInv, NEW t \in Threads, NEW q \in PCs, Moves(t, q), TypeOK', claimed' = claimed,
           Local(t)', pc[t] \notin {"idle", "gone"}, q \notin {"idle", "gone"},
           NEW s \in Sessions, target[t] = s, engine[s] \in {t, "slot", "none"},
           \A r \in Sessions \ {s} : slot'[r] = slot[r] /\ engine'[r] = engine[r] /\ stale'[r] = stale[r],
           engine'[s] \in {t, "slot", "none", "leaked"},
           engine'[s] = "leaked" => child,
           engine'[s] = t => Owns(t)' \/ (q = "return" /\ kind[t] = "open"),
           slot'[s] = "ready" <=> engine'[s] = "slot",
           slot'[s] = "running" => engine'[s] = t /\ q \in InRun,
           slot'[s] = "ready" => ~stale'[s],
           slot'[s] = "none" => slot[s] = "none"
    PROVE  GateInv'
  <1>1. /\ pc'[t] = q /\ \A u \in Threads \ {t} : pc'[u] = pc[u]
        /\ kind' = kind /\ target' = target /\ child' = child
    BY DEF Moves, GateInv, TypeOK
  <1>2. ASSUME NEW u \in Threads \ {t} PROVE Local(u)'
    <2>1. pc[u] = "gone" \/ (engine[s] # u /\ ~(kind[u] = "open" /\ target[u] = s))
      BY NobodyElses
    <2> QED  BY <2>1, MovesLeavesAlone
  <1>3. \A u \in Threads : Local(u)'
    BY <1>2
  <1>4. HeldBy'
    <2> SUFFICES ASSUME NEW r \in Sessions, NEW u \in Threads, engine'[r] = u
                 PROVE  /\ target[u] = r
                        /\ Owns(u)' \/ pc'[u] = "gone" \/ (pc'[u] = "return" /\ kind[u] = "open")
      BY <1>1 DEF HeldBy
    <2>1. CASE r = s
      <3>1. u = t
        BY <2>1, ThreadsAssumption
      <3> QED  BY <1>1, <2>1, <3>1
    <2>2. CASE r # s
      <3>1. engine[r] = u
        BY <2>2
      <3>2. target[u] = r /\ (Owns(u) \/ pc[u] = "gone" \/ (pc[u] = "return" /\ kind[u] = "open"))
        BY <3>1 DEF GateInv, HeldBy
      <3>3. u # t
        BY <2>2, <3>2
      <3> QED  BY <1>1, <3>2, <3>3 DEF Owns
    <2> QED  BY <2>1, <2>2
  <1>5. \A r \in Sessions : Using(r)' = Using(r)
    BY <1>1 DEF Using
  <1>6. Alone' /\ ClaimedBy'
    BY <1>1, <1>5 DEF GateInv, Alone, ClaimedBy
  <1>7. Leaked' /\ FreshWhenReady'
    BY <1>1 DEF GateInv, Leaked, FreshWhenReady
  <1>8. EngineInOnePlace'
    <2> SUFFICES ASSUME NEW r \in Sessions
                 PROVE  /\ slot'[r] = "ready" <=> engine'[r] = "slot"
                        /\ slot'[r] = "running" =>
                               \E u \in Threads : engine'[r] = u /\ target[u] = r /\ pc'[u] \in InRun
      BY <1>1 DEF EngineInOnePlace
    <2>1. CASE r = s
      BY <1>1, <2>1
    <2>2. CASE r # s
      <3>1. slot'[r] = slot[r] /\ engine'[r] = engine[r]
        BY <2>2
      <3>2. slot[r] = "ready" <=> engine[r] = "slot"
        BY DEF GateInv, EngineInOnePlace
      <3>3. ASSUME slot[r] = "running"
            PROVE  \E u \in Threads : engine[r] = u /\ target[u] = r /\ pc'[u] \in InRun
        <4>1. PICK u \in Threads : engine[r] = u /\ target[u] = r /\ pc[u] \in InRun
          BY <3>3 DEF GateInv, EngineInOnePlace
        <4>2. u # t
          BY <2>2, <4>1
        <4> QED  BY <1>1, <4>1, <4>2
      <3> QED  BY <3>1, <3>2, <3>3
    <2> QED  BY <2>1, <2>2
  <1> QED  BY <1>3, <1>4, <1>6, <1>7, <1>8 DEF GateInv

-----------------------------------------------------------------------------
(* One lemma per step that only moves a thread.                            *)

LEMMA EnterKeeps == ASSUME NEW t \in Threads, GateInv, Enter(t) PROVE GateInv'
  <1> DEFINE q == Body(t)
  <1>1. /\ pc[t] = "enter" /\ pc' = [pc EXCEPT ![t] = q] /\ gvl' = None
        /\ UNCHANGED <<kind, target, tries, session, runtime>>
    BY DEF Enter, To
  <1>2. /\ Kinded(t) /\ gvl = t /\ q \in {"gate", "take"}
        /\ kind[t] \in (IF q = "gate" THEN {"open"} ELSE Served)
    BY <1>1 DEF GateInv, Local, Kinded, HasGvl, Body, Served
  <1> HIDE DEF q
  <1>3. TypeOK' /\ pc'[t] = q /\ q \in PCs
    BY <1>1, <1>2 DEF GateInv, TypeOK, session, runtime, PCs
  <1>4. Moves(t, q) /\ UNCHANGED <<claimed, slot, engine, stale>>
    BY <1>1, <1>2 DEF Moves, session, runtime
  <1>5. Kinded(t)' /\ HasGvl(t)' /\ HasGate(t)'
    BY <1>1, <1>2, <1>3 DEF Kinded, HasGvl, HasGate, InMLX, Dropping, Served
  <1>6. ~Owns(t) /\ ~Owns(t)'
    BY <1>1, <1>2, <1>3 DEF Owns, InMLX, Dropping, Served
  <1> QED  BY <1>1, <1>2, <1>3, <1>4, <1>5, <1>6, OnlyMoves

LEMMA EntryRefusedKeeps == ASSUME NEW t \in Threads, GateInv, EntryRefused(t) PROVE GateInv'
  <1>1. /\ pc[t] = "enter" /\ pc' = [pc EXCEPT ![t] = "check"]
        /\ tries' = [tries EXCEPT ![t] = @ + 1]
        /\ UNCHANGED <<kind, target, gvl, session, runtime>>
    BY DEF EntryRefused, To
  <1>2. /\ Kinded(t) /\ gvl = t /\ tries[t] < Attempts /\ tries[t] \in 0..Attempts
        /\ kind[t] \in {"open", "work", "read"}
    BY <1>1 DEF GateInv, Local, Kinded, HasGvl, HasGate, InMLX, Dropping, Served, TypeOK
  <1>t. tries' \in [Threads -> 0..Attempts]
    <2>1. tries \in [Threads -> 0..Attempts] /\ tries[t] + 1 \in 0..Attempts
      BY <1>2, AttemptsAssumption DEF GateInv, TypeOK
    <2> QED  BY <1>1, <2>1
  <1>3. TypeOK' /\ pc'[t] = "check" /\ "check" \in PCs
    BY <1>1, <1>2, <1>t DEF GateInv, TypeOK, session, runtime, PCs
  <1>4. Moves(t, "check") /\ UNCHANGED <<claimed, slot, engine, stale>>
    BY <1>1, <1>2, AttemptsAssumption DEF Moves, session, runtime, GateInv, TypeOK
  <1>5. Kinded(t)' /\ HasGvl(t)' /\ HasGate(t)'
    BY <1>1, <1>2, <1>3 DEF Kinded, HasGvl, HasGate, InMLX, Dropping, Served, runtime
  <1>6. (Owns(t)' <=> Owns(t)) /\ (Owns(t) => (pc[t] \in InMLX <=> "check" \in InMLX))
    BY <1>1, <1>2, <1>3 DEF Owns, InMLX, Dropping, Served
  <1> QED  BY <1>1, <1>3, <1>4, <1>5, <1>6, OnlyMoves

LEMMA YieldsKeeps == ASSUME NEW t \in Threads, GateInv, Yields(t) PROVE GateInv'
  <1>1. /\ pc[t] = "check" /\ pc' = [pc EXCEPT ![t] = "resume"] /\ gvl' = None
        /\ UNCHANGED <<kind, target, tries, session, runtime>>
    BY DEF Yields, To
  <1>2. /\ Kinded(t) /\ gvl = t /\ kind[t] \in {"open", "work", "read"}
    BY <1>1 DEF GateInv, Local, Kinded, HasGvl, HasGate, InMLX, Dropping, Served
  <1>3. TypeOK' /\ pc'[t] = "resume" /\ "resume" \in PCs
    BY <1>1, <1>2 DEF GateInv, TypeOK, session, runtime, PCs
  <1>4. Moves(t, "resume") /\ UNCHANGED <<claimed, slot, engine, stale>>
    BY <1>1, <1>2 DEF Moves, session, runtime, GateInv, TypeOK
  <1>5. Kinded(t)' /\ HasGvl(t)' /\ HasGate(t)'
    BY <1>1, <1>2, <1>3 DEF Kinded, HasGvl, HasGate, InMLX, Dropping, Served, runtime
  <1>6. (Owns(t)' <=> Owns(t)) /\ (Owns(t) => (pc[t] \in InMLX <=> "resume" \in InMLX))
    BY <1>1, <1>2, <1>3 DEF Owns, InMLX, Dropping, Served
  <1> QED  BY <1>1, <1>3, <1>4, <1>5, <1>6, OnlyMoves

LEMMA PublishKeeps == ASSUME NEW t \in Threads, GateInv, Publish(t) PROVE GateInv'
  <1>1. /\ pc[t] = "publish" /\ pc' = [pc EXCEPT ![t] = "publishing"]
        /\ snapLock' = [snapLock EXCEPT ![target[t]] = t]
        /\ UNCHANGED <<kind, target, tries, gvl, claimed, slot, slotLock, engine, stale, runtime>>
    BY DEF Publish, To
  <1>2. /\ Kinded(t) /\ kind[t] \in Served
    BY <1>1 DEF GateInv, Local, Kinded, HasGvl, HasGate, InMLX, Dropping, Served
  <1>3. TypeOK' /\ pc'[t] = "publishing" /\ "publishing" \in PCs
    BY <1>1, <1>2 DEF GateInv, TypeOK, session, runtime, PCs
  <1>4. Moves(t, "publishing") /\ UNCHANGED <<claimed, slot, engine, stale>>
    BY <1>1, <1>2 DEF Moves, session, runtime, GateInv, TypeOK
  <1>5. Kinded(t)' /\ HasGvl(t)' /\ HasGate(t)'
    BY <1>1, <1>2, <1>3 DEF Kinded, HasGvl, HasGate, InMLX, Dropping, Served, runtime
  <1>6. (Owns(t)' <=> Owns(t)) /\ (Owns(t) => (pc[t] \in InMLX <=> "publishing" \in InMLX))
    BY <1>1, <1>2, <1>3 DEF Owns, InMLX, Dropping, Served
  <1> QED  BY <1>1, <1>3, <1>4, <1>5, <1>6, OnlyMoves

LEMMA LetGoKeeps == ASSUME NEW t \in Threads, GateInv, LetGo(t) PROVE GateInv'
  <1>1. /\ pc[t] = "let go" /\ pc' = [pc EXCEPT ![t] = "release"] /\ gvl' \in {t, None}
        /\ UNCHANGED <<kind, target, tries, session, runtime>>
    BY DEF LetGo, To
  <1>2. /\ Kinded(t) /\ gvl = t /\ kind[t] \notin {"none", "open"}
    BY <1>1 DEF GateInv, Local, Kinded, HasGvl, HasGate, InMLX, Dropping, Served
  <1>3. TypeOK' /\ pc'[t] = "release" /\ "release" \in PCs
    BY <1>1, <1>2 DEF GateInv, TypeOK, session, runtime, PCs
  <1>4. Moves(t, "release") /\ UNCHANGED <<claimed, slot, engine, stale>>
    BY <1>1, <1>2 DEF Moves, session, runtime, GateInv, TypeOK
  <1>5. Kinded(t)' /\ HasGvl(t)' /\ HasGate(t)'
    BY <1>1, <1>2, <1>3 DEF Kinded, HasGvl, HasGate, InMLX, Dropping, Served, runtime
  <1>6. (Owns(t)' <=> Owns(t)) /\ (Owns(t) => (pc[t] \in InMLX <=> "release" \in InMLX))
    BY <1>1, <1>2, <1>3 DEF Owns, InMLX, Dropping, Served
  <1> QED  BY <1>1, <1>3, <1>4, <1>5, <1>6, OnlyMoves

LEMMA ReleaseKeeps == ASSUME NEW t \in Threads, GateInv, Release(t) PROVE GateInv'
  <1>1. /\ pc[t] = "release" /\ pc' = [pc EXCEPT ![t] = "freeing"] /\ gate = None /\ gate' = t
        /\ ~child
        /\ UNCHANGED <<kind, target, tries, gvl, session, poisoned, child>>
    BY DEF Release, To
  <1>2. /\ Kinded(t) /\ kind[t] \notin {"none", "open"}
    BY <1>1 DEF GateInv, Local, Kinded, HasGvl, HasGate, InMLX, Dropping, Served
  <1>3. TypeOK' /\ pc'[t] = "freeing" /\ "freeing" \in PCs
    BY <1>1, <1>2 DEF GateInv, TypeOK, session, runtime, PCs
  <1>4. Moves(t, "freeing") /\ UNCHANGED <<claimed, slot, engine, stale>>
    BY <1>1, <1>2 DEF Moves, session, runtime, GateInv, TypeOK
  <1>5. Kinded(t)' /\ HasGvl(t)' /\ HasGate(t)'
    BY <1>1, <1>2, <1>3 DEF Kinded, HasGvl, HasGate, InMLX, Dropping, Served, runtime
  <1>6. (Owns(t)' <=> Owns(t)) /\ (Owns(t) => (pc[t] \in InMLX <=> "freeing" \in InMLX))
    BY <1>1, <1>2, <1>3 DEF Owns, InMLX, Dropping, Served
  <1> QED  BY <1>1, <1>3, <1>4, <1>5, <1>6, OnlyMoves

LEMMA LookKeeps == ASSUME NEW t \in Threads, GateInv, Look(t) PROVE GateInv'
  <1>1. /\ pc[t] = "watch" /\ pc' = [pc EXCEPT ![t] = "copying"]
        /\ snapLock' = [snapLock EXCEPT ![target[t]] = t]
        /\ UNCHANGED <<kind, target, tries, gvl, claimed, slot, slotLock, engine, stale, runtime>>
    BY DEF Look, To
  <1>2. /\ Kinded(t) /\ kind[t] # "none"
    BY <1>1 DEF GateInv, Local, Kinded, HasGvl, HasGate, InMLX, Dropping, Served
  <1>3. TypeOK' /\ pc'[t] = "copying" /\ "copying" \in PCs
    BY <1>1, <1>2 DEF GateInv, TypeOK, session, runtime, PCs
  <1>4. Moves(t, "copying") /\ UNCHANGED <<claimed, slot, engine, stale>>
    BY <1>1, <1>2 DEF Moves, session, runtime, GateInv, TypeOK
  <1>5. Kinded(t)' /\ HasGvl(t)' /\ HasGate(t)'
    BY <1>1, <1>2, <1>3 DEF Kinded, HasGvl, HasGate, InMLX, Dropping, Served, runtime
  <1>6. (Owns(t)' <=> Owns(t)) /\ (Owns(t) => (pc[t] \in InMLX <=> "copying" \in InMLX))
    BY <1>1, <1>2, <1>3 DEF Owns, InMLX, Dropping, Served
  <1> QED  BY <1>1, <1>3, <1>4, <1>5, <1>6, OnlyMoves

LEMMA CopyingKeeps == ASSUME NEW t \in Threads, GateInv, Copying(t) PROVE GateInv'
  <1>1. /\ pc[t] = "copying" /\ pc' = [pc EXCEPT ![t] = "return"]
        /\ snapLock' = [snapLock EXCEPT ![target[t]] = None]
        /\ UNCHANGED <<kind, target, tries, gvl, claimed, slot, slotLock, engine, stale, runtime>>
    BY DEF Copying, To
  <1>2. /\ Kinded(t) /\ kind[t] # "none"
    BY <1>1 DEF GateInv, Local, Kinded, HasGvl, HasGate, InMLX, Dropping, Served
  <1>3. TypeOK' /\ pc'[t] = "return" /\ "return" \in PCs
    BY <1>1, <1>2 DEF GateInv, TypeOK, session, runtime, PCs
  <1>4. Moves(t, "return") /\ UNCHANGED <<claimed, slot, engine, stale>>
    BY <1>1, <1>2 DEF Moves, session, runtime, GateInv, TypeOK
  <1>5. Kinded(t)' /\ HasGvl(t)' /\ HasGate(t)'
    BY <1>1, <1>2, <1>3 DEF Kinded, HasGvl, HasGate, InMLX, Dropping, Served, runtime
  <1>6. (Owns(t)' <=> Owns(t)) /\ (Owns(t) => (pc[t] \in InMLX <=> "return" \in InMLX))
    BY <1>1, <1>2, <1>3 DEF Owns, InMLX, Dropping, Served
  <1> QED  BY <1>1, <1>3, <1>4, <1>5, <1>6, OnlyMoves

LEMMA AskingKeeps == ASSUME NEW t \in Threads, GateInv, Asking(t) PROVE GateInv'
  <1>1. /\ pc[t] = "asking" /\ pc' = [pc EXCEPT ![t] = "return"]
        /\ slotLock' = [slotLock EXCEPT ![target[t]] = None]
        /\ UNCHANGED <<kind, target, tries, gvl, claimed, slot, snapLock, engine, stale, runtime>>
    BY DEF Asking, To
  <1>2. /\ Kinded(t) /\ kind[t] # "none"
    BY <1>1 DEF GateInv, Local, Kinded, HasGvl, HasGate, InMLX, Dropping, Served
  <1>3. TypeOK' /\ pc'[t] = "return" /\ "return" \in PCs
    BY <1>1, <1>2 DEF GateInv, TypeOK, session, runtime, PCs
  <1>4. Moves(t, "return") /\ UNCHANGED <<claimed, slot, engine, stale>>
    BY <1>1, <1>2 DEF Moves, session, runtime, GateInv, TypeOK
  <1>5. Kinded(t)' /\ HasGvl(t)' /\ HasGate(t)'
    BY <1>1, <1>2, <1>3 DEF Kinded, HasGvl, HasGate, InMLX, Dropping, Served, runtime
  <1>6. (Owns(t)' <=> Owns(t)) /\ (Owns(t) => (pc[t] \in InMLX <=> "return" \in InMLX))
    BY <1>1, <1>2, <1>3 DEF Owns, InMLX, Dropping, Served
  <1> QED  BY <1>1, <1>3, <1>4, <1>5, <1>6, OnlyMoves

LEMMA ResumeKeeps == ASSUME NEW t \in Threads, GateInv, Resume(t) PROVE GateInv'
  <1> DEFINE q == AfterRefusal(t)
  <1>1. /\ pc[t] = "resume" /\ pc' = [pc EXCEPT ![t] = q] /\ gvl = None /\ gvl' = t
        /\ UNCHANGED <<kind, target, tries, session, runtime>>
    BY DEF Resume, To
  <1>2. /\ Kinded(t) /\ q \in {"gate", "take", "enter"}
        /\ kind[t] \in CASE q = "gate" -> {"open"} [] q = "take" -> Served
                         [] OTHER -> {"open", "work", "read"}
        /\ q = "enter" => tries[t] < Attempts
    BY <1>1 DEF GateInv, Local, Kinded, AfterRefusal, Body, Served
  <1> HIDE DEF q
  <1>3. TypeOK' /\ pc'[t] = q /\ q \in PCs
    BY <1>1, <1>2 DEF GateInv, TypeOK, session, runtime, PCs
  <1>4. Moves(t, q) /\ UNCHANGED <<claimed, slot, engine, stale>>
    BY <1>1, <1>2 DEF Moves, session, runtime
  <1>5. Kinded(t)' /\ HasGvl(t)' /\ HasGate(t)'
    BY <1>1, <1>2, <1>3 DEF Kinded, HasGvl, HasGate, InMLX, Dropping, Served
  <1>6. ~Owns(t) /\ ~Owns(t)'
    BY <1>1, <1>2, <1>3 DEF Owns, InMLX, Dropping, Served
  <1> QED  BY <1>1, <1>2, <1>3, <1>4, <1>5, <1>6, OnlyMoves

LEMMA TakeKeeps == ASSUME NEW t \in Threads, GateInv, Take(t) PROVE GateInv'
  <1>1. PICK q \in {"taking", "busy"} : pc' = [pc EXCEPT ![t] = q]
    BY DEF Take, To
  <1>2. /\ pc[t] = "take" /\ slotLock' \in {slotLock, [slotLock EXCEPT ![target[t]] = t]}
        /\ UNCHANGED <<kind, target, tries, gvl, claimed, slot, snapLock, engine, stale, runtime>>
    BY DEF Take, To
  <1>3. Kinded(t) /\ kind[t] \in Served
    BY <1>2 DEF GateInv, Local, Kinded
  <1>4. TypeOK' /\ pc'[t] = q /\ q \in PCs
    BY <1>1, <1>2 DEF GateInv, TypeOK, runtime, PCs
  <1>5. Moves(t, q)
    BY <1>1, <1>2 DEF Moves, runtime
  <1>6. Kinded(t)' /\ HasGvl(t)' /\ HasGate(t)'
    BY <1>1, <1>2, <1>3, <1>4 DEF Kinded, HasGvl, HasGate, InMLX, Dropping, Served
  <1>7. ~Owns(t) /\ ~Owns(t)'
    BY <1>1, <1>2, <1>4 DEF Owns, InMLX, Dropping
  <1> QED  BY <1>1, <1>2, <1>4, <1>5, <1>6, <1>7, OnlyMoves

LEMMA EnterGateKeeps == ASSUME NEW t \in Threads, GateInv, EnterGate(t) PROVE GateInv'
  <1>1. PICK q \in {"inside", "return", "publish"} :
            /\ pc' = [pc EXCEPT ![t] = q]
            /\ q = "return" => kind[t] = "open"
            /\ q = "publish" => kind[t] # "open"
            /\ q = "inside" => ~child /\ gate = None /\ gate' = t
            /\ q # "inside" => gate' = gate
    BY DEF EnterGate, To, AfterRefused
  <1>2. pc[t] = "gate" /\ UNCHANGED <<kind, target, tries, gvl, session, poisoned, child>>
    BY DEF EnterGate, To
  <1>3. Kinded(t) /\ kind[t] \in {"open", "work"}
    BY <1>2 DEF GateInv, Local, Kinded
  <1>4. TypeOK' /\ pc'[t] = q /\ q \in PCs
    BY <1>1, <1>2 DEF GateInv, TypeOK, session, PCs
  <1>5. Moves(t, q) /\ UNCHANGED <<claimed, slot, engine, stale>>
    BY <1>1, <1>2 DEF Moves, session
  <1>6. Kinded(t)' /\ HasGvl(t)' /\ HasGate(t)'
    BY <1>1, <1>2, <1>3, <1>4 DEF Kinded, HasGvl, HasGate, InMLX, Dropping, Served
  <1>7. (Owns(t)' <=> Owns(t)) /\ (Owns(t) => (pc[t] \in InMLX <=> q \in InMLX))
    BY <1>1, <1>2, <1>3, <1>4 DEF Owns, InMLX, Dropping, Served
  <1> QED  BY <1>1, <1>2, <1>4, <1>5, <1>6, <1>7, OnlyMoves

LEMMA PanicsKeeps == ASSUME NEW t \in Threads, GateInv, Panics(t) PROVE GateInv'
  <1>1. PICK q \in {"return", "poison"} :
            pc' = [pc EXCEPT ![t] = q] /\ (q = "return" <=> kind[t] = "open")
    BY DEF Panics, To
  <1>2. /\ pc[t] = "inside" /\ gate' = None /\ poisoned' = TRUE
        /\ UNCHANGED <<kind, target, tries, gvl, session, child>>
    BY DEF Panics, To
  <1>3. Kinded(t) /\ kind[t] \in {"open", "work"} /\ gate = t
    BY <1>2 DEF GateInv, Local, Kinded, HasGate
  <1>4. TypeOK' /\ pc'[t] = q /\ q \in PCs
    BY <1>1, <1>2 DEF GateInv, TypeOK, session, PCs
  <1>5. Moves(t, q) /\ UNCHANGED <<claimed, slot, engine, stale>>
    BY <1>1, <1>2, <1>3 DEF Moves, session
  <1>6. Kinded(t)' /\ HasGvl(t)' /\ HasGate(t)'
    BY <1>1, <1>2, <1>3, <1>4 DEF Kinded, HasGvl, HasGate, InMLX, Dropping, Served
  <1>7. (Owns(t)' <=> Owns(t)) /\ (Owns(t) => (pc[t] \in InMLX <=> q \in InMLX))
    BY <1>1, <1>2, <1>3, <1>4 DEF Owns, InMLX, Dropping, Served
  <1> QED  BY <1>1, <1>2, <1>4, <1>5, <1>6, <1>7, OnlyMoves

LEMMA PutBackKeeps == ASSUME NEW t \in Threads, GateInv, PutBack(t) PROVE GateInv'
  <1>1. PICK q \in {"poisoning", "putting back"} :
            pc' = [pc EXCEPT ![t] = q] /\ (q = "poisoning" <=> pc[t] = "poison")
    BY DEF PutBack, To
  <1>2. /\ pc[t] \in {"put back", "poison"} /\ slotLock' = [slotLock EXCEPT ![target[t]] = t]
        /\ UNCHANGED <<kind, target, tries, gvl, claimed, slot, snapLock, engine, stale, runtime>>
    BY DEF PutBack, To
  <1>3. Kinded(t) /\ kind[t] \in Served
    BY <1>2 DEF GateInv, Local, Kinded, InMLX
  <1>4. TypeOK' /\ pc'[t] = q /\ q \in PCs
    BY <1>1, <1>2 DEF GateInv, TypeOK, runtime, PCs
  <1>5. Moves(t, q)
    BY <1>1, <1>2 DEF Moves, runtime
  <1>6. Kinded(t)' /\ HasGvl(t)' /\ HasGate(t)'
    BY <1>1, <1>2, <1>3, <1>4 DEF Kinded, HasGvl, HasGate, InMLX, Dropping, Served
  <1>7. (Owns(t)' <=> Owns(t)) /\ (Owns(t) => (pc[t] \in InMLX <=> q \in InMLX))
    BY <1>1, <1>2, <1>3, <1>4 DEF Owns, InMLX, Dropping, Served
  <1> QED  BY <1>1, <1>2, <1>4, <1>5, <1>6, <1>7, OnlyMoves

-----------------------------------------------------------------------------
(* Taking an engine out of its slot, and a slot that has none to take.     *)

LEMMA NotTaken ==
    ASSUME NEW t \in Threads, GateInv, NEW next, NEW taken, TakeLeaving(t, next, taken),
           pc[t] \in {"taking", "closing"}, slot[target[t]] # "ready"
    PROVE  GateInv'
  <1>1. Kinded(t) /\ target[t] \in Sessions /\ kind[t] \notin {"none", "open"}
    BY DEF GateInv, Local, Kinded, Dropping, Served
  <1>2. PICK q \in {"busy", "return"} : pc' = [pc EXCEPT ![t] = q]
    BY DEF TakeLeaving, To
  <1>3. slot' = slot /\ engine' = engine
    BY <1>1 DEF TakeLeaving, Leaves, GateInv, TypeOK
  <1>4. /\ slotLock' = [slotLock EXCEPT ![target[t]] = None]
        /\ UNCHANGED <<kind, target, tries, gvl, claimed, snapLock, stale, runtime>>
    BY DEF TakeLeaving, To
  <1>5. TypeOK' /\ pc'[t] = q /\ q \in PCs
    BY <1>2, <1>3, <1>4 DEF GateInv, TypeOK, runtime, PCs
  <1>6. Moves(t, q)
    BY <1>2, <1>4 DEF Moves, runtime
  <1>7. Kinded(t)' /\ HasGvl(t)' /\ HasGate(t)'
    BY <1>1, <1>2, <1>4, <1>5 DEF Kinded, HasGvl, HasGate, InMLX, Dropping, Served
  <1>8. ~Owns(t) /\ ~Owns(t)'
    BY <1>2, <1>5 DEF Owns, InMLX, Dropping
  <1> QED  BY <1>2, <1>3, <1>4, <1>5, <1>6, <1>7, <1>8, OnlyMoves

LEMMA Taken ==
    ASSUME NEW t \in Threads, GateInv, NEW next, NEW taken, TakeLeaving(t, next, taken),
           slot[target[t]] = "ready",
           \/ pc[t] = "taking" /\ next = "running"
                /\ taken = (IF kind[t] = "work" THEN "gate" ELSE "publish")
           \/ pc[t] = "closing" /\ next = "closed" /\ taken = "let go"
    PROVE  GateInv'
  <1> DEFINE s == target[t]
  <1>1. /\ Kinded(t) /\ HasGvl(t) /\ Claims(t) /\ s \in Sessions /\ kind[t] \notin {"none", "open"}
        /\ pc[t] = "taking" => kind[t] \in Served
    BY DEF GateInv, Local, Kinded, Dropping, Served
  <1>2. /\ pc' = [pc EXCEPT ![t] = taken] /\ slot' = [slot EXCEPT ![s] = next]
        /\ engine' = [engine EXCEPT ![s] = t] /\ slotLock' = [slotLock EXCEPT ![s] = None]
        /\ UNCHANGED <<kind, target, tries, gvl, claimed, snapLock, stale, runtime>>
    BY <1>1 DEF TakeLeaving, To, Leaves
  <1>3. taken \in {"gate", "publish", "let go"} /\ next \in {"running", "closed"}
    OBVIOUS
  <1> HIDE DEF s
  <1>4. TypeOK' /\ pc'[t] = taken /\ taken \in PCs
    BY <1>1, <1>2, <1>3 DEF GateInv, TypeOK, runtime, PCs
  <1>5. Moves(t, taken)
    BY <1>2 DEF Moves, runtime
  <1>6. slot'[s] = next /\ engine'[s] = t
    BY <1>1, <1>2 DEF GateInv, TypeOK
  <1>7. Owns(t)' /\ (taken \in InMLX <=> next = "running")
    BY <1>1, <1>2, <1>3, <1>4 DEF Owns, InMLX, Dropping, Served
  <1>8. Kinded(t)' /\ HasGvl(t)' /\ HasGate(t)'
    BY <1>1, <1>2, <1>4 DEF Kinded, HasGvl, HasGate, InMLX, Dropping, Served
  <1>9. Holds(t)' /\ Opening(t)'
    <2>1. target'[t] = s /\ kind'[t] # "open"
      BY <1>1, <1>2 DEF s
    <2>2. slot'[s] \in IF pc'[t] \in InMLX THEN {"running"} ELSE {"poisoned", "closed", "none"}
      BY <1>3, <1>4, <1>6, <1>7
    <2> QED  BY <1>6, <2>1, <2>2 DEF Holds, Opening
  <1>a. Published(t)' /\ Claims(t)'
    BY <1>1, <1>2, <1>3, <1>4 DEF Published, Claims, s
  <1>b. Local(t)'
    BY <1>3, <1>4, <1>8, <1>9, <1>a DEF Local
  <1>c. engine[s] = "slot"
    BY <1>1 DEF GateInv, EngineInOnePlace, s
  <1>d. \A r \in Sessions \ {s} :
            slot'[r] = slot[r] /\ engine'[r] = engine[r] /\ stale'[r] = stale[r]
    BY <1>2 DEF GateInv, TypeOK
  <1>e. t # "slot" /\ t # "leaked" /\ (taken \in InMLX => taken \in InRun)
    BY ThreadsAssumption DEF InMLX, InRun
  <1>f. target[t] = s
    BY DEF s
  <1> QED  BY ZenonT(40), <1>1, <1>2, <1>3, <1>4, <1>5, <1>6, <1>7, <1>b, <1>c, <1>d, <1>e, <1>f,
              MovesAndChanges

LEMMA TakingKeeps == ASSUME NEW t \in Threads, GateInv, Taking(t) PROVE GateInv'
  BY NotTaken, Taken DEF Taking

LEMMA ClosingKeeps == ASSUME NEW t \in Threads, GateInv, Closing(t) PROVE GateInv'
  BY NotTaken, Taken DEF Closing


-----------------------------------------------------------------------------
(* Working on the engine it took, and what becomes of that engine.         *)

LEMMA WorksKeeps == ASSUME NEW t \in Threads, GateInv, Works(t) PROVE GateInv'
  <1> DEFINE s == target[t]
  <1>1. /\ pc[t] = "inside" /\ pc' = [pc EXCEPT ![t] = "publish"]
        /\ UNCHANGED <<kind, target, tries, gvl, claimed, slot, slotLock, snapLock, engine,
                       poisoned, child>>
        /\ gate' = None /\ kind[t] = "work"
        /\ \E moved \in BOOLEAN : stale' = [stale EXCEPT ![s] = moved]
    BY DEF Works, To, AfterWork
  <1>2. /\ Local(t) /\ s \in Sessions /\ target[t] = s /\ gate = t
        /\ engine[s] = t /\ slot[s] = "running"
    BY <1>1
    DEF GateInv, Local, Kinded, HasGate, Holds, Opening, Published, Owns, InMLX, Dropping, Served
  <1> HIDE DEF s
  <1>3. TypeOK' /\ pc'[t] = "publish" /\ "publish" \in PCs
    BY <1>1, <1>2 DEF GateInv, TypeOK, runtime, PCs
  <1>4. Moves(t, "publish")
    BY <1>1, <1>2 DEF Moves, runtime
  <1>5. engine'[s] = t /\ slot'[s] = "running"
    BY <1>1, <1>2 DEF GateInv, TypeOK, EngineInOnePlace, FreshWhenReady
  <1>6. \A r \in Sessions \ {s} :
            slot'[r] = slot[r] /\ engine'[r] = engine[r] /\ stale'[r] = stale[r]
    BY <1>1, <1>2 DEF GateInv, TypeOK
  <1>7. Kinded(t)' /\ HasGvl(t)' /\ HasGate(t)' /\ Claims(t)'
    BY <1>1, <1>2, <1>3 DEF Local, Kinded, HasGvl, HasGate, Claims, InMLX, Dropping, Served
  <1>8. Holds(t)' /\ Opening(t)' /\ Published(t)'
    BY <1>1, <1>2, <1>3, <1>5 DEF Holds, Opening, Published, Owns, InMLX, Dropping, Served
  <1>9. Local(t)' /\ t \notin {"none", "slot", "leaked"}
    BY <1>3, <1>7, <1>8, ThreadsAssumption DEF Local
  <1>a. Owns(t)' /\ "publish" \in InRun
    BY <1>1, <1>2, <1>3 DEF Owns, InMLX, Dropping, Served, InRun
  <1> QED  BY <1>1, <1>2, <1>3, <1>4, <1>5, <1>6, <1>9, <1>a, MovesAndChanges

LEMMA BuildsKeeps == ASSUME NEW t \in Threads, GateInv, Builds(t) PROVE GateInv'
  <1> DEFINE s == target[t]
  <1>1. /\ pc[t] = "inside" /\ pc' = [pc EXCEPT ![t] = "return"]
        /\ UNCHANGED <<kind, target, tries, gvl, claimed, slot, slotLock, snapLock, stale,
                       poisoned, child>>
        /\ gate' = None /\ kind[t] = "open"
        /\ \E e \in {t, engine[s]} : engine' = [engine EXCEPT ![s] = e]
    BY DEF Builds, To, AfterWork
  <1>2. /\ Local(t) /\ s \in Sessions /\ target[t] = s /\ gate = t
        /\ engine[s] = "none" /\ slot[s] = "none"
    BY <1>1
    DEF GateInv, Local, Kinded, HasGate, Holds, Opening, Published, Owns, InMLX, Dropping, Served
  <1> HIDE DEF s
  <1>e. engine' \in [Sessions -> {"none", "slot", "leaked"} \cup Threads]
    BY <1>1, <1>2 DEF GateInv, TypeOK
  <1>3. TypeOK' /\ pc'[t] = "return" /\ "return" \in PCs
    BY <1>e, <1>1, <1>2 DEF GateInv, TypeOK, runtime, PCs
  <1>4. Moves(t, "return")
    BY <1>1, <1>2 DEF Moves, runtime
  <1>5. engine'[s] \in {t, "none"} /\ slot'[s] = "none"
    BY <1>1, <1>2 DEF GateInv, TypeOK, EngineInOnePlace, FreshWhenReady
  <1>6. \A r \in Sessions \ {s} :
            slot'[r] = slot[r] /\ engine'[r] = engine[r] /\ stale'[r] = stale[r]
    BY <1>1, <1>2 DEF GateInv, TypeOK
  <1>7. Kinded(t)' /\ HasGvl(t)' /\ HasGate(t)' /\ Claims(t)'
    BY <1>1, <1>2, <1>3 DEF Local, Kinded, HasGvl, HasGate, Claims, InMLX, Dropping, Served
  <1>8. Holds(t)' /\ Opening(t)' /\ Published(t)'
    BY <1>1, <1>2, <1>3, <1>5 DEF Holds, Opening, Published, Owns, InMLX, Dropping, Served
  <1>9. Local(t)' /\ t \notin {"none", "slot", "leaked"}
    BY <1>3, <1>7, <1>8, ThreadsAssumption DEF Local
  <1> QED  BY <1>1, <1>2, <1>3, <1>4, <1>5, <1>6, <1>9, MovesAndChanges

LEMMA PublishingKeeps == ASSUME NEW t \in Threads, GateInv, Publishing(t) PROVE GateInv'
  <1> DEFINE s == target[t]
  <1>1. /\ pc[t] = "publishing" /\ pc' = [pc EXCEPT ![t] = "put back"]
        /\ UNCHANGED <<kind, target, tries, gvl, claimed, slot, slotLock, engine, runtime>>
        /\ snapLock' = [snapLock EXCEPT ![s] = None]
        /\ stale' = [stale EXCEPT ![s] = FALSE]
    BY DEF Publishing, To, AfterWork
  <1>2. /\ Local(t) /\ s \in Sessions /\ target[t] = s /\ kind[t] \in Served
        /\ engine[s] = t /\ slot[s] = "running"
    BY <1>1
    DEF GateInv, Local, Kinded, HasGate, Holds, Opening, Published, Owns, InMLX, Dropping, Served
  <1> HIDE DEF s
  <1>3. TypeOK' /\ pc'[t] = "put back" /\ "put back" \in PCs
    BY <1>1, <1>2 DEF GateInv, TypeOK, runtime, PCs
  <1>4. Moves(t, "put back")
    BY <1>1, <1>2 DEF Moves, runtime
  <1>5. engine'[s] = t /\ slot'[s] = "running" /\ ~stale'[s]
    BY <1>1, <1>2 DEF GateInv, TypeOK, EngineInOnePlace, FreshWhenReady
  <1>6. \A r \in Sessions \ {s} :
            slot'[r] = slot[r] /\ engine'[r] = engine[r] /\ stale'[r] = stale[r]
    BY <1>1, <1>2 DEF GateInv, TypeOK
  <1>7. Kinded(t)' /\ HasGvl(t)' /\ HasGate(t)' /\ Claims(t)'
    BY <1>1, <1>2, <1>3 DEF Local, Kinded, HasGvl, HasGate, Claims, InMLX, Dropping, Served
  <1>8. Holds(t)' /\ Opening(t)' /\ Published(t)'
    BY <1>1, <1>2, <1>3, <1>5 DEF Holds, Opening, Published, Owns, InMLX, Dropping, Served
  <1>9. Local(t)' /\ t \notin {"none", "slot", "leaked"}
    BY <1>3, <1>7, <1>8, ThreadsAssumption DEF Local
  <1>a. Owns(t)' /\ "put back" \in InRun
    BY <1>1, <1>2, <1>3 DEF Owns, InMLX, Dropping, Served, InRun
  <1> QED  BY <1>1, <1>2, <1>3, <1>4, <1>5, <1>6, <1>9, <1>a, MovesAndChanges

LEMMA PuttingBackKeeps == ASSUME NEW t \in Threads, GateInv, PuttingBack(t) PROVE GateInv'
  <1> DEFINE s == target[t]
  <1>1. /\ pc[t] = "putting back" /\ pc' = [pc EXCEPT ![t] = "return"]
        /\ UNCHANGED <<kind, target, tries, gvl, claimed, snapLock, stale, runtime>>
        /\ slotLock' = [slotLock EXCEPT ![s] = None]
        /\ slot' = [slot EXCEPT ![s] = "ready"]
        /\ engine' = [engine EXCEPT ![s] = "slot"]
    BY DEF PuttingBack, To, AfterWork
  <1>2. /\ Local(t) /\ s \in Sessions /\ target[t] = s /\ kind[t] \in Served
        /\ engine[s] = t /\ ~stale[s]
    BY <1>1
    DEF GateInv, Local, Kinded, HasGate, Holds, Opening, Published, Owns, InMLX, Dropping, Served
  <1> HIDE DEF s
  <1>3. TypeOK' /\ pc'[t] = "return" /\ "return" \in PCs
    BY <1>1, <1>2 DEF GateInv, TypeOK, runtime, PCs
  <1>4. Moves(t, "return")
    BY <1>1, <1>2 DEF Moves, runtime
  <1>5. engine'[s] = "slot" /\ slot'[s] = "ready" /\ ~stale'[s]
    BY ZenonT(40), <1>1, <1>2 DEF GateInv, TypeOK, EngineInOnePlace, FreshWhenReady
  <1>6. \A r \in Sessions \ {s} :
            slot'[r] = slot[r] /\ engine'[r] = engine[r] /\ stale'[r] = stale[r]
    BY <1>1, <1>2 DEF GateInv, TypeOK
  <1>7. Kinded(t)' /\ HasGvl(t)' /\ HasGate(t)' /\ Claims(t)'
    BY <1>1, <1>2, <1>3 DEF Local, Kinded, HasGvl, HasGate, Claims, InMLX, Dropping, Served
  <1>8. Holds(t)' /\ Opening(t)' /\ Published(t)'
    BY <1>1, <1>2, <1>3, <1>5 DEF Holds, Opening, Published, Owns, InMLX, Dropping, Served
  <1>9. Local(t)' /\ t \notin {"none", "slot", "leaked"}
    BY <1>3, <1>7, <1>8, ThreadsAssumption DEF Local
  <1> QED  BY <1>1, <1>2, <1>3, <1>4, <1>5, <1>6, <1>9, MovesAndChanges

LEMMA PoisoningKeeps == ASSUME NEW t \in Threads, GateInv, Poisoning(t) PROVE GateInv'
  <1> DEFINE s == target[t]
  <1>1. /\ pc[t] = "poisoning" /\ pc' = [pc EXCEPT ![t] = "release"]
        /\ UNCHANGED <<kind, target, tries, gvl, claimed, snapLock, engine, stale, runtime>>
        /\ slotLock' = [slotLock EXCEPT ![s] = None]
        /\ slot' = [slot EXCEPT ![s] = "poisoned"]
    BY DEF Poisoning, To, AfterWork
  <1>2. /\ Local(t) /\ s \in Sessions /\ target[t] = s /\ kind[t] \in Served
        /\ engine[s] = t /\ slot[s] = "running"
    BY <1>1
    DEF GateInv, Local, Kinded, HasGate, Holds, Opening, Published, Owns, InMLX, Dropping, Served
  <1> HIDE DEF s
  <1>3. TypeOK' /\ pc'[t] = "release" /\ "release" \in PCs
    BY <1>1, <1>2 DEF GateInv, TypeOK, runtime, PCs
  <1>4. Moves(t, "release")
    BY <1>1, <1>2 DEF Moves, runtime
  <1>5. engine'[s] = t /\ slot'[s] = "poisoned"
    BY <1>1, <1>2 DEF GateInv, TypeOK, EngineInOnePlace, FreshWhenReady
  <1>6. \A r \in Sessions \ {s} :
            slot'[r] = slot[r] /\ engine'[r] = engine[r] /\ stale'[r] = stale[r]
    BY <1>1, <1>2 DEF GateInv, TypeOK
  <1>7. Kinded(t)' /\ HasGvl(t)' /\ HasGate(t)' /\ Claims(t)'
    BY <1>1, <1>2, <1>3 DEF Local, Kinded, HasGvl, HasGate, Claims, InMLX, Dropping, Served
  <1>8. Holds(t)' /\ Opening(t)' /\ Published(t)'
    <2>1. kind'[t] # "open" /\ target'[t] = s /\ "release" \notin InMLX
      BY <1>1, <1>2 DEF InMLX, Served
    <2> QED  BY <1>3, <1>5, <2>1 DEF Holds, Opening, Published
  <1>9. Local(t)' /\ t \notin {"none", "slot", "leaked"}
    BY <1>3, <1>7, <1>8, ThreadsAssumption DEF Local
  <1>a. Owns(t)'
    BY <1>1, <1>2, <1>3 DEF Owns, InMLX, Dropping, Served, InRun
  <1> QED  BY <1>1, <1>2, <1>3, <1>4, <1>5, <1>6, <1>9, <1>a, MovesAndChanges

LEMMA ReleaseHereKeeps == ASSUME NEW t \in Threads, GateInv, ReleaseHere(t) PROVE GateInv'
  <1> DEFINE s == target[t]
  <1>1. /\ pc[t] = "release" /\ pc' = [pc EXCEPT ![t] = "return"]
        /\ UNCHANGED <<kind, target, tries, gvl, claimed, slot, slotLock, snapLock, stale, runtime>>
        /\ child /\ engine' = [engine EXCEPT ![s] = "leaked"]
    BY DEF ReleaseHere, To, AfterWork
  <1>2. /\ Local(t) /\ s \in Sessions /\ target[t] = s /\ kind[t] \notin {"none", "open"}
        /\ engine[s] = t /\ slot[s] \in {"poisoned", "closed", "none"}
    BY <1>1
    DEF GateInv, Local, Kinded, HasGate, Holds, Opening, Published, Owns, InMLX, Dropping, Served
  <1> HIDE DEF s
  <1>3. TypeOK' /\ pc'[t] = "return" /\ "return" \in PCs
    BY <1>1, <1>2 DEF GateInv, TypeOK, runtime, PCs
  <1>4. Moves(t, "return")
    BY <1>1, <1>2 DEF Moves, runtime
  <1>5. engine'[s] = "leaked" /\ slot'[s] = slot[s]
    BY <1>1, <1>2 DEF GateInv, TypeOK, EngineInOnePlace, FreshWhenReady
  <1>6. \A r \in Sessions \ {s} :
            slot'[r] = slot[r] /\ engine'[r] = engine[r] /\ stale'[r] = stale[r]
    BY <1>1, <1>2 DEF GateInv, TypeOK
  <1>7. Kinded(t)' /\ HasGvl(t)' /\ HasGate(t)' /\ Claims(t)'
    BY <1>1, <1>2, <1>3 DEF Local, Kinded, HasGvl, HasGate, Claims, InMLX, Dropping, Served
  <1>8. Holds(t)' /\ Opening(t)' /\ Published(t)'
    BY <1>1, <1>2, <1>3, <1>5 DEF Holds, Opening, Published, Owns, InMLX, Dropping, Served
  <1>9. Local(t)' /\ t \notin {"none", "slot", "leaked"}
    BY <1>3, <1>7, <1>8, ThreadsAssumption DEF Local
  <1> QED  BY <1>1, <1>2, <1>3, <1>4, <1>5, <1>6, <1>9, MovesAndChanges

LEMMA FreeingKeeps == ASSUME NEW t \in Threads, GateInv, Freeing(t) PROVE GateInv'
  <1> DEFINE s == target[t]
  <1>1. /\ pc[t] = "freeing" /\ pc' = [pc EXCEPT ![t] = "return"]
        /\ UNCHANGED <<kind, target, tries, gvl, claimed, slot, slotLock, snapLock, stale,
                       poisoned, child>>
        /\ gate' = None /\ engine' = [engine EXCEPT ![s] = "none"]
    BY DEF Freeing, To, AfterWork
  <1>2. /\ Local(t) /\ s \in Sessions /\ target[t] = s /\ gate = t /\ kind[t] \notin {"none", "open"}
        /\ engine[s] = t /\ slot[s] \in {"poisoned", "closed", "none"}
    BY <1>1
    DEF GateInv, Local, Kinded, HasGate, Holds, Opening, Published, Owns, InMLX, Dropping, Served
  <1> HIDE DEF s
  <1>3. TypeOK' /\ pc'[t] = "return" /\ "return" \in PCs
    BY <1>1, <1>2 DEF GateInv, TypeOK, runtime, PCs
  <1>4. Moves(t, "return")
    BY <1>1, <1>2 DEF Moves, runtime
  <1>5. engine'[s] = "none" /\ slot'[s] = slot[s]
    BY <1>1, <1>2 DEF GateInv, TypeOK, EngineInOnePlace, FreshWhenReady
  <1>6. \A r \in Sessions \ {s} :
            slot'[r] = slot[r] /\ engine'[r] = engine[r] /\ stale'[r] = stale[r]
    BY <1>1, <1>2 DEF GateInv, TypeOK
  <1>7. Kinded(t)' /\ HasGvl(t)' /\ HasGate(t)' /\ Claims(t)'
    BY <1>1, <1>2, <1>3 DEF Local, Kinded, HasGvl, HasGate, Claims, InMLX, Dropping, Served
  <1>8. Holds(t)' /\ Opening(t)' /\ Published(t)'
    BY <1>1, <1>2, <1>3, <1>5 DEF Holds, Opening, Published, Owns, InMLX, Dropping, Served
  <1>9. Local(t)' /\ t \notin {"none", "slot", "leaked"}
    BY <1>3, <1>7, <1>8, ThreadsAssumption DEF Local
  <1> QED  BY <1>1, <1>2, <1>3, <1>4, <1>5, <1>6, <1>9, MovesAndChanges

-----------------------------------------------------------------------------
(* A thread between calls has no session, no engine and no claim; it may   *)
(* begin on a session nobody uses, or on one it leaves as it is.           *)

LEMMA BetweenCalls ==
    ASSUME GateInv, NEW t \in Threads, pc[t] = "idle"
    PROVE  /\ kind[t] = "none" /\ target[t] = None /\ tries[t] = 0
           /\ \A s \in Sessions : engine[s] # t /\ claimed[s] # t
  <1>1. kind[t] = "none" /\ target[t] = None /\ tries[t] = 0
    BY DEF GateInv, Local, Kinded
  <1>2. \A s \in Sessions : target[t] # s
    BY <1>1, NoneAssumption
  <1> QED  BY <1>1, <1>2 DEF GateInv, HeldBy, ClaimedBy

LEMMA Begins ==
    ASSUME GateInv, NEW t \in Threads, NEW s \in Sessions, NEW k \in Kinds, NEW p \in PCs,
           Begin(t, k, s, p), TypeOK', Local(t)', UNCHANGED <<stale, runtime>>, p # "gone",
           \A r \in Sessions :
              /\ \A u \in Threads \ {t} : claimed[r] = u <=> claimed'[r] = u
              /\ claimed'[r] = t => r = s /\ k \in Served,
           \A r \in Sessions \ {s} : slot'[r] = slot[r] /\ engine'[r] = engine[r],
           \/ slot'[s] = slot[s] /\ engine'[s] = engine[s]
           \/ /\ Using(s) = {} /\ slot'[s] = "none"
              /\ \/ slot[s] = "ready" /\ engine'[s] = t /\ p = "release"
                 \/ slot[s] \notin {"ready", "running"} /\ engine'[s] = engine[s],
           slot'[s] = "none" => Using(s) = {}
    PROVE  GateInv'
  <1>1. /\ pc'[t] = p /\ kind'[t] = k /\ target'[t] = s /\ gvl = None /\ pc[t] = "idle"
        /\ \A u \in Threads \ {t} :
              pc'[u] = pc[u] /\ kind'[u] = kind[u] /\ target'[u] = target[u]
        /\ tries' = tries /\ child' = child /\ gate' = gate /\ stale' = stale
    BY DEF Begin, GateInv, TypeOK, runtime
  <1>2. target[t] = None /\ \A r \in Sessions : engine[r] # t
    BY <1>1, BetweenCalls
  <1>3. ASSUME NEW u \in Threads \ {t} PROVE Local(u)'
    <2>1. ASSUME Using(s) = {}
          PROVE  pc[u] = "gone" \/ (engine[s] # u /\ ~(kind[u] = "open" /\ target[u] = s))
      BY <2>1 DEF Using, GateInv, HeldBy
    <2>2. LeavesAlone(u)
      BY <1>1, <2>1, NoneAssumption DEF LeavesAlone
    <2> QED  BY <2>2, OthersKeep DEF GateInv
  <1>4. \A u \in Threads : Local(u)'
    BY <1>3
  <1>5. HeldBy'
    <2> SUFFICES ASSUME NEW r \in Sessions, NEW u \in Threads, engine'[r] = u
                 PROVE  /\ target'[u] = r
                        /\ \/ Owns(u)' \/ pc'[u] = "gone"
                           \/ pc'[u] = "return" /\ kind'[u] = "open"
      BY DEF HeldBy
    <2>1. CASE u = t
      <3>1. r = s /\ p = "release"
        BY <1>2, <2>1
      <3> QED  BY <1>1, <2>1, <3>1 DEF Owns, Dropping
    <2>2. CASE u # t
      <3>1. engine[r] = u
        BY <2>2
      <3> QED  BY <1>1, <2>2, <3>1 DEF GateInv, HeldBy, Owns
    <2> QED  BY <2>1, <2>2
  <1>6. ASSUME NEW r \in Sessions PROVE Using(r)' \subseteq Using(r) \cup (IF r = s THEN {t} ELSE {})
    BY <1>1 DEF Using
  <1>7. Alone'
    BY <1>6 DEF Alone, GateInv
  <1>8. ClaimedBy' /\ Leaked'
    <2>1. ClaimedBy'
      BY <1>1 DEF GateInv, ClaimedBy
    <2>2. t # "leaked"
      BY ThreadsAssumption
    <2>3. Leaked'
      BY <1>1, <2>2 DEF GateInv, Leaked
    <2> QED  BY <2>1, <2>3
  <1>9. FreshWhenReady'
    BY <1>1 DEF GateInv, FreshWhenReady
  <1>a. EngineInOnePlace'
    <2> SUFFICES ASSUME NEW r \in Sessions
                 PROVE  /\ slot'[r] = "ready" <=> engine'[r] = "slot"
                        /\ slot'[r] = "running" =>
                               \E u \in Threads : engine'[r] = u /\ target'[u] = r /\ pc'[u] \in InRun
      BY DEF EngineInOnePlace
    <2>1. slot[r] = "ready" <=> engine[r] = "slot"
      BY DEF GateInv, EngineInOnePlace
    <2>2. CASE slot'[r] = slot[r] /\ engine'[r] = engine[r]
      <3>1. ASSUME slot[r] = "running"
            PROVE  \E u \in Threads : engine[r] = u /\ target[u] = r /\ pc[u] \in InRun
        BY <3>1 DEF GateInv, EngineInOnePlace
      <3> QED  BY <1>1, <1>2, <2>1, <2>2, <3>1
    <2>3. CASE slot'[r] = "none" /\ (engine'[r] = t \/ (slot[r] # "ready" /\ engine'[r] = engine[r]))
      BY <2>1, <2>3, ThreadsAssumption
    <2>4. \/ slot'[r] = slot[r] /\ engine'[r] = engine[r]
          \/ slot'[r] = "none" /\ (engine'[r] = t \/ (slot[r] # "ready" /\ engine'[r] = engine[r]))
      <3>1. CASE r = s
        BY <3>1
      <3>2. CASE r # s
        BY <3>2
      <3> QED  BY <3>1, <3>2
    <2> QED  BY <2>2, <2>3, <2>4
  <1> QED  BY <1>4, <1>5, <1>7, <1>8, <1>9, <1>a DEF GateInv

LEMMA ClaimKeeps ==
    ASSUME NEW t \in Threads, NEW s \in Sessions, NEW k \in Served, GateInv, Claim(t, s, k)
    PROVE  GateInv'
  <1> DEFINE p == IF claimed[s] = None THEN "enter" ELSE "busy"
  <1>1. Begin(t, k, s, p) /\ slot[s] # "none" /\ k \in Kinds /\ p \in PCs \ {"gone"}
    BY DEF Claim, Served, Kinds, PCs
  <1>2. /\ claimed' = [claimed EXCEPT ![s] = IF @ = None THEN t ELSE @]
        /\ UNCHANGED <<slot, slotLock, snapLock, engine, stale, runtime>>
    BY DEF Claim
  <1>p. p \in {"enter", "busy"} /\ (p = "enter" <=> claimed[s] = None)
    OBVIOUS
  <1> HIDE DEF p
  <1>3. pc[t] = "idle" /\ pc'[t] = p /\ kind'[t] = k /\ target'[t] = s /\ tries' = tries /\ gvl' = t
    BY <1>1 DEF Begin, GateInv, TypeOK
  <1>4. tries[t] = 0 /\ \A r \in Sessions : claimed[r] # t
    BY <1>3, BetweenCalls
  <1>5. TypeOK'
    BY <1>1, <1>2 DEF Begin, GateInv, TypeOK, runtime
  <1>6. claimed'[s] = (IF claimed[s] = None THEN t ELSE claimed[s])
    BY <1>2 DEF GateInv, TypeOK
  <1>7. Kinded(t)' /\ HasGvl(t)' /\ HasGate(t)'
    <2>1. tries'[t] < Attempts
      BY <1>3, <1>4, AttemptsAssumption
    <2>2. kind'[t] \in Served /\ target'[t] \in Sessions
      BY <1>3
    <2> QED  BY <1>p, <1>3, <2>1, <2>2 DEF Kinded, HasGvl, HasGate, InMLX, Dropping, Served
  <1>8. Holds(t)' /\ Opening(t)' /\ Published(t)' /\ Claims(t)'
    BY <1>p, <1>3, <1>6 DEF Holds, Opening, Published, Claims, Owns, InMLX, Dropping, Served
  <1>9. Local(t)'
    BY <1>p, <1>3, <1>7, <1>8 DEF Local
  <1>a. \A r \in Sessions : /\ \A u \in Threads \ {t} : claimed[r] = u <=> claimed'[r] = u
                            /\ claimed'[r] = t => r = s /\ k \in Served
    BY <1>2, <1>4, NoneAssumption DEF GateInv, TypeOK
  <1> QED  BY <1>1, <1>2, <1>5, <1>9, <1>a, Begins

LEMMA OpenKeeps ==
    ASSUME NEW t \in Threads, NEW s \in Sessions, GateInv, Open(t, s) PROVE GateInv'
  <1>1. /\ Begin(t, "open", s, "enter") /\ slot[s] = "none" /\ Using(s) = {}
        /\ UNCHANGED <<session, runtime>> /\ "open" \in Kinds /\ "enter" \in PCs
    BY DEF Open, Kinds, PCs
  <1>2. /\ pc[t] = "idle" /\ pc'[t] = "enter" /\ kind'[t] = "open" /\ target'[t] = s
        /\ tries' = tries /\ gvl' = t
    BY <1>1 DEF Begin, GateInv, TypeOK
  <1>3. tries[t] = 0 /\ \A r \in Sessions : claimed[r] # t
    BY <1>2, BetweenCalls
  <1>4. TypeOK'
    BY <1>1 DEF Begin, GateInv, TypeOK, session, runtime
  <1>5. child \/ engine[s] = "none"
    <2>1. engine[s] \in {"none", "slot", "leaked"} \cup Threads
      BY DEF GateInv, TypeOK
    <2>2. engine[s] # "slot" /\ (engine[s] = "leaked" => child)
      BY <1>1 DEF GateInv, EngineInOnePlace, Leaked
    <2>3. ASSUME NEW u \in Threads, engine[s] = u PROVE child
      <3>1. target[u] = s
        BY <2>3 DEF GateInv, HeldBy
      <3>2. pc[u] = "gone"
        BY <1>1, <3>1 DEF Using
      <3> QED  BY <3>2 DEF GateInv, Local
    <2> QED  BY <2>1, <2>2, <2>3
  <1>6. Kinded(t)' /\ HasGvl(t)' /\ HasGate(t)'
    BY <1>2, <1>3, AttemptsAssumption DEF Kinded, HasGvl, HasGate, InMLX, Dropping, Served
  <1>7. Holds(t)' /\ Opening(t)' /\ Published(t)' /\ Claims(t)'
    BY <1>1, <1>2, <1>5
    DEF Holds, Opening, Published, Claims, Owns, InMLX, Dropping, Served, session, runtime
  <1>8. Local(t)'
    BY <1>2, <1>6, <1>7 DEF Local
  <1> QED  BY <1>1, <1>3, <1>4, <1>8, Begins DEF session

(* The calls that claim nothing and find a session there.                  *)
LEMMA JustBegins ==
    ASSUME NEW t \in Threads, NEW s \in Sessions, GateInv, NEW k \in {"close", "watch", "ask"},
           NEW p \in {"closing", "busy", "watch", "asking", "return"}, Begin(t, k, s, p),
           slot[s] # "none", slotLock' \in [Sessions -> Threads \cup {None}],
           UNCHANGED <<claimed, slot, snapLock, engine, stale, runtime>>
    PROVE  GateInv'
  <1>1. /\ pc[t] = "idle" /\ pc'[t] = p /\ kind'[t] = k /\ target'[t] = s
        /\ tries' = tries /\ gvl' = t /\ k \in Kinds /\ p \in PCs
    BY DEF Begin, GateInv, TypeOK, Kinds, PCs
  <1>2. tries[t] = 0 /\ \A r \in Sessions : claimed[r] # t
    BY <1>1, BetweenCalls
  <1>3. TypeOK'
    BY <1>1 DEF Begin, GateInv, TypeOK, runtime
  <1>4. Kinded(t)' /\ HasGvl(t)' /\ HasGate(t)'
    BY <1>1, <1>2 DEF Kinded, HasGvl, HasGate, InMLX, Dropping, Served
  <1>5. Holds(t)' /\ Opening(t)' /\ Published(t)' /\ Claims(t)'
    BY <1>1 DEF Holds, Opening, Published, Claims, Owns, InMLX, Dropping, Served
  <1>6. Local(t)'
    BY <1>1, <1>4, <1>5 DEF Local
  <1> QED  BY <1>1, <1>2, <1>3, <1>6, Begins

LEMMA CloseKeeps ==
    ASSUME NEW t \in Threads, NEW s \in Sessions, GateInv, Close(t, s) PROVE GateInv'
  <1>1. slotLock' \in [Sessions -> Threads \cup {None}]
    BY DEF Close, GateInv, TypeOK
  <1> QED  BY <1>1, JustBegins DEF Close

LEMMA WatchKeeps ==
    ASSUME NEW t \in Threads, NEW s \in Sessions, GateInv, Watch(t, s) PROVE GateInv'
  <1>1. slotLock' \in [Sessions -> Threads \cup {None}]
    BY DEF Watch, GateInv, TypeOK, session
  <1> QED  BY <1>1, JustBegins DEF Watch, session

LEMMA AskKeeps ==
    ASSUME NEW t \in Threads, NEW s \in Sessions, GateInv, Ask(t, s) PROVE GateInv'
  <1>1. slotLock' \in [Sessions -> Threads \cup {None}]
    BY DEF Ask, GateInv, TypeOK
  <1> QED  BY <1>1, JustBegins DEF Ask

LEMMA SweepKeeps ==
    ASSUME NEW t \in Threads, NEW s \in Sessions, GateInv, Sweep(t, s) PROVE GateInv'
  <1> DEFINE p == IF slot[s] = "ready" THEN "release" ELSE "return"
  <1>1. /\ Begin(t, "sweep", s, p) /\ slot[s] \in {"ready", "poisoned", "closed"}
        /\ Using(s) = {} /\ slot' = [slot EXCEPT ![s] = "none"]
        /\ engine' = [engine EXCEPT ![s] = IF slot[s] = "ready" THEN t ELSE @]
        /\ UNCHANGED <<claimed, slotLock, snapLock, stale, runtime>> /\ "sweep" \in Kinds
    BY DEF Sweep, Kinds
  <1>p. p \in {"release", "return"} /\ (p = "release" <=> slot[s] = "ready")
    OBVIOUS
  <1> HIDE DEF p
  <1>2. /\ pc[t] = "idle" /\ pc'[t] = p /\ kind'[t] = "sweep" /\ target'[t] = s
        /\ tries' = tries /\ gvl' = t /\ p \in PCs
    BY <1>1, <1>p DEF Begin, GateInv, TypeOK, PCs
  <1>3. tries[t] = 0 /\ \A r \in Sessions : claimed[r] # t
    BY <1>2, BetweenCalls
  <1>4. TypeOK'
    BY <1>1, <1>2 DEF Begin, GateInv, TypeOK, runtime
  <1>5. slot'[s] = "none" /\ engine'[s] = (IF slot[s] = "ready" THEN t ELSE engine[s])
    BY <1>1 DEF GateInv, TypeOK
  <1>6. Kinded(t)' /\ HasGvl(t)' /\ HasGate(t)'
    BY <1>p, <1>2, <1>3 DEF Kinded, HasGvl, HasGate, InMLX, Dropping, Served
  <1>7. Holds(t)' /\ Opening(t)' /\ Published(t)' /\ Claims(t)'
    BY <1>p, <1>2, <1>5 DEF Holds, Opening, Published, Claims, Owns, InMLX, Dropping, Served
  <1>8. Local(t)'
    BY <1>p, <1>2, <1>6, <1>7 DEF Local
  <1>9. \A r \in Sessions \ {s} : slot'[r] = slot[r] /\ engine'[r] = engine[r]
    BY <1>1 DEF GateInv, TypeOK
  <1> QED  BY <1>1, <1>p, <1>2, <1>3, <1>4, <1>5, <1>8, <1>9, Begins

-----------------------------------------------------------------------------
(* A call comes back and drops its claim; one that opened a session leaves *)
(* it there.                                                               *)

LEMMA ComesBack ==
    ASSUME GateInv, NEW t \in Threads, pc[t] \in {"check", "return", "busy"}, Idle(t),
           claimed' = Unclaimed(t), gvl \in {t, None}, UNCHANGED runtime, TypeOK',
           NEW s, s = target[t],
           \/ /\ UNCHANGED <<slot, engine, stale>>
              /\ ~(pc[t] \in {"return", "busy"} /\ kind[t] = "open" /\ engine[s] = t)
           \/ /\ s \in Sessions /\ engine[s] = t
              /\ slot' = [slot EXCEPT ![s] = "ready"]
              /\ engine' = [engine EXCEPT ![s] = "slot"]
              /\ stale' = [stale EXCEPT ![s] = FALSE]
    PROVE  GateInv'
  <1>1. /\ pc'[t] = "idle" /\ kind'[t] = "none" /\ target'[t] = None /\ tries'[t] = 0
        /\ \A u \in Threads \ {t} : /\ pc'[u] = pc[u] /\ kind'[u] = kind[u]
                                    /\ target'[u] = target[u] /\ tries'[u] = tries[u]
        /\ child' = child /\ gate' = gate
    BY DEF Idle, GateInv, TypeOK, runtime
  <1>2. \A r \in Sessions : claimed'[r] = IF claimed[r] = t THEN None ELSE claimed[r]
    BY DEF Unclaimed
  <1>3. ASSUME NEW r \in Sessions
        PROVE  \/ slot'[r] = slot[r] /\ engine'[r] = engine[r] /\ stale'[r] = stale[r]
               \/ r = s /\ engine[r] = t /\ slot'[r] = "ready" /\ engine'[r] = "slot" /\ ~stale'[r]
    BY DEF GateInv, TypeOK
  <1>4. ASSUME NEW r \in Sessions PROVE engine'[r] # t
    <2>1. ASSUME engine[r] = t PROVE s = r /\ pc[t] = "return" /\ kind[t] = "open"
      BY <2>1 DEF GateInv, HeldBy, Owns, InMLX, Dropping
    <2>2. t # "slot"
      BY ThreadsAssumption
    <2>3. CASE engine[r] = t
      <3>1. engine' = [engine EXCEPT ![s] = "slot"] /\ s = r
        BY <2>1, <2>3
      <3> QED  BY <2>2, <3>1 DEF GateInv, TypeOK
    <2>4. CASE engine[r] # t
      BY <1>3, <2>2, <2>4
    <2> QED  BY <2>3, <2>4
  <1>5. ASSUME NEW u \in Threads \ {t} PROVE Local(u)'
    <2>1. ASSUME NEW r \in Sessions, r = s, engine[r] = t
          PROVE  pc[u] = "gone" \/ (engine[r] # u /\ ~(kind[u] = "open" /\ target[u] = r))
      BY <2>1, NobodyElses
    <2>2. gvl # u /\ \A r \in Sessions : claimed[r] = u => claimed'[r] = u
      BY <1>2, NoneAssumption
    <2>3. LeavesAlone(u)
      BY <1>1, <1>3, <2>1, <2>2 DEF LeavesAlone
    <2> QED  BY <2>3, OthersKeep DEF GateInv
  <1>6. Local(t)'
    <2>1. Kinded(t)' /\ HasGvl(t)' /\ HasGate(t)'
      BY <1>1 DEF Kinded, HasGvl, HasGate, InMLX, Dropping
    <2> QED  BY <1>1, <2>1 DEF Local, Holds, Opening, Published, Claims, Owns, InMLX, Dropping, Served
  <1>7. HeldBy'
    <2> SUFFICES ASSUME NEW r \in Sessions, NEW u \in Threads, engine'[r] = u
                 PROVE  /\ target'[u] = r
                        /\ \/ Owns(u)' \/ pc'[u] = "gone"
                           \/ pc'[u] = "return" /\ kind'[u] = "open"
      BY DEF HeldBy
    <2>1. u # t /\ engine[r] = u
      BY <1>3, <1>4, ThreadsAssumption
    <2> QED  BY <1>1, <2>1 DEF GateInv, HeldBy, Owns
  <1>8. \A r \in Sessions : Using(r)' \subseteq Using(r)
    BY <1>1, NoneAssumption DEF Using
  <1>9. Alone' /\ Leaked'
    BY <1>1, <1>3, <1>8 DEF GateInv, Alone, Leaked
  <1>a. ClaimedBy'
    BY <1>1, <1>2, NoneAssumption DEF GateInv, ClaimedBy
  <1>b. FreshWhenReady'
    BY <1>3 DEF GateInv, FreshWhenReady
  <1>c. EngineInOnePlace'
    <2> SUFFICES ASSUME NEW r \in Sessions
                 PROVE  /\ slot'[r] = "ready" <=> engine'[r] = "slot"
                        /\ slot'[r] = "running" =>
                               \E u \in Threads : engine'[r] = u /\ target'[u] = r /\ pc'[u] \in InRun
      BY DEF EngineInOnePlace
    <2>1. slot[r] = "ready" <=> engine[r] = "slot"
      BY DEF GateInv, EngineInOnePlace
    <2>2. ASSUME slot[r] = "running", slot'[r] = slot[r], engine'[r] = engine[r]
          PROVE  \E u \in Threads : engine'[r] = u /\ target'[u] = r /\ pc'[u] \in InRun
      <3>1. PICK u \in Threads : engine[r] = u /\ target[u] = r /\ pc[u] \in InRun
        BY <2>2 DEF GateInv, EngineInOnePlace
      <3>2. u # t
        BY <1>4, <2>2, <3>1
      <3> QED  BY <1>1, <2>2, <3>1, <3>2
    <2> QED  BY <1>3, <2>1, <2>2
  <1> QED  BY <1>5, <1>6, <1>7, <1>9, <1>a, <1>b, <1>c DEF GateInv

LEMMA RaisesKeeps == ASSUME NEW t \in Threads, GateInv, Raises(t) PROVE GateInv'
  <1>1. /\ pc[t] = "check" /\ claimed' = Unclaimed(t) /\ Idle(t)
        /\ UNCHANGED <<slot, slotLock, snapLock, engine, stale, runtime>>
    BY DEF Raises
  <1>2. gvl = t
    BY <1>1 DEF GateInv, Local, HasGvl
  <1>3. claimed' \in [Sessions -> Threads \cup {None}]
    BY <1>1 DEF Unclaimed, GateInv, TypeOK
  <1>z. 0 \in 0..Attempts
    BY AttemptsAssumption
  <1>4. TypeOK'
    BY <1>1, <1>3, <1>z DEF Idle, GateInv, TypeOK, PCs, runtime
  <1> QED  BY <1>1, <1>2, <1>4, ComesBack

LEMMA ReturnKeeps == ASSUME NEW t \in Threads, GateInv, Return(t) PROVE GateInv'
  <1> DEFINE s == target[t]
  <1>1. /\ pc[t] \in {"return", "busy"} /\ gvl \in {t, None} /\ claimed' = Unclaimed(t)
        /\ Idle(t) /\ UNCHANGED <<slotLock, snapLock, runtime>>
    BY DEF Return
  <1>2. \/ /\ UNCHANGED <<slot, engine, stale>>
           /\ ~(kind[t] = "open" /\ engine[s] = t)
        \/ /\ kind[t] = "open" /\ engine[s] = t
           /\ slot' = [slot EXCEPT ![s] = "ready"]
           /\ engine' = [engine EXCEPT ![s] = "slot"]
           /\ stale' = [stale EXCEPT ![s] = FALSE]
    BY DEF Return
  <1>3. kind[t] = "open" => s \in Sessions
    BY DEF GateInv, Local, Kinded
  <1> HIDE DEF s
  <1>4. claimed' \in [Sessions -> Threads \cup {None}]
    BY <1>1 DEF Unclaimed, GateInv, TypeOK
  <1>z. 0 \in 0..Attempts
    BY AttemptsAssumption
  <1>5. TypeOK'
    BY <1>1, <1>2, <1>4, <1>z DEF Idle, GateInv, TypeOK, PCs, runtime
  <1>6. s = target[t]
    BY DEF s
  <1> QED  BY <1>1, <1>2, <1>3, <1>5, <1>6, ComesBack

(* In the child the others are gone, and what they held stays held.        *)
LEMMA ForkKeeps == ASSUME NEW t \in Threads, GateInv, Fork(t) PROVE GateInv'
  <1>1. /\ pc[t] = "idle" /\ gvl = None /\ child' = TRUE
        /\ pc' = [u \in Threads |-> IF u = t THEN "idle" ELSE "gone"]
        /\ UNCHANGED <<kind, target, tries, gvl, session, gate, poisoned>>
    BY DEF Fork
  <1>2. TypeOK'
    BY <1>1 DEF GateInv, TypeOK, PCs, session
  <1>3. kind[t] = "none" /\ target[t] = None /\ \A s \in Sessions : engine[s] # t
    BY <1>1, BetweenCalls
  <1>4. ASSUME NEW u \in Threads PROVE Local(u)'
    <2>1. Kinded(u)'
      BY <1>1 DEF GateInv, Local, Kinded, InMLX, Dropping
    <2>2. HasGvl(u)' /\ HasGate(u)'
      BY <1>1 DEF HasGvl, HasGate
    <2>3. Holds(u)' /\ Published(u)'
      BY <1>1 DEF Holds, Published, Owns, InMLX, Dropping
    <2>4. Opening(u)'
      BY <1>1, <1>3 DEF Opening
    <2>5. Claims(u)'
      BY <1>1, NoneAssumption DEF GateInv, Local, Claims, session
    <2> QED  BY <1>1, <2>1, <2>2, <2>3, <2>4, <2>5 DEF Local
  <1>5. HeldBy'
    BY <1>1, <1>3 DEF GateInv, HeldBy, session
  <1>6. Alone' /\ ClaimedBy' /\ Leaked' /\ FreshWhenReady'
    BY <1>1 DEF GateInv, Alone, Using, ClaimedBy, Leaked, FreshWhenReady, session
  <1>7. EngineInOnePlace'
    BY <1>1 DEF GateInv, EngineInOnePlace, InRun, session
  <1> QED  BY <1>2, <1>4, <1>5, <1>6, <1>7 DEF GateInv

-----------------------------------------------------------------------------

LEMMA InitHolds == ASSUME Init PROVE GateInv
  <1>z. 0 \in 0..Attempts
    BY AttemptsAssumption
  <1>1. TypeOK
    BY <1>z DEF Init, TypeOK, PCs
  <1>2. ASSUME NEW t \in Threads PROVE Local(t)
    <2>1. Kinded(t) /\ HasGvl(t) /\ HasGate(t)
      BY DEF Init, Kinded, HasGvl, HasGate, InMLX, Dropping
    <2> QED  BY <2>1 DEF Init, Local, Holds, Opening, Published, Claims, Owns, InMLX, Dropping, Served
  <1>3. HeldBy /\ ClaimedBy
    BY NoneAssumption, ThreadsAssumption DEF Init, HeldBy, ClaimedBy
  <1>4. Alone /\ Leaked /\ EngineInOnePlace /\ FreshWhenReady
    BY NoneAssumption DEF Init, Alone, Using, Leaked, EngineInOnePlace, FreshWhenReady
  <1> QED  BY <1>1, <1>2, <1>3, <1>4 DEF GateInv

LEMMA StutteringKeeps == ASSUME GateInv, UNCHANGED vars PROVE GateInv'
  <1>1. /\ UNCHANGED <<pc, kind, target, tries, gvl, claimed, slot, slotLock, snapLock, engine>>
        /\ UNCHANGED <<stale, gate, poisoned, child>>
    BY DEF vars, threads, session, runtime
  <1>2. TypeOK'
    BY <1>1 DEF GateInv, TypeOK
  <1>3. \A t \in Threads : Local(t)'
    BY ZenonT(40), <1>1 DEF GateInv, Local, Kinded, HasGvl, HasGate, Holds, Opening, Published, Claims, Owns
  <1>4. HeldBy' /\ Alone' /\ ClaimedBy' /\ Leaked'
    BY <1>1 DEF GateInv, HeldBy, Owns, Alone, Using, ClaimedBy, Leaked
  <1>5. EngineInOnePlace' /\ FreshWhenReady'
    BY <1>1 DEF GateInv, EngineInOnePlace, FreshWhenReady
  <1> QED  BY <1>2, <1>3, <1>4, <1>5 DEF GateInv

LEMMA StepsKeep == ASSUME GateInv, [Next]_vars PROVE GateInv'
  <1>1. ASSUME NEW t \in Threads, Calls(t) PROVE GateInv'
    BY <1>1, ClaimKeeps, OpenKeeps, CloseKeeps, SweepKeeps, WatchKeeps, AskKeeps, ForkKeeps
    DEF Calls, Served
  <1>2. ASSUME NEW t \in Threads, Continue(t) PROVE GateInv'
    <2>1. CASE \/ Enter(t) \/ EntryRefused(t) \/ Raises(t) \/ Yields(t) \/ Resume(t)
      BY <2>1, EnterKeeps, EntryRefusedKeeps, RaisesKeeps, YieldsKeeps, ResumeKeeps
    <2>2. CASE \/ Take(t) \/ Taking(t) \/ EnterGate(t) \/ Works(t) \/ Builds(t) \/ Panics(t)
      BY <2>2, TakeKeeps, TakingKeeps, EnterGateKeeps, WorksKeeps, BuildsKeeps, PanicsKeeps
    <2>3. CASE \/ Publish(t) \/ Publishing(t) \/ PutBack(t) \/ PuttingBack(t) \/ Poisoning(t)
      BY <2>3, PublishKeeps, PublishingKeeps, PutBackKeeps, PuttingBackKeeps, PoisoningKeeps
    <2>4. CASE \/ Closing(t) \/ LetGo(t) \/ ReleaseHere(t) \/ Release(t) \/ Freeing(t)
      BY <2>4, ClosingKeeps, LetGoKeeps, ReleaseHereKeeps, ReleaseKeeps, FreeingKeeps
    <2>5. CASE \/ Look(t) \/ Copying(t) \/ Asking(t) \/ Return(t)
      BY <2>5, LookKeeps, CopyingKeeps, AskingKeeps, ReturnKeeps
    <2> QED  BY <1>2, <2>1, <2>2, <2>3, <2>4, <2>5 DEF Continue
  <1> QED  BY <1>1, <1>2, StutteringKeeps DEF Next

(* Every reachable state satisfies the inductive invariant: what a call    *)
(* may hold follows from where it is in lib.rs and runtime.rs, and what a  *)
(* session holds is accounted for by one call.                             *)
THEOREM Invariance == Spec => []GateInv
  <1>1. Init => GateInv
    BY InitHolds
  <1>2. GateInv /\ [Next]_vars => GateInv'
    BY StepsKeep
  <1> QED  BY <1>1, <1>2, PTL DEF Spec

(* Every variable keeps its type: in particular no thread tries to leave   *)
(* the GVL more often than ENTRY_ATTEMPTS (gvl.rs).                        *)
THEOREM TypesHold == Spec => []TypeOK
  <1>1. GateInv => TypeOK
    BY DEF GateInv
  <1> QED  BY <1>1, Invariance, PTL

(* The slot of a session says "ready" exactly while the engine is in it,   *)
(* and "running" only while a call has the engine that will put it back:   *)
(* whatever panics, refusals, interrupts and forks happen on the way       *)
(* through with_engine and run (lib.rs).                                   *)
THEOREM NoSessionIsLost == Spec => []EngineInOnePlace
  <1>1. GateInv => EngineInOnePlace
    BY DEF GateInv
  <1> QED  BY <1>1, Invariance, PTL

(* in_flight names the call that serves the session, from the claim to the *)
(* return, and nobody's once that call is back (lib.rs, EngineCall).       *)
THEOREM ClaimsAreServed == Spec => []ClaimedIsServed
  <1>1. GateInv => ClaimedIsServed
    BY DEF GateInv, ClaimedIsServed, ClaimedBy, Local, Claims, Served
  <1> QED  BY <1>1, Invariance, PTL

(* A session in its slot has published numbers as new as its engine: run   *)
(* (lib.rs) publishes before it puts the engine back.                      *)
THEOREM ReadyIsFresh == Spec => []FreshWhenReady
  <1>1. GateInv => FreshWhenReady
    BY DEF GateInv
  <1> QED  BY <1>1, Invariance, PTL

-----------------------------------------------------------------------------
(* What a step does to a slot, and to the use of MLX.                      *)

LEMMA SlotsStayGone ==
    ASSUME GateInv, Next, NEW s \in Sessions, slot[s] \in {"closed", "poisoned"}
    PROVE  slot'[s] \in {slot[s], "none"}
  <1> USE DEF GateInv, TypeOK
  <1>1. PICK t \in Threads : Calls(t) \/ Continue(t)
    BY DEF Next
  <1>2. CASE UNCHANGED slot
    BY <1>2
  <1>3. ASSUME NEW r \in Sessions, Sweep(t, r) PROVE slot'[s] \in {slot[s], "none"}
    BY <1>3 DEF Sweep
  <1>4. CASE Taking(t) \/ Closing(t)
    BY <1>4 DEF Taking, Closing, TakeLeaving, Leaves
  <1>5. CASE PuttingBack(t)
    <2>1. slot[target[t]] = "running"
      BY <1>5 DEF PuttingBack, Local, Kinded, Holds, Owns, InMLX
    <2> QED  BY <1>5, <2>1 DEF PuttingBack
  <1>6. CASE Poisoning(t)
    <2>1. slot[target[t]] = "running"
      BY <1>6 DEF Poisoning, Local, Kinded, Holds, Owns, InMLX
    <2> QED  BY <1>6, <2>1 DEF Poisoning
  <1>7. CASE Return(t)
    <2>1. kind[t] = "open" => slot[target[t]] = "none"
      BY <1>7 DEF Return, Local, Opening
    <2> QED  BY <1>7, <2>1 DEF Return
  <1>8. \/ UNCHANGED slot \/ Taking(t) \/ Closing(t) \/ PuttingBack(t) \/ Poisoning(t) \/ Return(t)
        \/ \E r \in Sessions : Sweep(t, r)
    <2>1. ASSUME Calls(t) PROVE UNCHANGED slot \/ \E r \in Sessions : Sweep(t, r)
      BY <2>1 DEF Calls, Claim, Open, Close, Watch, Ask, Fork, session
    <2>2. CASE \/ Enter(t) \/ EntryRefused(t) \/ Raises(t) \/ Yields(t) \/ Resume(t)
               \/ Take(t) \/ EnterGate(t) \/ Works(t) \/ Builds(t) \/ Panics(t)
      BY <2>2 DEF Enter, EntryRefused, Raises, Yields, Resume, Take, EnterGate, Works, Builds,
                  Panics, session
    <2>3. CASE \/ Publish(t) \/ Publishing(t) \/ PutBack(t) \/ LetGo(t) \/ ReleaseHere(t)
               \/ Release(t) \/ Freeing(t) \/ Look(t) \/ Copying(t) \/ Asking(t)
      BY <2>3 DEF Publish, Publishing, PutBack, LetGo, ReleaseHere, Release, Freeing, Look, Copying,
                  Asking, session
    <2> QED  BY <1>1, <2>1, <2>2, <2>3 DEF Continue
  <1> QED  BY <1>2, <1>3, <1>4, <1>5, <1>6, <1>7, <1>8

(* The calls in MLX; the gate lets one in.                                 *)
Ins == {<<t, target[t], IF kind[t] = "work" THEN "use" ELSE "build">> :
            t \in {u \in Threads : pc[u] = "inside"}}
Alive == {s \in Sessions : engine[s] # "none"}

LEMMA NobodyInside ==
    ASSUME GateInv, gate = None \/ (\E t \in Threads : gate = t /\ pc[t] # "inside")
    PROVE  Ins = {}
  <1>1. \A u \in Threads : pc[u] # "inside"
    BY NoneAssumption DEF GateInv, Local, HasGate
  <1> QED  BY <1>1 DEF Ins

LEMMA OneInside ==
    ASSUME GateInv, NEW t \in Threads, pc[t] = "inside"
    PROVE  Ins = {<<t, target[t], IF kind[t] = "work" THEN "use" ELSE "build">>}
  <1>1. \A u \in Threads : pc[u] = "inside" <=> u = t
    BY DEF GateInv, Local, HasGate
  <1> QED  BY <1>1 DEF Ins

(* A step of t outside MLX that builds and frees no engine.                *)
Aside(t) ==
    /\ pc[t] # "inside" /\ pc'[t] # "inside"
    /\ \A u \in Threads \ {t} : pc'[u] = pc[u] /\ kind'[u] = kind[u] /\ target'[u] = target[u]
    /\ \A s \in Sessions : engine'[s] = "none" <=> engine[s] = "none"
    /\ UNCHANGED <<poisoned, child>>

LEMMA AsideStutters ==
    ASSUME NEW t \in Threads, Aside(t)
    PROVE  Ins' = Ins /\ Alive' = Alive /\ UNCHANGED <<poisoned, child>>
  <1>1. Ins' = Ins
    BY DEF Aside, Ins
  <1> QED  BY <1>1 DEF Aside, Alive

LEMMA CallsAreAside ==
    ASSUME GateInv, NEW t \in Threads, NEW s \in Sessions,
           \/ \E k \in {"work", "read"} : Claim(t, s, k)
           \/ Open(t, s) \/ Close(t, s) \/ Sweep(t, s) \/ Watch(t, s) \/ Ask(t, s)
    PROVE  Aside(t)
  <1>1. PICK k \in Kinds, p \in PCs : Begin(t, k, s, p) /\ p # "inside"
    BY DEF Claim, Open, Close, Sweep, Watch, Ask, Kinds, PCs
  <1>2. /\ pc[t] # "inside" /\ pc'[t] # "inside"
        /\ \A u \in Threads \ {t} : pc'[u] = pc[u] /\ kind'[u] = kind[u] /\ target'[u] = target[u]
    BY <1>1 DEF Begin, GateInv, TypeOK
  <1>3. UNCHANGED <<poisoned, child>>
    BY DEF Claim, Open, Close, Sweep, Watch, Ask, runtime
  <1>4. CASE UNCHANGED engine
    BY <1>2, <1>3, <1>4 DEF Aside
  <1>5. CASE Sweep(t, s)
    <2>1. engine' = [engine EXCEPT ![s] = IF slot[s] = "ready" THEN t ELSE @]
      BY <1>5 DEF Sweep
    <2>2. slot[s] = "ready" => engine[s] = "slot"
      BY DEF GateInv, EngineInOnePlace
    <2>3. \A r \in Sessions : engine'[r] = "none" <=> engine[r] = "none"
      BY <2>1, <2>2, ThreadsAssumption DEF GateInv, TypeOK
    <2> QED  BY <1>2, <1>3, <2>3 DEF Aside
  <1> QED  BY <1>4, <1>5 DEF Claim, Open, Close, Watch, Ask, session

(* The steps of a call that leave every engine where it is ...             *)
LEMMA WaitingIsAside ==
    ASSUME GateInv, NEW t \in Threads,
           \/ Enter(t) \/ EntryRefused(t) \/ Raises(t) \/ Yields(t) \/ Resume(t) \/ Take(t)
           \/ Publish(t) \/ Publishing(t) \/ PutBack(t) \/ Poisoning(t) \/ LetGo(t)
           \/ Release(t) \/ Look(t) \/ Copying(t) \/ Asking(t)
           \/ EnterGate(t) /\ pc'[t] # "inside"
    PROVE  Aside(t)
  <1>1. CASE Raises(t)
    BY <1>1 DEF Raises, Idle, Aside, GateInv, TypeOK, runtime
  <1>2. CASE \/ Enter(t) \/ EntryRefused(t) \/ Yields(t) \/ Resume(t) \/ Take(t)
             \/ EnterGate(t) /\ pc'[t] # "inside"
    BY <1>2 DEF Enter, EntryRefused, Yields, Resume, Take, EnterGate, Body, AfterRefusal, To,
                Aside, GateInv, TypeOK, session, runtime
  <1>3. CASE Publish(t) \/ Publishing(t) \/ PutBack(t) \/ Poisoning(t)
    BY <1>3 DEF Publish, Publishing, PutBack, Poisoning, To, Aside, GateInv, TypeOK, runtime
  <1>4. CASE LetGo(t) \/ Release(t) \/ Look(t) \/ Copying(t) \/ Asking(t)
    BY <1>4 DEF LetGo, Release, Look, Copying, Asking, To, Aside, GateInv, TypeOK, session, runtime
  <1> QED  BY <1>1, <1>2, <1>3, <1>4

(* ... and those that move it between its slot and a frame.                *)
LEMMA MovingIsAside ==
    ASSUME GateInv, NEW t \in Threads,
           \/ Taking(t) \/ Closing(t) \/ PuttingBack(t) \/ ReleaseHere(t) \/ Return(t)
    PROVE  Aside(t)
  <1> DEFINE s == target[t]
  <1>1. /\ pc[t] # "inside" /\ pc'[t] # "inside"
        /\ \A u \in Threads \ {t} : pc'[u] = pc[u] /\ kind'[u] = kind[u] /\ target'[u] = target[u]
        /\ UNCHANGED <<poisoned, child>>
    BY DEF Taking, Closing, TakeLeaving, PuttingBack, ReleaseHere, Return, Idle, To, runtime,
           GateInv, TypeOK
  <1>2. \/ UNCHANGED engine
        \/ \E e \in {t, "slot", "leaked"} :
              s \in Sessions /\ engine[s] # "none" /\ engine' = [engine EXCEPT ![s] = e]
    <2>1. kind[t] # "none" /\ s \in Sessions
      BY DEF Taking, Closing, TakeLeaving, PuttingBack, ReleaseHere, Return, GateInv, Local, Kinded
    <2>2. CASE Taking(t) \/ Closing(t)
      <3>1. engine' = [engine EXCEPT ![s] = IF slot[s] = "ready" THEN t ELSE @]
        BY <2>2 DEF Taking, Closing, TakeLeaving
      <3>2. slot[s] = "ready" => engine[s] = "slot"
        BY <2>1 DEF GateInv, EngineInOnePlace
      <3> QED  BY <2>1, <3>1, <3>2 DEF GateInv, TypeOK
    <2>3. CASE PuttingBack(t) \/ ReleaseHere(t)
      <3>1. engine[s] = t
        BY <2>3 DEF PuttingBack, ReleaseHere, GateInv, Local, Kinded, Holds, Owns, InMLX, Dropping
      <3> QED  BY <2>1, <2>3, <3>1, ThreadsAssumption DEF PuttingBack, ReleaseHere
    <2>4. CASE Return(t)
      BY <2>1, <2>4, ThreadsAssumption DEF Return
    <2> QED  BY <2>2, <2>3, <2>4
  <1> HIDE DEF s
  <1>3. \A r \in Sessions : engine'[r] = "none" <=> engine[r] = "none"
    BY <1>2, ThreadsAssumption DEF GateInv, TypeOK
  <1> QED  BY <1>1, <1>3 DEF Aside

(* The steps that are not aside: into MLX, out of it, freeing and forking. *)
LEMMA EnteringEnters ==
    ASSUME GateInv, NEW t \in Threads, EnterGate(t), pc'[t] = "inside"
    PROVE  \E s \in Sessions, what \in {"use", "build"} :
              /\ Ins = {} /\ ~poisoned /\ ~child /\ (what = "use" <=> s \in Alive)
              /\ Ins' = {<<t, s, what>>} /\ Alive' = Alive /\ UNCHANGED <<poisoned, child>>
  <1> DEFINE s == target[t]
             what == IF kind[t] = "work" THEN "use" ELSE "build"
  <1>1. /\ pc[t] = "gate" /\ gate = None /\ ~child /\ ~poisoned /\ pc' = [pc EXCEPT ![t] = "inside"]
        /\ UNCHANGED <<kind, target, engine, poisoned, child>>
    BY DEF EnterGate, To, AfterRefused, session, GateInv, TypeOK
  <1>2. Ins = {}
    BY <1>1, NobodyInside
  <1>3. s \in Sessions /\ kind[t] \in {"open", "work"}
    BY <1>1 DEF GateInv, Local, Kinded
  <1>4. Ins' = {<<t, s, what>>}
    <2>1. GateInv'
      BY EnterGateKeeps
    <2>2. (Ins = {<<t, target[t], IF kind[t] = "work" THEN "use" ELSE "build">>})'
      <3>1. \A u \in Threads : pc'[u] = "inside" <=> u = t
        BY <2>1 DEF GateInv, Local, HasGate
      <3> QED  BY <3>1 DEF Ins
    <2> QED  BY <1>1, <2>2
  <1>5. what = "use" <=> s \in Alive
    <2>1. CASE kind[t] = "work"
      <3>1. engine[s] = t
        BY <1>1, <2>1 DEF GateInv, Local, Holds, Owns, InMLX, Served
      <3> QED  BY <1>3, <2>1, <3>1, ThreadsAssumption DEF Alive
    <2>2. CASE kind[t] = "open"
      BY <1>1, <2>2 DEF GateInv, Local, Opening, Alive
    <2> QED  BY <1>3, <2>1, <2>2
  <1>6. what \in {"use", "build"} /\ Alive' = Alive
    BY <1>1 DEF Alive
  <1> QED  BY <1>1, <1>2, <1>3, <1>4, <1>5, <1>6

LEMMA LeavingLeaves ==
    ASSUME GateInv, NEW t \in Threads, Works(t) \/ Builds(t)
    PROVE  \E s \in Sessions, what \in {"use", "build"} :
              /\ Ins = {<<t, s, what>>} /\ Ins' = {}
              /\ Alive' = Alive \/ (what = "build" /\ Alive' = Alive \cup {s})
              /\ UNCHANGED <<poisoned, child>>
  <1> DEFINE s == target[t]
             what == IF kind[t] = "work" THEN "use" ELSE "build"
  <1>1. /\ pc[t] = "inside" /\ pc'[t] # "inside" /\ UNCHANGED <<poisoned, child>> /\ s \in Sessions
        /\ \A u \in Threads \ {t} : pc'[u] = pc[u]
    BY DEF Works, Builds, To, AfterWork, GateInv, TypeOK, Local, Kinded
  <1>2. Ins = {<<t, s, what>>} /\ what \in {"use", "build"}
    BY <1>1, OneInside
  <1>3. Ins' = {}
    <2>1. \A u \in Threads : pc'[u] # "inside"
      BY <1>1 DEF GateInv, Local, HasGate
    <2> QED  BY <2>1 DEF Ins
  <1>4. Alive' = Alive \/ (what = "build" /\ Alive' = Alive \cup {s})
    <2>1. CASE Works(t)
      BY <2>1 DEF Works, Alive
    <2>2. CASE Builds(t)
      <3>1. PICK e \in {t, engine[s]} : engine' = [engine EXCEPT ![s] = e]
        BY <2>2 DEF Builds
      <3>2. e = engine[s] => Alive' = Alive
        BY <1>1, <3>1 DEF GateInv, TypeOK, Alive
      <3>3. e = t => Alive' = Alive \cup {s}
        BY <1>1, <3>1, ThreadsAssumption DEF GateInv, TypeOK, Alive
      <3>4. what = "build"
        BY <2>2 DEF Builds
      <3> QED  BY <3>1, <3>2, <3>3, <3>4
    <2> QED  BY <2>1, <2>2
  <1> QED  BY <1>1, <1>2, <1>3, <1>4

LEMMA PanickingPanics ==
    ASSUME GateInv, NEW t \in Threads, Panics(t)
    PROVE  Ins # {} /\ Ins' = {} /\ poisoned' = TRUE /\ Alive' = Alive /\ UNCHANGED child
  <1>1. /\ pc[t] = "inside" /\ pc'[t] # "inside" /\ \A u \in Threads \ {t} : pc'[u] = pc[u]
        /\ poisoned' = TRUE /\ UNCHANGED <<engine, child>>
    BY DEF Panics, To, session, GateInv, TypeOK
  <1>2. \A u \in Threads : pc'[u] # "inside"
    BY <1>1 DEF GateInv, Local, HasGate
  <1>3. Ins # {}
    BY <1>1, OneInside
  <1> QED  BY <1>1, <1>2, <1>3 DEF Ins, Alive

LEMMA FreeingFrees ==
    ASSUME GateInv, NEW t \in Threads, Freeing(t)
    PROVE  \E s \in Sessions : /\ Ins = {} /\ s \in Alive /\ ~child /\ Alive' = Alive \ {s}
                               /\ Ins' = {} /\ UNCHANGED <<poisoned, child>>
  <1> DEFINE s == target[t]
  <1>1. /\ pc[t] = "freeing" /\ pc'[t] # "inside" /\ \A u \in Threads \ {t} : pc'[u] = pc[u]
        /\ engine' = [engine EXCEPT ![s] = "none"] /\ UNCHANGED <<poisoned, child>>
    BY DEF Freeing, To, GateInv, TypeOK
  <1>2. gate = t /\ ~child /\ s \in Sessions /\ engine[s] = t
    BY <1>1 DEF GateInv, Local, HasGate, Kinded, Holds, Owns, Dropping
  <1>3. Ins = {}
    BY <1>1, <1>2, NobodyInside
  <1>4. \A u \in Threads : pc'[u] # "inside"
    BY <1>1, <1>2 DEF GateInv, Local, HasGate
  <1>5. Ins' = {}
    BY <1>4 DEF Ins
  <1>6. s \in Alive /\ Alive' = Alive \ {s}
    BY <1>1, <1>2, ThreadsAssumption DEF GateInv, TypeOK, Alive
  <1> QED  BY <1>1, <1>2, <1>3, <1>5, <1>6

LEMMA ForkingForks ==
    ASSUME GateInv, NEW t \in Threads, Fork(t)
    PROVE  ~child /\ child' = TRUE /\ Ins' = {} /\ Alive' = Alive /\ UNCHANGED poisoned
  <1>1. \A u \in Threads : pc'[u] # "inside"
    BY DEF Fork
  <1>2. Ins' = {}
    BY <1>1 DEF Ins
  <1> QED  BY <1>2 DEF Fork, Alive, session

LEMMA StepsUseMLXAsPromised ==
    ASSUME GateInv, [Next]_vars PROVE [Use!Next]_(Use!vars)
  <1>a. ASSUME Ins' = Ins, Alive' = Alive, UNCHANGED <<poisoned, child>> PROVE UNCHANGED Use!vars
    BY <1>a DEF Use!vars, Ins, Alive
  <1>1. ASSUME NEW t \in Threads, Aside(t) PROVE [Use!Next]_(Use!vars)
    BY <1>1, <1>a, AsideStutters
  <1>2. ASSUME NEW t \in Threads, EnterGate(t), pc'[t] = "inside" PROVE Use!Next
    <2>1. PICK s \in Sessions, what \in {"use", "build"} :
              /\ Ins = {} /\ ~poisoned /\ ~child /\ (what = "use" <=> s \in Alive)
              /\ Ins' = {<<t, s, what>>} /\ Alive' = Alive /\ UNCHANGED <<poisoned, child>>
      BY <1>2, EnteringEnters
    <2>2. Use!Enter(t, s, what)
      BY <2>1 DEF Use!Enter, Ins, Alive
    <2> QED  BY <2>2 DEF Use!Next
  <1>3. ASSUME NEW t \in Threads, Works(t) \/ Builds(t) PROVE Use!Next
    <2>1. PICK s \in Sessions, what \in {"use", "build"} :
              /\ Ins = {<<t, s, what>>} /\ Ins' = {}
              /\ Alive' = Alive \/ (what = "build" /\ Alive' = Alive \cup {s})
              /\ UNCHANGED <<poisoned, child>>
      BY <1>3, LeavingLeaves
    <2>2. Use!Leave(t, s, what)
      BY <2>1 DEF Use!Leave, Ins, Alive
    <2> QED  BY <2>2 DEF Use!Next
  <1>4. ASSUME NEW t \in Threads, Panics(t) PROVE Use!Next
    <2>1. Use!Panic
      BY <1>4, PanickingPanics DEF Use!Panic, Ins, Alive
    <2> QED  BY <2>1 DEF Use!Next
  <1>5. ASSUME NEW t \in Threads, Freeing(t) PROVE Use!Next
    <2>1. PICK s \in Sessions : /\ Ins = {} /\ s \in Alive /\ ~child /\ Alive' = Alive \ {s}
                                /\ Ins' = {} /\ UNCHANGED <<poisoned, child>>
      BY <1>5, FreeingFrees
    <2>2. Use!Free(s)
      BY <2>1 DEF Use!Free, Ins, Alive
    <2> QED  BY <2>2 DEF Use!Next
  <1>6. ASSUME NEW t \in Threads, Fork(t) PROVE Use!Next
    <2>1. Use!Fork
      BY <1>6, ForkingForks DEF Use!Fork, Ins, Alive
    <2> QED  BY <2>1 DEF Use!Next
  <1>7. ASSUME UNCHANGED vars PROVE UNCHANGED Use!vars
    <2>1. UNCHANGED <<pc, kind, target, engine, poisoned, child>>
      BY <1>7 DEF vars, threads, session, runtime
    <2> QED  BY <1>a, <2>1 DEF Ins, Alive
  <1>8. ASSUME NEW t \in Threads, Calls(t) PROVE Fork(t) \/ Aside(t)
    BY <1>8, CallsAreAside DEF Calls
  <1>9. ASSUME NEW t \in Threads, Continue(t)
        PROVE  \/ Aside(t) \/ (EnterGate(t) /\ pc'[t] = "inside")
               \/ Works(t) \/ Builds(t) \/ Panics(t) \/ Freeing(t)
    BY <1>9, WaitingIsAside, MovingIsAside DEF Continue
  <1> QED  BY <1>1, <1>2, <1>3, <1>4, <1>5, <1>6, <1>7, <1>8, <1>9 DEF Next

(* A closed or poisoned session serves no more: whatever was running when  *)
(* it went, only the garbage collector moves its slot (close, lib.rs).     *)
THEOREM ClosedIsForGood == Spec => GoneStaysGone
  <1>1. GateInv /\ [Next]_vars
            => [\A s \in Sessions : slot[s] \in {"closed", "poisoned"}
                                        => slot'[s] \in {slot[s], "none"}]_vars
    BY SlotsStayGone
  <1> QED  BY <1>1, Invariance, PTL DEF Spec, GoneStaysGone

(* Threads, sessions, locks and forks implement the runtime's promise:     *)
(* MLX is entered one call at a time, on engines that are alive, never in  *)
(* a child or after a panic, and an engine is freed once, with nobody in   *)
(* it (runtime.rs).                                                        *)
THEOREM MLXIsUsedAsPromised == Spec => UsesMLXAsPromised
  <1>1. Init => Use!Init
    BY DEF Init, Use!Init
  <1>2. GateInv /\ [Next]_vars => [Use!Next]_(Use!vars)
    BY StepsUseMLXAsPromised
  <1> QED  BY <1>1, <1>2, Invariance, PTL DEF Spec, UsesMLXAsPromised, Use!Spec
=============================================================================
