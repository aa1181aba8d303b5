-------------------------- MODULE CheckpointProofs --------------------------
(***************************************************************************)
(* Of a checkpoint as files: that its name only ever holds whole ones, for *)
(* any number of saves, wherever they fail or are killed, that a save      *)
(* which returned is under the name, that saving file by file implements   *)
(* CheckpointPromise, and that a reader who is overtaken only ever meets   *)
(* newer saves.                                                            *)
(*                                                                         *)
(* Of the policies that write one and go back to it: that LrOnPlateau cuts *)
(* the rate once per plateau, for any losses and patiences, although       *)
(* NaNGuard's rollbacks move the steps back under it, and that a plateau   *)
(* is judged on the bounded history as on the whole run.                   *)
(***************************************************************************)
EXTENDS CheckpointStore, Policies, TLAPS

-----------------------------------------------------------------------------
(* The invariant.  That the name holds a whole save says nothing of where  *)
(* the next one comes from, so it also says what the staging directory     *)
(* holds at each point of a save, and that what stands under the name      *)
(* meanwhile is of an earlier one.                                         *)

BeforeTaking == {"clear", "create", "lay out", "read back", "sync", "look",
                 "clear aside", "move aside"}
Staging == {"read back", "sync", "look", "clear aside", "move aside", "take", "replace"}

Earlier(d) == \E v \in 1..(begun - 1) : Holds(d, v)

Busy == pc # "idle" => begun >= 1 /\ keeps[begun] = adam /\ result = "none"
OlderStands == pc \in BeforeTaking /\ Exists("dir") => Earlier(fs["dir"])
LaidOut ==
    pc = "lay out" =>
        /\ Exists("writing") /\ at < Len(WriteOrder)
        /\ \A i \in 1..at :
              \/ WriteOrder[i] = "optimizer" /\ ~adam
              \/ fs["writing"][WriteOrder[i]] = begun
Staged == pc \in Staging => Holds(fs["writing"], begun)
Places ==
    /\ pc \in {"clear", "create"} => at = 0
    /\ pc = "clear" => Exists("writing")
    /\ pc \in {"clear aside", "drop"} => Exists("replaced")
    /\ pc \in {"clear aside", "move aside"} => Exists("dir")
    /\ pc \in {"take", "replace"} => ~Exists("dir")
SetAside == pc = "replace" => Earlier(fs["replaced"])
Took == pc \in {"drop", "return"} => Holds(fs["dir"], begun)

SaveInv == /\ TypeOK /\ Busy /\ OlderStands /\ LaidOut /\ Staged /\ Places /\ SetAside
           /\ Took /\ NameIsWhole /\ ReturnedIsThere

-----------------------------------------------------------------------------
(* A directory that holds a save holds its number as its manifest, so it   *)
(* holds no other.                                                         *)
LEMMA HoldsOne ==
    ASSUME NEW d, NEW v, NEW f \in Files \ {"optimizer"}, Holds(d, v)
    PROVE  d # Absent /\ d[f] = v
  BY DEF Holds, Written, Files

(* Four files of one save, and the slots if the save keeps them, are it.   *)
LEMMA HoldsAll ==
    ASSUME NEW d, NEW v, d # Absent,
           \A f \in Files \ {"optimizer"} : d[f] = v,
           keeps[v] => d["optimizer"] = v
    PROVE  Holds(d, v)
  BY DEF Holds, Written, Files

-----------------------------------------------------------------------------
(* The two orders go over the five files.                                  *)
LEMMA OrderFacts ==
    /\ Len(WriteOrder) = 5 /\ Len(ReadOrder) = 5
    /\ \A i \in 1..5 : WriteOrder[i] \in Files /\ ReadOrder[i] \in Files
    /\ \A f \in Files : \E i \in 1..5 : WriteOrder[i] = f
  BY DEF WriteOrder, ReadOrder, Files

LEMMA OrderLens == Len(WriteOrder) = 5 /\ Len(ReadOrder) = 5
  BY DEF WriteOrder, ReadOrder

LEMMA OrderIsOnce == \A i, j \in 1..5 : WriteOrder[i] = WriteOrder[j] => i = j
  BY DEF WriteOrder

LEMMA ContentFacts ==
    /\ Missing = 0 /\ Torn = -1 /\ Missing # Torn
    /\ Missing \in Content /\ Torn \in Content /\ 1..MaxSaves \subseteq Content
    /\ NoFiles \in [Files -> Content] /\ NoFiles # Absent
  <1>1. Missing = 0 /\ Torn = -1 /\ Missing # Torn
    BY DEF Missing, Torn
  <1>2. Missing \in Content /\ Torn \in Content /\ 1..MaxSaves \subseteq Content
    BY DEF Content
  <1>3. NoFiles \in [Files -> Content]
    BY <1>2 DEF NoFiles
  <1> QED  BY <1>1, <1>2, <1>3, AbsentAssumption

(* The three names are three, and what is under one is a directory.        *)
LEMMA FsFacts ==
    ASSUME TypeOK
    PROVE  /\ DOMAIN fs = Names
           /\ \A n \in Names : fs[n] = Absent \/ fs[n] \in [Files -> Content]
           /\ NoFiles \in [Files -> Content] /\ NoFiles # Absent
           /\ begun \in Int /\ 0 <= begun /\ begun <= MaxSaves /\ MaxSaves \in Nat
  BY MaxSavesAssumption, ContentFacts DEF TypeOK

LEMMA InitSave == Init => SaveInv
  <1> SUFFICES ASSUME Init PROVE SaveInv  OBVIOUS
  <1>1. TypeOK
    <2>1. fs \in [Names -> [Files -> Content] \cup {Absent}]
      BY DEF Init
    <2>2. begun \in 0..MaxSaves /\ keeps \in [1..MaxSaves -> BOOLEAN] /\ adam \in BOOLEAN
      BY MaxSavesAssumption DEF Init
    <2>3. pc \in PCs /\ at \in 0..Len(WriteOrder)
      BY OrderFacts DEF Init, PCs
    <2>4. dirty \in BOOLEAN /\ result \in {"none", "ok", "error"}
      BY DEF Init
    <2>5. reading \in -1..Len(ReadOrder) /\ got \in [Files -> Content]
      BY OrderFacts, ContentFacts DEF Init
    <2> QED  BY <2>1, <2>2, <2>3, <2>4, <2>5 DEF TypeOK
  <1>2. \A n \in Names : ~Exists(n)
    BY DEF Init, Exists
  <1>3. pc = "idle" /\ result = "none"
    BY DEF Init
  <1> QED
    BY <1>1, <1>2, <1>3 DEF SaveInv, Busy, OlderStands, LaidOut, Staged, Places, SetAside, Took,
       NameIsWhole, ReturnedIsThere, Names, BeforeTaking, Staging

(* A new save: what held a save still does.                                *)
LEMMA BeginKeeps == SaveInv /\ Begin => SaveInv'
  <1> SUFFICES ASSUME SaveInv, Begin PROVE SaveInv'  OBVIOUS
  <1>1. TypeOK /\ pc = "idle" /\ begun' = begun + 1 /\ UNCHANGED <<fs, adam, reader>>
    BY DEF SaveInv, Begin
  <1>2. begun \in 0..MaxSaves /\ begun < MaxSaves /\ MaxSaves \in Nat
    BY MaxSavesAssumption DEF Begin, TypeOK, SaveInv
  <1>3. keeps' = [keeps EXCEPT ![begun + 1] = adam] /\ keeps \in [1..MaxSaves -> BOOLEAN]
    BY <1>1 DEF Begin, TypeOK
  <1>4. \A n \in Names, v \in 1..begun : Holds(fs[n], v) => Holds(fs[n], v)'
    BY <1>1, <1>2, <1>3 DEF Holds, Written
  <1>5. TypeOK'
    <2>1. begun' \in 0..MaxSaves
      BY <1>1, <1>2
    <2>2. keeps' \in [1..MaxSaves -> BOOLEAN]
      BY <1>1, <1>3 DEF TypeOK
    <2>3. pc' \in PCs /\ at' \in 0..Len(WriteOrder)
      BY OrderFacts DEF Begin, PCs
    <2>4. dirty' \in BOOLEAN /\ result' \in {"none", "ok", "error"}
      BY DEF Begin
    <2> QED  BY <1>1, <2>1, <2>2, <2>3, <2>4 DEF TypeOK, reader
  <1>6. Busy'
    BY <1>1, <1>2, <1>3 DEF Busy, Begin
  <1>7. Exists("dir") => \E v \in 1..begun : Holds(fs["dir"], v)'
    BY <1>4 DEF SaveInv, NameIsWhole, Names
  <1>8. OlderStands' /\ NameIsWhole'
    BY <1>1, <1>2, <1>7 DEF OlderStands, NameIsWhole, Earlier, Exists
  <1>9. /\ pc' \in {"clear", "create"} /\ (pc' = "clear" => Exists("writing")')
        /\ result' = "none" /\ at' = 0
    BY <1>1 DEF Begin, Exists
  <1> QED
    BY <1>5, <1>6, <1>8, <1>9
    DEF SaveInv, LaidOut, Staged, Staging, Places, SetAside, Took, ReturnedIsThere

-----------------------------------------------------------------------------
(* Steps that touch no file.                                               *)

(* What the store says stays as it was.                                    *)
LEMMA StoreStays ==
    ASSUME UNCHANGED store
    PROVE  /\ \A n, v : Holds(fs[n], v)' <=> Holds(fs[n], v)
           /\ \A n : Earlier(fs[n])' <=> Earlier(fs[n])
           /\ \A n : Exists(n)' <=> Exists(n)
           /\ NameIsWhole' <=> NameIsWhole
  BY DEF store, Holds, Written, Earlier, Exists, NameIsWhole

LEMMA SaverTypes ==
    ASSUME TypeOK, UNCHANGED <<store, reader>>, adam' \in BOOLEAN, pc' \in PCs,
           at' \in 0..Len(WriteOrder), dirty' \in BOOLEAN, result' \in {"none", "ok", "error"}
    PROVE  TypeOK'
  BY DEF TypeOK, store, reader

LEMMA SyncKeeps == SaveInv /\ Sync => SaveInv'
  <1> SUFFICES ASSUME SaveInv, Sync PROVE SaveInv'  OBVIOUS
  <1>1. pc = "sync" /\ pc' = "look" /\ UNCHANGED <<store, reader, adam, at, dirty, result>>
    BY DEF Sync, To
  <1>2. TypeOK'
    BY <1>1, SaverTypes DEF SaveInv, TypeOK, PCs
  <1> QED
    BY <1>1, <1>2, StoreStays DEF SaveInv, Busy, OlderStands, LaidOut, Staged, Places, SetAside,
       Took, ReturnedIsThere, BeforeTaking, Staging, store

LEMMA LookKeeps == SaveInv /\ Look => SaveInv'
  <1> SUFFICES ASSUME SaveInv, Look PROVE SaveInv'  OBVIOUS
  <1>1. /\ pc = "look" /\ UNCHANGED <<store, reader, adam, at, dirty, result>>
        /\ pc' = IF ~Exists("dir") THEN "take"
                 ELSE IF Exists("replaced") THEN "clear aside" ELSE "move aside"
    BY DEF Look, To
  <1>2. TypeOK'
    BY <1>1, SaverTypes DEF SaveInv, TypeOK, PCs
  <1> QED
    BY <1>1, <1>2, StoreStays DEF SaveInv, Busy, OlderStands, LaidOut, Staged, Places, SetAside,
       Took, ReturnedIsThere, BeforeTaking, Staging, store

(* A save that returns: only what stands under the name matters then.      *)
LEMMA IdleKeeps ==
    ASSUME SaveInv, UNCHANGED <<store, reader>>, pc' = "idle", adam' \in BOOLEAN,
           at' = 0, dirty' = FALSE, result' \in {"none", "ok", "error"},
           result' = "ok" => pc = "return"
    PROVE  SaveInv'
  <1>1. TypeOK'
    <2>1. pc' \in PCs
      BY DEF PCs
    <2>2. dirty' \in BOOLEAN
      OBVIOUS
    <2>3. at' \in 0..Len(WriteOrder)
      BY OrderFacts
    <2> QED  BY <2>1, <2>2, <2>3, SaverTypes DEF SaveInv
  <1>2. ReturnedIsThere'
    BY StoreStays DEF SaveInv, Took, ReturnedIsThere, store
  <1> QED
    BY <1>1, <1>2, StoreStays DEF SaveInv, Busy, OlderStands, LaidOut, Staged, Places, SetAside,
       Took, ReturnedIsThere, BeforeTaking, Staging, store

LEMMA DoneKeeps == SaveInv /\ Done => SaveInv'
  BY IdleKeeps DEF Done, Return, SaveInv, TypeOK

LEMMA FailsKeeps == SaveInv /\ Fails => SaveInv'
  BY IdleKeeps DEF Fails, Return, SaveInv, TypeOK

LEMMA RestartKeeps == SaveInv /\ Restart => SaveInv'
  BY IdleKeeps DEF Restart

LEMMA ReadBackKeeps == SaveInv /\ ReadBack => SaveInv'
  <1> SUFFICES ASSUME SaveInv, ReadBack PROVE SaveInv'  OBVIOUS
  <1>1. CASE ~Reads(fs["writing"])
    BY <1>1, IdleKeeps DEF ReadBack, Return, SaveInv, TypeOK
  <1>2. CASE Reads(fs["writing"])
    <2>1. pc = "read back" /\ pc' = "sync" /\ UNCHANGED <<store, reader, adam, at, dirty, result>>
      BY <1>2 DEF ReadBack, To
    <2>2. TypeOK'
      BY <2>1, SaverTypes DEF SaveInv, TypeOK, PCs
    <2> QED
      BY <2>1, <2>2, StoreStays DEF SaveInv, Busy, OlderStands, LaidOut, Staged, Places, SetAside,
         Took, ReturnedIsThere, BeforeTaking, Staging, store
  <1> QED  BY <1>1, <1>2

-----------------------------------------------------------------------------
(* Steps on files: each leaves alone what is under the other names.        *)

LEMMA OthersStay ==
    ASSUME UNCHANGED <<begun, keeps>>, NEW m, fs'[m] = fs[m]
    PROVE  /\ \A v : Holds(fs[m], v)' <=> Holds(fs[m], v)
           /\ Earlier(fs[m])' <=> Earlier(fs[m])
           /\ Exists(m)' <=> Exists(m)
  BY DEF Holds, Written, Earlier, Exists

LEMMA NameStays ==
    ASSUME UNCHANGED <<begun, keeps>>, fs'["dir"] = fs["dir"], NameIsWhole
    PROVE  NameIsWhole'
  BY DEF NameIsWhole, Holds, Written, Exists

(* What a removal does, wherever it gives up.                              *)
LEMMA RemovesFacts ==
    ASSUME TypeOK, NEW n \in Names, NEW next, Exists(n), Removes(n, next)
    PROVE  /\ fs' \in [Names -> [Files -> Content] \cup {Absent}]
           /\ \A m \in Names \ {n} : fs'[m] = fs[m]
           /\ pc' = next \/ (pc' = pc /\ Exists(n)')
           /\ UNCHANGED <<begun, keeps, adam, at, dirty, result>>
  <1>1. fs \in [Names -> [Files -> Content] \cup {Absent}] /\ fs[n] \in [Files -> Content]
    BY FsFacts DEF TypeOK, Exists
  <1>2. CASE /\ \E f \in Files : fs' = [fs EXCEPT ![n][f] = Missing]
             /\ UNCHANGED <<begun, keeps, saver>>
    <2>1. PICK f \in Files : fs' = [fs EXCEPT ![n][f] = Missing]
      BY <1>2
    <2>2. fs'[n] = [fs[n] EXCEPT ![f] = Missing] /\ \A m \in Names \ {n} : fs'[m] = fs[m]
      BY <1>1, <2>1
    <2>3. fs'[n] \in [Files -> Content] /\ fs'[n] # Absent
      BY <1>1, <2>2, ContentFacts, AbsentAssumption
    <2>4. fs' \in [Names -> [Files -> Content] \cup {Absent}]
      BY <1>1, <2>1, <2>3
    <2> QED  BY <1>2, <2>2, <2>3, <2>4 DEF saver, Exists
  <1>3. CASE fs' = [fs EXCEPT ![n] = Absent] /\ To(next) /\ UNCHANGED <<begun, keeps>>
    BY <1>1, <1>3 DEF To
  <1>4. CASE To(next) /\ UNCHANGED store
    BY <1>1, <1>4 DEF To, store
  <1> QED  BY <1>2, <1>3, <1>4 DEF Removes

LEMMA ClearStagingKeeps == SaveInv /\ ClearStaging => SaveInv'
  <1> SUFFICES ASSUME SaveInv, ClearStaging PROVE SaveInv'  OBVIOUS
  <1>1. pc = "clear" /\ Removes("writing", "create") /\ UNCHANGED reader /\ TypeOK
    BY DEF ClearStaging, SaveInv
  <1>2. Exists("writing")
    BY <1>1 DEF SaveInv, Places
  <1>3. /\ fs' \in [Names -> [Files -> Content] \cup {Absent}]
        /\ fs'["dir"] = fs["dir"]
        /\ pc' = "create" \/ (pc' = "clear" /\ Exists("writing")')
        /\ UNCHANGED <<begun, keeps, adam, at, dirty, result>>
    BY <1>1, <1>2, RemovesFacts DEF Names
  <1>4. TypeOK'
    BY <1>1, <1>3 DEF TypeOK, reader, PCs
  <1>5. NameIsWhole' /\ OlderStands'
    BY <1>1, <1>3, OthersStay, NameStays DEF SaveInv, OlderStands, BeforeTaking
  <1> QED
    BY <1>1, <1>3, <1>4, <1>5 DEF SaveInv, Busy, LaidOut, Staged, Places, SetAside,
       Took, ReturnedIsThere, Staging

LEMMA ClearAsideKeeps == SaveInv /\ ClearAside => SaveInv'
  <1> SUFFICES ASSUME SaveInv, ClearAside PROVE SaveInv'  OBVIOUS
  <1>1. /\ pc = "clear aside" /\ Removes("replaced", "move aside") /\ UNCHANGED reader
        /\ TypeOK
    BY DEF ClearAside, SaveInv
  <1>2. Exists("replaced")
    BY <1>1 DEF SaveInv, Places
  <1>3. /\ fs' \in [Names -> [Files -> Content] \cup {Absent}]
        /\ fs'["dir"] = fs["dir"] /\ fs'["writing"] = fs["writing"]
        /\ pc' = "move aside" \/ (pc' = "clear aside" /\ Exists("replaced")')
        /\ UNCHANGED <<begun, keeps, adam, at, dirty, result>>
    BY <1>1, <1>2, RemovesFacts DEF Names
  <1>4. TypeOK'
    BY <1>1, <1>3 DEF TypeOK, reader, PCs
  <1>5. NameIsWhole' /\ OlderStands' /\ Staged'
    BY <1>1, <1>3, OthersStay, NameStays DEF SaveInv, OlderStands, Staged, BeforeTaking, Staging
  <1>6. Places'
    BY <1>1, <1>3, OthersStay DEF SaveInv, Places
  <1> QED
    BY <1>1, <1>3, <1>4, <1>5, <1>6 DEF SaveInv, Busy, LaidOut, SetAside, Took, ReturnedIsThere

LEMMA DropKeeps == SaveInv /\ Drop => SaveInv'
  <1> SUFFICES ASSUME SaveInv, Drop PROVE SaveInv'  OBVIOUS
  <1>1. pc = "drop" /\ Removes("replaced", "return") /\ UNCHANGED reader /\ TypeOK
    BY DEF Drop, SaveInv
  <1>2. Exists("replaced")
    BY <1>1 DEF SaveInv, Places
  <1>3. /\ fs' \in [Names -> [Files -> Content] \cup {Absent}]
        /\ fs'["dir"] = fs["dir"]
        /\ pc' = "return" \/ (pc' = "drop" /\ Exists("replaced")')
        /\ UNCHANGED <<begun, keeps, adam, at, dirty, result>>
    BY <1>1, <1>2, RemovesFacts DEF Names
  <1>4. TypeOK'
    BY <1>1, <1>3 DEF TypeOK, reader, PCs
  <1>5. NameIsWhole' /\ Took'
    BY <1>1, <1>3, OthersStay, NameStays DEF SaveInv, Took
  <1> QED
    BY <1>1, <1>3, <1>4, <1>5 DEF SaveInv, Busy, OlderStands, LaidOut, Staged, Places, SetAside,
       ReturnedIsThere, BeforeTaking, Staging

LEMMA CreateKeeps == SaveInv /\ Create => SaveInv'
  <1> SUFFICES ASSUME SaveInv, Create PROVE SaveInv'  OBVIOUS
  <1>1. /\ pc = "create" /\ pc' = "lay out" /\ TypeOK
        /\ fs' = IF Exists("writing") THEN fs ELSE [fs EXCEPT !["writing"] = NoFiles]
        /\ UNCHANGED <<begun, keeps, reader, adam, at, dirty, result>>
    BY DEF Create, To, SaveInv
  <1>2. /\ fs' \in [Names -> [Files -> Content] \cup {Absent}]
        /\ fs'["dir"] = fs["dir"] /\ Exists("writing")'
    BY <1>1, FsFacts DEF TypeOK, Exists, Names
  <1>3. TypeOK'
    BY <1>1, <1>2 DEF TypeOK, reader, PCs
  <1>4. NameIsWhole' /\ OlderStands'
    BY <1>1, <1>2, OthersStay, NameStays DEF SaveInv, OlderStands, BeforeTaking
  <1>5. LaidOut'
    <2>1. at' = 0
      BY <1>1 DEF SaveInv, Places
    <2>2. at' < Len(WriteOrder)
      BY <2>1, OrderLens
    <2>3. \A i \in 1..at' : FALSE
      BY <2>1
    <2> QED  BY <1>2, <2>2, <2>3 DEF LaidOut
  <1> QED
    BY <1>1, <1>3, <1>4, <1>5 DEF SaveInv, Busy, Staged, Places, SetAside, Took,
       ReturnedIsThere, Staging

LEMMA LayOutKeeps == SaveInv /\ LayOut => SaveInv'
  <1> SUFFICES ASSUME SaveInv, LayOut PROVE SaveInv'  OBVIOUS
  <1> DEFINE g == WriteOrder[at + 1]
  <1>1. pc = "lay out" /\ TypeOK /\ UNCHANGED <<begun, keeps, adam, result, reader>>
    BY DEF LayOut, SaveInv
  <1>2. at \in 0..4 /\ at + 1 \in 1..5
    <2>1. at \in 0..5 /\ at < 5
      BY <1>1, OrderFacts DEF SaveInv, LaidOut, TypeOK
    <2> QED  BY <2>1
  <1>3. g \in Files
    BY <1>2, OrderFacts
  <1>4. Exists("writing") /\ fs["writing"] \in [Files -> Content]
    <2>1. Exists("writing")
      BY <1>1 DEF SaveInv, LaidOut
    <2> QED  BY <1>1, <2>1, FsFacts DEF Exists, Names
  <1>5. begun \in 1..MaxSaves
    <2>1. begun >= 1
      BY <1>1 DEF SaveInv, Busy
    <2>2. begun \in 0..MaxSaves
      BY <1>1 DEF TypeOK
    <2> QED  BY <2>1, <2>2, MaxSavesAssumption
  <1>6. (keeps[begun] <=> adam) /\ result = "none"
    BY <1>1 DEF SaveInv, Busy
  <1>7. PICK c \in Content :
          /\ fs' = IF Skips(g) THEN fs ELSE [fs EXCEPT !["writing"][g] = c]
          /\ dirty => c = begun
    <2>1. begun \in Content /\ Torn \in Content
      BY <1>5, ContentFacts
    <2> QED  BY <2>1 DEF LayOut
  <1>8. /\ \A n \in {"dir", "replaced"} : fs'[n] = fs[n]
        /\ fs'["writing"] = IF Skips(g) THEN fs["writing"] ELSE [fs["writing"] EXCEPT ![g] = c]
        /\ fs' \in [Names -> [Files -> Content] \cup {Absent}]
    <2>1. fs \in [Names -> [Files -> Content] \cup {Absent}]
      BY <1>1 DEF TypeOK
    <2>2. [fs["writing"] EXCEPT ![g] = c] \in [Files -> Content]
      BY <1>4
    <2> QED  BY <1>7, <2>1, <2>2 DEF Names
  <1>9. fs'["writing"] \in [Files -> Content] /\ Exists("writing")'
    BY <1>4, <1>8, AbsentAssumption DEF Exists
  <1>10. \A i \in 1..at :
          /\ \/ WriteOrder[i] = "optimizer" /\ ~adam
             \/ fs'["writing"][WriteOrder[i]] = begun
          /\ i \in 1..5 /\ i # at + 1 /\ WriteOrder[i] # g
    <2> SUFFICES ASSUME NEW i \in 1..at
                 PROVE  /\ \/ WriteOrder[i] = "optimizer" /\ ~adam
                           \/ fs'["writing"][WriteOrder[i]] = begun
                        /\ i \in 1..5 /\ i # at + 1 /\ WriteOrder[i] # g
      OBVIOUS
    <2>1. i \in 1..5 /\ i # at + 1
      BY <1>2
    <2>2. WriteOrder[i] # g
      BY <1>2, <2>1, OrderIsOnce
    <2>3. WriteOrder[i] \in Files
      BY <2>1, OrderFacts
    <2>4. (WriteOrder[i] = "optimizer" /\ ~adam) \/ fs["writing"][WriteOrder[i]] = begun
      BY <1>1 DEF SaveInv, LaidOut
    <2>5. fs'["writing"][WriteOrder[i]] = fs["writing"][WriteOrder[i]]
      BY <1>4, <1>8, <2>2, <2>3
    <2> QED  BY <2>1, <2>2, <2>4, <2>5
  <1>11. NameIsWhole' /\ (Exists("dir") <=> Exists("dir")')
        /\ (Earlier(fs["dir"])' <=> Earlier(fs["dir"]))
    BY <1>1, <1>8, OthersStay, NameStays DEF SaveInv
  <1>12. OlderStands'
    BY <1>1, <1>11 DEF SaveInv, OlderStands, BeforeTaking
  <1>13. CASE ~Skips(g) /\ ~dirty
    <2>1. dirty' = TRUE /\ at' = at /\ pc' = pc
      BY <1>13 DEF LayOut
    <2>2. TypeOK'
      BY <1>1, <1>8, <2>1 DEF TypeOK, reader
    <2>3. at' < Len(WriteOrder)
      BY <1>2, <2>1, OrderFacts
    <2>4. LaidOut'
      BY <1>1, <1>9, <1>10, <2>1, <2>3 DEF LaidOut
    <2> QED
      BY <1>1, <1>6, <1>11, <1>12, <2>1, <2>2, <2>4 DEF SaveInv, Busy, Staged, Places, SetAside,
         Took, ReturnedIsThere, Staging
  <1>14. CASE Skips(g) \/ dirty
    <2>1. at' = at + 1 /\ pc' = IF at + 1 = Len(WriteOrder) THEN "read back" ELSE pc
      BY <1>14 DEF LayOut
    <2>2. dirty' = FALSE
      BY <1>14 DEF LayOut
    <2>3. pc' \in {"lay out", "read back"} /\ (pc' = "lay out" => at + 1 < 5)
          /\ (pc' # "lay out" => at + 1 = 5)
      <3>1. Len(WriteOrder) = 5
        BY OrderLens
      <3>2. pc' = IF at + 1 = 5 THEN "read back" ELSE "lay out"
        BY <1>1, <2>1, <3>1
      <3>3. at + 1 = 5 \/ at + 1 < 5
        BY <1>2
      <3>4. at + 1 = 5 => ~(at + 1 < 5)
        OBVIOUS
      <3> QED  BY <3>2, <3>3, <3>4
    <2>4. TypeOK'
      <3>1. at' \in 0..Len(WriteOrder)
        <4>1. at' \in 1..5
          BY <1>2, <2>1
        <4> QED  BY <4>1, OrderLens
      <3>2. dirty' \in BOOLEAN
        BY <2>2
      <3>3. pc' \in PCs
        BY <2>3 DEF PCs
      <3> QED  BY <1>1, <1>8, <3>1, <3>2, <3>3 DEF TypeOK, reader
    <2>5. (g = "optimizer" /\ ~adam) \/ fs'["writing"][g] = begun
      BY <1>3, <1>4, <1>7, <1>8, <1>14 DEF Skips
    <2>6. \A i \in 1..(at + 1) :
            (WriteOrder[i] = "optimizer" /\ ~adam) \/ fs'["writing"][WriteOrder[i]] = begun
      <3>1. \A i \in 1..(at + 1) : i = at + 1 \/ i \in 1..at
        BY <1>2
      <3> QED  BY <1>10, <2>5, <3>1
    <2>7. LaidOut'
      BY <1>1, <1>9, <2>1, <2>3, <2>6, OrderFacts DEF LaidOut
    <2>8. Staged'
      <3>1. CASE pc' = "lay out"
        BY <3>1 DEF Staged, Staging
      <3>2. CASE pc' # "lay out"
        <4>1. \A f \in Files : (f = "optimizer" /\ ~adam) \/ fs'["writing"][f] = begun
          BY <2>3, <2>6, <3>2, OrderFacts
        <4>2. \A f \in Written(begun) : fs'["writing"][f] = begun
          BY <1>6, <4>1 DEF Written
        <4> QED  BY <1>1, <1>9, <4>2 DEF Staged, Holds, Exists, Written
      <3> QED  BY <3>1, <3>2
    <2> QED
      BY <1>1, <1>6, <1>11, <1>12, <2>3, <2>4, <2>7, <2>8 DEF SaveInv, Busy, Places, SetAside,
         Took, ReturnedIsThere
  <1> QED  BY <1>13, <1>14

LEMMA MoveAsideKeeps == SaveInv /\ MoveAside => SaveInv'
  <1> SUFFICES ASSUME SaveInv, MoveAside PROVE SaveInv'  OBVIOUS
  <1>1. pc = "move aside" /\ TypeOK /\ UNCHANGED <<begun, keeps, reader>>
    BY DEF MoveAside, SaveInv
  <1>2. CASE Exists("replaced") /\ ~IsEmpty("replaced")
    BY <1>1, <1>2, IdleKeeps DEF MoveAside, Return, TypeOK, store
  <1>3. CASE ~(Exists("replaced") /\ ~IsEmpty("replaced"))
    <2>1. fs' = Displaced /\ pc' = "replace" /\ UNCHANGED <<adam, at, dirty, result>>
      BY <1>3 DEF MoveAside, To
    <2>2. /\ fs'["replaced"] = fs["dir"] /\ fs'["dir"] = Absent
          /\ fs'["writing"] = fs["writing"]
          /\ fs' \in [Names -> [Files -> Content] \cup {Absent}]
      BY <1>1, <2>1 DEF Displaced, TypeOK, Names
    <2>3. TypeOK'
      BY <1>1, <2>1, <2>2 DEF TypeOK, reader, PCs
    <2>4. ~Exists("dir")' /\ NameIsWhole'
      BY <2>2 DEF Exists, NameIsWhole
    <2>5. Earlier(fs["dir"])
      BY <1>1 DEF SaveInv, OlderStands, Places, BeforeTaking
    <2>6. SetAside'
      BY <1>1, <2>2, <2>5 DEF SetAside, Earlier, Holds, Written
    <2>7. Staged'
      BY <1>1, <2>2, OthersStay DEF SaveInv, Staged, Staging
    <2> QED
      BY <1>1, <2>1, <2>3, <2>4, <2>6, <2>7 DEF SaveInv, Busy, OlderStands, LaidOut, Places,
         Took, ReturnedIsThere, BeforeTaking
  <1> QED  BY <1>2, <1>3

LEMMA TakeKeeps == SaveInv /\ Take => SaveInv'
  <1> SUFFICES ASSUME SaveInv, Take PROVE SaveInv'  OBVIOUS
  <1>1. /\ pc \in {"take", "replace"} /\ TypeOK
        /\ fs' = [fs EXCEPT !["dir"] = fs["writing"], !["writing"] = Absent]
        /\ pc' = IF pc = "replace" THEN "drop" ELSE "return"
        /\ UNCHANGED <<begun, keeps, reader, adam, at, dirty, result>>
    BY DEF Take, To, SaveInv
  <1>2. /\ fs'["dir"] = fs["writing"] /\ fs'["replaced"] = fs["replaced"]
        /\ fs' \in [Names -> [Files -> Content] \cup {Absent}]
    BY <1>1 DEF TypeOK, Names
  <1>3. TypeOK'
    BY <1>1, <1>2 DEF TypeOK, reader, PCs
  <1>4. Holds(fs["writing"], begun) /\ begun \in 1..begun
    <2>1. Holds(fs["writing"], begun) /\ begun >= 1
      BY <1>1 DEF SaveInv, Staged, Staging, Busy
    <2> QED  BY <1>1, <2>1, FsFacts
  <1>5. Holds(fs["dir"], begun)'
    BY <1>1, <1>2, <1>4 DEF Holds, Written
  <1>6. NameIsWhole'
    BY <1>1, <1>4, <1>5 DEF NameIsWhole
  <1>7. pc = "replace" => Exists("replaced")'
    BY <1>1, <1>2 DEF SaveInv, SetAside, Earlier, Holds, Exists
  <1> QED
    BY <1>1, <1>3, <1>5, <1>6, <1>7 DEF SaveInv, Busy, OlderStands, LaidOut, Staged, Places,
       SetAside, Took, ReturnedIsThere, BeforeTaking, Staging

LEMMA ReadKeeps == SaveInv /\ Read => SaveInv'
  <1> SUFFICES ASSUME SaveInv, Read PROVE SaveInv'  OBVIOUS
  <1>1. UNCHANGED <<store, saver>> /\ TypeOK
    BY DEF Read, StartReading, ReadFile, StopReading, SaveInv
  <1>2. got' \in [Files -> Content]
    <2>1. CASE StartReading \/ StopReading
      BY <1>1, <2>1, ContentFacts DEF StartReading, StopReading, TypeOK
    <2>2. CASE ReadFile
      <3>1. \/ got' = NoFiles
            \/ got' = [got EXCEPT ![ReadOrder[reading + 1]] =
                        IF Exists("dir") THEN fs["dir"][ReadOrder[reading + 1]] ELSE Missing]
        BY <2>2 DEF ReadFile
      <3>2. reading + 1 \in 1..5
        <4>1. reading \in 0..(5 - 1)
          BY <2>2, OrderLens DEF ReadFile
        <4> QED  BY <4>1
      <3>3. ReadOrder[reading + 1] \in Files
        BY <3>2, OrderFacts
      <3>4. Exists("dir") => fs["dir"] \in [Files -> Content]
        BY <1>1, FsFacts DEF Exists, Names
      <3>5. (IF Exists("dir") THEN fs["dir"][ReadOrder[reading + 1]] ELSE Missing) \in Content
        BY <3>3, <3>4, ContentFacts
      <3> QED  BY <1>1, <3>1, <3>5, ContentFacts DEF TypeOK
    <2> QED  BY <2>1, <2>2 DEF Read
  <1>3. reading' \in -1..Len(ReadOrder)
    <2>1. CASE StartReading \/ StopReading
      <3>1. reading' \in {0, -1}
        BY <2>1 DEF StartReading, StopReading
      <3> QED  BY <3>1, OrderLens
    <2>2. CASE ReadFile
      <3>1. reading \in 0..(5 - 1)
        BY <2>2, OrderLens DEF ReadFile
      <3>2. reading' = -1 \/ reading' = reading + 1
        BY <2>2 DEF ReadFile
      <3>3. reading' \in -1..5
        BY <3>1, <3>2
      <3> QED  BY <3>3, OrderLens
    <2> QED  BY <2>1, <2>2 DEF Read
  <1>4. TypeOK'
    BY <1>1, <1>2, <1>3 DEF TypeOK, store, saver
  <1> QED
    BY <1>1, <1>4, StoreStays DEF SaveInv, Busy, OlderStands, LaidOut, Staged, Places, SetAside,
       Took, ReturnedIsThere, store, saver

LEMMA NextSave == SaveInv /\ [Next]_vars => SaveInv'
  <1> SUFFICES ASSUME SaveInv, [Next]_vars PROVE SaveInv'
    OBVIOUS
  <1>1. CASE UNCHANGED vars
    <2>1. UNCHANGED <<store, saver, reader>>
      BY <1>1 DEF vars, store, saver, reader
    <2>2. TypeOK'
      BY <2>1 DEF SaveInv, TypeOK, store, saver, reader
    <2> QED
      BY <2>1, <2>2, StoreStays DEF SaveInv, Busy, OlderStands, LaidOut, Staged, Places, SetAside,
         Took, ReturnedIsThere, store, saver
  <1>2. CASE Begin \/ ClearStaging \/ Create \/ LayOut \/ ReadBack \/ Sync \/ Look
    BY <1>2, BeginKeeps, ClearStagingKeeps, CreateKeeps, LayOutKeeps, ReadBackKeeps, SyncKeeps,
       LookKeeps
  <1>3. CASE ClearAside \/ MoveAside \/ Take \/ Drop \/ Done \/ Fails
    BY <1>3, ClearAsideKeeps, MoveAsideKeeps, TakeKeeps, DropKeeps, DoneKeeps, FailsKeeps
  <1>4. CASE Restart \/ Read
    BY <1>4, RestartKeeps, ReadKeeps
  <1> QED  BY <1>1, <1>2, <1>3, <1>4 DEF Next, Save

(* What a save relies on holds at every point of every run of saves.       *)
THEOREM SaveInvariance == Spec => []SaveInv
  <1>1. Init => SaveInv
    BY InitSave
  <1>2. SaveInv /\ [Next]_vars => SaveInv'
    BY NextSave
  <1> QED  BY <1>1, <1>2, PTL DEF Spec

(* However many saves begin, and wherever each of them fails or its        *)
(* process dies, what has the checkpoint's name is the whole of one save   *)
(* (write lays out elsewhere and publish renames).                         *)
THEOREM TheNameIsWhole == Spec => []NameIsWhole
  <1>1. SaveInv => NameIsWhole
    BY DEF SaveInv
  <1> QED  BY <1>1, SaveInvariance, PTL

(* Between the two renames of publish, where nothing has the name, the old *)
(* checkpoint and the new one are both on disk whole.                      *)
THEOREM BothAreKept == Spec => []BothStandAside
  <1>1. SaveInv => BothStandAside
    BY DEF SaveInv, Places, Staged, Staging, SetAside, Earlier, BothStandAside
  <1> QED  BY <1>1, SaveInvariance, PTL

(* A save that returned without an error is what the name holds, whatever  *)
(* removals failed behind it.                                              *)
THEOREM WhatReturnedIsThere == Spec => []ReturnedIsThere
  <1>1. SaveInv => ReturnedIsThere
    BY DEF SaveInv
  <1> QED  BY <1>1, SaveInvariance, PTL

-----------------------------------------------------------------------------
(* What the steps of a save do to the two names a checkpoint can be had    *)
(* under: most touch neither, and while a checkpoint has the name what was *)
(* set aside may go.                                                       *)
Touches == Begin \/ (MoveAside /\ pc' = "replace") \/ Take

LeavesStanding ==
    /\ UNCHANGED <<begun, keeps>> /\ fs'["dir"] = fs["dir"]
    /\ Exists("dir") \/ fs'["replaced"] = fs["replaced"]

LEMMA SaveShape == SaveInv /\ (Save \/ Restart) => UNCHANGED reader /\ (Touches \/ LeavesStanding)
  <1> SUFFICES ASSUME SaveInv, Save \/ Restart
               PROVE  UNCHANGED reader /\ (Touches \/ LeavesStanding)
    OBVIOUS
  <1>1. TypeOK
    BY DEF SaveInv
  <1>2. CASE ReadBack \/ Sync \/ Look \/ Done \/ Fails \/ Restart
    BY <1>2 DEF ReadBack, Sync, Look, Done, Fails, Restart, LeavesStanding, store
  <1>3. CASE Begin \/ Take
    BY <1>3 DEF Begin, Take, Touches
  <1>4. CASE MoveAside
    BY <1>4 DEF MoveAside, Touches, LeavesStanding, To, Return
  <1>5. CASE ClearStaging
    <2>1. Exists("writing")
      BY <1>5 DEF SaveInv, Places, ClearStaging
    <2> QED  BY <1>1, <1>5, <2>1, RemovesFacts DEF ClearStaging, LeavesStanding, Names
  <1>6. CASE ClearAside
    <2>1. Exists("replaced") /\ Exists("dir")
      BY <1>6 DEF SaveInv, Places, ClearAside
    <2> QED  BY <1>1, <1>6, <2>1, RemovesFacts DEF ClearAside, LeavesStanding, Names
  <1>7. CASE Drop
    <2>1. Exists("replaced") /\ Exists("dir")
      BY <1>7 DEF SaveInv, Places, Drop, Took, Holds, Exists
    <2> QED  BY <1>1, <1>7, <2>1, RemovesFacts DEF Drop, LeavesStanding, Names
  <1>8. CASE Create
    BY <1>1, <1>8, FsFacts DEF Create, To, LeavesStanding, Names
  <1>9. CASE LayOut
    <2>1. /\ UNCHANGED <<begun, keeps, reader>>
          /\ fs' = fs \/ \E c : fs' = [fs EXCEPT !["writing"][WriteOrder[at + 1]] = c]
      BY <1>9 DEF LayOut
    <2> QED  BY <1>1, <2>1, FsFacts DEF LeavesStanding, Names
  <1> QED  BY <1>2, <1>3, <1>4, <1>5, <1>6, <1>7, <1>8, <1>9 DEF Save

(* What the three steps that do touch them leave.                          *)
LEMMA DisplacedFacts ==
    ASSUME SaveInv, MoveAside, pc' = "replace"
    PROVE  /\ UNCHANGED <<begun, keeps>> /\ Exists("dir")
           /\ fs'["dir"] = Absent /\ fs'["replaced"] = fs["dir"]
  <1>1. pc = "move aside" /\ TypeOK /\ UNCHANGED <<begun, keeps>>
    BY DEF SaveInv, MoveAside
  <1>2. fs' = Displaced
    BY DEF MoveAside, Return
  <1> QED  BY <1>1, <1>2, FsFacts DEF Displaced, Names, SaveInv, Places

LEMMA TakenFacts ==
    ASSUME SaveInv, Take
    PROVE  /\ UNCHANGED <<begun, keeps>> /\ ~Exists("dir") /\ begun \in 1..begun
           /\ Holds(fs["dir"], begun)' /\ fs'["replaced"] = fs["replaced"]
  <1>1. /\ pc \in {"take", "replace"} /\ TypeOK /\ UNCHANGED <<begun, keeps>>
        /\ fs' = [fs EXCEPT !["dir"] = fs["writing"], !["writing"] = Absent]
    BY DEF SaveInv, Take
  <1>2. fs'["dir"] = fs["writing"] /\ fs'["replaced"] = fs["replaced"]
    BY <1>1, FsFacts DEF Names
  <1>3. Holds(fs["writing"], begun) /\ begun >= 1 /\ ~Exists("dir")
    BY <1>1 DEF SaveInv, Staged, Staging, Busy, Places
  <1>4. begun \in 1..begun
    BY <1>1, <1>3, FsFacts
  <1> QED  BY <1>1, <1>2, <1>3, <1>4 DEF Holds, Written

-----------------------------------------------------------------------------
(* No file is of a save that has not begun, and until a save takes the     *)
(* name nothing of it has been set aside.                                  *)
Past == \A n \in Names : Exists(n) => \A f \in Files : fs[n][f] <= begun

Before == BeforeTaking \cup {"take", "replace"}

AsideIsOlder == pc \in Before => \A v \in 1..begun : Holds(fs["replaced"], v) => v < begun

(* A removal makes no file and no whole checkpoint.                        *)
LEMMA RemovesShrinks ==
    ASSUME TypeOK, Past, NEW n \in Names, NEW next, Exists(n), Removes(n, next)
    PROVE  /\ Past'
           /\ \A v \in 1..begun : Holds(fs[n], v)' => Holds(fs[n], v)
  <1>1. fs \in [Names -> [Files -> Content] \cup {Absent}] /\ fs[n] \in [Files -> Content]
    BY FsFacts DEF TypeOK, Exists
  <1>2. UNCHANGED <<begun, keeps>> /\ begun >= 0 /\ begun \in Int
    <2>1. UNCHANGED <<begun, keeps>>
      BY DEF Removes, store
    <2> QED  BY <2>1, FsFacts
  <1>3. CASE \E f \in Files : fs' = [fs EXCEPT ![n][f] = Missing]
    <2>1. PICK f \in Files : fs' = [fs EXCEPT ![n][f] = Missing]
      BY <1>3
    <2>2. fs'[n] = [fs[n] EXCEPT ![f] = 0] /\ \A m \in Names \ {n} : fs'[m] = fs[m]
      BY <1>1, <2>1 DEF Missing
    <2>3. \A g \in Files : fs'[n][g] = IF g = f THEN 0 ELSE fs[n][g]
      BY <1>1, <2>2
    <2>4. Past'
      <3>1. \A g \in Files : fs'[n][g] <= begun
        BY <1>2, <2>3 DEF Past
      <3> QED  BY <1>2, <2>2, <3>1 DEF Past, Exists
    <2>5. \A v \in 1..begun : Holds(fs[n], v)' => Holds(fs[n], v)
      <3> SUFFICES ASSUME NEW v \in 1..begun, Holds(fs[n], v)' PROVE Holds(fs[n], v)
        OBVIOUS
      <3>1. v # 0
        BY <1>2
      <3>2. \A g \in Written(v) : fs'[n][g] = v /\ g \in Files
        BY <1>2 DEF Holds, Written
      <3>3. \A g \in Written(v) : fs[n][g] = v
        BY <2>3, <3>1, <3>2
      <3> QED  BY <3>3 DEF Holds, Exists
    <2> QED  BY <2>4, <2>5
  <1>4. CASE fs' = [fs EXCEPT ![n] = Absent]
    BY <1>1, <1>2, <1>4 DEF Past, Exists, Holds
  <1>5. CASE fs' = fs
    BY <1>2, <1>5 DEF Past, Exists, Holds, Written
  <1> QED  BY <1>3, <1>4, <1>5 DEF Removes, store

PastInv == Past /\ AsideIsOlder

(* A whole checkpoint carries a number that is past.                       *)
LEMMA HoldsPast ==
    ASSUME Past, NEW n \in Names, NEW v, Holds(fs[n], v)
    PROVE  v <= begun
  <1>1. fs[n]["manifest"] = v /\ Exists(n)
    BY HoldsOne DEF Files, Exists
  <1> QED  BY <1>1 DEF Past, Files

LEMMA PastStays ==
    ASSUME PastInv, UNCHANGED store, pc' \in Before => pc \in Before
    PROVE  PastInv'
  BY DEF PastInv, Past, AsideIsOlder, store, Exists, Holds, Written

(* Only what is under one name changes, and not what was set aside.        *)
LEMMA PastWritten ==
    ASSUME PastInv, UNCHANGED <<begun, keeps>>, NEW n \in Names \ {"replaced"},
           \A m \in Names \ {n} : fs'[m] = fs[m],
           Exists(n)' => \A f \in Files : fs'[n][f] <= begun,
           pc' \in Before => pc \in Before
    PROVE  PastInv'
  <1>1. Past'
    BY DEF PastInv, Past, Exists
  <1>2. fs'["replaced"] = fs["replaced"]
    BY DEF Names
  <1>3. AsideIsOlder'
    BY <1>2 DEF PastInv, AsideIsOlder, Holds, Written
  <1> QED  BY <1>1, <1>3 DEF PastInv

LEMMA BeginPast == SaveInv /\ PastInv /\ Begin => PastInv'
  <1> SUFFICES ASSUME SaveInv, PastInv, Begin PROVE PastInv'  OBVIOUS
  <1>1. begun' = begun + 1 /\ fs' = fs /\ TypeOK
    BY DEF Begin, SaveInv
  <1>2. begun \in Int
    BY <1>1, FsFacts
  <1>3. Past'
    <2> SUFFICES ASSUME NEW n \in Names, Exists(n), NEW f \in Files
                 PROVE  fs[n][f] <= begun + 1
      BY <1>1 DEF Past, Exists
    <2>1. fs[n][f] \in Content
      BY <1>1, FsFacts DEF Exists
    <2>2. fs[n][f] \in Int
      BY <2>1, MaxSavesAssumption DEF Content, Missing, Torn
    <2> QED  BY <1>2, <2>2 DEF PastInv, Past
  <1>4. \A v : Holds(fs["replaced"], v)' => v <= begun
    <2> SUFFICES ASSUME NEW v, Holds(fs["replaced"], v)' PROVE v <= begun
      OBVIOUS
    <2>1. fs["replaced"] # Absent /\ fs["replaced"]["manifest"] = v
      BY <1>1 DEF Holds, Written, Files
    <2> QED  BY <2>1 DEF PastInv, Past, Exists, Names, Files
  <1>5. AsideIsOlder'
    <2> SUFFICES ASSUME NEW v \in 1..(begun + 1), Holds(fs["replaced"], v)'
                 PROVE  v < begun + 1
      BY <1>1 DEF AsideIsOlder
    <2> QED  BY <1>2, <1>4
  <1> QED  BY <1>3, <1>5 DEF PastInv

LEMMA CreatePast == SaveInv /\ PastInv /\ Create => PastInv'
  <1> SUFFICES ASSUME SaveInv, PastInv, Create PROVE PastInv'  OBVIOUS
  <1>1. pc = "create" /\ TypeOK /\ UNCHANGED <<begun, keeps>>
    BY DEF Create, SaveInv
  <1>2. CASE Exists("writing")
    BY <1>1, <1>2, PastStays DEF Create, store, Before, BeforeTaking
  <1>3. CASE ~Exists("writing")
    <2>1. fs'["writing"] = NoFiles /\ \A m \in Names \ {"writing"} : fs'[m] = fs[m]
      BY <1>1, <1>3, FsFacts DEF Create, Names
    <2>2. \A f \in Files : fs'["writing"][f] = 0
      BY <2>1 DEF NoFiles, Missing
    <2>3. \A f \in Files : fs'["writing"][f] <= begun
      BY <1>1, <2>2, FsFacts
    <2> QED  BY <1>1, <2>1, <2>3, PastWritten DEF Before, BeforeTaking, Names
  <1> QED  BY <1>2, <1>3

LEMMA LayOutPast == SaveInv /\ PastInv /\ LayOut => PastInv'
  <1> SUFFICES ASSUME SaveInv, PastInv, LayOut PROVE PastInv'  OBVIOUS
  <1>1. pc = "lay out" /\ TypeOK /\ UNCHANGED <<begun, keeps>> /\ Exists("writing")
    BY DEF LayOut, SaveInv, LaidOut
  <1>2. \/ fs' = fs
        \/ \E c \in {begun, Torn} : fs' = [fs EXCEPT !["writing"][WriteOrder[at + 1]] = c]
    BY DEF LayOut
  <1>3. CASE fs' = fs
    BY <1>1, <1>3, PastStays DEF store, Before, BeforeTaking
  <1>4. ASSUME NEW c \in {begun, Torn}, fs' = [fs EXCEPT !["writing"][WriteOrder[at + 1]] = c]
        PROVE  PastInv'
    <2>1. fs["writing"] \in [Files -> Content] /\ DOMAIN fs = Names
      BY <1>1, FsFacts DEF Exists, Names
    <2>2. /\ fs'["writing"] = [fs["writing"] EXCEPT ![WriteOrder[at + 1]] = c]
          /\ \A m \in Names \ {"writing"} : fs'[m] = fs[m]
      BY <1>4, <2>1 DEF Names
    <2>3. c <= begun
      <3>1. begun \in Int /\ begun >= 0
        BY <1>1, FsFacts
      <3> QED  BY <1>4, <3>1 DEF Torn
    <2>4. \A f \in Files : fs["writing"][f] <= begun
      BY <1>1 DEF PastInv, Past, Names
    <2>5. \A f \in Files : fs'["writing"][f] \in {c, fs["writing"][f]}
      BY <2>1, <2>2
    <2>6. \A f \in Files : fs'["writing"][f] <= begun
      BY <2>3, <2>4, <2>5
    <2> QED  BY <1>1, <2>2, <2>6, PastWritten DEF Before, BeforeTaking, Names
  <1> QED  BY <1>2, <1>3, <1>4

LEMMA ClearStagingPast == SaveInv /\ PastInv /\ ClearStaging => PastInv'
  <1> SUFFICES ASSUME SaveInv, PastInv, ClearStaging PROVE PastInv'  OBVIOUS
  <1>1. /\ pc = "clear" /\ TypeOK /\ Past /\ Exists("writing")
        /\ Removes("writing", "create")
    BY DEF ClearStaging, SaveInv, PastInv, Places
  <1>2. /\ Past' /\ fs'["replaced"] = fs["replaced"] /\ UNCHANGED <<begun, keeps>>
    BY <1>1, RemovesShrinks, RemovesFacts DEF Names
  <1>3. AsideIsOlder'
    BY <1>1, <1>2 DEF PastInv, AsideIsOlder, Holds, Written, Before, BeforeTaking
  <1> QED  BY <1>2, <1>3 DEF PastInv

LEMMA ClearAsidePast == SaveInv /\ PastInv /\ ClearAside => PastInv'
  <1> SUFFICES ASSUME SaveInv, PastInv, ClearAside PROVE PastInv'  OBVIOUS
  <1>1. /\ pc = "clear aside" /\ TypeOK /\ Past /\ Exists("replaced")
        /\ Removes("replaced", "move aside")
    BY DEF ClearAside, SaveInv, PastInv, Places
  <1>2. /\ Past' /\ \A v \in 1..begun : Holds(fs["replaced"], v)' => Holds(fs["replaced"], v)
    BY <1>1, RemovesShrinks DEF Names
  <1>3. begun' = begun
    BY <1>1, RemovesFacts DEF Names
  <1>4. AsideIsOlder'
    BY <1>1, <1>2, <1>3 DEF PastInv, AsideIsOlder, Before, BeforeTaking
  <1> QED  BY <1>2, <1>4 DEF PastInv

LEMMA DropPast == SaveInv /\ PastInv /\ Drop => PastInv'
  <1> SUFFICES ASSUME SaveInv, PastInv, Drop PROVE PastInv'  OBVIOUS
  <1>1. pc = "drop" /\ TypeOK /\ Past /\ Exists("replaced") /\ Removes("replaced", "return")
    BY DEF Drop, SaveInv, PastInv, Places
  <1>2. Past' /\ pc' \in {"drop", "return"}
    BY <1>1, RemovesShrinks, RemovesFacts DEF Names
  <1> QED  BY <1>2 DEF PastInv, AsideIsOlder, Before, BeforeTaking

LEMMA MoveAsidePast == SaveInv /\ PastInv /\ MoveAside => PastInv'
  <1> SUFFICES ASSUME SaveInv, PastInv, MoveAside PROVE PastInv'  OBVIOUS
  <1>1. TypeOK
    BY DEF SaveInv
  <1>2. CASE pc' = "replace"
    <2>1. /\ UNCHANGED <<begun, keeps>> /\ Exists("dir")
          /\ fs'["dir"] = Absent /\ fs'["replaced"] = fs["dir"] /\ fs'["writing"] = fs["writing"]
      BY <1>1, <1>2, DisplacedFacts, FsFacts DEF MoveAside, Return, Displaced, Names
    <2>2. Past'
      BY <2>1 DEF PastInv, Past, Exists, Names
    <2>3. PICK w \in 1..(begun - 1) : Holds(fs["dir"], w)
      BY DEF MoveAside, SaveInv, OlderStands, Places, BeforeTaking, Earlier
    <2>4. \A v : Holds(fs["replaced"], v)' => v = w
      <3>1. fs["dir"]["manifest"] = w
        BY <2>3, HoldsOne DEF Files
      <3>2. \A v : Holds(fs["replaced"], v)' => fs["dir"]["manifest"] = v
        BY <2>1 DEF Holds, Written, Files
      <3> QED  BY <3>1, <3>2
    <2>5. w < begun
      BY <1>1, FsFacts
    <2> QED  BY <2>1, <2>2, <2>4, <2>5 DEF PastInv, AsideIsOlder
  <1>3. CASE pc' # "replace"
    <2>1. UNCHANGED store /\ pc' = "idle"
      BY <1>3 DEF MoveAside, To, Return, store
    <2> QED  BY <2>1, PastStays DEF Before, BeforeTaking
  <1> QED  BY <1>2, <1>3

LEMMA TakePast == SaveInv /\ PastInv /\ Take => PastInv'
  <1> SUFFICES ASSUME SaveInv, PastInv, Take PROVE PastInv'  OBVIOUS
  <1>1. /\ TypeOK /\ UNCHANGED <<begun, keeps>> /\ pc' \in {"drop", "return"}
        /\ fs' = [fs EXCEPT !["dir"] = fs["writing"], !["writing"] = Absent]
    BY DEF SaveInv, Take, To
  <1>2. fs'["dir"] = fs["writing"] /\ fs'["writing"] = Absent /\ fs'["replaced"] = fs["replaced"]
    BY <1>1, FsFacts DEF Names
  <1>3. Past'
    BY <1>1, <1>2 DEF PastInv, Past, Exists, Names
  <1> QED  BY <1>1, <1>3 DEF PastInv, AsideIsOlder, Before, BeforeTaking

LEMMA NextPast == SaveInv /\ PastInv /\ [Next]_vars => PastInv'
  <1> SUFFICES ASSUME SaveInv, PastInv, [Next]_vars PROVE PastInv'
    OBVIOUS
  <1>1. CASE Read \/ UNCHANGED vars
    BY <1>1, PastStays
    DEF Read, StartReading, ReadFile, StopReading, store, saver, vars
  <1>2. CASE ReadBack \/ Sync \/ Look
    BY <1>2, PastStays DEF ReadBack, Sync, Look, To, Return, Before, BeforeTaking
  <1>3. CASE Done \/ Fails \/ Restart
    BY <1>3, PastStays DEF Done, Fails, Restart, Return, Before, BeforeTaking
  <1>4. CASE Begin \/ ClearStaging \/ Create \/ LayOut \/ ClearAside \/ MoveAside \/ Take \/ Drop
    BY <1>4, BeginPast, ClearStagingPast, CreatePast, LayOutPast, ClearAsidePast, MoveAsidePast,
       TakePast, DropPast
  <1> QED  BY <1>1, <1>2, <1>3, <1>4 DEF Next, Save

LEMMA InitPast == Init => PastInv
  BY DEF Init, PastInv, Past, AsideIsOlder, Exists, Holds, Names

THEOREM PastInvariance == Spec => [](SaveInv /\ PastInv)
  <1>1. Init => PastInv
    BY InitPast
  <1>2. SaveInv /\ PastInv /\ [Next]_vars => PastInv'
    BY NextPast
  <1> QED  BY <1>1, <1>2, SaveInvariance, PTL DEF Spec

-----------------------------------------------------------------------------
(* The refinement.  The save that stands is the one that has the name, or  *)
(* the one aside while none has it; it is chosen from the saves a name     *)
(* holds, which is one at most, so the choice is that one.                 *)

Standing == IF Exists("dir") THEN Named ELSE Aside

StandingFits ==
    /\ Exists("dir") => Standing \in 1..begun /\ Holds(fs["dir"], Standing)
    /\ ~Exists("dir") => \/ Standing = 0 /\ \A v \in 1..begun : ~Holds(fs["replaced"], v)
                         \/ Standing \in 1..begun /\ Holds(fs["replaced"], Standing)

LEMMA StandingIs == SaveInv => StandingFits
  <1> SUFFICES ASSUME SaveInv PROVE StandingFits
    OBVIOUS
  <1> DEFINE Whole(n) == {v \in 1..begun : Holds(fs[n], v)}
             Under(n) == IF Whole(n) = {} THEN 0 ELSE CHOOSE v \in Whole(n) : TRUE
  <1>1. Standing = IF Exists("dir") THEN Under("dir") ELSE Under("replaced")
    BY DEF Standing, Named, Aside, SaveUnder
  <1>2. \A n : Whole(n) # {} => (CHOOSE v \in Whole(n) : TRUE) \in Whole(n)
    OBVIOUS
  <1>3. Exists("dir") => Whole("dir") # {}
    BY DEF SaveInv, NameIsWhole
  <1>4. CASE Exists("dir")
    <2>1. Standing \in Whole("dir")
      BY <1>1, <1>2, <1>3, <1>4
    <2> QED  BY <1>4, <2>1 DEF StandingFits
  <1>5. CASE ~Exists("dir")
    <2>1. CASE Whole("replaced") = {}
      <3>1. Standing = 0
        BY <1>1, <1>5, <2>1
      <3> QED  BY <1>5, <2>1, <3>1 DEF StandingFits
    <2>2. CASE Whole("replaced") # {}
      <3>1. Standing \in Whole("replaced")
        BY <1>1, <1>2, <1>5, <2>2
      <3> QED  BY <1>5, <3>1 DEF StandingFits
    <2> QED  BY <2>1, <2>2
  <1> QED  BY <1>4, <1>5 DEF StandingFits

(* The same of the state a step leads to.                                  *)
LEMMA StandingIsNext == SaveInv' => StandingFits'
  BY StandingIs, PTL

LEMMA StandingStays == SaveInv /\ SaveInv' /\ LeavesStanding => Standing' = Standing /\ begun' = begun
  <1> SUFFICES ASSUME SaveInv, SaveInv', LeavesStanding PROVE Standing' = Standing /\ begun' = begun
    OBVIOUS
  <1>1. begun' = begun /\ (Exists("dir")' <=> Exists("dir"))
    BY DEF LeavesStanding, Exists
  <1>2. \A n, v : Holds(fs[n], v) => fs[n]["manifest"] = v
    BY DEF Holds, Written, Files
  <1>3. StandingFits /\ StandingFits'
    BY StandingIs, StandingIsNext
  <1>4. CASE Exists("dir")
    <2>1. Holds(fs["dir"], Standing) /\ Holds(fs["dir"], Standing)'
      BY <1>1, <1>3, <1>4 DEF StandingFits
    <2>2. Holds(fs["dir"], Standing')
      BY <2>1 DEF LeavesStanding, Holds, Written
    <2> QED  BY <1>1, <1>2, <2>1, <2>2
  <1>5. CASE ~Exists("dir")
    <2>1. \/ Standing = 0 /\ \A v \in 1..begun : ~Holds(fs["replaced"], v)
          \/ Standing \in 1..begun /\ Holds(fs["replaced"], Standing)
      BY <1>3, <1>5 DEF StandingFits
    <2>2. \/ Standing' = 0 /\ \A v \in 1..begun : ~Holds(fs["replaced"], v)'
          \/ Standing' \in 1..begun /\ Holds(fs["replaced"], Standing)'
      BY <1>1, <1>3, <1>5 DEF StandingFits
    <2>3. \/ Standing' = 0 /\ \A v \in 1..begun : ~Holds(fs["replaced"], v)
          \/ Standing' \in 1..begun /\ Holds(fs["replaced"], Standing')
      BY <1>5, <2>2 DEF LeavesStanding, Holds, Written
    <2> QED  BY <1>1, <1>2, <2>1, <2>3
  <1> QED  BY <1>4, <1>5

(* A save that begins moves nothing.                                       *)
LEMMA StandingBegins == SaveInv /\ PastInv /\ Begin /\ SaveInv' => Standing' = Standing
  <1> SUFFICES ASSUME SaveInv, PastInv, Begin, SaveInv' PROVE Standing' = Standing
    OBVIOUS
  <1>1. begun' = begun + 1 /\ fs' = fs /\ keeps' = [keeps EXCEPT ![begun + 1] = adam] /\ TypeOK
    BY DEF Begin, SaveInv
  <1>2. begun \in Int /\ begun >= 0
    BY <1>1, FsFacts
  <1>3. \A n, v : Holds(fs[n], v)' => fs[n] # Absent /\ fs[n]["manifest"] = v
    BY <1>1 DEF Holds, Written, Files
  <1>4. \A n, v : Holds(fs[n], v) => fs[n] # Absent /\ fs[n]["manifest"] = v
    BY DEF Holds, Written, Files
  <1>5. \A n \in Names : \A v : Holds(fs[n], v)' => v <= begun
    BY <1>3 DEF PastInv, Past, Exists, Files
  <1>6. \A n : \A v \in 1..begun : Holds(fs[n], v)' <=> Holds(fs[n], v)
    <2>1. \A v \in 1..begun : keeps'[v] = keeps[v]
      BY <1>1, <1>2 DEF TypeOK
    <2> QED  BY <1>1, <2>1 DEF Holds, Written
  <1>7. StandingFits /\ StandingFits'
    BY StandingIs, StandingIsNext
  <1>8. CASE Exists("dir")
    <2>1. Holds(fs["dir"], Standing) /\ Holds(fs["dir"], Standing)'
      BY <1>1, <1>7, <1>8 DEF StandingFits, Exists
    <2> QED  BY <1>1, <1>3, <1>4, <2>1
  <1>9. CASE ~Exists("dir")
    <2>1. \/ Standing = 0 /\ \A v \in 1..begun : ~Holds(fs["replaced"], v)
          \/ Standing \in 1..begun /\ Holds(fs["replaced"], Standing)
      BY <1>7, <1>9 DEF StandingFits
    <2>2. \/ Standing' = 0 /\ \A v \in 1..(begun + 1) : ~Holds(fs["replaced"], v)'
          \/ Standing' \in 1..(begun + 1) /\ Holds(fs["replaced"], Standing)'
      BY <1>1, <1>7, <1>9 DEF StandingFits, Exists
    <2>3. CASE Standing' = 0 /\ \A v \in 1..(begun + 1) : ~Holds(fs["replaced"], v)'
      <3>1. \A v \in 1..begun : v \in 1..(begun + 1)
        BY <1>2
      <3>2. \A v \in 1..begun : ~Holds(fs["replaced"], v)
        BY <1>6, <2>3, <3>1 DEF Holds, Written
      <3> QED  BY <1>1, <2>1, <2>3, <3>2
    <2>4. CASE Standing' \in 1..(begun + 1) /\ Holds(fs["replaced"], Standing)'
      <3>1. Standing' <= begun
        BY <1>5, <2>4 DEF Names
      <3>2. Standing' \in 1..begun
        BY <1>2, <2>4, <3>1
      <3>3. Holds(fs["replaced"], Standing')
        BY <1>6, <2>4, <3>2 DEF Holds, Written
      <3>4. Standing \in 1..begun /\ Holds(fs["replaced"], Standing)
        BY <2>1, <3>2, <3>3
      <3> QED  BY <1>1, <1>4, <3>3, <3>4
    <2> QED  BY <2>2, <2>3, <2>4
  <1> QED  BY <1>8, <1>9

(* Setting the old checkpoint aside does not lose it.                      *)
LEMMA StandingIsDisplaced ==
    SaveInv /\ MoveAside /\ pc' = "replace" /\ SaveInv' => Standing' = Standing /\ begun' = begun
  <1> SUFFICES ASSUME SaveInv, MoveAside, pc' = "replace", SaveInv'
               PROVE  Standing' = Standing /\ begun' = begun
    OBVIOUS
  <1>1. /\ UNCHANGED <<begun, keeps>> /\ Exists("dir")
        /\ fs'["dir"] = Absent /\ fs'["replaced"] = fs["dir"]
    BY DisplacedFacts
  <1>3. Standing \in 1..begun /\ Holds(fs["dir"], Standing)
    BY <1>1, StandingIs DEF StandingFits
  <1>4. Holds(fs["replaced"], Standing)'
    <2>1. ~Exists("dir")'
      BY <1>1 DEF Exists
    <2>2. \/ \A v \in 1..begun' : ~Holds(fs["replaced"], v)'
          \/ Holds(fs["replaced"], Standing)'
      BY <2>1, StandingIsNext DEF StandingFits
    <2> QED  BY <1>1, <1>3, <2>2 DEF Holds, Written
  <1>5. Holds(fs["dir"], Standing')
    BY <1>1, <1>4 DEF Holds, Written
  <1>6. \A v : Holds(fs["dir"], v) => fs["dir"]["manifest"] = v
    BY DEF Holds, Written, Files
  <1> QED  BY <1>1, <1>3, <1>5, <1>6

(* The save takes the name, from an older one.                             *)
LEMMA StandingIsTaken ==
    SaveInv /\ PastInv /\ Take /\ SaveInv' => Standing < begun /\ Standing' = begun /\ begun' = begun
  <1> SUFFICES ASSUME SaveInv, PastInv, Take, SaveInv'
               PROVE  Standing < begun /\ Standing' = begun /\ begun' = begun
    OBVIOUS
  <1>1. /\ UNCHANGED <<begun, keeps>> /\ ~Exists("dir") /\ begun \in 1..begun
        /\ Holds(fs["dir"], begun)'
    BY TakenFacts
  <1>2. Exists("dir")'
    BY <1>1 DEF Holds, Exists
  <1>3. Holds(fs["dir"], Standing)'
    BY <1>2, StandingIsNext DEF StandingFits
  <1>4. fs'["dir"]["manifest"] = Standing' /\ fs'["dir"]["manifest"] = begun
    BY <1>1, <1>3 DEF Holds, Written, Files
  <1>5. Standing < begun
    <2>1. CASE Standing = 0
      BY <1>1, <2>1
    <2>2. CASE Standing # 0
      <3>1. Standing \in 1..begun /\ Holds(fs["replaced"], Standing)
        BY <1>1, <2>2, StandingIs DEF StandingFits
      <3> QED  BY <3>1 DEF PastInv, AsideIsOlder, Take, Before
    <2> QED  BY <2>1, <2>2
  <1> QED  BY <1>1, <1>4, <1>5

(* What has the name and what stands aside are that save, in one place or  *)
(* the other.                                                              *)
LEMMA StandingPlace ==
    /\ Named = IF Exists("dir") THEN Standing ELSE 0
    /\ Aside = IF Exists("dir") THEN 0 ELSE Standing
  BY DEF Standing, Named, Aside

LEMMA StandingPlaceNext ==
    /\ Named' = IF Exists("dir")' THEN Standing' ELSE 0
    /\ Aside' = IF Exists("dir")' THEN 0 ELSE Standing'
  BY DEF Standing, Named, Aside

(* A step that leaves the name as it is leaves both.                       *)
LEMMA PlacesStay ==
    ASSUME Exists("dir")' <=> Exists("dir"), Standing' = Standing
    PROVE  Named' = Named /\ Aside' = Aside
  BY StandingPlace, StandingPlaceNext

LEMMA BeginsAsPromised == SaveInv /\ PastInv /\ Begin /\ SaveInv' => Promise!Begin
  <1> SUFFICES ASSUME SaveInv, PastInv, Begin, SaveInv'
               PROVE  begun' = begun + 1 /\ Named' = Named /\ Aside' = Aside
    BY DEF Promise!Begin
  <1>1. begun' = begun + 1 /\ fs' = fs
    BY DEF Begin
  <1> QED  BY <1>1, StandingBegins, PlacesStay DEF Exists

LEMMA DisplacesAsPromised ==
    SaveInv /\ MoveAside /\ pc' = "replace" /\ SaveInv' => Promise!Displace
  <1> SUFFICES ASSUME SaveInv, MoveAside, pc' = "replace", SaveInv'
               PROVE  /\ Named # 0 /\ Named < begun /\ Named' = 0
                      /\ Aside' = Named /\ begun' = begun
    BY DEF Promise!Displace
  <1>1. begun' = begun /\ Exists("dir") /\ ~Exists("dir")' /\ Standing' = Standing
    BY DisplacedFacts, StandingIsDisplaced DEF Exists
  <1>2. Named = Standing /\ Named' = 0 /\ Aside' = Standing
    BY <1>1, StandingPlace, StandingPlaceNext
  <1>3. Standing \in 1..begun /\ Holds(fs["dir"], Standing) /\ begun \in Int
    BY <1>1, StandingIs, FsFacts DEF StandingFits, SaveInv
  <1>4. PICK w \in 1..(begun - 1) : Holds(fs["dir"], w)
    BY DEF MoveAside, SaveInv, OlderStands, Places, BeforeTaking, Earlier
  <1>5. Standing = w
    BY <1>3, <1>4 DEF Holds, Written, Files
  <1> QED  BY <1>1, <1>2, <1>3, <1>4, <1>5

LEMMA TakesAsPromised == SaveInv /\ PastInv /\ Take /\ SaveInv' => Promise!Take
  <1> SUFFICES ASSUME SaveInv, PastInv, Take, SaveInv'
               PROVE  /\ Named = 0 /\ Aside < begun
                      /\ Named' = begun /\ Aside' = 0 /\ begun' = begun
    BY DEF Promise!Take
  <1>1. ~Exists("dir") /\ Exists("dir")'
    BY TakenFacts DEF Holds, Exists
  <1>2. Standing < begun /\ Standing' = begun /\ begun' = begun
    BY StandingIsTaken
  <1> QED  BY <1>1, <1>2, StandingPlace, StandingPlaceNext

LEMMA NextPromised ==
    SaveInv /\ PastInv /\ [Next]_vars /\ SaveInv' => [Promise!Next]_(Promise!promised)
  <1> SUFFICES ASSUME SaveInv, PastInv, [Next]_vars, SaveInv'
               PROVE  Promise!Next \/ (begun' = begun /\ Named' = Named /\ Aside' = Aside)
    BY DEF Promise!promised
  <1>1. CASE Read \/ UNCHANGED vars
    <2>1. UNCHANGED store
      BY <1>1 DEF Read, StartReading, ReadFile, StopReading, store, vars
    <2>2. LeavesStanding
      BY <2>1 DEF LeavesStanding, store
    <2> QED  BY <2>2, StandingStays, PlacesStay DEF LeavesStanding, Exists
  <1>2. CASE (Save \/ Restart) /\ LeavesStanding
    BY <1>2, StandingStays, PlacesStay DEF LeavesStanding, Exists
  <1>3. CASE Touches
    BY <1>3, BeginsAsPromised, DisplacesAsPromised, TakesAsPromised DEF Touches, Promise!Next
  <1> QED  BY <1>1, <1>2, <1>3, SaveShape DEF Next

(* Saving file by file, with all its failures, crashes and leftovers,      *)
(* does to the name and to what stands aside what CheckpointPromise says   *)
(* (publish): the name goes from an older checkpoint to none to the        *)
(* newest, and while it is empty the older one stands aside whole.         *)
THEOREM SavingKeepsItsPromise == Spec => KeepsItsPromise
  <1>1. Init => Promise!Init
    <2> SUFFICES ASSUME Init PROVE begun = 0 /\ Named = 0 /\ Aside = 0
      BY DEF Promise!Init
    <2>1. SaveInv /\ ~Exists("dir") /\ fs["replaced"] = Absent /\ begun = 0
      BY InitSave DEF Init, Exists, Names
    <2>2. StandingFits
      BY <2>1, StandingIs
    <2>3. ~Holds(fs["replaced"], Standing)
      BY <2>1 DEF Holds
    <2> QED  BY <2>1, <2>2, <2>3, StandingPlace DEF StandingFits
  <1>2. SaveInv /\ PastInv /\ [Next]_vars /\ SaveInv' => [Promise!Next]_(Promise!promised)
    BY NextPromised
  <1>3. Spec => Promise!Spec
    BY <1>1, <1>2, PastInvariance, PTL DEF Spec, Promise!Spec
  <1> QED  BY <1>3 DEF KeepsItsPromise

-----------------------------------------------------------------------------
(* The reader.  What it has read is of a save that has begun, and of none  *)
(* newer than the one under the name.                                      *)

NoNewer(v) == v \in 1..begun /\ \A w \in 1..begun : Holds(fs["dir"], w) => v <= w

Taken == \A i \in 1..reading : ReadOrder[i] # "optimizer" => NoNewer(got[ReadOrder[i]])

(* Whatever has the name after a step had it before, or is the newest.     *)
LEMMA NameMovesOn ==
    SaveInv /\ (Save \/ Restart) =>
      /\ begun' \in {begun, begun + 1}
      /\ \A w \in 1..begun' : Holds(fs["dir"], w)' =>
            w = begun' \/ (w \in 1..begun /\ Holds(fs["dir"], w))
  <1> SUFFICES ASSUME SaveInv, Save \/ Restart
               PROVE  /\ begun' \in {begun, begun + 1}
                      /\ \A w \in 1..begun' : Holds(fs["dir"], w)' =>
                            w = begun' \/ (w \in 1..begun /\ Holds(fs["dir"], w))
    OBVIOUS
  <1>1. CASE LeavesStanding
    BY <1>1 DEF LeavesStanding, Holds, Written
  <1>2. CASE Begin
    <2>1. begun' = begun + 1 /\ fs' = fs /\ keeps' = [keeps EXCEPT ![begun + 1] = adam] /\ TypeOK
      BY <1>2 DEF Begin, SaveInv
    <2>2. \A w \in 1..(begun + 1) : w = begun + 1 \/ (w \in 1..begun /\ keeps'[w] = keeps[w])
      BY <2>1, FsFacts DEF TypeOK
    <2> QED  BY <2>1, <2>2 DEF Holds, Written
  <1>3. CASE MoveAside /\ pc' = "replace"
    BY <1>3, DisplacedFacts DEF Holds
  <1>4. CASE Take
    <2>1. begun' = begun /\ Holds(fs["dir"], begun)'
      BY <1>4, TakenFacts
    <2>2. \A w : Holds(fs["dir"], w)' => fs'["dir"]["manifest"] = w
      BY DEF Holds, Written, Files
    <2>3. fs'["dir"]["manifest"] = begun
      BY <2>1 DEF Holds, Written, Files
    <2> QED  BY <2>1, <2>2, <2>3
  <1> QED  BY <1>1, <1>2, <1>3, <1>4, SaveShape DEF Touches

LEMMA NoNewerStays ==
    ASSUME SaveInv, Save \/ Restart, NEW v, NoNewer(v)
    PROVE  NoNewer(v)'
  <1>1. begun \in Int
    BY FsFacts DEF SaveInv
  <1>2. begun' \in Int /\ begun <= begun'
    BY <1>1, NameMovesOn
  <1>3. v \in 1..begun' /\ v <= begun'
    BY <1>1, <1>2 DEF NoNewer
  <1>4. \A w \in 1..begun' : Holds(fs["dir"], w)' => v <= w
    <2> SUFFICES ASSUME NEW w \in 1..begun', Holds(fs["dir"], w)' PROVE v <= w
      OBVIOUS
    <2>1. w = begun' \/ (w \in 1..begun /\ Holds(fs["dir"], w))
      BY NameMovesOn
    <2> QED  BY <1>3, <2>1 DEF NoNewer
  <1> QED  BY <1>3, <1>4 DEF NoNewer

LEMMA SaveForward == SaveInv /\ Taken /\ ReadsForward /\ (Save \/ Restart) => (Taken /\ ReadsForward)'
  <1> SUFFICES ASSUME SaveInv, Taken, ReadsForward, Save \/ Restart
               PROVE  Taken' /\ ReadsForward'
    OBVIOUS
  <1>1. reading' = reading /\ got' = got
    BY SaveShape DEF reader
  <1>2. Taken'
    BY <1>1, NoNewerStays DEF Taken
  <1> QED  BY <1>1, <1>2 DEF ReadsForward

(* A reader starts, or throws away what it had.                            *)
LEMMA NothingRead == reading' \in {0, -1} => (Taken /\ ReadsForward)'
  <1> SUFFICES ASSUME reading' \in {0, -1} PROVE Taken' /\ ReadsForward'
    OBVIOUS
  <1>1. \A i \in 1..reading' : FALSE
    OBVIOUS
  <1> QED  BY <1>1 DEF Taken, ReadsForward

LEMMA ReadOnce == \A i, j \in 1..5 : ReadOrder[i] = ReadOrder[j] => i = j
  BY DEF ReadOrder

(* One file more: of the checkpoint under the name, which is whole.        *)
LEMMA ReadsOneMore ==
    ASSUME SaveInv, Taken, ReadsForward, ReadFile, reading' = reading + 1
    PROVE  (Taken /\ ReadsForward)'
  <1> DEFINE f == ReadOrder[reading + 1]
             found == IF Exists("dir") THEN fs["dir"][f] ELSE Missing
  <1>1. UNCHANGED <<fs, begun, keeps>> /\ TypeOK
    BY DEF ReadFile, SaveInv, store
  <1>2. reading \in 0..4 /\ reading + 1 \in 1..5
    <2>1. reading \in 0..(5 - 1)
      BY OrderLens DEF ReadFile
    <2> QED  BY <2>1
  <1>3. f \in Files
    BY <1>2, OrderFacts
  <1>4. got' = [got EXCEPT ![f] = found] /\ (f # "optimizer" => found # Missing)
    BY <1>2 DEF ReadFile
  <1>5. got \in [Files -> Content]
    BY <1>1 DEF TypeOK
  <1>6. \A i \in 1..reading : /\ i \in 1..5 /\ i # reading + 1
                             /\ got'[ReadOrder[i]] = got[ReadOrder[i]]
    <2> SUFFICES ASSUME NEW i \in 1..reading
                 PROVE  /\ i \in 1..5 /\ i # reading + 1
                        /\ got'[ReadOrder[i]] = got[ReadOrder[i]]
      OBVIOUS
    <2>1. i \in 1..5 /\ i # reading + 1
      BY <1>2
    <2>2. ReadOrder[i] # f /\ ReadOrder[i] \in Files
      BY <1>2, <2>1, ReadOnce, OrderFacts
    <2> QED  BY <1>4, <1>5, <2>1, <2>2
  <1>7. got'[f] = found
    BY <1>3, <1>4, <1>5
  <1>8. f # "optimizer" => found \in 1..begun /\ Holds(fs["dir"], found)
    <2> SUFFICES ASSUME f # "optimizer" PROVE found \in 1..begun /\ Holds(fs["dir"], found)
      OBVIOUS
    <2>1. Exists("dir")
      BY <1>4
    <2>2. PICK v \in 1..begun : Holds(fs["dir"], v)
      BY <2>1 DEF SaveInv, NameIsWhole
    <2>3. fs["dir"][f] = v
      BY <1>3, <2>2, HoldsOne
    <2> QED  BY <2>1, <2>2, <2>3
  <1>9. \A w : Holds(fs["dir"], w) => fs["dir"]["manifest"] = w
    BY DEF Holds, Written, Files
  <1>10. f # "optimizer" => NoNewer(found)
    <2>1. \A w : f # "optimizer" /\ Holds(fs["dir"], w) => w = found
      BY <1>8, <1>9
    <2>2. f # "optimizer" => found <= found
      BY <1>1, <1>8, FsFacts
    <2> QED  BY <1>8, <2>1, <2>2 DEF NoNewer
  <1>11. \A i \in 1..(reading + 1) : i \in 1..reading \/ i = reading + 1
    BY <1>2
  <1>12. Taken'
    <2>1. \A v : NoNewer(v)' <=> NoNewer(v)
      BY <1>1 DEF NoNewer, Holds, Written
    <2>2. \A i \in 1..(reading + 1) : ReadOrder[i] # "optimizer" => NoNewer(got'[ReadOrder[i]])
      BY <1>6, <1>7, <1>10, <1>11 DEF Taken
    <2> QED  BY <1>1, <2>2 DEF Taken, NoNewer, Holds, Written
  <1>13. ReadsForward'
    <2> SUFFICES ASSUME NEW i \in 1..(reading + 1), NEW j \in 1..(reading + 1), i < j,
                        "optimizer" \notin {ReadOrder[i], ReadOrder[j]}
                 PROVE  got'[ReadOrder[i]] \in 1..got'[ReadOrder[j]]
      BY DEF ReadsForward
    <2>1. i \in 1..reading
      BY <1>2
    <2>2. CASE j \in 1..reading
      BY <1>6, <2>1, <2>2 DEF ReadsForward
    <2>3. CASE j = reading + 1
      <3>1. NoNewer(got[ReadOrder[i]])
        BY <2>1 DEF Taken
      <3>2. got[ReadOrder[i]] \in 1..begun /\ got[ReadOrder[i]] <= found /\ found \in 1..begun
        BY <1>8, <2>3, <3>1 DEF NoNewer
      <3>3. got[ReadOrder[i]] \in 1..found
        BY <1>1, <3>2, FsFacts
      <3> QED  BY <1>6, <1>7, <2>1, <2>3, <3>3
    <2> QED  BY <1>11, <2>2, <2>3
  <1> QED  BY <1>12, <1>13

LEMMA NextForward == SaveInv /\ Taken /\ ReadsForward /\ [Next]_vars => (Taken /\ ReadsForward)'
  <1> SUFFICES ASSUME SaveInv, Taken, ReadsForward, [Next]_vars
               PROVE  (Taken /\ ReadsForward)'
    OBVIOUS
  <1>1. CASE UNCHANGED vars
    BY <1>1 DEF vars, Taken, ReadsForward, NoNewer, Holds, Written
  <1>2. CASE Save \/ Restart
    BY <1>2, SaveForward
  <1>3. CASE StartReading \/ StopReading
    BY <1>3, NothingRead DEF StartReading, StopReading
  <1>4. CASE ReadFile
    <2>1. reading' = -1 \/ reading' = reading + 1
      BY <1>4 DEF ReadFile
    <2> QED  BY <1>4, <2>1, NothingRead, ReadsOneMore
  <1> QED  BY <1>1, <1>2, <1>3, <1>4 DEF Next, Read

(* However a reader in another process is overtaken, no file it takes is   *)
(* of an older save than a file it took before (read opens path after      *)
(* path), the slots apart.                                                 *)
THEOREM AReaderReadsForward == Spec => []ReadsForward
  <1>1. Init => Taken /\ ReadsForward
    BY DEF Init, Taken, ReadsForward
  <1>2. SaveInv /\ Taken /\ ReadsForward /\ [Next]_vars => (Taken /\ ReadsForward)'
    BY NextForward
  <1> QED  BY <1>1, <1>2, SaveInvariance, PTL DEF Spec

-----------------------------------------------------------------------------
(* The policies: the checkpoint they go back to is at or behind the        *)
(* session, so that since the last cut the steps went up by the losses     *)
(* read at most.                                                           *)

Typed ==
    /\ step \in Nat /\ rate \in Nat /\ event.step \in Nat
    /\ lastChange \in Nat /\ cuts \in Nat /\ since \in Nat
    /\ \A checkpoint \in file : checkpoint.step \in Nat

(* A rollback never goes forward: the session is at or behind the event,   *)
(* and the one checkpoint at or behind the session.                        *)
GoesBack ==
    /\ \A c, d \in file : c = d
    /\ \A checkpoint \in file : checkpoint.step <= step
    /\ due # <<>> => event.step > 0 /\ step <= event.step

(* Since the last cut the steps went up by the losses read at most.        *)
CountsUp ==
    cuts > 0 =>
        /\ lastChange > 0 /\ step <= lastChange + since
        /\ due # <<>> => event.step <= lastChange + since

CutsInv == Typed /\ GoesBack /\ CountsUp

-----------------------------------------------------------------------------

LEMMA CutsInit == PoliciesInit => CutsInv
  BY DEF PoliciesInit, CutsInv, Typed, GoesBack, CountsUp

LEMMA StepsKeeps == ASSUME NEW loss, CutsInv, Steps(loss) PROVE CutsInv'
  BY DEF Steps, CutsInv, Typed, GoesBack, CountsUp, policies

(* A hook that moves neither the session nor the count of steps.           *)
LEMMA LooksAway ==
    ASSUME CutsInv, UNCHANGED <<session, lastChange, event, cuts, since>>, due' # <<>> => due # <<>>
    PROVE  CutsInv'
  BY DEF CutsInv, Typed, GoesBack, CountsUp, session

LEMMA GuardKeeps == CutsInv /\ GuardAnswers => CutsInv'
  <1> SUFFICES ASSUME CutsInv, GuardAnswers PROVE CutsInv'
    OBVIOUS
  <1>1. /\ due # <<>> /\ UNCHANGED <<file, lastChange, event, cuts, since>>
        /\ rate' = rate + 1
        /\ step' = IF file = {} THEN step ELSE (CHOOSE c \in file : TRUE).step
    BY DEF GuardAnswers, Called, Returns
  <1>2. step' = step \/ \E c \in file : step' = c.step
    BY <1>1
  <1>3. step' \in Nat /\ step' <= step
    BY <1>2 DEF CutsInv, Typed, GoesBack
  <1>4. \A c \in file : c.step <= step'
    <2>1. CASE step' = step
      BY <2>1 DEF CutsInv, GoesBack
    <2>2. ASSUME NEW d \in file, step' = d.step PROVE \A c \in file : c.step <= step'
      <3>1. \A c \in file : c.step = d.step
        BY DEF CutsInv, GoesBack
      <3> QED  BY <1>3, <2>2, <3>1
    <2> QED  BY <1>2, <2>1, <2>2
  <1> QED  BY <1>1, <1>3, <1>4 DEF CutsInv, Typed, GoesBack, CountsUp

LEMMA BestKeepsKeeps == CutsInv /\ BestKeeps => CutsInv'
  <1> SUFFICES ASSUME CutsInv, BestKeeps PROVE CutsInv'
    OBVIOUS
  <1>1. /\ due # <<>> /\ UNCHANGED <<step, rate, lastChange, event, cuts, since>>
        /\ file' \in {file, {}, {[step |-> step, rate |-> rate]}}
    BY DEF BestKeeps, Called, Returns, Raises
  <1>2. \A c \in file' : c \in file \/ c = [step |-> step, rate |-> rate]
    BY <1>1
  <1>3. \A c, d \in file' : c = d
    BY <1>1 DEF CutsInv, GoesBack
  <1>4. \A c \in file' : c.step \in Nat /\ c.step <= step
    BY <1>2 DEF CutsInv, Typed, GoesBack
  <1> QED  BY <1>1, <1>3, <1>4 DEF CutsInv, Typed, GoesBack, CountsUp

LEMMA CutKeeps == CutsInv /\ CutsRate => CutsInv'
  <1> SUFFICES ASSUME CutsInv, CutsRate PROVE CutsInv'
    OBVIOUS
  <1>1. /\ due # <<>> /\ UNCHANGED <<step, file, event>>
        /\ lastChange' = event.step /\ rate' = rate + 1 /\ cuts' = cuts + 1 /\ since' = 0
    BY DEF CutsRate, Called, Returns
  <1> QED  BY <1>1 DEF CutsInv, Typed, GoesBack, CountsUp

LEMMA CutsNext == CutsInv /\ [PoliciesNext]_policyVars => CutsInv'
  <1> SUFFICES ASSUME CutsInv, [PoliciesNext]_policyVars PROVE CutsInv'
    OBVIOUS
  <1>1. CASE UNCHANGED policyVars
    BY <1>1, LooksAway DEF policyVars, policies, told
  <1>2. CASE \E loss \in Losses \cup {NotFinite} : Steps(loss)
    BY <1>2, StepsKeeps
  <1>3. CASE GuardLooksAway \/ GuardGivesUp \/ GuardIsRefused
    BY <1>3, LooksAway DEF GuardLooksAway, GuardGivesUp, GuardIsRefused, Called, Returns, Raises
  <1>4. CASE BestLooksAway \/ CutLooksAway \/ StopCalled
    BY <1>4, LooksAway DEF BestLooksAway, CutLooksAway, StopCalled, Called, Returns, Raises, policies
  <1>5. CASE GuardAnswers \/ BestKeeps \/ CutsRate
    BY <1>5, GuardKeeps, BestKeepsKeeps, CutKeeps
  <1> QED  BY <1>1, <1>2, <1>3, <1>4, <1>5 DEF PoliciesNext

THEOREM CutsInvariance == PoliciesSpec => []CutsInv
  <1>1. PoliciesInit => CutsInv
    BY CutsInit
  <1>2. CutsInv /\ [PoliciesNext]_policyVars => CutsInv'
    BY CutsNext
  <1> QED  BY <1>1, <1>2, PTL DEF PoliciesSpec

(* A cut has passed TooSoon, which measures by steps; the losses read      *)
(* since the last cut are at least as many.                                *)
LEMMA CutIsApart == CutsInv /\ [PoliciesNext]_policyVars => (cuts' # cuts /\ cuts > 0 => since >= CutPatience)
  <1> SUFFICES ASSUME CutsInv, [PoliciesNext]_policyVars, cuts' # cuts, cuts > 0 PROVE since >= CutPatience
    OBVIOUS
  <1>1. CutsRate
    BY DEF PoliciesNext, Steps, GuardLooksAway, GuardGivesUp, GuardAnswers, GuardIsRefused, BestLooksAway,
       BestKeeps, CutLooksAway, StopCalled, policyVars, told
  <1>2. due # <<>> /\ ~(lastChange > 0 /\ event.step - lastChange < CutPatience)
    BY <1>1 DEF CutsRate, Called, Cuts, TooSoon
  <1>3. lastChange > 0 /\ event.step <= lastChange + since
    BY <1>2 DEF CutsInv, CountsUp
  <1>4. event.step - lastChange >= CutPatience
    BY <1>2, <1>3, PoliciesAssumption DEF CutsInv, Typed
  <1> QED  BY <1>3, <1>4, PoliciesAssumption DEF CutsInv, Typed

(* LrOnPlateau's own claim, "one change per plateau, not one per step of   *)
(* it": whatever the losses, the patiences and the order of the hooks, two *)
(* cuts are CutPatience losses apart, rollbacks or not.                    *)
THEOREM CutsAreApart == PoliciesSpec => OneCutPerPlateau
  <1>1. CutsInv /\ [PoliciesNext]_policyVars => [cuts' # cuts /\ cuts > 0 => since >= CutPatience]_policyVars
    BY CutIsApart
  <1> QED  BY <1>1, CutsInvariance, PTL DEF PoliciesSpec, OneCutPerPlateau

-----------------------------------------------------------------------------
(* What the history keeps of a run: the last readings as they are, and of  *)
(* those that fell out the least number, if one was a number.  That there  *)
(* is a least one among any of the readings is carried along, since the    *)
(* losses are any integers.                                                *)

Reading == Losses \cup {NotFinite}
NumbersTo(s, last) == {s[i] : i \in {j \in 1 .. last : Finite(s[j])}}
Least(S, m) == m \in S /\ \A x \in S : m <= x
Sums(dropped, S) == IF S = {} THEN dropped = {} ELSE \E m : Least(S, m) /\ dropped = {m}

Remembers(h, s) ==
    LET kept == Len(h.recent)
        gone == Len(s) - kept
    IN  /\ s \in Seq(Reading) /\ h.recent \in Seq(Reading)
        /\ h = [recent |-> h.recent, dropped |-> h.dropped, size |-> Len(s)]
        /\ kept <= Len(s) /\ kept <= Keep /\ (kept < Keep => kept = Len(s))
        /\ \A i \in 1 .. kept : h.recent[i] = s[gone + i]
        /\ Sums(h.dropped, NumbersTo(s, gone))
        /\ \A S \in SUBSET NumbersTo(s, Len(s)) : S # {} => \E m : Least(S, m)

HistoryInv == Remembers(history, all)

LEMMA MinIsLeast ==
    ASSUME NEW S \in SUBSET Int, NEW m, Least(S, m)
    PROVE  Min(S) = m
  <1>1. m \in S /\ \A y \in S : m <= y
    BY DEF Least
  <1>2. Min(S) \in S /\ \A y \in S : Min(S) <= y
    BY <1>1 DEF Min
  <1>3. Min(S) <= m /\ m <= Min(S) /\ Min(S) \in Int /\ m \in Int
    BY <1>1, <1>2
  <1> QED  BY <1>3

(* The one number stands for all it was taken over.                        *)
LEMMA OneStandsForAll ==
    ASSUME NEW dropped, NEW G \in SUBSET Int, NEW N \in SUBSET Int, Sums(dropped, G)
    PROVE  /\ dropped \cup N = {} <=> G \cup N = {}
           /\ dropped \subseteq Int
           /\ \A m : Least(G \cup N, m) => Least(dropped \cup N, m)
           /\ (\E m : Least(G \cup N, m)) => Min(dropped \cup N) = Min(G \cup N)
  <1>1. CASE G = {}
    BY <1>1 DEF Sums
  <1>2. CASE G # {}
    <2>1. PICK least : Least(G, least) /\ dropped = {least}
      BY <1>2 DEF Sums
    <2>2. least \in G /\ least \in Int /\ \A x \in G : least <= x
      BY <2>1 DEF Least
    <2>3. ASSUME NEW m, Least(G \cup N, m) PROVE Least(dropped \cup N, m)
      <3>1. m \in G \cup N /\ m \in Int /\ \A x \in G \cup N : m <= x
        BY <2>3 DEF Least
      <3>2. m \in dropped \cup N
        <4>1. CASE m \in N
          BY <4>1
        <4>2. CASE m \in G
          <5>1. least <= m /\ m <= least
            BY <2>2, <3>1, <4>2
          <5>2. m = least
            BY <2>2, <3>1, <5>1
          <5> QED  BY <2>1, <5>2
        <4> QED  BY <3>1, <4>1, <4>2
      <3>3. \A x \in dropped \cup N : m <= x
        BY <2>1, <2>2, <3>1
      <3> QED  BY <3>2, <3>3 DEF Least
    <2>4. dropped \subseteq Int /\ dropped \cup N # {} /\ G \cup N # {}
      BY <1>2, <2>1, <2>2
    <2>5. ASSUME NEW m, Least(G \cup N, m) PROVE Min(dropped \cup N) = Min(G \cup N)
      <3>1. Min(dropped \cup N) = m
        BY <2>3, <2>4, <2>5, MinIsLeast
      <3>2. Min(G \cup N) = m
        BY <2>5, MinIsLeast
      <3> QED  BY <3>1, <3>2
    <2> QED  BY <2>3, <2>4, <2>5
  <1> QED  BY <1>1, <1>2

LEMMA NumbersAreIntegers ==
    ASSUME NEW s \in Seq(Reading), NEW last \in Int, last <= Len(s)
    PROVE  NumbersTo(s, last) \subseteq Int
  <1> SUFFICES ASSUME NEW x \in NumbersTo(s, last) PROVE x \in Int
    OBVIOUS
  <1>1. PICK i \in 1 .. last : s[i] = x /\ s[i] # NotFinite
    BY DEF NumbersTo, Finite
  <1>2. s[i] \in Reading
    BY <1>1
  <1> QED  BY <1>1, <1>2, PoliciesAssumption DEF Reading

LEMMA NumbersOfFirst ==
    ASSUME NEW s \in Seq(Reading), NEW last \in Nat, last <= Len(s)
    PROVE  Numbers(SubSeq(s, 1, last)) = NumbersTo(s, last)
  <1>1. DOMAIN SubSeq(s, 1, last) = 1 .. last /\ \A i \in 1 .. last : SubSeq(s, 1, last)[i] = s[i]
    OBVIOUS
  <1>2. ToSet(SubSeq(s, 1, last)) = {s[i] : i \in 1 .. last}
    BY <1>1 DEF ToSet
  <1> QED  BY <1>2 DEF Numbers, NumbersTo

LEMMA NumbersGrow ==
    ASSUME NEW s, NEW t, NEW last \in Nat, \A i \in 1 .. last : t[i] = s[i]
    PROVE  /\ NumbersTo(t, last) = NumbersTo(s, last)
           /\ NumbersTo(t, last + 1) =
                 NumbersTo(s, last) \cup (IF Finite(t[last + 1]) THEN {t[last + 1]} ELSE {})
  <1>1. 1 .. (last + 1) = (1 .. last) \cup {last + 1}
    OBVIOUS
  <1> QED  BY <1>1 DEF NumbersTo

LEMMA NumbersWithin ==
    ASSUME NEW s, NEW few \in Int, NEW many \in Int, few <= many
    PROVE  NumbersTo(s, few) \subseteq NumbersTo(s, many)
  <1>1. 1 .. few \subseteq 1 .. many
    OBVIOUS
  <1> QED  BY <1>1 DEF NumbersTo

(* What is remembered has a length, and what is not.                       *)
LEMMA Remembered ==
    ASSUME NEW h, NEW s, Remembers(h, s), NEW n, n = Len(s), NEW k, k = Len(h.recent),
           NEW over, over = n - k
    PROVE  /\ n \in Nat /\ k \in Nat /\ over \in Nat /\ n = over + k /\ over <= n
           /\ k <= Keep /\ (k < Keep => over = 0) /\ Keep \in Nat /\ Keep >= 1
           /\ s \in Seq(Reading) /\ h.recent \in Seq(Reading)
           /\ h = [recent |-> h.recent, dropped |-> h.dropped, size |-> n]
           /\ \A i \in 1 .. k : h.recent[i] = s[over + i]
           /\ Sums(h.dropped, NumbersTo(s, over))
           /\ \A S \in SUBSET NumbersTo(s, n) : S # {} => \E m : Least(S, m)
  <1>1. s \in Seq(Reading) /\ h.recent \in Seq(Reading)
    BY DEF Remembers
  <1>2. n \in Nat /\ k \in Nat
    BY <1>1
  <1>3. k <= n /\ k <= Keep /\ (k < Keep => k = n)
    BY DEF Remembers
  <1>4. over \in Nat /\ n = over + k /\ over <= n /\ (k < Keep => over = 0)
    BY <1>2, <1>3
  <1>5. Keep \in Nat /\ Keep >= 1
    BY PoliciesAssumption
  <1>6. /\ h = [recent |-> h.recent, dropped |-> h.dropped, size |-> n]
        /\ \A i \in 1 .. k : h.recent[i] = s[over + i]
        /\ Sums(h.dropped, NumbersTo(s, over))
        /\ \A S \in SUBSET NumbersTo(s, n) : S # {} => \E m : Least(S, m)
    BY DEF Remembers
  <1> QED  BY <1>1, <1>2, <1>3, <1>4, <1>5, <1>6

(* Among one reading more there still is a least number.                   *)
LEMMA LeastOfOneMore ==
    ASSUME NEW N \in SUBSET Int, NEW loss \in Int,
           \A S \in SUBSET N : S # {} => \E m : Least(S, m),
           NEW S \in SUBSET (N \cup {loss}), S # {}
    PROVE  \E m : Least(S, m)
  <1>1. S \subseteq Int /\ S \ {loss} \in SUBSET N
    OBVIOUS
  <1>2. CASE loss \notin S
    <2>1. S \ {loss} = S
      BY <1>2
    <2> QED  BY <1>1, <2>1
  <1>3. CASE loss \in S /\ S \ {loss} = {}
    <2>1. loss <= loss /\ \A x \in S : x = loss
      BY <1>3
    <2> QED  BY <1>3, <2>1 DEF Least
  <1>4. CASE loss \in S /\ S \ {loss} # {}
    <2>1. PICK m : Least(S \ {loss}, m)
      BY <1>1, <1>4
    <2>2. m \in S /\ m \in Int /\ \A x \in S : x = loss \/ m <= x
      BY <1>1, <2>1 DEF Least
    <2>3. CASE m <= loss
      <3>1. \A x \in S : m <= x
        BY <2>2, <2>3
      <3> QED  BY <2>2, <3>1 DEF Least
    <2>4. CASE loss <= m
      <3>1. \A x \in S : loss <= x
        BY <1>1, <2>2, <2>4
      <3> QED  BY <1>4, <3>1 DEF Least
    <2> QED  BY <2>2, <2>3, <2>4
  <1> QED  BY <1>2, <1>3, <1>4

LEMMA ReadingIsRemembered ==
    ASSUME NEW h, NEW s, Remembers(h, s), NEW loss \in Reading
    PROVE  Remembers(Pushed(h, loss), Append(s, loss))
  <1> DEFINE n == Len(s)
             k == Len(h.recent)
             over == n - k
             kept == Append(h.recent, loss)
             gone == Head(kept)
             t == Append(s, loss)
             n1 == n + 1
             k1 == k + 1
             over1 == over + 1
  <1>0. n = Len(s) /\ k = Len(h.recent) /\ over = n - k
    OBVIOUS
  <1> HIDE DEF n, k, over
  <1>1. /\ n \in Nat /\ k \in Nat /\ over \in Nat /\ n = over + k /\ over <= n
        /\ k <= Keep /\ (k < Keep => over = 0) /\ Keep \in Nat /\ Keep >= 1
    BY <1>0, Remembered
  <1>12. s \in Seq(Reading) /\ h.recent \in Seq(Reading)
    BY Remembered
  <1>13. h = [recent |-> h.recent, dropped |-> h.dropped, size |-> n]
    BY <1>0, Remembered
  <1>17. /\ h.size = n
         /\ [h EXCEPT !.recent = kept, !.size = @ + 1]
               = [recent |-> kept, dropped |-> h.dropped, size |-> n + 1]
    <2>1. PICK r, d : h = [recent |-> r, dropped |-> d, size |-> n]
      BY <1>13
    <2>2. h.size = n /\ h.dropped = d
      BY <2>1
    <2> HIDE DEF kept
    <2>3. [h EXCEPT !.recent = kept] = [recent |-> kept, dropped |-> d, size |-> n]
      BY <2>1
    <2>4. [[recent |-> kept, dropped |-> d, size |-> n] EXCEPT !.size = n + 1]
             = [recent |-> kept, dropped |-> d, size |-> n + 1]
      OBVIOUS
    <2> QED  BY <2>2, <2>3, <2>4
  <1>14. \A i \in 1 .. k : h.recent[i] = s[over + i]
    BY <1>0 DEF Remembers
  <1>15. Sums(h.dropped, NumbersTo(s, over))
    BY <1>0, Remembered
  <1>16. \A S \in SUBSET NumbersTo(s, n) : S # {} => \E m : Least(S, m)
    BY ZenonT(40), <1>0, Remembered
  <1>2. /\ t \in Seq(Reading) /\ Len(t) = n1
        /\ \A i \in 1 .. n : t[i] = s[i]
        /\ t[n1] = loss
    BY <1>12 DEF n
  <1>3. /\ kept \in Seq(Reading) /\ Len(kept) = k1
        /\ \A i \in 1 .. k : kept[i] = h.recent[i]
        /\ kept[k1] = loss /\ gone = kept[1]
    BY <1>12 DEF k
  <1>4. /\ n1 \in Nat /\ k1 \in Nat /\ over1 \in Nat /\ n1 = over + k1 /\ n1 = over1 + k
        /\ over1 <= n1 /\ n <= n1 /\ over <= n1
    BY <1>1
  <1>5. Pushed(h, loss) = IF Len(kept) <= Keep THEN [h EXCEPT !.recent = kept, !.size = @ + 1]
                   ELSE [recent |-> Tail(kept), size |-> h.size + 1,
                         dropped |-> IF Finite(gone) THEN {Min(h.dropped \cup {gone})} ELSE h.dropped]
    BY DEF Pushed
  <1> HIDE DEF kept, gone, t
  <1>6. NumbersTo(t, n1) = NumbersTo(s, n) \cup (IF Finite(loss) THEN {loss} ELSE {})
    <2>1. \A i \in 1 .. n : t[i] = s[i]
      BY <1>2
    <2>2. NumbersTo(t, n + 1) = NumbersTo(s, n) \cup (IF Finite(t[n + 1]) THEN {t[n + 1]} ELSE {})
      BY <1>1, <2>1, NumbersGrow
    <2>3. t[n + 1] = loss
      BY <1>2
    <2> QED  BY <2>2, <2>3
  <1> HIDE DEF n1, k1, over1
  <1>7. NumbersTo(t, n1) \subseteq Int
    <2>1. n1 \in Int /\ n1 <= Len(t)
      BY <1>2, <1>4
    <2> QED  BY <1>2, <2>1, NumbersAreIntegers
  <1>8. \A i \in 1 .. k1 : kept[i] = t[over + i]
    <2> SUFFICES ASSUME NEW i \in 1 .. k1 PROVE kept[i] = t[over + i]
      OBVIOUS
    <2>1. CASE i = k1
      BY <1>2, <1>3, <1>4, <2>1
    <2>2. CASE i # k1
      <3>1. i \in 1 .. k /\ over + i \in 1 .. n
        BY <1>1, <1>4, <2>2 DEF k1
      <3> QED  BY <1>14, <1>2, <1>3, <3>1
    <2> QED  BY <2>1, <2>2
  <1>9. \A S \in SUBSET NumbersTo(t, n1) : S # {} => \E m : Least(S, m)
    <2>1. CASE Finite(loss)
      <3>1. loss \in Int /\ NumbersTo(s, n) \in SUBSET Int /\ NumbersTo(t, n1) = NumbersTo(s, n) \cup {loss}
        BY <1>6, <1>7, <2>1
      <3> QED  BY <1>16, <3>1, LeastOfOneMore
    <2>2. CASE ~Finite(loss)
      BY <1>16, <1>6, <2>2
    <2> QED  BY <2>1, <2>2
  <1>10. CASE k1 <= Keep
    <2> DEFINE g == Pushed(h, loss)
    <2>1. g = [recent |-> kept, dropped |-> h.dropped, size |-> n1]
      BY <1>3, <1>5, <1>10, <1>17 DEF n1
    <2> HIDE DEF g
    <2>2. g.recent = kept /\ g.dropped = h.dropped /\ Len(g.recent) = k1 /\ Len(t) - k1 = over
      BY <1>1, <1>2, <1>3, <1>4, <2>1
    <2>3. over = 0 /\ k1 = n1 /\ k1 <= n1
      BY <1>1, <1>4, <1>10 DEF k1
    <2>4. \A i \in 1 .. over : t[i] = s[i]
      BY <1>1, <1>2
    <2>5. NumbersTo(t, over) = NumbersTo(s, over)
      BY <1>1, <2>4, NumbersGrow
    <2>6. Sums(g.dropped, NumbersTo(t, Len(t) - Len(g.recent)))
      BY <1>15, <2>2, <2>5
    <2>7. \A i \in 1 .. Len(g.recent) : g.recent[i] = t[(Len(t) - Len(g.recent)) + i]
      BY <1>8, <2>2
    <2>8. g = [recent |-> g.recent, dropped |-> g.dropped, size |-> Len(t)]
      BY <1>2, <2>1, <2>2
    <2>9. g.recent \in Seq(Reading) /\ Len(g.recent) <= Len(t) /\ Len(g.recent) <= Keep
          /\ (Len(g.recent) < Keep => Len(g.recent) = Len(t))
      BY <1>2, <1>3, <1>10, <2>2, <2>3
    <2>10. Remembers(g, t)
      BY <1>2, <1>9, <2>6, <2>7, <2>8, <2>9 DEF Remembers
    <2> QED  BY <2>10 DEF g, t
  <1>11. CASE ~(k1 <= Keep)
    <2> DEFINE g == Pushed(h, loss)
               G == NumbersTo(s, over)
    <2>1. g = [recent |-> Tail(kept), size |-> n1,
               dropped |-> IF Finite(gone) THEN {Min(h.dropped \cup {gone})} ELSE h.dropped]
      BY <1>3, <1>5, <1>11, <1>17 DEF n1
    <2> HIDE DEF g
    <2>2. k = Keep /\ k >= 1
      BY <1>1, <1>11 DEF k1
    <2>3. /\ Tail(kept) \in Seq(Reading) /\ Len(Tail(kept)) = k
          /\ \A i \in 1 .. k : Tail(kept)[i] = kept[i + 1]
      <3>1. kept \in Seq(Reading) /\ Len(kept) = k + 1 /\ k \in Nat
        BY <1>1, <1>3 DEF k1
      <3> QED  BY <3>1
    <2>4. g.recent = Tail(kept) /\ Len(g.recent) = k /\ Len(t) - k = over1
      BY <1>1, <1>2, <1>4, <2>1, <2>3
    <2>5. gone = t[over1]
      <3>1. 1 \in 1 .. k1
        BY <1>1 DEF k1
      <3> QED  BY <1>3, <1>8, <3>1 DEF over1
    <2>6. \A i \in 1 .. over : t[i] = s[i]
      BY <1>1, <1>2
    <2>7. NumbersTo(t, over1) = G \cup (IF Finite(gone) THEN {gone} ELSE {})
      BY <1>1, <2>5, <2>6, NumbersGrow DEF over1
    <2>8. NumbersTo(t, over1) \in SUBSET NumbersTo(t, n1)
      BY <1>4, NumbersWithin
    <2>9. Sums(h.dropped, G)
      BY <1>15
    <2> HIDE DEF G
    <2>10. Sums(g.dropped, NumbersTo(t, over1))
      <3>1. CASE ~Finite(gone)
        BY <2>1, <2>7, <2>9, <3>1
      <3>2. CASE Finite(gone)
        <4>1. G \cup {gone} \in SUBSET NumbersTo(t, n1) /\ G \cup {gone} \subseteq Int
              /\ NumbersTo(t, over1) = G \cup {gone}
          BY <1>7, <2>7, <2>8, <3>2
        <4>2. PICK m : Least(G \cup {gone}, m)
          BY <1>9, <4>1
        <4>3. Least(h.dropped \cup {gone}, m) /\ h.dropped \cup {gone} \subseteq Int
          BY <2>9, <4>1, <4>2, OneStandsForAll
        <4>4. Min(h.dropped \cup {gone}) = m
          BY <4>3, MinIsLeast
        <4>5. g.dropped = {m}
          BY <2>1, <3>2, <4>4
        <4> QED  BY <4>1, <4>2, <4>5 DEF Sums
      <3> QED  BY <3>1, <3>2
    <2>11. \A i \in 1 .. k : g.recent[i] = t[over1 + i]
      <3> SUFFICES ASSUME NEW i \in 1 .. k PROVE g.recent[i] = t[over1 + i]
        OBVIOUS
      <3>1. i + 1 \in 1 .. k1 /\ over + (i + 1) = over1 + i
        BY <1>1 DEF k1, over1
      <3> QED  BY <1>8, <2>3, <2>4, <3>1
    <2>12. g = [recent |-> g.recent, dropped |-> g.dropped, size |-> Len(t)]
      <3>1. g = [recent |-> Tail(kept), dropped |-> g.dropped, size |-> n1]
        BY <2>1
      <3> QED  BY <1>2, <2>4, <3>1
    <2>13. g.recent \in Seq(Reading) /\ Len(g.recent) <= Len(t) /\ Len(g.recent) <= Keep
           /\ (Len(g.recent) < Keep => Len(g.recent) = Len(t))
      BY <1>1, <1>2, <1>4, <2>2, <2>3, <2>4
    <2>14. Remembers(g, t)
      BY <1>2, <1>9, <2>4, <2>10, <2>11, <2>12, <2>13 DEF Remembers
    <2> QED  BY <2>14 DEF g, t
  <1> QED  BY <1>10, <1>11

LEMMA EmptyIsRemembered == Remembers(Empty, <<>>)
  <1>1. /\ <<>> \in Seq(Reading) /\ Len(<<>>) = 0 /\ 0 - 0 = 0
        /\ Empty.recent = <<>> /\ Empty.dropped = {}
        /\ Empty = [recent |-> <<>>, dropped |-> {}, size |-> 0]
    BY DEF Empty
  <1>2. NumbersTo(<<>>, 0) = {}
    BY DEF NumbersTo
  <1>3. Sums(Empty.dropped, NumbersTo(<<>>, Len(<<>>) - Len(Empty.recent)))
    BY <1>1, <1>2 DEF Sums
  <1>4. \A S \in SUBSET NumbersTo(<<>>, Len(<<>>)) : S # {} => \E m : Least(S, m)
    BY <1>1, <1>2
  <1>5. Keep \in Nat /\ Keep >= 1 /\ 1 .. 0 = {}
    BY PoliciesAssumption
  <1>6. Empty = [recent |-> Empty.recent, dropped |-> Empty.dropped, size |-> Len(<<>>)]
    BY <1>1
  <1>7. \A i \in 1 .. Len(Empty.recent) : Empty.recent[i] = (<<>>)[Len(<<>>) - Len(Empty.recent) + i]
    BY <1>1, <1>5
  <1>8. /\ Empty.recent \in Seq(Reading) /\ Len(Empty.recent) = 0 /\ Len(<<>>) = 0
        /\ 0 <= Keep /\ <<>> \in Seq(Reading)
    BY <1>1, <1>5
  <1> QED  BY <1>3, <1>4, <1>6, <1>7, <1>8 DEF Remembers

(* What the last readings are, and what was read before them.              *)
Ends(recent, s, early, over) ==
    /\ recent \in Seq(Reading) /\ s \in Seq(Reading)
    /\ early \in Nat /\ early < Len(recent)
    /\ over \in Nat /\ Len(s) = over + Len(recent)
    /\ \A i \in 1 .. Len(recent) : recent[i] = s[over + i]

Parts(recent, s, early, over) ==
    /\ ToSet(SubSeq(recent, early + 1, Len(recent))) = {s[i] : i \in (over + early + 1) .. Len(s)}
    /\ NumbersTo(s, over + early) = NumbersTo(s, over) \cup NumbersTo(recent, early)

LEMMA LatestReadings ==
    ASSUME NEW recent, NEW s, NEW early, NEW over, Ends(recent, s, early, over)
    PROVE  Parts(recent, s, early, over)
  <1>0. /\ recent \in Seq(Reading) /\ s \in Seq(Reading)
        /\ early \in Nat /\ early < Len(recent)
        /\ over \in Nat /\ Len(s) = over + Len(recent)
        /\ \A i \in 1 .. Len(recent) : recent[i] = s[over + i]
    BY DEF Ends
  <1> DEFINE k == Len(recent)
             late == SubSeq(recent, early + 1, k)
             p == k - early
  <1>1. k \in Nat /\ p \in Nat /\ p + early = k /\ Len(s) = over + k /\ early \in Nat /\ over \in Nat
    BY <1>0
  <1>2. DOMAIN late = 1 .. p /\ \A i \in 1 .. p : late[i] = recent[early + i]
    <2>1. early + 1 \in 1 .. k /\ k \in 0 .. Len(recent)
      BY <1>0
    <2>2. Len(late) = k - (early + 1) + 1 /\ \A i \in 1 .. (k - (early + 1) + 1) : late[i] = recent[early + 1 + i - 1]
      BY <1>0, <2>1
    <2>3. late \in Seq(Reading)
      BY <1>0, <2>1
    <2> HIDE DEF late, k
    <2>4. Len(late) = p /\ \A i \in 1 .. p : i \in 1 .. (k - (early + 1) + 1) /\ early + 1 + i - 1 = early + i
      BY <1>1, <2>2
    <2>5. \A i \in 1 .. p : late[i] = recent[early + i]
      BY <2>2, <2>4
    <2> QED  BY <2>3, <2>4, <2>5
  <1> HIDE DEF late, p
  <1>3. ASSUME NEW x PROVE x \in ToSet(late) <=> \E i \in (over + early + 1) .. Len(s) : x = s[i]
    <2>1. x \in ToSet(late) <=> \E i \in 1 .. p : x = recent[early + i]
      BY <1>2 DEF ToSet
    <2>2. ASSUME NEW i \in 1 .. p, x = recent[early + i]
          PROVE  \E j \in (over + early + 1) .. Len(s) : x = s[j]
      <3>1. early + i \in 1 .. k /\ over + (early + i) \in (over + early + 1) .. Len(s)
        BY <1>1
      <3>2. recent[early + i] = s[over + (early + i)]
        BY <1>0, <3>1
      <3> QED  BY <2>2, <3>1, <3>2
    <2>3. ASSUME NEW j \in (over + early + 1) .. Len(s), x = s[j]
          PROVE  \E i \in 1 .. p : x = recent[early + i]
      <3>1. j - over - early \in 1 .. p /\ early + (j - over - early) = j - over
            /\ j - over \in 1 .. k /\ over + (j - over) = j
        BY <1>1
      <3>2. recent[j - over] = s[j]
        BY <1>0, <3>1
      <3> QED  BY <2>3, <3>1, <3>2
    <2> QED  BY <2>1, <2>2, <2>3
  <1>4. ASSUME NEW x PROVE x \in NumbersTo(s, over + early)
                             <=> x \in NumbersTo(s, over) \/ x \in NumbersTo(recent, early)
    <2>1. \A t, last : x \in NumbersTo(t, last) <=> \E i \in 1 .. last : x = t[i] /\ Finite(t[i])
      BY DEF NumbersTo
    <2>2. ASSUME NEW i \in 1 .. (over + early), x = s[i], Finite(s[i])
          PROVE  x \in NumbersTo(s, over) \/ x \in NumbersTo(recent, early)
      <3>1. CASE i <= over
        <4>1. i \in 1 .. over
          BY <3>1
        <4> QED  BY <2>1, <2>2, <4>1
      <3>2. CASE ~(i <= over)
        <4>1. i - over \in 1 .. early /\ i - over \in 1 .. k /\ over + (i - over) = i
          BY <1>1, <3>2
        <4>2. recent[i - over] = s[i]
          BY <1>0, <4>1
        <4> QED  BY <2>1, <2>2, <4>1, <4>2
      <3> QED  BY <3>1, <3>2
    <2>3. ASSUME NEW i \in 1 .. over, x = s[i], Finite(s[i]) PROVE x \in NumbersTo(s, over + early)
      <3>1. i \in 1 .. (over + early)
        BY <1>1
      <3> QED  BY <2>1, <2>3, <3>1
    <2>4. ASSUME NEW i \in 1 .. early, x = recent[i], Finite(recent[i]) PROVE x \in NumbersTo(s, over + early)
      <3>1. over + i \in 1 .. (over + early) /\ i \in 1 .. k
        BY <1>1
      <3>2. recent[i] = s[over + i]
        BY <1>0, <3>1
      <3> QED  BY <2>1, <2>4, <3>1, <3>2
    <2> QED  BY <2>1, <2>2, <2>3, <2>4
  <1> QED  BY <1>3, <1>4 DEF Parts, late

LEMMA JudgedOnAll ==
    ASSUME NEW h, NEW s, Remembers(h, s), NEW patience \in 1 .. Keep
    PROVE  Plateaued(h, patience)
             <=> LET split == Len(s) - patience
                     before == Numbers(SubSeq(s, 1, split))
                 IN  split > 0 /\ before # {}
                       /\ \A i \in split + 1 .. Len(s) : ~Improves(s[i], before)
  <1> DEFINE n == Len(s)
             k == Len(h.recent)
             over == n - k
             early == k - patience
             split == n - patience
             before == Numbers(SubSeq(s, 1, split))
             N == NumbersTo(h.recent, early)
             G == NumbersTo(s, over)
             known == BestBefore(h, patience)
  <1>0. n = Len(s) /\ k = Len(h.recent) /\ over = n - k
    OBVIOUS
  <1> HIDE DEF n, k, over
  <1>1. /\ n \in Nat /\ k \in Nat /\ over \in Nat /\ n = over + k /\ over <= n
        /\ k <= Keep /\ (k < Keep => over = 0) /\ Keep \in Nat /\ Keep >= 1
    BY <1>0, Remembered
  <1>2. s \in Seq(Reading) /\ h.recent \in Seq(Reading)
    BY Remembered
  <1>3. h.size = n
    <2>1. h = [recent |-> h.recent, dropped |-> h.dropped, size |-> n]
      BY <1>0, Remembered
    <2> QED  BY <2>1
  <1>4. \A i \in 1 .. k : h.recent[i] = s[over + i]
    BY <1>0 DEF Remembers
  <1>5. Sums(h.dropped, G)
    BY <1>0, Remembered
  <1>6. \A S \in SUBSET NumbersTo(s, n) : S # {} => \E m : Least(S, m)
    BY <1>0, Remembered
  <1>7. patience \in Nat /\ patience >= 1 /\ patience <= Keep
    BY <1>1
  <1>8. CASE ~(n > patience)
    <2>1. ~(split > 0)
      BY <1>1, <1>7, <1>8
    <2> QED  BY <1>0, <1>3, <1>8, <2>1 DEF Plateaued
  <1>9. CASE n > patience
    <2>1. early \in Nat /\ early < k /\ split = over + early /\ split \in Nat /\ split > 0 /\ split <= n
      BY <1>1, <1>7, <1>9
    <2> HIDE DEF early, split, before, N, G, known
    <2>2. /\ ToSet(SubSeq(h.recent, early + 1, k)) = {s[i] : i \in (over + early + 1) .. Len(s)}
          /\ NumbersTo(s, over + early) = G \cup N
      <3>1. /\ early < Len(h.recent) /\ Len(s) = over + Len(h.recent)
            /\ early \in Nat /\ over \in Nat
        BY <1>0, <1>1, <2>1
      <3>2. \A i \in 1 .. Len(h.recent) : h.recent[i] = s[over + i]
        BY <1>0, <1>4
      <3>3. Ends(h.recent, s, early, over)
        BY <1>2, <3>1, <3>2 DEF Ends
      <3>4. Parts(h.recent, s, early, over)
        BY <3>3, LatestReadings
      <3> QED  BY <1>0, <3>4 DEF Parts, G, N
    <2>3. before = G \cup N
      BY <1>0, <1>2, <2>1, <2>2, NumbersOfFirst DEF before
    <2>4. known = h.dropped \cup N
      <3>1. Numbers(SubSeq(h.recent, 1, early)) = N
        BY <1>0, <1>2, <2>1, NumbersOfFirst DEF N
      <3> QED  BY <1>0, <3>1 DEF known, BestBefore, early
    <2>5. Latest(h, patience) = SubSeq(h.recent, early + 1, k)
      <3>1. (IF k > patience THEN k - patience + 1 ELSE 1) = early + 1
        BY <1>1, <1>7, <2>1 DEF early
      <3> QED  BY <1>0, <3>1 DEF Latest
    <2>6. G \subseteq Int /\ N \subseteq Int
      <3>1. over \in Int /\ over <= Len(s) /\ early \in Int /\ early <= Len(h.recent)
        BY <1>0, <1>1, <2>1
      <3>2. G \subseteq Int
        BY <1>2, <3>1, NumbersAreIntegers DEF G
      <3>3. N \subseteq Int
        BY <1>2, <3>1, NumbersAreIntegers DEF N
      <3> QED  BY <3>2, <3>3
    <2>7. before \in SUBSET NumbersTo(s, n)
      <3>1. NumbersTo(s, split) \subseteq NumbersTo(s, n)
        BY <1>1, <2>1, NumbersWithin
      <3> QED  BY <2>1, <2>2, <2>3, <3>1
    <2>8. (known = {}) <=> (before = {})
      BY <1>5, <2>3, <2>4, <2>6, OneStandsForAll
    <2>9. ASSUME before # {} PROVE \A x : Improves(x, known) <=> Improves(x, before)
      <3>1. \E m : Least(G \cup N, m)
        BY <1>6, <2>3, <2>7, <2>9
      <3>2. (\E m : Least(G \cup N, m)) => Min(h.dropped \cup N) = Min(G \cup N)
        BY <1>5, <2>6, OneStandsForAll
      <3>3. Min(known) = Min(before)
        BY <2>3, <2>4, <3>1, <3>2
      <3> QED  BY <3>3 DEF Improves
    <2>10. ToSet(Latest(h, patience)) = {s[i] : i \in (split + 1) .. n}
      BY <1>0, <2>1, <2>2, <2>5
    <2>11. Plateaued(h, patience) <=> known # {} /\ \A x \in ToSet(Latest(h, patience)) : ~Improves(x, known)
      BY <1>3, <1>9 DEF Plateaued, known
    <2>12. Plateaued(h, patience)
             <=> before # {} /\ \A x \in {s[i] : i \in (split + 1) .. n} : ~Improves(x, before)
      BY <2>8, <2>9, <2>10, <2>11
    <2>13. Plateaued(h, patience)
             <=> before # {} /\ \A i \in (split + 1) .. n : ~Improves(s[i], before)
      BY <2>12
    <2> QED  BY <1>0, <2>1, <2>13 DEF before, split
  <1> QED  BY <1>8, <1>9

LEMMA HistoryNext == HistoryInv /\ [PoliciesNext]_policyVars => HistoryInv'
  <1> SUFFICES ASSUME HistoryInv, [PoliciesNext]_policyVars PROVE HistoryInv'
    OBVIOUS
  <1>1. CASE \E loss \in Losses \cup {NotFinite} : Steps(loss)
    <2>1. PICK loss \in Reading : history' = Pushed(history, loss) /\ all' = Append(all, loss)
      BY <1>1 DEF Steps, Reading
    <2> QED  BY <2>1, ReadingIsRemembered DEF HistoryInv
  <1>2. CASE UNCHANGED <<history, all>>
    BY <1>2 DEF HistoryInv
  <1> QED
    BY <1>1, <1>2 DEF PoliciesNext, GuardLooksAway, GuardGivesUp, GuardAnswers, GuardIsRefused,
       BestLooksAway, BestKeeps, CutLooksAway, CutsRate, StopCalled, Returns, Raises, policyVars, told

(* The bounded history stands for the whole run: of the readings it let    *)
(* go, one number is all a policy could ask about.                         *)
THEOREM HistoryInvariance == PoliciesSpec => []HistoryInv
  <1>1. PoliciesInit => HistoryInv
    BY EmptyIsRemembered DEF PoliciesInit, HistoryInv
  <1> QED  BY <1>1, HistoryNext, PTL DEF PoliciesSpec

(* Event#plateaued?, which the policies ask of the bounded history, answers *)
(* what the whole run would, for any losses, any window and any patience   *)
(* up to it.                                                               *)
THEOREM PlateausAreTrue == PoliciesSpec => []PlateauIsJudgedOnAll
  <1>1. HistoryInv => PlateauIsJudgedOnAll
    BY JudgedOnAll DEF HistoryInv, PlateauIsJudgedOnAll, PlateauedOnAll
  <1> QED  BY HistoryInvariance, <1>1, PTL
=============================================================================
