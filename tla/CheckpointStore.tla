--------------------------- MODULE CheckpointStore ---------------------------
(***************************************************************************)
(* Writing a checkpoint into a directory that may already hold one         *)
(* (src/engine/src/checkpoint.rs: write, lay_out, publish, read), one file *)
(* operation at a time.  The process that saves may die between any two of *)
(* them and be started again over what it left; removals may fail half way *)
(* (their errors are ignored); writes and renames may fail.  Another       *)
(* process may be reading the checkpoint meanwhile (Checkpoint.manifest    *)
(* and restore take the same path).                                        *)
(*                                                                         *)
(* A file's content is the number of the save that wrote it.  Every save   *)
(* here is of the same graph, so what read compares (digest, paths,        *)
(* shapes) agrees between any two of them; Torn is a file cut short.       *)
(***************************************************************************)
EXTENDS Integers, Sequences, FiniteSets

CONSTANTS
    MaxSaves,  \* bound: saves that begin
    Absent     \* no directory under that name

ASSUME MaxSavesAssumption == MaxSaves \in Nat

Files == {"graph", "parameters", "optimizer", "random", "manifest"}

(* The order lay_out writes them and the order read opens them. *)
WriteOrder == <<"graph", "parameters", "optimizer", "random", "manifest">>
ReadOrder  == <<"manifest", "graph", "parameters", "optimizer", "random">>

(* The three names: the checkpoint's own, with_extension("writing") and    *)
(* with_extension("replaced").                                             *)
Names == {"dir", "writing", "replaced"}

Missing == 0
Torn    == -1
Content == {Missing, Torn} \cup 1..MaxSaves

ASSUME AbsentAssumption == Absent \notin [Files -> Content]

NoFiles == [f \in Files |-> Missing]

VARIABLES
    fs,      \* what each name holds
    begun,   \* saves begun
    keeps,   \* which of them kept optimizer slots (the update rule's choice)
    adam,    \* whether the running process's update rule keeps slots
    pc,      \* where the save in progress is
    at,      \* how many files lay_out has finished
    dirty,   \* whether it has begun the next one
    result,  \* what the last save returned
    reading, \* how many files the reader has read, or -1
    got      \* what it found in them

store  == <<fs, begun, keeps>>
saver  == <<adam, pc, at, dirty, result>>
reader == <<reading, got>>
vars   == <<fs, begun, keeps, adam, pc, at, dirty, result, reading, got>>

PCs == {"idle", "clear", "create", "lay out", "read back", "sync", "look",
        "clear aside", "move aside", "take", "replace", "drop", "return"}

-----------------------------------------------------------------------------

Exists(n)  == fs[n] # Absent
IsEmpty(n) == fs[n] = NoFiles

(* The files a save writes: the slots only if there are any. *)
Written(v) == IF keeps[v] THEN Files ELSE Files \ {"optimizer"}

(* checkpoint::read: everything is there and parses.  The slots are        *)
(* optional, and nothing says which save a file belongs to.                *)
Reads(d) ==
    /\ \A f \in Files \ {"optimizer"} : d[f] \notin {Missing, Torn}
    /\ d["optimizer"] # Torn

(* A directory that holds the whole of save v. *)
Holds(d, v) == d # Absent /\ \A f \in Written(v) : d[f] = v

(* Slip: what an earlier save left in the staging directory is kept. *)
SkipsWhatIsThere(f) ==
    (f = "optimizer" /\ ~adam) \/ (~dirty /\ fs["writing"][f] \notin {Missing, Torn})

Skips(f) == f = "optimizer" /\ ~adam

(* The save returns. *)
Return(r) ==
    pc' = "idle" /\ result' = r /\ at' = 0 /\ dirty' = FALSE /\ UNCHANGED adam

To(p) == pc' = p /\ UNCHANGED <<adam, at, dirty, result>>

(* remove_dir_all(n), whose errors are ignored: file after file, then the  *)
(* directory itself, giving up anywhere; `next` is where the save goes on. *)
Removes(n, next) ==
    \/ /\ \E f \in Files :
            /\ fs[n][f] # Missing
            /\ fs' = [fs EXCEPT ![n][f] = Missing]
       /\ UNCHANGED <<begun, keeps, saver>>
    \/ /\ IsEmpty(n)
       /\ fs' = [fs EXCEPT ![n] = Absent]
       /\ To(next)
       /\ UNCHANGED <<begun, keeps>>
    \/ To(next) /\ UNCHANGED store

-----------------------------------------------------------------------------
(* A save. *)

Begin ==
    /\ pc = "idle"
    /\ begun < MaxSaves
    /\ begun' = begun + 1
    /\ keeps' = [keeps EXCEPT ![begun + 1] = adam]
    /\ pc' = IF Exists("writing") THEN "clear" ELSE "create"
    /\ at' = 0 /\ dirty' = FALSE /\ result' = "none"
    /\ UNCHANGED <<fs, adam, reader>>

ClearStaging == pc = "clear" /\ Removes("writing", "create") /\ UNCHANGED reader

(* create_dir_all does not mind a directory that is there. *)
Create ==
    /\ pc = "create"
    /\ fs' = IF Exists("writing") THEN fs ELSE [fs EXCEPT !["writing"] = NoFiles]
    /\ To("lay out")
    /\ UNCHANGED <<begun, keeps, reader>>

(* lay_out: each file is opened, which truncates it, and then filled. *)
LayOut ==
    /\ pc = "lay out"
    /\ LET f == WriteOrder[at + 1]
       IN  /\ IF Skips(f) THEN UNCHANGED fs
              ELSE fs' = [fs EXCEPT !["writing"][f] = IF dirty THEN begun ELSE Torn]
           /\ IF Skips(f) \/ dirty
              THEN /\ at' = at + 1 /\ dirty' = FALSE
                   /\ pc' = IF at + 1 = Len(WriteOrder) THEN "read back" ELSE pc
              ELSE dirty' = TRUE /\ UNCHANGED <<pc, at>>
    /\ UNCHANGED <<begun, keeps, adam, result, reader>>

(* Nothing claims the name before it reads back. *)
ReadBack ==
    /\ pc = "read back"
    /\ IF Reads(fs["writing"]) THEN To("sync") ELSE Return("error")
    /\ UNCHANGED <<store, reader>>

(* publish: sync the staging directory, then see what has the name. *)
Sync ==
    /\ pc = "sync"
    /\ To("look")
    /\ UNCHANGED <<store, reader>>

Look ==
    /\ pc = "look"
    /\ To(IF ~Exists("dir") THEN "take"
          ELSE IF Exists("replaced") THEN "clear aside" ELSE "move aside")
    /\ UNCHANGED <<store, reader>>

ClearAside == pc = "clear aside" /\ Removes("replaced", "move aside") /\ UNCHANGED reader

(* Slip: the old checkpoint is deleted to make room for the new one. *)
DisplacedByDeleting == [fs EXCEPT !["dir"] = Absent]

(* rename(dir, aside) *)
Displaced == [fs EXCEPT !["replaced"] = fs["dir"], !["dir"] = Absent]

(* ... onto nothing or onto an empty directory. *)
MoveAside ==
    /\ pc = "move aside"
    /\ IF Exists("replaced") /\ ~IsEmpty("replaced")
       THEN Return("error") /\ UNCHANGED fs
       ELSE fs' = Displaced /\ To("replace")
    /\ UNCHANGED <<begun, keeps, reader>>

(* rename(staging, dir).  The name is free: it was, or it has just been    *)
(* moved aside, and then the old checkpoint is dropped.                    *)
Take ==
    /\ pc \in {"take", "replace"}
    /\ fs' = [fs EXCEPT !["dir"] = fs["writing"], !["writing"] = Absent]
    /\ To(IF pc = "replace" THEN "drop" ELSE "return")
    /\ UNCHANGED <<begun, keeps, reader>>

Drop == pc = "drop" /\ Removes("replaced", "return") /\ UNCHANGED reader

Done ==
    /\ pc = "return"
    /\ Return("ok")
    /\ UNCHANGED <<store, reader>>

(* Slip: a rename that fails is not reported. *)
FailsQuietly ==
    /\ pc \in {"create", "lay out", "sync", "move aside", "take", "replace"}
    /\ Return(IF pc = "replace" THEN "ok" ELSE "error")
    /\ UNCHANGED <<store, reader>>

(* Creating, writing, syncing or renaming fails, and the save stops there. *)
Fails ==
    /\ pc \in {"create", "lay out", "sync", "move aside", "take", "replace"}
    /\ Return("error")
    /\ UNCHANGED <<store, reader>>

(* The process dies, wherever it is, and is started again over the same    *)
(* directory, perhaps with another update rule.                            *)
Restart ==
    /\ adam' \in BOOLEAN
    /\ pc' = "idle" /\ at' = 0 /\ dirty' = FALSE /\ result' = "none"
    /\ UNCHANGED <<store, reader>>

-----------------------------------------------------------------------------
(* A reader in another process: each file is opened by its path under the  *)
(* name, whatever has the name by then.                                    *)

StartReading ==
    /\ reading = -1
    /\ reading' = 0
    /\ UNCHANGED <<store, saver, got>>

ReadFile ==
    /\ reading \in 0..(Len(ReadOrder) - 1)
    /\ LET f     == ReadOrder[reading + 1]
           found == IF Exists("dir") THEN fs["dir"][f] ELSE Missing
       IN  IF found = Torn \/ (found = Missing /\ f # "optimizer")
           THEN reading' = -1 /\ got' = NoFiles
           ELSE reading' = reading + 1 /\ got' = [got EXCEPT ![f] = found]
    /\ UNCHANGED <<store, saver>>

StopReading ==
    /\ reading = Len(ReadOrder)
    /\ reading' = -1 /\ got' = NoFiles
    /\ UNCHANGED <<store, saver>>

-----------------------------------------------------------------------------

Init ==
    /\ fs = [n \in Names |-> Absent]
    /\ begun = 0
    /\ keeps = [v \in 1..MaxSaves |-> FALSE]
    /\ adam \in BOOLEAN
    /\ pc = "idle" /\ at = 0 /\ dirty = FALSE /\ result = "none"
    /\ reading = -1 /\ got = NoFiles

Save ==
    \/ Begin \/ ClearStaging \/ Create \/ LayOut \/ ReadBack \/ Sync \/ Look
    \/ ClearAside \/ MoveAside \/ Take \/ Drop \/ Done \/ Fails

Read == StartReading \/ ReadFile \/ StopReading

Next == Save \/ Restart \/ Read

Spec == Init /\ [][Next]_vars

-----------------------------------------------------------------------------
(* What the files keep true. *)

(* Every variable stays in its type. *)
TypeOK ==
    /\ fs \in [Names -> [Files -> Content] \cup {Absent}]
    /\ begun \in 0..MaxSaves
    /\ keeps \in [1..MaxSaves -> BOOLEAN]
    /\ adam \in BOOLEAN
    /\ pc \in PCs
    /\ at \in 0..Len(WriteOrder)
    /\ dirty \in BOOLEAN
    /\ result \in {"none", "ok", "error"}
    /\ reading \in -1..Len(ReadOrder)
    /\ got \in [Files -> Content]

(* Whatever has the checkpoint's name is the whole of one save, however    *)
(* often saves were cut short and whatever they left in the staging        *)
(* directory ("the order is the point", checkpoint.rs write).              *)
NameIsWhole == Exists("dir") => \E v \in 1..begun : Holds(fs["dir"], v)

(* Between the two renames, where nothing has the name, both the old       *)
(* checkpoint and the new one are on disk whole.                           *)
BothStandAside ==
    pc = "replace" =>
        /\ ~Exists("dir")
        /\ Holds(fs["writing"], begun)
        /\ \E v \in 1..(begun - 1) : Holds(fs["replaced"], v)

(* A save that returned is the one under the name, until the next begins   *)
(* to move it.                                                             *)
ReturnedIsThere == result = "ok" => Holds(fs["dir"], begun)

(* A reader in another process may be overtaken by a publish and mix two   *)
(* saves, since read opens one path after the other; but each file it took *)
(* is whole, and never of an older save than a file it took before.  The   *)
(* slots are not among them: what an earlier save left in the staging      *)
(* directory may be published with a run that keeps none.                  *)
ReadsForward ==
    \A i, j \in 1..reading :
        i < j /\ "optimizer" \notin {ReadOrder[i], ReadOrder[j]} =>
            got[ReadOrder[i]] \in 1..got[ReadOrder[j]]

(* The save a directory is the whole of, 0 for none. *)
SaveUnder(n) ==
    LET whole == {v \in 1..begun : Holds(fs[n], v)}
    IN  IF whole = {} THEN 0 ELSE CHOOSE v \in whole : TRUE

(* What a reader finds by the name, and what stands aside when it finds    *)
(* nothing.                                                                *)
Named == IF Exists("dir") THEN SaveUnder("dir") ELSE 0
Aside == IF Exists("dir") THEN 0 ELSE SaveUnder("replaced")

Promise == INSTANCE CheckpointPromise WITH named <- Named, aside <- Aside

(* Every file operation of a save, a failure or a restart is a step of     *)
(* CheckpointPromise or none of its business: the name is empty before the *)
(* first save took it and from a save's first rename to a second one, of   *)
(* this save or, if it failed or died, of a later one; meanwhile the older *)
(* checkpoint stands aside untouched, and the next to have the name is the *)
(* newest.                                                                 *)
KeepsItsPromise == Promise!Spec

(* Of a run that was killed: "The last checkpoint still stands, because a  *)
(* checkpoint is written atomically" (runner.rb).  Once a process has been *)
(* started again, if a checkpoint was set aside one has the name.          *)
LastCheckpointStands ==
    pc = "idle" /\ result = "none" /\ Exists("replaced") => Exists("dir")
=============================================================================
