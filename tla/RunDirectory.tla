----------------------------- MODULE RunDirectory -----------------------------
(***************************************************************************)
(* A training run in a process of its own (src/lib/torobi/runner.rb).  The *)
(* parent and the child share a directory and signals, nothing else: the   *)
(* child appends to a journal (journal.rb) and leaves checkpoints; the     *)
(* parent reads the journal as it grows, asks the child to stop, insists   *)
(* when it does not, and reports how it ended.  A directory may be used by *)
(* one run after another.                                                  *)
(*                                                                         *)
(* The journal's file is a sequence of pieces: each line is a text, whole  *)
(* or as much of it as was written, and a newline, and the child may be    *)
(* killed or the file be read between any two of them.                     *)
(* A checkpoint is taken as one step (see CheckpointStore) and is the      *)
(* number of the last step it holds.                                       *)
(***************************************************************************)
EXTENDS Naturals, Sequences, FiniteSetsExt

CONSTANTS
    MaxRuns, \* bound: children started in the directory, one at a time
    MaxSteps \* bound: steps a run may reach

ASSUME BoundsAssumption == MaxRuns \in Nat /\ MaxSteps \in Nat

VARIABLES
    file,    \* the journal
    disk,    \* the last step the checkpoint holds, 0 if there is none
    child,   \* the child
    writing, \* the pieces it has still to write before it goes on
    caller,  \* where the parent's thread is in the Runner
    reading, \* the Runner's Reading: offset, partial and last
    outcome  \* the Runner's @outcome

vars == <<file, disk, child, writing, caller, reading, outcome>>

-----------------------------------------------------------------------------
(* Lines, and what is made of them. *)

Entry(run, kind, event, step) == [run |-> run, kind |-> kind, event |-> event, step |-> step]
Nothing == Entry(0, "none", "none", 0)

Header(run)       == Entry(run, "header", "none", 0)
Span(run, step)   == Entry(run, "span", "none", step)
Note(run, event)  == Entry(run, "note", event, 0)
Mark(run, step)   == Entry(run, "checkpoint", "none", step)

Line(entry) == <<[part |-> "text", of |-> entry], [part |-> "newline", of |-> entry]>>

Ends(text) == {k \in DOMAIN text : text[k].part = "newline"}
EndOfLines(text) == IF Ends(text) = {} THEN 0 ELSE Max(Ends(text))

(* What ends at k parses: it is the text of one entry and no more.         *)
Parses(text, k) == k > 1 /\ (k > 2 => text[k - 2].part = "newline")

(* The last entry of a kind that can be used, or else what was there.      *)
LastOf(text, kind, before) ==
    LET usable == {k \in Ends(text) : Parses(text, k) /\ text[k].of.kind = kind}
    IN  IF usable = {} THEN before ELSE text[Max(usable)].of

(* Slip: what was read of an unfinished line is thrown away. *)
NoTail(text) == << >>

(* The last line, if it has no newline yet. *)
TailOf(text) == SubSeq(text, EndOfLines(text) + 1, Len(text))

Unread == [offset |-> 0, partial |-> << >>, span |-> Nothing, note |-> Nothing]

(* How far the file was read. *)
Position(r, text) == r.offset + Len(text) - Len(r.partial)

(* catch_up and consume. *)
CaughtUp(r) ==
    LET text == r.partial \o SubSeq(file, r.offset + 1, Len(file))
    IN  [offset  |-> Position(r, text),
         partial |-> TailOf(text),
         span    |-> LastOf(text, "span", r.span),
         note    |-> LastOf(text, "note", r.note)]

(* Slip: Journal.read takes the file as it is. *)
AllOf(text) == text

(* Journal.read drops a last line without its newline ... *)
Whole(text) == SubSeq(text, 1, EndOfLines(text))

(* ... parses every other, the first as the header and the rest as entries *)
(* of a kind it knows.                                                     *)
ReadsBack(text) ==
    LET kept == Whole(text)
    IN  /\ kept # << >> /\ Ends(kept) # {} /\ EndOfLines(kept) = Len(kept)
        /\ \A k \in Ends(kept) : Parses(kept, k) /\ (kept[k].of.kind = "header" <=> k = 2)

-----------------------------------------------------------------------------
(* The child. *)

NoChild == [pc |-> "dead", run |-> 0, step |-> 0, pending |-> FALSE,
            stopping |-> FALSE, used |-> FALSE, raised |-> "none", status |-> "none"]

Living == child.pc # "dead"

(* The program goes on; what it wrote last is written. *)
At(pc) == child.pc = pc /\ writing = << >>

Goes(pc) == child' = [child EXCEPT !.pc = pc]

ParentWaits == UNCHANGED <<caller, reading, outcome>>

(* Slip: the journal is opened to write. *)
OpenedAnew(text) == << >>

(* The journal is opened to append. *)
Opened(text) == text

WritePiece ==
    /\ Living /\ writing # << >>
    /\ file' = Append(file, Head(writing))
    /\ writing' = Tail(writing)
    /\ UNCHANGED <<disk, child>> /\ ParentWaits

(* The process is ended by a signal, and its memory is gone. *)
Killed == child' = [NoChild EXCEPT !.run = child.run, !.status = "signal"]

(* MLX aborts, or somebody kills it. *)
Crash ==
    /\ Living
    /\ Killed
    /\ writing' = << >>
    /\ UNCHANGED <<file, disk>> /\ ParentWaits

(* The handler sets a flag; before there is one, the signal ends it. *)
Handled ==
    IF child.pc = "spawned" THEN Killed
    ELSE child' = [child EXCEPT !.pending = FALSE, !.stopping = TRUE]

Deliver ==
    /\ Living /\ child.pending
    /\ Handled
    /\ UNCHANGED <<file, disk, writing>> /\ ParentWaits

(* Somebody at the terminal interrupts it.  Twice is as good as once. *)
Interrupt ==
    /\ Living /\ ~child.pending /\ ~child.stopping
    /\ child' = [child EXCEPT !.pending = TRUE]
    /\ UNCHANGED <<file, disk, writing>> /\ ParentWaits

(* Child#listen. *)
Listen ==
    /\ At("spawned")
    /\ Goes("listening")
    /\ UNCHANGED <<file, disk, writing>> /\ ParentWaits

(* Session.open, on the journal of the directory, and a restore if there   *)
(* is a checkpoint.                                                        *)
OpenSession ==
    /\ At("listening")
    /\ file' = Opened(file)
    /\ child' = [child EXCEPT !.pc = "running", !.step = disk]
    /\ writing' = Line(Header(child.run)) \o Line(Note(child.run, "opened"))
                  \o (IF disk > 0 THEN Line(Note(child.run, "restored")) ELSE << >>)
    /\ UNCHANGED disk /\ ParentWaits

(* A step and its line.  An exception between the two is a raise. *)
Step ==
    /\ At("running") /\ child.step < MaxSteps
    /\ child' = [child EXCEPT !.pc = "between", !.step = @ + 1]
    /\ writing' = Line(Span(child.run, child.step + 1))
    /\ UNCHANGED <<file, disk>> /\ ParentWaits

Save ==
    /\ At("between") /\ disk # child.step
    /\ disk' = child.step
    /\ writing' = Line(Mark(child.run, child.step))
    /\ UNCHANGED <<file, child>> /\ ParentWaits

(* The block of the span: break if stopping, or on to the next batch ... *)
NextBatch ==
    /\ At("between")
    /\ Goes(IF child.stopping THEN "closing" ELSE "running")
    /\ UNCHANGED <<file, disk, writing>> /\ ParentWaits

(* ... unless the batches are used up. *)
UsedUp ==
    /\ At("between") /\ ~child.stopping
    /\ child' = [child EXCEPT !.pc = "closing", !.used = TRUE]
    /\ writing' = Line(Note(child.run, "span"))
    /\ UNCHANGED <<file, disk>> /\ ParentWaits

(* The block returns without having opened a session. *)
HasNothingToDo ==
    /\ At("listening")
    /\ child' = [child EXCEPT !.pc = "ending", !.used = TRUE]
    /\ UNCHANGED <<file, disk, writing>> /\ ParentWaits

(* No engine here, which is known before anything is written. *)
IsUnavailable ==
    /\ At("listening")
    /\ child' = [child EXCEPT !.pc = "ending", !.raised = "unavailable"]
    /\ UNCHANGED <<file, disk, writing>> /\ ParentWaits

(* The program raises a StandardError; a session that is open is closed.   *)
ChildRaises ==
    /\ At("listening") \/ At("running") \/ At("between")
    /\ child' = [child EXCEPT !.pc = IF child.pc = "listening" THEN "ending" ELSE "closing",
                              !.raised = "failed"]
    /\ UNCHANGED <<file, disk, writing>> /\ ParentWaits

(* The program exits by itself, or raises what is no StandardError: the    *)
(* child has no last word.                                                 *)
Leaves ==
    /\ At("listening") \/ At("running") \/ At("between")
    /\ child' = [child EXCEPT !.pc = IF child.pc = "listening" THEN "exiting" ELSE "closing",
                              !.raised = "left"]
    /\ UNCHANGED <<file, disk, writing>> /\ ParentWaits

(* Session#close. *)
CloseSession ==
    /\ At("closing")
    /\ Goes(IF child.raised = "left" THEN "exiting" ELSE "ending")
    /\ writing' = Line(Note(child.run, "closed"))
    /\ UNCHANGED <<file, disk>> /\ ParentWaits

(* Slip: a run that was asked to stop says nothing of it. *)
SaysFinished == "finished"

(* What child says of a block that returned. *)
Said == IF child.stopping THEN "stopped" ELSE "finished"

(* Runner.child's last line. *)
Finish ==
    /\ At("ending")
    /\ writing' = Line(Note(child.run, IF child.raised = "none" THEN Said ELSE child.raised))
    /\ Goes("exiting")
    /\ UNCHANGED <<file, disk>> /\ ParentWaits

Exit ==
    /\ At("exiting")
    /\ \E status \in CASE child.raised = "none" -> {"ok"}
                      [] child.raised = "left" -> {"ok", "left"}
                      [] OTHER                 -> {child.raised} :
           child' = [child EXCEPT !.pc = "dead", !.pending = FALSE, !.status = status]
    /\ UNCHANGED <<file, disk, writing>> /\ ParentWaits

-----------------------------------------------------------------------------
(* The parent.  A Runner starts one child; for the next, another is made.  *)

ChildGoesOn == UNCHANGED <<file, disk, child, writing>>

NoOutcome == [status |-> "none", note |-> Nothing]
Started   == child.run > 0

Start ==
    /\ caller = "free" /\ child.run < MaxRuns /\ (Started => outcome # NoOutcome)
    /\ child' = [NoChild EXCEPT !.pc = "spawned", !.run = child.run + 1]
    /\ reading' = Unread
    /\ outcome' = NoOutcome
    /\ UNCHANGED <<file, disk, writing, caller>>

(* progress *)
Poll ==
    /\ caller = "free"
    /\ reading' = CaughtUp(reading)
    /\ UNCHANGED <<caller, outcome>> /\ ChildGoesOn

(* waitpid2 answers: the status is kept, and the last note read. *)
Reap ==
    /\ ~Living /\ Started /\ outcome = NoOutcome
    /\ reading' = CaughtUp(reading)
    /\ outcome' = [status |-> child.status, note |-> CaughtUp(reading).note]
    /\ caller' = "free"
    /\ ChildGoesOn

(* running? finds the child gone, or wait has waited for it. *)
Hears == caller = "free" /\ Reap

(* stop: TERM, unless the child has ended. *)
StopBegins ==
    /\ caller = "free" /\ Started /\ outcome = NoOutcome /\ Living
    /\ child' = [child EXCEPT !.pending = ~child.stopping]
    /\ caller' = "grace"
    /\ UNCHANGED <<file, disk, writing, reading, outcome>>

Answered == caller = "grace" /\ Reap

(* Slip: the grace never runs out. *)
NoDeadline == FALSE

Deadline == TRUE

(* The grace runs out with the child still there. *)
TimeUp ==
    /\ caller = "grace" /\ Living /\ Deadline
    /\ Killed
    /\ writing' = << >>
    /\ caller' = "killed"
    /\ UNCHANGED <<file, disk, reading, outcome>>

Buried == caller = "killed" /\ Reap

-----------------------------------------------------------------------------

Init ==
    /\ file = << >> /\ disk = 0
    /\ child = NoChild /\ writing = << >>
    /\ caller = "free" /\ reading = Unread /\ outcome = NoOutcome

ChildSide ==
    \/ WritePiece \/ Crash \/ Deliver \/ Interrupt
    \/ Listen \/ OpenSession \/ Step \/ Save \/ NextBatch \/ UsedUp
    \/ HasNothingToDo \/ IsUnavailable \/ ChildRaises \/ Leaves
    \/ CloseSession \/ Finish \/ Exit

InStop == Answered \/ TimeUp \/ Buried

Next ==
    \/ ChildSide
    \/ Start \/ Poll \/ Hears \/ StopBegins \/ InStop

(* A parent that is stopping a run goes on with it: it sleeps between      *)
(* looks, and its clock runs.  Nothing is assumed of the child, which may  *)
(* be inside a step that never ends.                                       *)
Spec == Init /\ [][Next]_vars /\ WF_vars(InStop)

-----------------------------------------------------------------------------
(* What the directory and the Runner promise. *)

Events == {"none", "opened", "restored", "span", "closed", "finished", "stopped", "failed",
           "unavailable"}
Entries == [run : 0..MaxRuns, kind : {"none", "header", "span", "note", "checkpoint"},
            event : Events, step : 0..MaxSteps]

(* Every variable stays in its type, and what is not read is not there. *)
TypeOK ==
    /\ \A k \in DOMAIN file : file[k].of \in Entries /\ file[k].part \in {"text", "newline"}
    /\ disk \in 0..MaxSteps
    /\ child.run \in 0..MaxRuns /\ child.step \in 0..MaxSteps
    /\ child.status \in {"none", "ok", "failed", "unavailable", "left", "signal"}
    /\ caller \in {"free", "grace", "killed"}
    /\ reading.offset \in 0..Len(file) /\ reading.span \in Entries /\ reading.note \in Entries
    /\ outcome.note \in Entries

(* However the polls fall between the pieces of the lines, reading only    *)
(* what was appended finds the same last entries as reading everything     *)
(* from the start (Reading, "holding the incomplete tail").                *)
ReadingIsTheFile ==
    LET seen == SubSeq(file, 1, reading.offset)
    IN  /\ reading.span = LastOf(seen, "span", Nothing)
        /\ reading.note = LastOf(seen, "note", Nothing)

(* A journal cut short is readable: of the one run there was, once its     *)
(* header is there, wherever the run was killed (journal.rb, "an           *)
(* interrupted run leaves a readable file").                               *)
InterruptedJournalReads ==
    child.run = 1 /\ Len(file) >= 2 /\ file[2].of = Header(1) => ReadsBack(file)

(* Every step a checkpoint holds has a line the parent can read, of this   *)
(* run or of one it carried on from, though lines were cut short and glued *)
(* to the next run's first.                                                *)
StepsAreTold ==
    \A s \in 1..disk :
        \E k \in Ends(file) : Parses(file, k) /\ file[k].of.kind = "span" /\ file[k].of.step = s

(* The last line was put behind one that a run before had not finished. *)
Glued ==
    \E k \in DOMAIN file :
        /\ file[k].of \in {Note(child.run, e) : e \in {"finished", "stopped", child.raised}}
        /\ k > 1 /\ file[k].part = "text" /\ file[k - 1].part = "text"

(* What a child says as it ends is what happened, and what the parent      *)
(* hears: it finished only if its batches were used up, it stopped only if *)
(* it was asked, and a reason is its own.  Excepted are programs that exit *)
(* by themselves, and last lines glued to what an earlier run left.        *)
OutcomeIsTrue ==
    outcome # NoOutcome /\ child.raised \in {"none", "failed", "unavailable"}
        /\ outcome.status # "signal" /\ ~Glued =>
        /\ outcome.note.run = child.run
        /\ outcome.status = "ok" => outcome.note.event \in {"finished", "stopped"}
        /\ outcome.note.event = "finished" => child.used /\ outcome.status = "ok"
        /\ outcome.note.event = "stopped" => child.stopping /\ outcome.status = "ok"
        /\ outcome.status # "ok" => outcome.note.event = outcome.status

(* stop comes back, whatever the child does, and knows how it ended. *)
StopReturns == caller = "grace" ~> caller = "free" /\ outcome # NoOutcome

-----------------------------------------------------------------------------
(* What the documents say and the code does not do. *)

(* runner.rb: the journal is "appended to, so a resumed run adds to the    *)
(* record"; journal.rb reads a record back, and refuses a broken line.  A  *)
(* journal without one, of runs that were not cut short, is refused too.   *)
ResumedJournalReads ==
    /\ ~Living /\ child.status = "ok" /\ child.raised = "none"
    /\ \E k \in DOMAIN file : file[k].of = Header(child.run)
    /\ \A k \in Ends(file) : Parses(file, k)
    => ReadsBack(file)
=============================================================================
