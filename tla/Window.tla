------------------------------- MODULE Window -------------------------------
(***************************************************************************)
(* The window of a session as a program drives it                          *)
(* (src/lib/torobi/session.rb): calls that move the engine and are written *)
(* into the journal under one mask of interrupts, spans, and hooks         *)
(* (hooks.rb), which are fired after a call and may make calls themselves. *)
(* What the journal's file holds is then replayed (replay.rb).             *)
(*                                                                         *)
(* One thread runs: the program, or a block of a span, or a hook; `stack`  *)
(* says which, innermost last.  Whoever runs may call, return or raise,    *)
(* and an exception reaches any of those around it.  The engine is         *)
(* deterministic: doing the same thing to it again comes out the same, so  *)
(* its parameters are the sequence of the updates they absorbed.           *)
(***************************************************************************)
EXTENDS Naturals, Sequences, SequencesExt

CONSTANTS
    Registered, \* the hooks, in order: for which event, how many windows apart
    Calls,      \* the calls the program and its hooks make
    Rates,      \* learning rates somebody turns to
    FirstRate,  \* the one the session was opened with
    Losses,     \* what a loss may come out as
    Nowhere,    \* no checkpoint was written
    MaxLines,   \* bound: lines of the journal after its header
    MaxSteps,   \* bound: steps attempted
    MaxParts,   \* bound: parts waiting
    MaxDepth    \* bound: spans and firings inside one another

ASSUME RatesAssumption == FirstRate \in Rates
ASSUME LossesAssumption == "finite" \in Losses /\ Losses \subseteq {"finite", "nan"}
ASSUME BoundsAssumption == MaxParts \in Nat /\ MaxSteps \in Nat
ASSUME RegisteredAssumption ==
    Registered \in Seq([event : {"step", "span_end", "checkpoint_written"},
                        every : Nat \ {0}])

VARIABLES
    engine, \* the training state, as far as a replay can tell it
    disk,   \* the checkpoint there is
    file,   \* the lines of the journal after its header
    silent, \* something moved the engine and left no line
    stack,  \* the spans and firings that are under way
    firing, \* the hooks' fence, @firing
    call    \* the call under way: what it has to write and to fire

vars == <<engine, disk, file, silent, stack, firing, call>>

-----------------------------------------------------------------------------
(* What the calls do to the engine; see module TrainState. *)

Opened == [weights |-> << >>, lr |-> FirstRate, frozen |-> FALSE,
           waiting |-> 0, step |-> 0, loss |-> "nan"]

(* A step, on a batch (no parts) or on what was waiting. *)
Stepped(e, loss, taken, parts) ==
    [e EXCEPT !.step = @ + 1, !.loss = loss,
              !.weights = IF taken THEN Append(@, <<e.lr, e.frozen, parts>>) ELSE @]

Applied(e, loss, taken) == [Stepped(e, loss, taken, e.waiting) EXCEPT !.waiting = 0]

Accumulated(e, added) == [e EXCEPT !.waiting = IF added THEN @ + 1 ELSE @]

Written(e) == [e EXCEPT !.weights = Append(@, <<"written", FALSE, 0>>)]

(* The knobs and what is frozen stay the session's own. *)
Restored(e, c) == [c EXCEPT !.frozen = e.frozen, !.loss = "nan"]

-----------------------------------------------------------------------------
(* What a replay makes of the journal. *)

(* An entry.  `taken` is what the engine made of it, and would again: the  *)
(* update was taken, or the part added.                                    *)
Entry(kind, loss, taken) ==
    [kind |-> kind, loss |-> loss, taken |-> taken, parts |-> 0,
     lr |-> FirstRate, frozen |-> FALSE]

(* Replay::Action#apply: the rest is passed over. *)
Redone(e, entry) ==
    CASE entry.kind = "adjust"     -> [e EXCEPT !.lr = entry.lr]
      [] entry.kind = "freeze"     -> [e EXCEPT !.frozen = entry.frozen]
      [] entry.kind = "accumulate" -> Accumulated(e, entry.taken)
      [] entry.kind = "span"       -> IF entry.parts > 0
                                      THEN Applied(e, entry.loss, entry.taken)
                                      ELSE Stepped(e, entry.loss, entry.taken, 0)
      [] OTHER                     -> e

Replayed(lines) ==
    LET after[k \in 0..Len(lines)] ==
            IF k = 0 THEN Opened ELSE Redone(after[k - 1], lines[k])
    IN  after[Len(lines)]

(* What replay.rb and journal.rb say a replay does not apply. *)
Replayable(lines) == \A k \in DOMAIN lines : lines[k].kind \notin {"put", "restored"}

-----------------------------------------------------------------------------
(* Calls, exceptions and interrupts. *)

NoCall == [phase |-> "none", entry |-> Entry("none", "none", FALSE), event |-> "none"]

(* Slip: interrupts are not held off. *)
NeverMasked == FALSE

(* atomically: from the native call until its line is written. *)
Masked == call.phase = "entry"

(* Slip: the fence is taken down only where a firing ends by itself. *)
FenceStays(left) == firing

(* fire's ensure, for the frames an exception leaves. *)
FenceAfter(left) == firing /\ \A k \in DOMAIN left : left[k].kind # "hook"

(* An exception, rescued by whoever runs in the frame it reaches. *)
Unwinds ==
    /\ \E d \in 0..Len(stack) :
          /\ stack' = SubSeq(stack, 1, d)
          /\ firing' = FenceAfter(SubSeq(stack, d + 1, Len(stack)))
    /\ call' = NoCall

(* The code that runs raises, its call is refused before anything moved,   *)
(* or an interrupt arrives: before a call, or when its line is written and *)
(* its hooks are not yet fired.                                            *)
Raises ==
    /\ ~Masked
    /\ Unwinds
    /\ UNCHANGED <<engine, disk, file, silent>>

(* A call gets through to the engine. *)
Moves(name, e, entry, event) ==
    /\ call.phase = "none" /\ name \in Calls /\ Len(file) < MaxLines
    /\ engine' = e
    /\ call' = [phase |-> "entry", entry |-> entry, event |-> event]
    /\ UNCHANGED <<file, silent, stack, firing>>

(* JSON has no line for a loss that is not a number. *)
Writable(entry) == entry.loss # "nan"

(* The entry's line is written; or it cannot be, and that raises. *)
Records ==
    /\ call.phase = "entry"
    /\ IF Writable(call.entry)
       THEN /\ file' = Append(file, call.entry)
            /\ call' = IF call.event = "none" THEN NoCall ELSE [call EXCEPT !.phase = "fire"]
            /\ UNCHANGED <<stack, firing, silent>>
       ELSE /\ silent' = TRUE
            /\ Unwinds
            /\ UNCHANGED file
    /\ UNCHANGED <<engine, disk>>

-----------------------------------------------------------------------------
(* The calls. *)

(* The loss is finite and the step is taken, or not for its norm; or the   *)
(* loss is not, and then it never is.                                      *)
Outcomes == {o \in Losses \X BOOLEAN : o[1] = "nan" => ~o[2]}

StepOnce ==
    /\ engine.step < MaxSteps
    /\ \E o \in Outcomes :
           Moves("step!", Stepped(engine, o[1], o[2], 0), Entry("span", o[1], o[2]), "step")
    /\ UNCHANGED disk

Accumulate ==
    /\ engine.waiting < MaxParts
    /\ \E l \in Losses :
           Moves("accumulate", Accumulated(engine, l = "finite"),
                 Entry("accumulate", l, l = "finite"), "none")
    /\ UNCHANGED disk

Apply ==
    /\ engine.step < MaxSteps /\ engine.waiting > 0
    /\ \E o \in Outcomes :
           Moves("apply!", Applied(engine, o[1], o[2]),
                 [Entry("span", o[1], o[2]) EXCEPT !.parts = engine.waiting], "step")
    /\ UNCHANGED disk

(* Nothing is written for what goes. *)
Discard ==
    /\ call.phase = "none" /\ "discard" \in Calls
    /\ engine' = [engine EXCEPT !.waiting = 0]
    /\ silent' = (silent \/ engine.waiting > 0)
    /\ UNCHANGED <<disk, file, stack, firing, call>>

Adjust(x) ==
    /\ Moves("adjust", [engine EXCEPT !.lr = x], [Entry("adjust", "none", FALSE) EXCEPT !.lr = x],
             "none")
    /\ UNCHANGED disk

(* The rate was turned and the seed or the cap beside it is refused. *)
AdjustInPart(x) ==
    /\ call.phase = "none" /\ "adjust" \in Calls
    /\ engine' = [engine EXCEPT !.lr = x]
    /\ silent' = (silent \/ x # engine.lr)
    /\ Unwinds
    /\ UNCHANGED <<disk, file>>

(* Nothing moves and nothing is written if it is frozen, or not, already.  *)
SetFrozen(f) ==
    /\ f # engine.frozen /\ engine.waiting = 0
    /\ Moves("freeze!", [engine EXCEPT !.frozen = f],
             [Entry("freeze", "none", FALSE) EXCEPT !.frozen = f], "none")
    /\ UNCHANGED disk

Put ==
    /\ Moves("put", Written(engine), Entry("put", "none", FALSE), "none")
    /\ UNCHANGED disk

(* Slip: what is written is the line, and the checkpoint may then fail. *)
Announced == disk' \in {disk, engine}

Saved == disk' = engine

Checkpoint ==
    /\ engine.waiting = 0
    /\ Moves("checkpoint!", engine, Entry("checkpoint", "none", FALSE), "checkpoint_written")
    /\ Saved

(* Another rate is another optimizer, which accept refuses. *)
Restore ==
    /\ disk # Nowhere /\ disk.lr = engine.lr
    /\ Moves("restore", Restored(engine, disk), Entry("restored", "none", FALSE), "none")
    /\ UNCHANGED disk

-----------------------------------------------------------------------------
(* Spans and hooks. *)

Frame(kind, event, step, at) == [kind |-> kind, event |-> event, step |-> step, at |-> at]

(* Slip: the next hook in order, whatever it is for. *)
NextInLine(event, step, k) == k + 1

(* The first hook after k that is for this event and due at this step. *)
NextHook(event, step, k) ==
    LET due == {j \in DOMAIN Registered :
                  j > k /\ Registered[j].event = event /\ step % Registered[j].every = 0}
    IN  IF due = {} THEN 0 ELSE CHOOSE j \in due : \A i \in due : j <= i

(* fire: it does not nest.  The ensure takes the fence down on every way   *)
(* out, also on the early one.                                             *)
Fires(event, frames) ==
    LET k == NextHook(event, engine.step, 0)
    IN  IF firing \/ k = 0
        THEN firing' = FALSE /\ stack' = frames
        ELSE /\ Len(frames) < MaxDepth
             /\ firing' = TRUE
             /\ stack' = Append(frames, Frame("hook", event, engine.step, k))

Fire ==
    /\ call.phase = "fire"
    /\ Fires(call.event, stack)
    /\ call' = NoCall
    /\ UNCHANGED <<engine, disk, file, silent>>

Running(kind) == call.phase = "none" /\ stack # << >> /\ Last(stack).kind = kind

(* A hook returns: the next one is called, or the firing is over. *)
HookReturns ==
    /\ Running("hook")
    /\ LET top == Last(stack)
           k   == NextHook(top.event, top.step, top.at)
       IN  IF k = 0 THEN firing' = FALSE /\ stack' = Front(stack)
           ELSE stack' = Append(Front(stack), [top EXCEPT !.at = k]) /\ UNCHANGED firing
    /\ UNCHANGED <<engine, disk, file, silent, call>>

(* run: refused inside a hook, as far as the fence can tell. *)
StartSpan ==
    /\ call.phase = "none" /\ "run" \in Calls /\ Len(stack) < MaxDepth
    /\ ~firing
    /\ stack' = Append(stack, Frame("span", "none", engine.step, 0))
    /\ UNCHANGED <<engine, disk, file, silent, firing, call>>

(* The batches are used up: a note of the last loss, which a replay does   *)
(* not apply, and the hooks.  Without a batch, or a loss that has a line,  *)
(* a span ends by raising.                                                 *)
EndSpan ==
    /\ Running("span") /\ engine.loss # "nan"
    /\ Fires("span_end", Front(stack))
    /\ UNCHANGED <<engine, disk, file, silent, call>>

-----------------------------------------------------------------------------

Init ==
    /\ engine = Opened
    /\ disk = Nowhere
    /\ file = << >> /\ silent = FALSE
    /\ stack = << >> /\ firing = FALSE
    /\ call = NoCall

Next ==
    \/ StepOnce \/ Accumulate \/ Apply \/ Discard \/ Put \/ Checkpoint \/ Restore
    \/ \E x \in Rates : Adjust(x) \/ AdjustInPart(x)
    \/ \E f \in BOOLEAN : SetFrozen(f)
    \/ Records \/ Raises
    \/ Fire \/ HookReturns \/ StartSpan \/ EndSpan

Spec == Init /\ [][Next]_vars

-----------------------------------------------------------------------------
(* What the window keeps true. *)

Engines == [weights : Seq((Rates \cup {"written"}) \X BOOLEAN \X (0..MaxParts)),
            lr : Rates, frozen : BOOLEAN, waiting : 0..MaxParts, step : 0..MaxSteps,
            loss : {"finite", "nan"}]

(* Every variable stays in its type; a hook that runs is one of those that *)
(* were registered.                                                        *)
TypeOK ==
    /\ engine \in Engines
    /\ disk \in Engines \cup {Nowhere}
    /\ \A k \in DOMAIN file : file[k].lr \in Rates /\ file[k].taken \in BOOLEAN
    /\ silent \in BOOLEAN /\ firing \in BOOLEAN
    /\ \A k \in DOMAIN stack :
          stack[k].kind = "hook" =>
              /\ stack[k].at \in DOMAIN Registered
              /\ Registered[stack[k].at].event = stack[k].event
    /\ call.phase \in {"none", "entry", "fire"}

(* No call is between the engine and its line. *)
Settled == call.phase # "entry"

(* Whatever raised, and wherever an interrupt arrived, the file is never   *)
(* behind the engine when Ruby runs again: replaying its lines on a fresh  *)
(* session ends in the state the run is in (session.rb, atomically; replay *)
(* is "bitwise").  Excepted are what a replay says it passes over, and     *)
(* what `silent` counts.                                                   *)
ReplayReproduces ==
    Settled /\ ~silent /\ Replayable(file) => Replayed(file) = engine

(* The checkpoint on disk is the state a replay has reached at its line,   *)
(* so that a replay can be compared with it, or go on from it.             *)
CheckpointIsInTheJournal ==
    LET lines == {k \in DOMAIN file : file[k].kind = "checkpoint"}
        last  == CHOOSE k \in lines : \A j \in lines : j <= k
    IN  Settled /\ ~silent /\ Replayable(file) =>
            IF lines = {} THEN disk = Nowhere
            ELSE disk = Replayed(SubSeq(file, 1, last))

(* However a hook ends, the fence is down once no hook runs, so that the   *)
(* next window fires and the next span starts (hooks.rb, "an exception in  *)
(* a hook stops the span, which is safe").                                 *)
FenceFalls == (\A k \in DOMAIN stack : stack[k].kind = "span") => ~firing
=============================================================================
