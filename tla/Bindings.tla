------------------------------ MODULE Bindings ------------------------------
(***************************************************************************)
(* The binding to MLX (src/engine/src/mlxc): what a call into mlx-c can    *)
(* leave behind.  One thread, the one inside the runtime's gate.           *)
(*                                                                         *)
(* mlx-c reports a failure twice: through the error handler, whose message *)
(* waits in SAID, and through the status (or the empty handle) the call    *)
(* returns, which takes the message.  A Rust closure that MLX runs can     *)
(* only return an int; why it failed waits in PARKED.  Every handle is     *)
(* owned by the Rust frame that holds it and freed when the frame is left, *)
(* by a return, an error or a panic.                                       *)
(*                                                                         *)
(* A function of the binding is the sequence of its steps (Scripts); the   *)
(* frames on the stack each run one.  Any call that has a status may fail, *)
(* with or without saying why.  Failures are numbered as they happen, so   *)
(* that an error can be told from the failure it is reported for.          *)
(***************************************************************************)
EXTENDS Integers, Sequences, SequencesExt, FiniteSets

CONSTANTS Arrays,         \* how many arrays a list handed to MLX holds
          MaxHandles,     \* handles alive at once
          MaxFailures     \* failures, an operation's and those left unread

ASSUME BindingsAssumption == /\ Arrays \in Nat
                             /\ MaxHandles \in Nat \ {0}
                             /\ MaxFailures \in Nat \ {0}

VARIABLES frames,    \* the calls under way, the innermost last
          live,      \* the handles mlx-c has made and not freed
          kept,      \* those the engine was given by the last operation
          said,      \* SAID: the failure whose message waits, 0 for none
          parked,    \* PARKED: why a closure failed
          status,    \* the failure mlx-c's call of a closure returned, 0 for success
          err,       \* the error or panic on its way out
          failures,  \* failures so far
          first,     \* the operation's first failure, 0 for none
          panicked,  \* whether something panicked in the operation
          ended,     \* how the last operation ended
          poisoned   \* a panic went through the runtime's gate

bindingVars == <<frames, live, kept, said, parked, status, err, failures, first,
                 panicked, ended, poisoned>>

Fine == [kind |-> "fine", cause |-> 0, what |-> 0]
Failed(kind, cause, what) == [kind |-> kind, cause |-> cause, what |-> what]

-----------------------------------------------------------------------------
(* The steps functions are made of.  A handle is a temporary of the frame, *)
(* or what it will return ("out").                                         *)

New(role) == [k |-> "new", role |-> role, fn |-> "none"]       \* an empty handle; cannot fail
Made(role) == [k |-> "made", role |-> role, fn |-> "none"]     \* a constructor: a handle, or an empty one
Checked == [k |-> "checked", role |-> "temp", fn |-> "none"]   \* a call with a status
MayRefuse == [k |-> "refuse", role |-> "temp", fn |-> "none"]  \* refused here, before MLX is asked
Graph == [k |-> "graph", role |-> "temp", fn |-> "none"]       \* the engine's own code in a closure
Settle == [k |-> "settle", role |-> "temp", fn |-> "none"]
Call(fn, role) == [k |-> "call", role |-> role, fn |-> fn]

Times(n, step) == [i \in 1 .. n |-> step]

Device == <<New("temp"), Checked, New("out"), Checked>>
WrittenOut == <<New("out"), Checked>>
NextEntry == <<New("out"), Checked>>
Ctor == <<Made("out")>>
OnStream == <<Call("current", "temp"), Call("try_from_op", "out")>>
OneCall == <<Call("on_stream", "out")>>    \* an operation on arrays
VectorOf == <<New("out")>> \o Times(Arrays, Checked)
VectorRead == Times(Arrays, Call("try_from_op", "out"))
Item == <<MayRefuse, Checked, Checked>>
ItemConverted == <<MayRefuse, Checked, Call("on_stream", "temp"), Checked, Checked>>
AsSlice == <<MayRefuse, Checked, Checked, MayRefuse>>
Evaluated == <<Call("vector_of", "temp"), Checked>>
Joined == <<Call("vector_of", "temp"), Call("on_stream", "out")>>
AlongAxis == <<Call("on_stream", "temp"), Call("on_stream", "out")>>
Attention == <<New("temp"), Call("on_stream", "out")>>
Drawn == <<Call("made", "temp"), Call("made", "temp"), Call("on_stream", "out")>>
KeysOf == <<Call("on_stream", "temp"), Call("made", "temp"), Call("on_stream", "out"),
            Call("made", "temp"), Call("on_stream", "out")>>
Gelu == <<Call("made", "temp"), Call("on_stream", "temp"),
          Call("made", "temp"), Call("on_stream", "temp"), Call("on_stream", "temp"),
          Call("made", "temp"), Call("on_stream", "temp"), Call("on_stream", "temp"),
          Call("made", "temp"), Call("on_stream", "temp"), Call("made", "temp"),
          Call("on_stream", "temp"), Call("on_stream", "temp"), Call("on_stream", "out")>>

\* The file, the map and the header are handles; so is the iterator, and the
\* slot the last call writes nothing into.
Load == <<MayRefuse, Call("cpu", "temp"), New("temp"), New("temp"), Checked, New("temp")>>
          \o Times(Arrays, Call("next_entry", "out")) \o <<New("temp")>>
Inserts == [i \in 1 .. 2 * Arrays |-> IF i % 2 = 1 THEN MayRefuse ELSE Checked]
SaveTo == <<MayRefuse, New("temp")>> \o Inserts \o <<New("temp"), MayRefuse, Checked, Checked>>
Counter == <<Checked>>
Report == Times(4, Call("memory", "temp"))
ClearCache == Times(3, Call("memory", "temp"))
Metallib == <<MayRefuse, Checked>>

\* The payload is mlx-c's from the start and goes with the closure's handle.
ClosureNew == <<New("out"), Made("out")>>
Apply == <<Call("vector_of", "temp"), New("temp"), New("temp"), Call("mlx_c", "temp"), Settle,
           Call("read", "out"), Call("read", "out")>>
Gradient == <<Call("closure_new", "temp"), New("temp"), Checked, Call("apply", "out")>>
Trampoline == <<Call("read", "temp"), Call("closure", "temp"), Call("vector_of", "temp"), Checked>>
ClosureBody == <<Graph, Call("on_stream", "out"), Graph>>
\* mlx-c's own frame: the inputs and the vector for what comes back are its own.
MlxC == <<New("temp"), New("temp"), Call("trampoline", "temp")>>

Scripts ==
    [current |-> Device, cpu |-> Ctor, made |-> Ctor, try_from_op |-> WrittenOut,
     next_entry |-> NextEntry, clone |-> WrittenOut, on_stream |-> OnStream, op |-> OneCall,
     vector_of |-> VectorOf, read |-> VectorRead, item |-> Item,
     item_converted |-> ItemConverted, as_slice |-> AsSlice,
     eval |-> Evaluated, joined |-> Joined, take_along_axis |-> AlongAxis,
     attention |-> Attention, draw |-> Drawn, split |-> KeysOf, gelu |-> Gelu,
     load |-> Load, save |-> SaveTo, memory |-> Counter,
     report |-> Report, clear_cache |-> ClearCache, metallib |-> Metallib,
     closure_new |-> ClosureNew, apply |-> Apply, value_and_grad |-> Gradient,
     trampoline |-> Trampoline, closure |-> ClosureBody, mlx_c |-> MlxC]

\* What the engine calls.
Operations == {"made", "try_from_op", "clone", "op", "item", "item_converted",
               "as_slice", "eval", "joined", "take_along_axis", "attention", "draw",
               "split", "gelu", "load", "save", "memory", "report", "clear_cache",
               "metallib", "value_and_grad"}

-----------------------------------------------------------------------------
Entered(fn) == [fn |-> fn, pc |-> 1, temp |-> {}, out |-> {}]

BindingsInit ==
    /\ frames = <<>> /\ live = {} /\ kept = {}
    /\ said = 0 /\ parked = Fine /\ status = 0 /\ err = Fine
    /\ failures = 0 /\ first = 0 /\ panicked = FALSE
    /\ ended = Fine /\ poisoned = FALSE

Idle == frames = <<>>
Top == Last(frames)
Step == Scripts[Top.fn][Top.pc]
AtEnd == Top.pc > Len(Scripts[Top.fn])
Running == ~Idle /\ err = Fine
At(k) == Running /\ ~AtEnd /\ Step.k = k

FreshHandle == CHOOSE h \in 1 .. MaxHandles : h \notin live
Owned(frame) == frame.temp \cup frame.out
With(frame) == Front(frames) \o <<frame>>
Went(frame) == [frame EXCEPT !.pc = @ + 1]
Holding(frame, role, handles) ==
    IF role = "out" THEN [frame EXCEPT !.out = @ \cup handles]
                    ELSE [frame EXCEPT !.temp = @ \cup handles]

\* The number the next failure gets, the operation's first or not.
Number == failures + 1
CountFailure == /\ failures < MaxFailures
                /\ failures' = Number
                /\ first' = IF first = 0 THEN Number ELSE first

\* What a failing call is reported with: its own message if it left one, and
\* whatever waits otherwise.  Zero stands for "<operation> failed".
Saying(says) == IF says THEN Number ELSE said

-----------------------------------------------------------------------------
Starts(fn) ==
    /\ Idle /\ ~poisoned /\ kept = {}
    /\ frames' = <<Entered(fn)>>
    /\ failures' = IF said = 0 /\ parked = Fine THEN 0 ELSE failures
    /\ first' = 0 /\ panicked' = FALSE /\ ended' = Fine
    /\ UNCHANGED <<live, kept, said, parked, status, err, poisoned>>

\* The engine drops what it was given.
LetGo == /\ Idle /\ ~poisoned /\ kept # {}
         /\ live' = live \ kept /\ kept' = {}
         /\ UNCHANGED <<frames, said, parked, status, err, failures, first, panicked, ended, poisoned>>

\* Once a panic went through the gate, every later call is refused at it.
RefusedAtGate == poisoned /\ UNCHANGED bindingVars

Takes == /\ At("new") \/ At("made")
         /\ ~ (1 .. MaxHandles \subseteq live)
         /\ frames' = With(Went(Holding(Top, Step.role, {FreshHandle})))
         /\ live' = live \cup {FreshHandle}
         /\ UNCHANGED <<kept, said, parked, status, err, failures, first, panicked, ended, poisoned>>

Succeeds == /\ At("checked") \/ At("refuse") \/ At("graph")
            /\ frames' = With(Went(Top))
            /\ UNCHANGED <<live, kept, said, parked, status, err, failures, first, panicked, ended, poisoned>>

\* mlx-c fails; check or failure takes what waits in SAID.
MlxFails == /\ At("checked") \/ At("made")
            /\ CountFailure
            /\ \E says \in BOOLEAN : err' = Failed("error", Number, Saying(says))
            /\ said' = 0
            /\ UNCHANGED <<frames, live, kept, parked, status, panicked, ended, poisoned>>

\* An error of Rust's own, in its own words; a closure may also panic.
RustFails == /\ At("refuse") \/ At("graph")
             /\ CountFailure
             /\ \E kind \in {"error"} \cup (IF Step.k = "graph" THEN {"panic"} ELSE {}) :
                   /\ err' = Failed(kind, Number, Number)
                   /\ panicked' = (panicked \/ kind = "panic")
             /\ UNCHANGED <<frames, live, kept, said, parked, status, ended, poisoned>>

Calls == /\ At("call")
         /\ frames' = Append(frames, Entered(Step.fn))
         /\ UNCHANGED <<live, kept, said, parked, status, err, failures, first, panicked, ended, poisoned>>

\* The frame below a call that returned holds what it returned.
Given(rest, handles) ==
    IF rest = <<>> THEN rest
    ELSE LET caller == Last(rest)
             call == Scripts[caller.fn][caller.pc]
         IN  Front(rest) \o <<Went(Holding(caller, call.role, handles))>>

Returns == /\ Running /\ AtEnd /\ status = 0
           /\ frames' = Given(Front(frames), Top.out)
           /\ kept' = IF Len(frames) = 1 THEN Top.out ELSE kept
           /\ live' = live \ Top.temp
           /\ UNCHANGED <<said, parked, status, err, failures, first, panicked, ended, poisoned>>

\* mlx-c's frame fails: the closure returned 1, which it makes an exception
\* and a report of its own, or something else in it failed.
ClosureCallFails ==
    /\ Running /\ Top.fn = "mlx_c"
    /\ CountFailure
    /\ status' = Number
    /\ \E says \in BOOLEAN : said' = Saying(says)
    /\ frames' = Given(Front(frames), {})
    /\ live' = live \ Owned(Top)
    /\ UNCHANGED <<kept, parked, err, panicked, ended, poisoned>>

-----------------------------------------------------------------------------
\* A mistake: an output slot that is a bare handle until the call succeeded.
FreedTemporaries(frame) == frame.temp

\* What a frame frees when an error or a panic leaves it.
Freed(frame) == Owned(frame)

\* Out through `?` or unwinding.  A clone that fails panics (expect).
Unwinds ==
    /\ ~Idle /\ err # Fine /\ Top.fn # "trampoline"
    /\ LET leaving == IF Top.fn = "clone" THEN [err EXCEPT !.kind = "panic"] ELSE err
       IN  /\ panicked' = (panicked \/ Top.fn = "clone")
           /\ IF Len(frames) = 1
              THEN /\ ended' = leaving /\ err' = Fine
                   /\ poisoned' = (leaving.kind = "panic")
              ELSE err' = leaving /\ UNCHANGED <<ended, poisoned>>
    /\ frames' = Front(frames)
    /\ live' = live \ Freed(Top)
    /\ UNCHANGED <<kept, said, parked, status, failures, first>>

\* Nothing unwinds into C++: the error or the panic is parked and 1 returned.
Parks ==
    /\ ~Idle /\ err # Fine /\ Top.fn = "trampoline"
    /\ parked' = err /\ err' = Fine
    /\ status' = err.cause
    /\ frames' = Given(Front(frames), {})
    /\ live' = live \ Freed(Top)
    /\ UNCHANGED <<kept, said, failures, first, panicked, ended, poisoned>>

\* A mistake: MLX's report of the closure's failure stays in its slot.
SettledLeavingSaid ==
    IF parked.kind = "panic" \/ (parked.kind = "error" /\ status # 0)
    THEN [err |-> parked, said |-> said]
    ELSE IF status # 0 THEN [err |-> Failed("error", status, said), said |-> 0]
    ELSE [err |-> Fine, said |-> said]

\* What settle makes of a status, what is parked and what was said:
\* the outcome, and the message left waiting.
Settled ==
    IF parked.kind = "panic" \/ (parked.kind = "error" /\ status # 0)
    THEN [err |-> parked, said |-> 0]
    ELSE IF status # 0 THEN [err |-> Failed("error", status, said), said |-> 0]
    ELSE [err |-> Fine, said |-> said]

Settles ==
    /\ At("settle")
    /\ err' = Settled.err /\ said' = Settled.said
    /\ parked' = Fine /\ status' = 0
    /\ frames' = With(Went(Top))
    /\ UNCHANGED <<live, kept, failures, first, panicked, ended, poisoned>>

BindingsNext ==
    \/ \E fn \in Operations : Starts(fn)
    \/ LetGo \/ RefusedAtGate
    \/ Takes \/ Succeeds \/ MlxFails \/ RustFails \/ Calls \/ Returns
    \/ ClosureCallFails \/ Unwinds \/ Parks \/ Settles

BindingsSpec == BindingsInit /\ [][BindingsNext]_bindingVars

-----------------------------------------------------------------------------
(* Properties.                                                             *)

\* What comes out of the binding is the first thing that went wrong inside
\* it, as what it was: in that failure's own words or in none, never in the
\* words of another failure, and a panic if and only if something panicked.
\* settle, forget_said and the one slot per thread are about this: a closure
\* fails in Rust, MLX reports that in words of its own, and later calls may
\* fail without a word.
TheCauseComesOut ==
    Idle => /\ ended.cause = first
            /\ ended.what \in {0, ended.cause}
            /\ (ended.kind = "panic") <=> panicked

\* Every handle mlx-c made has one owner, a frame or the engine, and nobody
\* owns a handle twice or one that was freed: neither an early return nor a
\* panic through a closure leaks or frees twice.
EveryHandleHasOneOwner ==
    /\ live = kept \cup UNION {Owned(frames[i]) : i \in DOMAIN frames}
    /\ \A i, j \in DOMAIN frames : i # j => Owned(frames[i]) \cap Owned(frames[j]) = {}
    /\ \A i \in DOMAIN frames : frames[i].temp \cap frames[i].out = {}

=============================================================================
