# A TLA+ model of torobi

torobi trains models on Apple MLX from Ruby. A Rust engine (`engine/`) owns
the training state and the device, a native extension (`ext/torobi/`) hands it
to Ruby threads, and a Ruby library (`lib/torobi/`) drives it, journals what it
did and runs it in child processes. The modules here model the parts whose
correctness rests on the order of things: what a training run's state may look
like after any sequence of calls, what is on disk after any crash, and what
several threads over several sessions may do to one another.

Paths below are relative to the repository's root.

## The system

| Component | State | Operations | Interacts with | Hard about it | Correct when |
|---|---|---|---|---|---|
| **Training state** `engine/src/state.rs`, `optimizer.rs` | parameters, the differentiated set (`argnums`), optimizer slots, RNG, counters, gradients waiting | step, accumulate, apply, discard, set_frozen, put, set_lr/clip/seed, save, restore | called by the session; writes checkpoints | three vectors tied by position; several assignments per step, any of which may fail | vectors stay parallel; a step is all or nothing; a restore continues where the save was |
| **Engine session** `session.rs` | a plan, a training state, taps | one call at a time into the state | wrapped by the binding; enters the runtime | nothing of its own | as the state |
| **Checkpoint files** `checkpoint.rs` | five files under a name, a staging directory, a displaced one | write, publish, read, accept | the state; readers in other processes | crash between any two file operations; leftovers | the name holds one whole save, or nothing while the old one stands aside whole |
| **Runtime gate** `runtime.rs` | process-wide lock, poisoned flag, owner's pid | enter, release | every call that reaches MLX | panics, forks, drops by the collector | one at a time, live engines only, never after a panic or in a child |
| **Native binding** `ext/torobi/src/{lib,gvl}.rs` | per session: claim, slot, snapshot | open, with_engine, run, watch, closed?, close, drop | Ruby's GVL, the gate | five kinds of lock, refusals by Ruby, unwinding | no session lost or stuck; busy is told, not queued |
| **Plan, graph** `graph.rs`, `plan.rs`, `init.rs` | a resolved plan: models in order, one list of parameters, what is trained | resolve, materialize, bind a batch | read by the state and the executor | everything is kept by position and answered by name; Ruby's checks are trusted | names mean what the description says; a batch is refused before it runs |
| **Executor, interpreter** `executor.rs`, `interp.rs`, `op.rs` | none between calls; a key and values during one | run the models, the objective, differentiate, tap | state, mlxc | slices by model, cut again by what is frozen; keys handed on; indices into what a graph says | no index past what is there; no two draws alike; a tap reads the pass that was made |
| **MLX bindings** `engine/src/mlxc/` | handles; per thread the message said last and the error parked | the foreign calls, closures called back | everything above | an error in two slots, panics under C++ frames, handles written before they are owned | each handle freed once; the cause comes out |
| **Ruby session** `lib/torobi/session.rb` | native handle, journal, hooks, history | step!, accumulate, apply!, discard, adjust, freeze!/unfreeze!, put, checkpoint!, restore, run, close | binding, hooks, journal | masked interrupts; the engine moved but the entry is not written | what the journal says is what the engine did |
| **Hooks and policies** `hooks.rb` | registered hooks, a fence, a bounded history, each policy's own memory | fire, policies that checkpoint, roll back, lower the rate, stop | call the session from within a step | re-entrance; a rollback moves the steps back under what a policy remembers | the fence comes down; the history judges as the run would; one cut per plateau |
| **Journal, replay** `journal.rb`, `replay.rb` | entries, a file | add, note, read; apply an entry | session, runner | lines cut short; what is not recorded | a replay takes the same steps |
| **Runner** `runner.rb` | a child, a run directory | start, stop, wait, poll, outcome | journal, checkpoints, signals | races of signals, exits and reads | the outcome says what happened |
| **GradCache** `grad_cache.rb` | parts of a step | step | accumulate/apply | failure half way | a step is taken on its own parts only |
| **Ruby graph** `dsl/`, `ir/`, `shape.rb`, `graph_config.rb` | a graph being described | emit a node, infer its shape, check the whole, check a run's wiring | hands JSON to the engine | two languages infer the same shapes; some dimensions are the batch's | a shape mistake is told when the graph is built |
| **Weights, batches, preflight, parquet reader** | none or pure | convert | – | boundaries | conversions say what they read |

## The modules

| Module | Models | Abstract specification |
|---|---|---|
| `TrainState` (+ `MCTrainState`) | training state and its checkpoint record; every call of the engine session that moves it | – |
| `CheckpointStore` | writing, publishing and reading checkpoint files, one file operation at a time | `CheckpointPromise` |
| `SessionGate` | Ruby threads, GVL, the sessions' claims and mutexes, the gate, panics, close, sweep, fork | `EngineUse` |
| `Window` (+ `MCWindow`) | the Ruby session: calls and their journal lines, interrupts, spans, hooks, and an action replay | the replay: `Replayed(file)` |
| `RunDirectory` | a run in a child process: journal file, checkpoint, signals, exit, the parent's Runner | the journal read whole: `LastOf`, `ReadsBack` |
| `Shapes` | the shape and type rules of one op, in Ruby and in the engine | each is the other's reference |
| `Description` (+ `MCDescription`) | a graph from its description to its values: DSL, check, open, bind, run | Ruby's inferred values |
| `Passes` (+ `MCPasses`) | a plan, its passes over models and objective, keys, taps, gradients | `Meaning`: the description read by name |
| `Bindings` | the calls into mlx-c, their handles and errors | – |
| `Policies` | the history of losses and the four policies that act on it | the history kept whole: `PlateauedOnAll` |
| `MCEdges`, `MCLibrary` | nothing of their own: `Bindings` beside `CheckpointStore`, `Description` beside `Policies`, for TLC | – |
| `TrainStateProofs`, `CheckpointProofs` (of `CheckpointStore` and `Policies`), `SessionGateProofs`, `WindowProofs`, `RunDirectoryProofs`, `DescriptionProofs`, `BindingsProofs`, `PassesProofs` | theorems about these modules | – |

They are layers of one call. `SessionGate` justifies that `TrainState` may take
every call as one step: between `Take` and `PutBack` an engine is in one
thread's frame and nowhere else (`EngineInOnePlace`). `Passes` is what a call of
`TrainState` that evaluates something is made of, `Description` what one graph of
a pass is made of, and `Bindings` what one operation of a graph is made of:
`TrainState`'s failing calls are what `Bindings` has come out of them.
`CheckpointStore` takes the one step `Save` of `TrainState` apart: a save that
succeeds is that step (`ReturnedIsThere`), and one that is killed is not, as
between its two renames the name stands for nothing (`KeepsItsPromise` says
how the name gets from one save to the next). `Window` makes the calls of
`TrainState` and keeps of each what a replay could tell, `Policies` is what the
library's own hooks do in it, and `RunDirectory` is the process around a
`Window`, with its journal at the grain at which it can be cut.

### TrainState

`Init` is `TrainState::new`; `Reopen` is a session that goes away and another
one over the same graph with its own knobs and seed. The other actions are the
calls of `session.rs` with their early returns: `Refuse` is a refusal by a
check, `Fail` an error from below (a batch that does not fit, an evaluation, a
file), both before anything is assigned. `Advance` is `TrainState::advance`,
the decision in `outcome` and the assignments in `commit`. `SetSeed` assigns
the seed first and may then fail to make the key, as the code does.

Arrays are what the rest depends on: a parameter is how many updates it
absorbed, a slot is the position it was built for and its updates, a gradient
is the set of positions summed into it, a key is its seed and its splits, a
loss or a norm is whether it is finite. That is enough to see a slot applied to
another parameter, a gradient added to another's, a key drawn from twice.

Run `train_state` (AdamW; three parameters, one of them kept frozen by the plan
so that a position and its place in `argnums` differ; patterns matching no
candidate, one, both; two learning rates; at most two steps and two parts):

- `LinedUp` – slots, differentiated set and waiting gradients stay parallel,
  and a checkpoint files every slot under its own path;
- `CountersAgree` – updates ≤ steps, splits ≤ steps, no slot older than the
  bias correction's count, in the run and on disk;
- `OwnCheckpointIsAccepted` – a checkpoint written with this set and these
  knobs is not refused (for a plan that has something trainable);
- `StepIsWhole`, `SlotsFollowTheSet`, `WaitingIsKept`, `RestoreContinues` –
  what a step, a freeze, a failing call and a restore may and may not move.

Two steps suffice to have a slot of each age (0, 1, 2) beside one that thawed,
and a checkpoint taken in each of these states restored into each; two parts
suffice for a sum that does not line up. `sgd`, which keeps no slots, is covered
by the proofs, for every constant.

### CheckpointStore

`LayOut` opens (and truncates) and then fills each file, `Removes` deletes file
after file and may give up anywhere because `remove_dir_all(..).ok()` ignores
errors, `MoveAside` fails on a leftover that is not empty, `Fails` is an error
of any file operation, `Restart` the death of the process anywhere and a new one
over the same directories, with either update rule. `ReadFile` is a reader in
another process that opens each file by its path. A file's content is the
number of the save that wrote it, or `Torn`.

Run `edges` (three saves: one in place, one displaced, one over both leftovers;
`MCEdges` puts this module beside `Bindings`, see below):

- `NameIsWhole` – what has the name is every file of one save;
- `BothStandAside` – between the two renames the old checkpoint and the new one
  are both on disk whole;
- `ReturnedIsThere` – a save that returned without an error is under the name;
- `ReadsForward` – a reader that is overtaken meets newer files only (the slots
  apart: a save by an SGD run has none, and a leftover may lend it some);
- `KeepsItsPromise` – the refinement of `CheckpointPromise`, where `named` is the
  save a reader finds under the name and `aside` the one set aside while it finds
  none. The name is not taken over in one step: it goes from an older save to
  none, the older one standing whole beside it, and from none to the newest.
  What is set aside is safe from the save, but no code opens it again.

Run `checkpoint_stands` (two saves) is the other side of that: a process ended
between the two renames, or a second rename that failed, and nothing has the
name (`LastCheckpointStands`, violated; see "Findings").

A save is killed by `Restart` at every point; a kill is the death of a process,
which loses no data already written. A power loss is not modelled: which of a
file's bytes survive one is the file system's business and not in the source.

### SessionGate

A thread is at a named place (`pc`); `gvl`, `gate`, the slot's and the
snapshot's mutexes name their holder, `claimed` is `in_flight` with the call it
belongs to, and `engine` says where each engine is: in the slot, in a thread's
frame, freed, or leaked. `Enter`/`EntryRefused`/`Raises`/`Yields`/`Resume` are
the loop of `gvl.rs`, whose last attempt keeps the GVL; `Take` … `Poisoning`
are `run`, with `try_lock` on the way out of the slot and `lock` on the way
back; `EnterGate`, `Release` and `Panics` are `runtime.rs`; `Sweep` is the
collector's drop, which runs with the GVL held; `Fork` follows the child, where
the forking thread is alone and every lock stays as it was.

Run `session_gate` (two threads, two sessions, two attempts): every pair of
calls on one session and on two, every place one of them can be when the other
panics, closes, is collected or forks. Two threads are enough for each lock to be
contended by the holder of each other; a third thread (checked for safety with
one attempt, outside the listed runs, as it takes minutes) found nothing more.
`CHECK_DEADLOCK FALSE`, because a forked child may be left with a mutex nobody
unlocks (a watcher's, see "Noticed" below) and then really stops.

- `EngineInOnePlace`, `ClaimedIsServed`, `FreshWhenReady`, `GoneStaysGone` – no
  session is lost, stuck, shown stale or revived;
- `UsesMLXAsPromised` – refinement of `EngineUse`: one call inside at a time,
  on live engines, never after a panic, never in a child; frees wait for the
  gate even after a panic;
- `EveryCallReturns` – liveness.

*Fairness.* `SF_vars(Continue(t))` for each thread: a call under way goes on if
it can go on again and again. What it stands for: Ruby's scheduler hands
the GVL round, std's mutexes and the OS do not starve a waiter, and work inside
MLX ends. No fairness is assumed of starting a call, forking or being
interrupted, and nothing forces `EntryRefused` or its absence: the bound on
attempts is what makes the loop end. In a forked child `watch` is excepted, as
it does not hold there.

The process-global calls of the binding (memory counters and limits) take the
gate the way `open` does and are not actions of their own.

### Window

`session.rb` runs the native call and the journal's entry under
`Thread.handle_interrupt(Object => :never)` and fires the hooks after it. A call
is three steps: `Moves` (the engine), `Records` (its line, or the exception JSON
raises for a loss that is not a number), `Fire`. `Raises` is any way control is
lost where Ruby lets it be: a refusal, an exception in the program, a block or
a hook, an interrupt. It is enabled unless `Masked`, and reaches any of the
frames around, `stack`; `FenceAfter` is `fire`'s `ensure` for the frames it
leaves. `Fires`, `HookReturns` and `NextHook` are the loop of `Hooks#fire`;
`StartSpan`/`EndSpan` are `run`. A hook may make every call of the window, and
so the policies of `hooks.rb` are some of the hooks the model has.

The engine is what a replay could tell: the sequence of updates its parameters
absorbed (at which rate, on which set, on how many parts), the rate, the frozen
set, the parts waiting, the counters. `Redone` is `Replay::Action#apply`,
`Replayed` repeats it over the file's lines.

Run `window` (three hooks on two events, one of them on every second step; four
lines, two steps, two parts, nesting two deep; every call of the window):

- `ReplayReproduces`, `CheckpointIsInTheJournal` – outside a mask, the lines on
  file replay to the state the run is in, and up to the last checkpoint's line
  to what the checkpoint holds. They exempt journals with a `put` or a restore,
  which the sources say a replay does not apply, and what is in `silent`: a
  discard, an adjustment cut short, a step whose loss has no line. The last
  three are told nowhere (see "Noticed" below);
- `FenceFalls` – however a firing ends, the fence comes down.

A nested firing that is skipped clears the fence of the outer one: the model
does this as the code does, so the calls a hook makes after it fire hooks inside
it, and the properties above are stated for what happens then too.

Four lines hold a call, the call of a hook inside it, and another after both;
two steps let the hook with a cadence of two be skipped and be due. A larger
instance (five lines, three deep, 14 million states) was checked once
and held too.

### RunDirectory

The journal's file is a sequence of pieces, a text and a newline per line, which
the child appends one at a time (`WritePiece`), so that a poll or a kill may fall
between any two. `Listen` … `Exit` are `Runner.child` around a training program
like `test/support/train.rb`: open a session, resume the checkpoint, step,
save, `break if run.stopping?`. It may find no engine, raise, exit by itself,
abort (`Crash`), or never go on. A signal is `pending` until the handler runs;
before `listen` it ends the process. A `Runner` of the parent is `caller`,
`reading` and `outcome`; `Start` makes the next one in the same directory.

Run `run_directory` (two runs, two steps):

- `ReadingIsTheFile` – the incremental reading finds what reading the whole would;
- `InterruptedJournalReads` – the journal of one run killed anywhere reads back;
- `StepsAreTold` – every step a checkpoint holds has a line that can be read,
  though a kill's torn line swallows the line after it;
- `OutcomeIsTrue` – finished, stopped, failed and unavailable are said by this
  run and are what happened. It exempts programs that exit by themselves and a
  last note glued to a torn line: there the parent is left with an older note
  (see below);
- `StopReturns` – `stop` comes back knowing how the run ended.

*Fairness.* `WF_vars(InStop)`: a parent inside `stop` goes on looking and its
clock runs. Nothing is assumed of the child, which may be wedged in a step; that
`stop` returns all the same rests on the deadline and KILL.

Two runs are enough for what a run leaves to the next; a third finds a file of
the same kind as the second did. Two steps let a checkpoint be behind, at and
ahead of the journal, and a resumed run go on from the middle.

### Shapes and Description

`Shapes` says each op's rule twice: `Infer` as `shape.rb` infers it, over
dimensions some of which are `nil`, and `Apply` as `interp.rs` has MLX compute
it, over the arrays of one batch. The two are not the same function, and
`LeftUnlooked` names what the Ruby rules do not look at. Ops that share a rule
share a name (`add` stands for the elementwise binary ones, `neg` for those that
keep shape and type).

`Description` is the life of one graph. `Emit` is the DSL adding a node, with
its inference and refusals; `Write` a graph that did not come from the DSL (by
hand, or of another version); `Describe` the check of the whole (`check.rb`);
`Open` is `Program::resolve`, which re-checks what the engine indexes by;
`Bind` takes a batch by its first declaration of each field; `RunNode` and
`Answer` are the interpreter's loop, with its indexing and its panics.

Run `library` (six families of declarations, at most five nodes, symbolic
dimensions 1 or 2; `MCLibrary` puts this module beside `Policies`, see there):

- `ReferencesHold` – whatever a graph says, one that opened never indexes past
  the inputs, nodes, arguments and parameters there are;
- `RunsAsDescribed` – every value of every batch fits the shape described;
- `FailsOnlyOverSymbols` – a pass fails only at a node that reads a dimension left
  to the batch, and reads outside an array only at a slice along one. That such a
  slice does read outside, where `shape.rb` has the engine check it, is the run
  `slices` (`SlicesAreChecked`, violated; see "Findings").

The last two are stated of graphs the DSL wrote, up to the first node whose rule
leaves something unlooked, and for fields declared alike by the inputs that read
them; what happens past these is listed under "Noticed". The families are chosen
for what meets: broadcasting, gains and reductions over a symbolic batch; one
field declared twice; heads split, permuted, attended and merged over two
symbolic dimensions (five nodes deep, in one order); classes and row lookups;
everything concrete; graphs by hand. Sizes 1 and 2 are the two that matter to
broadcasting. `CHECK_DEADLOCK FALSE`: a refused or panicked graph stops.

### Passes

`Open` resolves a description (`Resolution` is `Plan::resolve`: models in the
order of their names, one list of parameters, slices by an offset, candidates,
fields, named nodes) and materializes its parameters from a file or fresh.
`Run` is `interp::evaluate_tapped` node by node, `Models` and `forward` the
executor, with the key split for each model and the rest handed to the
objective. The calls of the session are actions: opening taps, training,
accumulating parts and applying or discarding them, evaluating, forwarding, asking
for gradients, freezing and thawing (refused while parts wait, or where nothing
would be left to train); a batch may lack a field, a call may fail from below, and a pass may
fail after it was made (its loss cannot be read).

A value is the set of fields, parameters and draws it depends on; a key is the
path of splits from the seed. So a wrong slice shows as a parameter under
another's name, and a shared key as two draws that are one. Two histories serve
the properties: `drawn`, of each pass that drew, the step it was made for and the
key of each node, and `last`, the pass the last call let through with the nodes
watched then. A step is evaluated once for its loss and gradients and once more
for its taps; `last` is of the first, `tapped` is read from the second. Setting
the seed again and restoring a checkpoint, which set the key back, are calls of
`TrainState` and not of this module: the keys are those of one run from its seed.

Run `passes` (ten openings: two towers and an objective that draws, a frozen
model beside a trained one, a model that is its own loss, one only read, one fresh
head, a model named `objective` under an objective that draws twice, a file that
lacks parameters, three a caller could hand to the engine past Ruby's check;
batches `{x}`, `{x, y}`, `{y}`; at most two steps, `MaxStep`, and two passes that
draw, `MaxPasses`, of one step or of two):

- `AnswersByName` – loss, outputs and gradients are what the description means
  when it is read by name alone (`Meaning`), which knows nothing of positions;
- `DrawsApart` – in the passes made for one step (its parts and the gradients read
  meanwhile included) a node draws with one key, the same in each of them, and
  no other node draws with it; no node draws with one key in two steps; and no key
  is what a fresh parameter was drawn with. Parts draw alike because the key does
  not move on `accumulate` (`state.rs:416`). Two nodes in two steps may share one:
  the key of a model in a step is that of the model before it in the next step,
  and the objective's likewise that of its dropout before it; these are what the
  property lets through, and are listed under "Noticed";
- `TappedIsOnePass` – of the nodes that were watched the taps report each that ran in
  the pass last let through, and no other, with the value it had in that pass, the
  last node's where two have one name; and a loss answered is that pass's;
- `AcceptedIsWired` – what `GraphConfig` accepts never fails for its wiring.

Two models and an objective are the least where a slice, an offset and a handed-on
key can be wrong; two passes that draw are two parts of a step, a part and the
step after it, a step and the gradients read before it, or two steps, so that a
key meets each other key there is. Passes that draw nothing are not bounded.
`fresh_draws` is the same module with every parameter new.

### Bindings

A function of `mlxc/` is a script: the sequence of what it asks of mlx-c
(`New`, `Made`, `Checked`), of its own refusals (`MayRefuse`, `Graph`), of other
scripts (`Call`) and of `settle`. `frames` is the stack of them, across the C++
frame `mlx_c` and back into a Rust closure (`trampoline`). A checked call fails
with a message or without one; the message waits in `said`, a closure's error in
`parked`. `Unwinds` is a frame left by `?` or a panic, `Parks` the edge a panic
may not cross, `Settles` what `settle` makes of a status and the two slots.
That a closure's failure always comes back as a status is an assumption on
mlx-c, which is external.

Run `edges` (two arrays in a list, at most sixteen handles, four failures; one
thread is inside at a time and operations follow one another):

- `TheCauseComesOut` – what an operation ends with is its first failure, in its
  own words or none, and a panic exactly if something panicked;
- `EveryHandleHasOneOwner` – live handles are those some frame or the engine
  owns, each once.

Four failures hold a closure's error, MLX's report of it, and an operation that
fails without a word after both; sixteen handles are more than any script holds.

`MCEdges` lets one of its two modules move only while the other is at its start.
They share no variable and no property speaks of both, so what this leaves out,
one in the middle of an operation while the other is in the middle of a save, is
nothing either could tell; each module's own states are all reached.

### Policies

`Steps` is an event: the step is counted, its loss pushed on `Hooks::History`,
and the hooks called in the order they were registered. Each hook is two to
four actions, its early returns and what it does: `NaNGuard` gives up, cuts
the rate and rolls back, or is refused the rollback; `BestCheckpoint` writes
its one directory; `LrOnPlateau` cuts the rate; `EarlyStopping` stops. A
rollback is the session's restore with its check of the optimizer's
configuration (`TrainState`'s `Accepts`, of which the rate is what matters here).

Run `library` (losses 1, 3, 4 and one that is not a number, six readings, a
window of three, patiences 3, 2 and 3, three halvings, every order of the four):

- `PlateauIsJudgedOnAll` – the window and the best of what left it judge, for any
  patience up to the window's length, as every reading of the run would;
- `OneCutPerPlateau` – two cuts are at least a patience of losses apart, although
  the last is remembered by its step and a rollback moves the steps back.

Losses 1, 3 and 4 with a margin of one hold a loss that improves, one that is
better and does not improve, and one that is worse. Six readings let three fall
out of the window, and leave room for a cut, a rollback and another plateau. The
library's window is 10,000 readings; that patiences fit in it is an assumption named
in the module. `CHECK_DEADLOCK FALSE`: a run ends. `MCLibrary` composes as
`MCEdges` does, with one order of the policies standing for the part that waits
while a graph lives, and one graph while the policies run: 1.96 million states, the two
modules' own together.

## Findings

Five runs are expected to fail; each shows the code doing what a line of the
repository says it does not.

| Run | Property | What the run shows | What says otherwise |
|---|---|---|---|
| `run_reads` | `ResumedJournalReads` | a resumed run's journal has a second header, which `Journal.read` takes for an entry and refuses (`lib/torobi/journal.rb:289`) | `lib/torobi/runner.rb:344`: a resumed run adds to the record |
| `fresh_draws` | `FreshDrawsApart` | every fresh parameter is drawn with the second half of one `split` of the run's key (`engine/src/plan.rs:477`): two of one shape start alike | `plan.rs:474`: its own key, split from the run's by the path |
| `guard` | `GuardEndsAfterPatience` | `NaNGuard` lowers the rate after it rolled back; its next rollback is to a checkpoint of another rate, which is refused, and the span ends with patience left (`lib/torobi/hooks.rb:221`) | `hooks.rb:191`: lower the rate, go back, give up after `patience` consecutive non-finite steps |
| `checkpoint_stands` | `LastCheckpointStands` | the checkpoint there was is renamed to `.replaced` before the new one takes the name (`engine/src/checkpoint.rs:221`); a process that ends in between leaves nothing under the name, and nothing opens `.replaced` | `lib/torobi/runner.rb:287`, of a child ended by a signal: "The last checkpoint still stands, because a checkpoint is written atomically" (the comment of `publish` itself, `checkpoint.rs:209`, says why the rename is not atomic) |
| `slices` | `SlicesAreChecked` | a slice along a dimension left to the batch takes the indices it was described with (`engine/src/interp.rs:287`), whatever the batch brought: a shorter one is read past its end and the pass goes on | `lib/torobi/shape.rb:231`: a symbolic dimension has no length to check against, "and the engine checks it when the batch arrives" |

### Noticed while modelling, without a run of their own

The models do what the code does in each of these; where one touches a property,
the property's comment says what it exempts.

Training state and checkpoints:

- a step skipped for an overflowing norm reports that norm, `Infinity`
  (`engine/src/state.rs:368`), where `state.rs:198` promises NaN;
- the seed is assigned before the key is built from it (`state.rs:235`): a key
  that fails leaves the new seed beside the old key; a parameter is written while
  gradients taken on its old value wait (`state.rs:297`);
- a checkpoint of a run with a frozen parameter restores, without refusal, into a
  session that trains it (`checkpoint.rs:314`; `docs/plan.md:503` has resumed and
  continuous runs agree);
- a reader overtaken by a publish mixes two saves (`checkpoint.rs:413`;
  `lib/torobi/session.rb:456`: written atomically), which `ReadsForward` bounds;
- what a failed removal leaves in the staging directory may lend an SGD save the
  slots of an AdamW run (`checkpoint.rs:154`).

Sessions and threads:

- `closed?` and `poisoned?` hold a session's slot for a moment with the GVL
  held, and a step of another thread that tries it then is refused as busy
  (`ext/torobi/src/lib.rs:491`; `lib/torobi/errors.rb:29` has it that a busy
  session is serving another thread);
- a child forked while a step publishes waits for ever when it reads the step
  (`lib.rs:513`; `test/lifecycle_test.rb:284`: watching still answers).

Hooks, journal, runner:

- the `ensure` of a nested, skipped `fire` clears the fence of the outer one
  (`hooks.rb:148`; `hooks.rb:132`: hooks do not nest);
- `discard` leaves no line (`session.rb:246`), so a replay steps on what the run
  threw away (`docs/plan.md:742`: every window operation is recorded);
- `BestCheckpoint` notes the value before the save that may fail, and what it
  saves are the parameters after the step whose loss was best; a finite loss
  with a norm that is not is a skipped step the guard does not see; the step of
  the last cut, kept across a rollback, may leave a later plateau unanswered;
- a crash, an exit of the program's own or a last line glued to a torn one
  leaves the parent with an earlier run's last note (`runner.rb:167`), where
  `Outcome#note` is what the run said on its way out;
- `GradCache` (`grad_cache.rb:92`): a part that fails leaves the earlier ones
  accumulated, and its `untap` in `ensure` removes a tap the caller had opened.

Graphs and plans:

- numbers in a graph are f32 arrays, so an op with a scalar turns bf16 into f32,
  beside the comment of `interp.rs` that one op alone changes a dtype;
- the Ruby rules do not look at: a slice along a symbolic axis (the run `slices`),
  the axis of a softmax, the gain of a norm, a mask, the
  probability of a dropout, the width a rope turns (an odd one loses its last,
  a value without two axes panics); a symbolic dimension unifies with a 1 that MLX
  stretches when it runs;
- a field two inputs read is checked against the first declaration of it only;
- with several models, the key of one in a step is that of the one before it in
  the next step; an objective draws from what is left of the chain
  (`executor.rs:113`), so its second dropout in a step has the key of its first in
  the next, under a single model too; all parts of one accumulated step, and
  gradients read in between, draw with the same keys (`state.rs:416`), so the
  masks of a step's parts are one mask;
- a model may be called `objective`; without an objective, the loss is the
  output first in order of names; a fresh pattern redraws a parameter the file
  has; a model that reads what nothing produced is refused only when it runs
  (Ruby's check catches it, the engine's does not);
- an evaluation keeps its taps before its loss is read, which may fail.

## What is proved

Each theorem holds for every value of the constants that satisfies the named
assumptions of the module it is about.

`TrainStateProofs` (any number of parameters, set of candidates, update rule,
knobs, seeds, patterns, readings): every property of the run `train_state`.
`TypeCorrect` and `AlwaysLinedUp` follow from `Invariance`. `LinedUp` is not
inductive alone. A restore takes its slots from the checkpoint by path, so that
the slots line up afterwards rests on what the checkpoint filed when it was
written, possibly by a session that differentiated another set:
`FiledIsTrained` says it filed a slot for exactly what it trained (and for
nothing under sgd). `IInv == TypeOK /\ LinedUp /\ FiledIsTrained` is preserved
by each action, one lemma per call; the lemmas on `Refitted`, `FreshSlots`,
`Summed`, `Advance` and `Record` carry the argument, and the fact they rest on
is that an ordered sequence holds each position once (`OnePlaceEach`).
`CountersAlwaysAgree` and `OwnCheckpointAccepted` add to it that the counters
agree, which is inductive beside it (a checkpoint's counters are a run's, and a
kept slot is as old as it was), and that something is always differentiated if
anything is trainable: an AdamW checkpoint without a slot is refused, so a run
that froze everything could not read its own. The action properties are proved
from the same invariant: `StepsAreWhole`, `SlotsAlwaysFollow`,
`WaitingIsNeverLost`, and `RestoreGoesOn`, which needs `FiledIsTrained` for the
paths that the checkpoint must *not* have a slot for.

`CheckpointProofs`, of `CheckpointStore` (any number of saves): `TheNameIsWhole`, `BothAreKept`,
`WhatReturnedIsThere`, from `SaveInvariance`. That the name holds one whole save
says nothing of where the next one comes from, so the invariant follows a save
through its program counter: that the files laid out so far are this save's
(`LaidOut`) although the directory may hold an older run's leftovers, that what
was laid out stays whole until it is taken (`Staged`), that what stands under the
name or aside meanwhile is of an earlier save (`OlderStands`, `SetAside`), and
that what was taken is this one (`Took`).

`PastInv` adds what may still be on disk. It says that no
file is of a save that has not begun, and that what was set aside is older than
the save under way. With it, `SavingKeepsItsPromise`: every step of a save maps
to a step of `CheckpointPromise` or to a stutter. Only the beginning of a save and
its two renames can tell in it (`SaveShape`): the others leave the name alone, and
what was set aside too while there is no name. The argument is about the save that
stands in one place or the other (`Standing`), which is one because a directory
holds one manifest, with one number (`StandingFits`); where it stands is whether
the name exists (`StandingPlace`), which gives `Displace` for the first rename and
`Take` for the second. `AReaderReadsForward` follows
from the same two invariants and `Taken`: no file the reader has is newer than
what it would find now.

`SessionGateProofs` (any number of threads, sessions and attempts to leave the
GVL; that no thread is named like a place an engine can be is the one assumption
besides): `TypesHold`, `NoSessionIsLost`, `ClaimsAreServed`, `ReadyIsFresh`,
`ClosedIsForGood`, and `MLXIsUsedAsPromised`, the refinement of `EngineUse`. All
rest on `Invariance`. `EngineInOnePlace` says too little of the threads to be
inductive: that putting an engine back is right depends on the thread having it.
`Local` therefore says, for each place a call can be, what it holds there (the
GVL, the gate, an engine and what its slot says meanwhile, its claim), `HeldBy`
that an engine in a frame is known to the thread whose frame it is, and `Alone`
that a session under construction, or collected, has one thread. A step then
needs two arguments only: what it makes of its own thread, and that it leaves
the others what they hold (`OthersKeep`), because the session it changes is
nobody else's (`NobodyElses`). Most steps only move a thread (`OnlyMoves`), the
others change the session it has (`MovesAndChanges`), begin a call (`Begins`) or
end one (`ComesBack`); `Fork` is by itself. For the refinement, a step either
leaves MLX and every engine's life alone (`Aside`), or is one of six, each of
which is a step of `EngineUse`.

`WindowProofs` (any registered hooks, cadences, rates and bounds): `TypeCorrect`,
with which a hook that runs is one that was registered for the event
(`NextHookIsRegistered`, which rests on a set of naturals having a least
element), and `FenceAlwaysFalls`. Its inductive invariant is the types and
`FenceIsAHooks`: the fence is up only while some frame of the stack is a hook's.
That is preserved by an exception because what it leaves behind is a prefix of
the stack, so that either a hook was among the frames it left, and the fence
came down, or the hook that holds it is in the prefix (`UnwindsKeeps`); and by
the end of a firing because the fence then comes down whatever is left below
(`FiresKeeps`, `HookReturnsKeeps`). The converse, that the fence is up while a
hook runs, the code does not keep.

`AReplayReproduces` and `ACheckpointIsInTheJournal`, for files of any length,
follow from `TheFileTracks`. What the run checks is not inductive: while a call
is between the engine and its line, the file is behind. `Tracks` says by how
much: a replay of the file followed by the entry in the call's hands is the
engine (unless that entry is a `put` or a `restored`, which a replay passes over
and which make the file one that is not compared), and a checkpoint is on disk
before its line is. A call that gets through then has to be what `Redone` makes
of its entry (`MovesTracks`, with one case per call in `CallsTrack`), and a line
written has to add exactly its entry to the replay (`ReplayedMore`) and the
state reached to what `LastSaved` finds (`MoreLines`). A discard and an
adjustment cut short are `silent` or move nothing (`SilentTracks`).

`Replayed` is a recursive function, that is a function chosen to satisfy its
recurrence. The library's induction cannot be used here, so that there is such a
function (`RedoesExists`) and that two of them agree (`RedoesAgrees`) is shown by
the least line that would be an exception, from the well-founded order of the
naturals.

`RunDirectoryProofs` (any number of runs in a directory and of steps):
`WhatIsReadIsTheFile`, `AnInterruptedJournalReads`, `EveryStepIsTold`,
`TheOutcomeIsTrue`, all from `Invariance`. What a child has said is not what the
file holds but `Meant`, the file with the pieces it has still to write behind
it; the invariant is about that text, and a piece written only moves the
boundary within it. Its parts: `Lines`, that every newline of `Meant` comes
behind its text, that a child between two steps has ended its line, and that each
step it took and each step the checkpoint holds has a line that parses (`Told`);
`OneRun`, that before a second run nothing is glued to anything; `LastWord`, that
a child which ends by itself has as its last line the note of how, and that the
note is true of it; `ChildIs`, why a child is where it is; `HasRead`, that the
offset, the unfinished line and the last entries a parent holds are those of the
file up to the offset; `Heard`, that an outcome is the status of this child and
the last note of this file. That reading on from there is reading the whole file
is `CaughtUpFacts`: the unfinished line put before what was appended is the file
from its last whole line on (`TailAgain`), the lines that parse in it are those of
the file (`UsableAgain`), and the last of a kind is found there or was found before
(`LastOfAgain`). A torn line swallows what is glued to it, so `EveryStepIsTold`
needs that a session resumed over one writes its header first (`OpeningFacts`).

`CheckpointProofs`, of `Policies` (any losses, patiences, margins, window and order of the
hooks): `CutsAreApart`. What a cut remembers is a step, and what the property
counts is losses; `CountsUp` relates the two (since the last cut the steps went
up by at most the losses read), and is kept by a rollback because a checkpoint is
never ahead of the session (`GoesBack`). `PlateausAreTrue`: the history answers a
question about a plateau as the whole run would. `Remembers` relates the two: the
readings kept are the run's last ones, and the one number kept for the others is
the least of them that was a number (`Sums`), which stands for all of them in any
minimum (`OneStandsForAll`). That any of the readings have a least one is an
invariant too, since the losses are any integers (`LeastOfOneMore`); and what is
before and after the last `patience` readings is found in the history by
`LatestReadings`.

`DescriptionProofs` (any declared inputs, parameters, ops, attributes, graphs,
batches and sizes): the three properties of `Description` in the run `library`.
`IndicesHold`, which is `ReferencesHold`, is of hand-written graphs too. The
invariant `IInv` is that what opened was let through by `Resolves` (`LetThrough`)
and nothing of the graph changes after; that nodes are numbered and references
natural numbers, whoever wrote them (`Typed`); and that a pass has computed no
more values than there are nodes (`InStep`), so that a node it is at is one that
`Resolves` looked at and finds every earlier one.

`RunningAsDescribed` and `FailingOverSymbols` follow from `Soundness`, as a type
system's does: what was inferred is preserved by what runs. `SInv` says that each
node of the DSL's is what its rule answered, over references behind it (`Built`),
that a batch under way is one `bind_one` took (`Bound`), that each value computed
`Stands` for what was described, and that what failed had a symbol to read.
`RunsAsDescribed` by itself is not inductive: that a value fits says nothing of
its dtype, on which whether the next op is refused depends. So `Stands` is that
the shape fits, its dimensions are positive, and what was described as floating
floats. The dtype itself need not agree, and does not (an op with a scalar widens
bf16). One lemma per op shows that over values that stand for what the rule read,
MLX answers one that stands for what the rule said, or a dimension read was
symbolic (`NodeAnswered`, from `SliceStands`, `ReduceStands`, `MatmulStands`,
`SdpaStands`, `NormStands` and the others). Two carry most of the work. Ruby
unifies dimensions where MLX stretches them, and the two agree because a symbol
that Ruby unified with a 1 is left unlooked (`UnifiedFits`, `AgreeingStretch`).
And a reshape is checked by Ruby over what is left behind the kept axes, by MLX
over the whole: `SizeOfParts` splits the product, so that what -1 stands for is
the same number in both (`FilledWhole`, `RefilledStands`, `ReshapeStands`). The
product of a shape and the axes a reduction leaves are recursive functions; that
there are such functions and which values they have is shown by the least length
that would be an exception, as in `WindowProofs`.

`DeclarationsAssumption` is what Ruby enforces before a graph exists: attributes
typed as `config/ops.yml` says (`Ops::Spec#check!`), parameters' dimensions
positive, inputs' positive or left to the batch (`ir/dimensions.rb:5`).
`SizesAssumption` is that a batch's dimensions are positive too. The model writes
a symbol as 0, so a batch with an empty axis is not represented.

`BindingsProofs` (any length of lists, bounds on handles and failures):
`HandlesHaveOneOwner`. The invariant `HandlesInv` is that no two frames own one
handle (`Apart`), that the frames and the engine together own exactly the live
ones, and that the engine owns none before the last frame is gone. The stack
makes the work: what the top frame owns can be taken from it (`TopGoes`), given
to it (`TopComes`) or handed to the frame below (`GivenOwns`) without the rest
noticing. `MaxHandles` bounds how many live at once, as a model's bound: a step
that would need another is not taken. `FirstFailureComesOut`: `CauseInv` says
where a failure waits in each phase of an operation (nothing waits while it goes
well; it is on its way out; it is parked or a status inside MLX; it is at
`apply`'s settle; it is over and nothing is left for the next one). That a
failure which entered MLX comes out at a settle and nowhere else rests on the
stack being a chain of calls (`Chained`), and on all scripts: only `apply` calls
`mlx_c`, and only `mlx_c` the trampoline (`StepFacts`, from `PlainScripts`).

`PassesProofs` (any names, descriptions, sources, batches, taps and number of
steps and passes): the four properties of the run `passes`, from `IInv` (`SpecKeeps`). `OpeningsAssumption` says only that a description is one JSON can hold
(sequences of inputs, parameters and nodes, an input from a batch or a model, models
under names), not that Ruby accepted it; `NamesAssumption` that the order of names
has each once. What a session keeps by position has to be related to what a
description says by name:

- `Opened`: the plan and the parameters of an open session are those its
  description resolves to, a parameter's array being filed under its own path;
  `ArgnumsIn`: what is differentiated are positions there are. The parameters of a
  model are where its slice starts (`LaidFacts`);
- `AnswerMeans`: the last answer is what the description means. A pass without its
  draws is `Meaning`, node by node (`RunMeans`), model by model (`ModelsMean`), and
  through the objective (`ForwardMeans`), which for a description Ruby accepts also
  shows that nothing is read before it is made, hence `AcceptingWired`. These
  passes are recursive functions; that there are such functions and that they
  satisfy their recurrence is shown as in `WindowProofs` (`KeptRecurs`,
  `LaidRecurs`, `RunRecurs`, `ModelsRecurs`);
- `DrawnAt`: a draw tells its step, its graph and its place, and they tell the
  draw. A key is the path of splits that led to it, 1 where the half that is drawn from was taken: before step
  s the run's key is s splits without one (`KeyIs`); the i-th draw of the p-th model
  has its ones at s + p and s + p + i, that of the objective over n models its one
  at s + n + i. `DrawsApart` is not inductive, as it says nothing of the draws to
  come; `DrawnAt` is. It is a function of the step and the node alone, whichever
  part or step the pass was of (`DrawsTells`), and by it two draws have one key
  exactly when both are the same (`ToldApart`);
- `TapsTold`: the taps are what was asked of the last pass. The pass the taps are
  read from is the same function of batch and key as the one that was let
  through, and of the nodes of a name there is a last one, as there are finitely
  many (`GreatestOf`, `LatestOf`), so that what is watched and ran is told.

Only model-checked: liveness (`EveryCallReturns`, `StopReturns`), which is outside
what the proof system does. The five properties that are violated stay with TLC
as well.

## Not modelled

The numbers: what an op computes, what an initializer draws, what the
optimizer's formula gives; MLX itself, beyond its rules for shapes and types and
how its C interface reports an error (mlx-c answering success for a closure that
failed is outside the assumptions of `Bindings`). Reads of a session that move
nothing and are no pass (one parameter, an export); the text of a glob pattern,
which is the set of paths it matches; I/O without state of its own (`export.rs`,
`main.rs`, `preflight.rb`); conversions of Ruby values; the ready-made models
and LoRA; the parquet reader; build files, tools, experiments and benchmarks. Of
the hooks: the schedules, `MemoryGuard` and `Progress`, which are functions of
one event. `GradCache`: the calls it is made of are modelled, its own loop is not.
In what is modelled: a power loss, a disk that fills up while the journal is
written, a journal somebody replaces under a reader, a `Runner` shared by
threads, the deterministic rerun of `replay.rb`.

## Plan

Done: `TrainState`, `CheckpointStore`, `SessionGate`, `Window`, `RunDirectory`,
`Shapes` and `Description`, `Passes`, `Bindings`, `Policies`. Left, in order:

1. `GradCache` – a step taken in parts over accumulate and apply.
2. The parquet decoder against a reference definition.
