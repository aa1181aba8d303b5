-------------------------------- MODULE Passes --------------------------------
(***************************************************************************)
(* The passes a session makes over its graphs: what a plan settles when it *)
(* opens (engine/src/plan.rs, init.rs), the models run one after another   *)
(* and the objective over what they produced (executor.rs, interp.rs), the *)
(* keys their random ops draw with, the nodes a tap watches, and the calls *)
(* of a session that are made of such passes (session.rs).                 *)
(*                                                                         *)
(* A value is what it was made of: the batch fields, parameters and draws  *)
(* it depends on. A key is the splits that led to it from the run's seed.  *)
(* Names are compared in the order of Names, as the engine's sorted maps   *)
(* compare them.                                                           *)
(***************************************************************************)
EXTENDS Integers, Sequences, FiniteSets, Functions

CONSTANTS
    Names,       \* every name of a model or an output, in order
    Openings,    \* what a session is opened with: a description [models,
                 \* objective, train] and a source of parameters [kind,
                 \* holds, fresh]
    Batches,     \* the sets of fields a batch may carry
    NoObjective, \* a description that declares none
    MaxStep,     \* bound: steps a run takes
    MaxPasses    \* bound: passes that draw

ASSUME MaxStepAssumption == MaxStep \in Nat
ASSUME MaxPassesAssumption == MaxPasses \in Nat

(* The names are distinct, and a description is one the JSON can hold.      *)
IsSequence(s) == s \in Seq(Range(s))
AGraph(graph) ==
    /\ IsSequence(graph.inputs) /\ IsSequence(graph.params) /\ IsSequence(graph.nodes)
    /\ \A i \in DOMAIN graph.inputs : graph.inputs[i].from \in {"batch", "model"}
    /\ \A i \in DOMAIN graph.nodes :
           /\ IsSequence(graph.nodes[i].ins)
           /\ graph.nodes[i].op = "parameter" => graph.nodes[i].index \in Nat \ {0}
    /\ DOMAIN graph.outputs \subseteq Range(Names)
ASSUME NamesAssumption == IsSequence(Names) /\ IsInjective(Names)
ASSUME OpeningsAssumption ==
    \A o \in Openings :
        /\ DOMAIN o.config.models \subseteq Range(Names)
        /\ \A m \in DOMAIN o.config.models : AGraph(o.config.models[m])
        /\ o.config.objective = NoObjective \/ AGraph(o.config.objective)

VARIABLES
    config,    \* the description this session is of
    source,    \* what it was opened with
    phase,     \* "unopened", "open" or "refused"
    plan,      \* what the description was resolved to
    params,    \* the parameters, in the order of the plan
    argnums,   \* the positions that are differentiated, in order
    rng,       \* the key the next step draws from
    step,      \* steps taken
    taps,      \* the nodes watched
    tapped,    \* what the last pass that was watched saw, by node
    answer,    \* what the last call came back with
    parts,     \* parts accumulated for the next step
    last,      \* history: the pass the last call let through was made of,
               \* and the nodes that were watched then
    drawn      \* history: of each pass that drew, in order, the step it was
               \* made for and what each node of it drew with

settled == <<config, source, phase, plan>>
watched == <<tapped, last>>
vars == <<settled, params, argnums, rng, step, taps, watched, answer, parts, drawn>>

-----------------------------------------------------------------------------
(* Names and keys. *)

OBJECTIVE == "objective"
LOSS      == "loss"
qualified(graph, name) == <<graph, name>>

(* Of a sequence, what is in S. *)
Kept(s, S) ==
    LET upto[k \in 0..Len(s)] ==
            IF k = 0 THEN <<>>
            ELSE IF s[k] \in S THEN Append(upto[k - 1], s[k]) ELSE upto[k - 1]
    IN  upto[Len(s)]

InOrder(S) == Kept(Names, S)
First(S)   == InOrder(S)[1]

key == <<>>                         \* the run's seed

(* random::split: what is kept, and what is handed out. *)
Next0(k) == Append(k, 0)
Mine(k)  == Append(k, 1)

-----------------------------------------------------------------------------
(* The plan. *)

Graph(name, program, start) == [name |-> name, program |-> program, start |-> start]
Objective ==
    IF config.objective = NoObjective THEN <<>> ELSE <<Graph(OBJECTIVE, config.objective, 0)>>

BatchFields(program) ==
    {program.inputs[i].field : i \in {j \in DOMAIN program.inputs :
                                          program.inputs[j].from = "batch"}}
NamedNodes(graph) ==
    {qualified(graph.name, graph.program.nodes[i].name) :
        i \in {j \in DOMAIN graph.program.nodes : graph.program.nodes[j].name # ""}}

(* The parameters of the first models, one model's behind another's. *)
Own(m) == [i \in DOMAIN config.models[m].params |->
              [path |-> qualified(m, config.models[m].params[i].path),
               spec |-> config.models[m].params[i],
               candidate |-> config.models[m].params[i].trainable /\ m \in config.train]]
Laid(names, p) ==
    LET upto[k \in 0..Len(names)] == IF k = 0 THEN <<>> ELSE upto[k - 1] \o Own(names[k])
    IN  upto[p]

(* Plan::resolve: the models, each with where its parameters start in the   *)
(* one list of them, which of these may be trained, and the names a batch,  *)
(* a tap and a forward may use.                                             *)
Resolution ==
    LET names  == InOrder(DOMAIN config.models)
        all    == Laid(names, Len(names))
        models == [p \in DOMAIN names |->
                      Graph(names[p], config.models[names[p]], Len(Laid(names, p - 1)))]
        graphs == models \o Objective
    IN  [models     |-> models,
         graphs     |-> graphs,
         all        |-> all,
         candidates |-> {i \in DOMAIN all : all[i].candidate},
         inputs     |-> UNION {BatchFields(graphs[g].program) : g \in DOMAIN graphs},
         reads      |-> UNION {BatchFields(config.models[m]) : m \in DOMAIN config.models},
         nodes      |-> UNION {NamedNodes(graphs[g]) : g \in DOMAIN graphs},
         outputs    |-> UNION {{qualified(m, o) : o \in DOMAIN config.models[m].outputs} :
                                   m \in DOMAIN config.models}]

(* Program::resolve of one graph: a node reads what is before it, and one   *)
(* of the parameters the graph declares. An objective declares none.        *)
check(ref, program, before) ==
    ref.id \in 1..(IF ref.kind = "input" THEN Len(program.inputs) ELSE before)
Resolved(program, declared) ==
    /\ DOMAIN program.outputs # {}
    /\ \A o \in DOMAIN program.outputs : check(program.outputs[o], program, Len(program.nodes))
    /\ \A i \in DOMAIN program.nodes :
           /\ program.nodes[i].op = "parameter" => program.nodes[i].index <= declared
           /\ \A k \in DOMAIN program.nodes[i].ins : check(program.nodes[i].ins[k], program, i - 1)

resolve(resolution) ==
    /\ DOMAIN config.models # {}
    /\ \A m \in DOMAIN config.models : Resolved(config.models[m], Len(config.models[m].params))
    /\ config.objective = NoObjective \/ Resolved(config.objective, 0)
    /\ resolution.candidates # {} \/ config.train = {}

(* What GraphConfig.new lets through (lib/torobi/graph_config.rb): a model  *)
(* reads the batch alone, an objective what the models declare.             *)

(* Slip: the model is there, whatever it declares. *)
WiredToAModel(graph) ==
    \A i \in DOMAIN graph.inputs :
        graph.inputs[i].from = "model" => graph.inputs[i].model \in DOMAIN config.models

ReadsBatch(graph) == \A i \in DOMAIN graph.inputs : graph.inputs[i].from = "batch"
Wired(graph) ==
    \A i \in DOMAIN graph.inputs :
        graph.inputs[i].from = "model" =>
            /\ graph.inputs[i].model \in DOMAIN config.models
            /\ graph.inputs[i].output \in DOMAIN config.models[graph.inputs[i].model].outputs

GraphConfigAccepts ==
    /\ \A m \in DOMAIN config.models : ReadsBatch(config.models[m])
    /\ config.train \subseteq DOMAIN config.models
    /\ IF config.objective # NoObjective
       THEN /\ config.objective.params = <<>>
            /\ DOMAIN config.objective.outputs = {LOSS}
            /\ Wired(config.objective)
       ELSE config.train # {} =>
            /\ Cardinality(DOMAIN config.models) = 1
            /\ \A m \in DOMAIN config.models : Cardinality(DOMAIN config.models[m].outputs) = 1

-----------------------------------------------------------------------------
(* Materializing. *)

Array(of, with) == [of |-> of, with |-> with]
Missing == Array(<<>>, <<>>)

(* init.rs: what a declaration starts as, drawn where it draws at all. *)
build(path, spec, mine) ==
    CASE spec.initializer \in {"zeros", "ones"} -> Array(path, <<>>)
      [] spec.initializer \in {"normal", "kaiming_uniform"} -> Array(path, mine)
      [] OTHER -> Missing

(* Source::parameter: one file holds qualified paths, a published one its  *)
(* model's own; a fresh one is in neither.                                 *)
parameter(path, spec) ==
    IF source.kind = "pretrained" /\ path \in source.fresh
    THEN build(path, spec, Mine(key))
    ELSE IF path \in source.holds THEN Array(path, <<>>) ELSE Missing

materialize(resolution) ==
    [i \in DOMAIN resolution.all |-> parameter(resolution.all[i].path, resolution.all[i].spec)]

Nothing == [call |-> "none"]
NoPass == [pass |-> [produced |-> <<>>, ran |-> <<>>], asked |-> {}]

Init ==
    /\ \E o \in Openings : config = o.config /\ source = o.source
    /\ phase = "unopened"
    /\ plan = <<>> /\ params = <<>> /\ argnums = <<>>
    /\ rng = key /\ step = 0
    /\ taps = {} /\ tapped = <<>> /\ last = NoPass
    /\ answer = Nothing
    /\ parts = 0 /\ drawn = <<>>

InPlanOrder(resolution, S) == Kept([i \in DOMAIN resolution.all |-> i], S)

Open ==
    /\ phase = "unopened"
    /\ LET resolution == Resolution
           made == materialize(resolution)
       IN  IF resolve(resolution) /\ Missing \notin Range(made)
           THEN /\ phase' = "open"
                /\ plan' = resolution
                /\ params' = made
                /\ argnums' = InPlanOrder(resolution, resolution.candidates)
           ELSE phase' = "refused" /\ UNCHANGED <<plan, params, argnums>>
    /\ UNCHANGED <<config, source, rng, step, taps, watched, answer, parts, drawn>>

-----------------------------------------------------------------------------
(* One graph. *)

Field(name) == [kind |-> "field", of |-> name]
Param(array) == [kind |-> "param", of |-> array.of]
Draw(k) == [kind |-> "draw", of |-> k]

NoKey == <<2>>                                    \* not a training pass

(* A node: a dropout splits the key that is left, and without one stands    *)
(* aside.                                                                   *)
Of(ref, ins, values) == IF ref.kind = "input" THEN ins[ref.id] ELSE values[ref.id]
AfterNode(sofar, node, mine, ins) ==
    LET reads == UNION {Of(node.ins[k], ins, sofar.values) : k \in DOMAIN node.ins}
        draw  == Mine(sofar.key)
    IN  CASE node.op = "parameter" ->
                [sofar EXCEPT !.values = Append(@, {Param(mine[node.index])})]
          [] node.op = "dropout" /\ sofar.key # NoKey ->
                [values |-> Append(sofar.values, reads \cup {Draw(draw)}),
                 draws  |-> Append(sofar.draws, draw), key |-> Next0(sofar.key)]
          [] OTHER -> [sofar EXCEPT !.values = Append(@, reads)]

(* interp::evaluate_tapped, node by node: the values so far, the draws and  *)
(* the key that is left.                                                    *)
Run(program, mine, ins, k) ==
    LET upto[i \in 0..Len(program.nodes)] ==
            IF i = 0 THEN [values |-> <<>>, draws |-> <<>>, key |-> k]
            ELSE AfterNode(upto[i - 1], program.nodes[i], mine, ins)
    IN  upto[Len(program.nodes)]

Outputs(program, ins, values) ==
    [o \in DOMAIN program.outputs |-> Of(program.outputs[o], ins, values)]

-----------------------------------------------------------------------------
(* A pass: the models in order, then the objective. *)

(* executor::resolve: an input's source is in the batch or produced by now. *)
Supplied(program, fields, produced) ==
    \A i \in DOMAIN program.inputs :
        IF program.inputs[i].from = "batch" THEN program.inputs[i].field \in DOMAIN fields
        ELSE qualified(program.inputs[i].model, program.inputs[i].output) \in DOMAIN produced

Inputs(program, fields, produced) ==
    [i \in DOMAIN program.inputs |->
        IF program.inputs[i].from = "batch" THEN fields[program.inputs[i].field]
        ELSE produced[qualified(program.inputs[i].model, program.inputs[i].output)]]

OneGraph(sofar, graph, mine, fields, k) ==
    IF ~sofar.ok \/ ~Supplied(graph.program, fields, sofar.produced) THEN [sofar EXCEPT !.ok = FALSE]
    ELSE LET ins  == Inputs(graph.program, fields, sofar.produced)
             ran  == Run(graph.program, mine, ins, k)
             outs == Outputs(graph.program, ins, ran.values)
             new  == {qualified(graph.name, o) : o \in DOMAIN outs}
         IN  [sofar EXCEPT
                 !.produced = [n \in DOMAIN @ \cup new |-> IF n \in new THEN outs[n[2]] ELSE @[n]],
                 !.ran = Append(@, [graph |-> graph, values |-> ran.values, draws |-> ran.draws])]

(* Slip: every model reads from the start of the vector. *)
slice_from_start(given, model) == [i \in DOMAIN model.program.params |-> given[i]]

(* Model::slice. *)
slice(given, model) == [i \in DOMAIN model.program.params |-> given[model.start + i]]

(* executor::models: one key per graph, what is left for the objective. *)
AfterModel(sofar, model, given, fields) ==
    IF sofar.key = NoKey THEN OneGraph(sofar, model, slice(given, model), fields, NoKey)
    ELSE OneGraph([sofar EXCEPT !.key = Next0(@)], model, slice(given, model), fields, Mine(sofar.key))
Models(given, fields, k) ==
    LET upto[p \in 0..Len(plan.models)] ==
            IF p = 0 THEN [ok |-> TRUE, produced |-> <<>>, ran |-> <<>>, key |-> k]
            ELSE AfterModel(upto[p - 1], plan.models[p], given, fields)
    IN  upto[Len(plan.models)]

(* executor::forward: the objective's output, or without one the first    *)
(* there is.                                                               *)
forward(given, fields, k) ==
    LET made == Models(given, fields, k)
    IN  IF Objective = <<>> THEN made
        ELSE OneGraph(made, Objective[1], <<>>, fields, made.key)
LossOf(pass) ==
    LET graph == IF Objective = <<>> THEN plan.models[1] ELSE Objective[1]
    IN  pass.produced[qualified(graph.name, First(DOMAIN graph.program.outputs))]

(* Watch::saw: what is watched, the last node of a name where two have it. *)
NameAt(pass, at) ==
    LET graph == pass.ran[at[1]].graph IN qualified(graph.name, graph.program.nodes[at[2]].name)
NodesOf(pass) == UNION {{<<g, i>> : i \in DOMAIN pass.ran[g].values} : g \in DOMAIN pass.ran}
Saw(pass, names) ==
    LET nodes == NodesOf(pass)
        behind(at, by) == at[1] < by[1] \/ (at[1] = by[1] /\ at[2] <= by[2])
        latest(n) == CHOOSE by \in nodes :
                         /\ NameAt(pass, by) = n
                         /\ \A at \in nodes : NameAt(pass, at) = n => behind(at, by)
    IN  [n \in {NameAt(pass, at) : at \in nodes} \cap names |->
            pass.ran[latest(n)[1]].values[latest(n)[2]]]

(* Slip: the pass that is watched has no key. *)
watched_alone(fields, k) == forward(params, fields, NoKey)

(* executor::differentiate: the taps are read from a pass of their own. *)
watched_again(fields, k) == forward(params, fields, k)

(* What each node of a pass that draws drew with: the i-th of graph g.      *)
KeysOf(pass) ==
    [at \in UNION {{<<g, i>> : i \in DOMAIN pass.ran[g].draws} : g \in DOMAIN pass.ran} |->
        pass.ran[at[1]].draws[at[2]]]

-----------------------------------------------------------------------------
(* The calls. One that fails answers so and has changed nothing. *)

(* Plan::bind and bind_models: what must be there, and nothing unheard of. *)
Bound(batch, needed) == batch \subseteq plan.inputs /\ needed \subseteq batch
bind(fields)   == [f \in fields |-> {Field(f)}]

Trains == argnums # <<>>

Answers(call, of) == answer' = [call |-> call, of |-> of]
Fails(why) ==
    /\ answer' = [call |-> why]
    /\ UNCHANGED <<settled, params, argnums, rng, step, taps, watched, parts, drawn>>

(* Once the pass is through, the values of its taps are kept. *)
Records(watching) == tapped' = Saw(watching, taps)

(* For the properties: which pass the call was made of, and what it drew.  *)
LetsThrough(pass) == last' = [pass |-> [produced |-> pass.produced, ran |-> pass.ran], asked |-> taps]
Draws(pass) ==
    /\ Len(drawn) < MaxPasses
    /\ drawn' = Append(drawn, [step |-> step, keys |-> KeysOf(pass)])

tap(name) ==
    /\ taps' = taps \cup {name}
    /\ UNCHANGED <<settled, params, argnums, rng, step, watched, answer, parts, drawn>>
untap(name) ==
    /\ taps' = taps \ {name}
    /\ UNCHANGED <<settled, params, argnums, rng, step, watched, answer, parts, drawn>>

(* A pass over a training batch, its taps brought back, and only then the  *)
(* state: a step moves the key, a part only waits.                         *)
Differentiates(batch) ==
    /\ Trains /\ Bound(batch, plan.inputs)
    /\ LET pass == forward(params, bind(batch), rng)
       IN  /\ pass.ok
           /\ Records(watched_again(bind(batch), rng))
           /\ LetsThrough(pass) /\ Draws(pass)
           /\ Answers("loss", LossOf(pass))
    /\ UNCHANGED <<settled, params, argnums, taps>>

run_step(batch) ==
    /\ step < MaxStep
    /\ Differentiates(batch)
    /\ rng' = Next0(rng) /\ step' = step + 1
    /\ UNCHANGED parts

(* Slip: a part moves the key as a step does. *)
accumulate_moving(batch) ==
    /\ Differentiates(batch)
    /\ parts' \in {parts, parts + 1}
    /\ rng' = Next0(rng)
    /\ UNCHANGED step

accumulate(batch) ==
    /\ Differentiates(batch)
    /\ parts' \in {parts, parts + 1}             \* not where the loss is not finite
    /\ UNCHANGED <<rng, step>>

apply ==
    /\ parts > 0 /\ step < MaxStep
    /\ rng' = Next0(rng) /\ step' = step + 1
    /\ parts' = 0
    /\ answer' = Nothing
    /\ UNCHANGED <<settled, params, argnums, taps, watched, drawn>>

discard ==
    /\ parts' = 0
    /\ answer' = Nothing
    /\ UNCHANGED <<settled, params, argnums, rng, step, taps, watched, drawn>>

(* An evaluation keeps what it saw before it reads its loss, and a forward *)
(* before it copies its outputs: late is that reading failing.             *)
evaluate(batch, late) ==
    /\ Bound(batch, plan.inputs)
    /\ LET pass == forward(params, bind(batch), NoKey)
       IN  /\ pass.ok
           /\ Records(pass) /\ LetsThrough(pass)
           /\ IF late THEN answer' = [call |-> "late"] ELSE Answers("loss", LossOf(pass))
    /\ UNCHANGED <<settled, params, argnums, rng, step, taps, parts, drawn>>

forward_named(batch, wanted, late) ==
    /\ Bound(batch, plan.reads)
    /\ wanted \subseteq plan.outputs
    /\ LET pass  == Models(params, bind(plan.reads), NoKey)
           names == IF wanted = {} THEN plan.outputs ELSE wanted
       IN  /\ pass.ok
           /\ Records(pass) /\ LetsThrough(pass)
           /\ IF late THEN answer' = [call |-> "late"]
              ELSE Answers("outputs", [n \in names |-> pass.produced[n]])
    /\ UNCHANGED <<settled, params, argnums, rng, step, taps, parts, drawn>>

(* Gradients are read and nothing is kept: not the key, not the taps. *)
gradients(batch) ==
    /\ Bound(batch, plan.inputs)
    /\ Trains
    /\ forward(params, bind(batch), rng).ok
    /\ Draws(forward(params, bind(batch), rng))
    /\ Answers("gradients", [k \in DOMAIN argnums |->
                                 [path |-> plan.all[argnums[k]].path, by |-> params[argnums[k]].of]])
    /\ UNCHANGED <<settled, params, argnums, rng, step, taps, watched, parts>>

(* The same by fields of the batch, each as it was asked for; nothing is   *)
(* drawn.                                                                  *)
field_gradients(batch, of) ==
    /\ Bound(batch, plan.inputs)
    /\ \A k \in DOMAIN of : of[k] \in plan.inputs
    /\ forward(params, bind(batch), NoKey).ok
    /\ Answers("gradients", [k \in DOMAIN of |-> [path |-> of[k], by |-> of[k]]])
    /\ UNCHANGED <<settled, params, argnums, rng, step, taps, watched, parts, drawn>>

(* A pattern that matches some of the candidates: where none of them moves *)
(* nothing is refused; where one does, no part may wait, and something must *)
(* be left to train.                                                       *)
set_frozen(matched, frozen) ==
    LET current == Range(argnums)
        wanted  == IF frozen THEN current \ matched ELSE current \cup matched
    IN  IF wanted = current \/ (parts = 0 /\ wanted # {})
        THEN /\ argnums' = InPlanOrder(plan, wanted)
             /\ answer' = Nothing
             /\ UNCHANGED <<settled, params, rng, step, taps, watched, parts, drawn>>
        ELSE Fails("frozen")

(* A batch that does not fit, a graph that reads what nothing made, an      *)
(* error from below: nothing was assigned by then.                          *)
Refuses(batch) ==
    \/ ~Bound(batch, plan.inputs) /\ Fails("batch")
    \/ /\ Bound(batch, plan.inputs)
       /\ ~forward(params, bind(batch), NoKey).ok /\ Fails("unwired")
    \/ Bound(batch, plan.inputs) /\ Fails("below")

Next ==
    \/ Open
    \/ /\ phase = "open"
       /\ \/ \E n \in plan.nodes : (n \notin taps /\ tap(n)) \/ (n \in taps /\ untap(n))
          \/ \E b \in Batches : run_step(b) \/ accumulate(b) \/ gradients(b) \/ Refuses(b)
          \/ \E b \in Batches, f \in UNION Batches : field_gradients(b, <<f>>)
          \/ \E b \in Batches, late \in BOOLEAN : evaluate(b, late)
          \/ \E b \in Batches, late \in BOOLEAN, w \in {{}} \cup {{o} : o \in plan.outputs} :
                 forward_named(b, w, late)
          \/ apply \/ discard
          \/ \E matched \in (SUBSET plan.candidates) \ {{}}, frozen \in BOOLEAN :
                 set_frozen(matched, frozen)

Spec == Init /\ [][Next]_vars

-----------------------------------------------------------------------------
(* What the description means, by name alone: nothing of positions, slices *)
(* or argnums.                                                             *)

Undrawn(value) == {a \in value : a.kind # "draw"}

Meaning(graph, program, ins) ==
    LET of[i \in 1..Len(program.nodes)] ==
            LET node == program.nodes[i]
            IN  IF node.op = "parameter"
                THEN {[kind |-> "param", of |-> qualified(graph, program.params[node.index].path)]}
                ELSE UNION {Of(node.ins[k], ins, of) : k \in DOMAIN node.ins}
    IN  [o \in DOMAIN program.outputs |-> Of(program.outputs[o], ins, of)]

MeantBy(m) ==
    LET program == config.models[m]
    IN  Meaning(m, program, [i \in DOMAIN program.inputs |-> {Field(program.inputs[i].field)}])
TheOnly(S) == CHOOSE x \in S : TRUE
MeantLoss ==
    IF config.objective = NoObjective
    THEN LET m == TheOnly(DOMAIN config.models) IN MeantBy(m)[TheOnly(DOMAIN config.models[m].outputs)]
    ELSE LET from == config.objective.inputs
         IN  Meaning(OBJECTIVE, config.objective,
                     [i \in DOMAIN from |->
                         IF from[i].from = "batch" THEN {Field(from[i].field)}
                         ELSE MeantBy(from[i].model)[from[i].output]])[LOSS]

-----------------------------------------------------------------------------
(* Properties *)

(* What a call answers is what its description means by the names in it:   *)
(* the loss of the objective over the models it names, the outputs of each *)
(* model over its own parameters, and each gradient by the parameter it is *)
(* filed under, whatever is frozen. Plans keep all of this by position.    *)
AnswersByName ==
    phase = "open" /\ GraphConfigAccepts =>
        /\ answer.call = "loss" /\ config.train # {} => Undrawn(answer.of) = MeantLoss
        /\ answer.call = "outputs" =>
               \A n \in DOMAIN answer.of : answer.of[n] = MeantBy(n[1])[n[2]]
        /\ answer.call = "gradients" =>
               \A k \in DOMAIN answer.of : answer.of[k].path = answer.of[k].by

(* "A model and the objective never draw the same numbers" (executor.rs),  *)
(* "two dropouts in one step draw different masks" (interp.rs), "a draw    *)
(* belongs to a step, and this is a fraction of one" (state.rs). Of the    *)
(* passes made for one step, its parts and the gradients that are read     *)
(* included, each node draws with one key, the same in each of them, and no *)
(* other node does; and a node draws with no key twice in two steps. (Two  *)
(* nodes may share one in two steps: a model's is that of the model before *)
(* it in the next, and the objective's that of its dropout before.) Nor    *)
(* does a step draw what a fresh parameter was made with. The seed is that *)
(* of the run: one set again draws again.                                  *)
DrawsApart ==
    /\ \A p, q \in DOMAIN drawn :
           \A at \in DOMAIN drawn[p].keys, by \in DOMAIN drawn[q].keys :
               LET alike == drawn[p].keys[at] = drawn[q].keys[by]
               IN  /\ drawn[p].step = drawn[q].step => (alike <=> at = by)
                   /\ at = by => (alike <=> drawn[p].step = drawn[q].step)
    /\ \A p \in DOMAIN drawn : \A at \in DOMAIN drawn[p].keys :
           \A i \in DOMAIN params : params[i].with # drawn[p].keys[at]

(* What the taps report is one pass, that of the last call let through: of *)
(* the nodes watched then, each that ran and no other, with the value it   *)
(* had there (the last node's, where two are of one name), though a step   *)
(* reads it in a second run. A loss answered is the loss of that pass.     *)
TappedIsOnePass ==
    LET named(n) == {at \in NodesOf(last.pass) : NameAt(last.pass, at) = n}
    IN  /\ DOMAIN tapped = {n \in last.asked : named(n) # {}}
        /\ \A n \in DOMAIN tapped : \E at \in named(n) :
               /\ tapped[n] = last.pass.ran[at[1]].values[at[2]]
               /\ \A by \in named(n) : by[1] < at[1] \/ (by[1] = at[1] /\ by[2] <= at[2])
        /\ answer.call = "loss" => answer.of = LossOf(last.pass)

(* A description GraphConfig accepts never fails for its wiring once it is *)
(* open: the engine trusts it, and checks no model reference itself.       *)
AcceptedIsWired ==
    GraphConfigAccepts => answer.call # "unwired"

(* "Its own key, split from the run's by the path" (plan.rs): no two fresh *)
(* parameters are drawn with one key.                                      *)
FreshDrawsApart ==
    \A i, j \in DOMAIN params :
        params[i].with = params[j].with /\ params[i].with # <<>> => i = j
=============================================================================
