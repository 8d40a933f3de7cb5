------------------------------ MODULE Planner ------------------------------
(***************************************************************************)
(* scheduling.py, config.py and make_pipeline of dist/pipeline.py: from a  *)
(* model and a number of GPUs to a layout, from the layout to a serving    *)
(* configuration, and from the model to two stages with a cache each.      *)
(***************************************************************************)
EXTENDS Integers, Sequences, FiniteSets

CONSTANTS
    Gpus,     \* values of num_gpus
    Layers,   \* values of cfg.num_hidden_layers
    Experts,  \* values of cfg.num_experts, 0 for a dense model
    MaxDepth  \* _MAX_PP_DEPTH

\* What a model and a machine are.
PlannerConstants ==
    /\ Gpus \subseteq Nat \ {0} /\ Layers \subseteq Nat \ {0} /\ Experts \subseteq Nat
    /\ MaxDepth \in Nat

VARIABLE plan

Low(a, b) == IF a < b THEN a ELSE b
High(a, b) == IF a > b THEN a ELSE b

Init ==
    \E g \in Gpus, l \in Layers, x \in Experts, depth \in 1..MaxDepth :
        plan = [pc |-> IF g = 1 THEN "planned" ELSE "scan", gpus |-> g, layers |-> l,
                experts |-> x, maxpp |-> depth, replicas |-> g,
                best |-> [pp |-> 1, ep |-> 1, replicas |-> 1], score |-> <<-1, -1, -1>>,
                strategy |-> "replicate", warnings |-> {}, stages |-> <<>>]

-----------------------------------------------------------------------------
(* plan_parallelism *)

\* Without `num_gpus % replicas != 0: continue`.
FaultyDivides(r, g) == TRUE

Divides(r, g) == g % r = 0

\* The (pp, ep) the loops reach for r replicas: for a dense model the deepest
\* pipeline, for one with experts every factorisation of the group.
Groups(r) ==
    LET per  == plan.gpus \div r
        deep == Low(plan.maxpp, Low(plan.layers, per)) IN
    IF ~Divides(r, plan.gpus) THEN {}
    ELSE IF plan.experts = 0
    THEN {[pp |-> p, ep |-> 1, replicas |-> r] : p \in {deep} \cap 2..plan.maxpp}
    ELSE {x \in [pp : 2..deep, ep : 1..Low(per \div 2, plan.experts), replicas : {r}] :
            x.pp * x.ep = per}

\* Sharding experts counts only from two groups of two experts on.
Score(x) == <<IF x.ep >= 2 /\ plan.experts \div x.ep >= 2 THEN 1 ELSE 0, x.pp, x.replicas>>

\* Python's order of tuples.
Beats(a, b) ==
    \E i \in 1..3 : a[i] > b[i] /\ \A j \in 1..i - 1 : a[j] = b[j]

\* One round of the loop over replicas: the first layout that beats the best
\* so far and that no later one of the round beats.
Round ==
    LET better == {x \in Groups(plan.replicas) : Beats(Score(x), plan.score)} IN
    /\ plan.pc = "scan"
    /\ plan.replicas > 0
    /\ IF better = {}
       THEN plan' = [plan EXCEPT !.replicas = @ - 1]
       ELSE \E x \in better :
            /\ \A y \in better \ {x} : Beats(Score(x), Score(y))
            /\ plan' = [plan EXCEPT !.replicas = @ - 1, !.best = x, !.score = Score(x)]

Label(b) ==
    CASE b.replicas = 1 /\ b.pp = 1 /\ b.ep = 1 -> "replicate"
      [] b.ep > 1 -> "pp_plus_local_ep"
      [] b.ep <= 1 /\ b.replicas > 1 -> "pp_replicate"
      [] OTHER -> "shallow_pp"

\* The clamps, the label and the warning after the loop.
Settle ==
    LET b == [plan.best EXCEPT !.pp = High(1, Low(Low(@, plan.maxpp), plan.layers)),
                               !.ep = High(1, Low(@, High(1, plan.experts)))] IN
    /\ plan.pc = "scan"
    /\ plan.replicas = 0
    /\ plan' = [plan EXCEPT !.pc = "planned", !.best = b, !.strategy = Label(b),
                            !.warnings = IF plan.layers < b.pp THEN {"thin"} ELSE {}]

-----------------------------------------------------------------------------
(* The configuration, and the stages *)

\* ServeConfig and validate_parallel_config, tensor_parallel_size left at 1.
Complaints(pp, ep) ==
    (IF pp > MaxDepth THEN {"deep"} ELSE {})
    \cup (IF pp = 0 THEN {"no stage"} ELSE {}) \cup (IF ep < 0 THEN {"no group"} ELSE {})

Configure ==
    /\ plan.pc = "planned"
    /\ plan' = [plan EXCEPT !.pc = "configured",
                            !.warnings = @ \cup Complaints(plan.best.pp, plan.best.ep)]

\* make_pipeline: whatever the plan's depth, two stages that meet at `mid`.
MakePipeline ==
    LET mid == High(1, plan.layers \div 2) IN
    /\ plan.pc = "configured"
    /\ plan' = [plan EXCEPT !.pc = "built", !.stages =
            <<[first |-> 0, past |-> mid, rows |-> mid, offset |-> 0],
              [first |-> mid, past |-> plan.layers, rows |-> plan.layers - mid, offset |-> mid]>>]

\* LayerRemappedCache: where a stage keeps the K/V of a layer.
CacheRow(stage, layer) == layer - stage.offset

\* estimate_throughput: hidden states that cross a wire for a token.
Boundaries(b) == High(0, b.pp - 1)

Done == plan.pc = "built" /\ UNCHANGED plan

Next == Round \/ Settle \/ Configure \/ MakePipeline \/ Done

-----------------------------------------------------------------------------
\* A layout never needs more devices than there are, leaves no stage without
\* a layer and no expert group without an expert, is one the serving
\* configuration takes without a complaint, and is the best in the order the
\* planner states; with experts it uses every device or falls back to one.
\* Of the two stages each layer has exactly one, with a row in its cache.
PlansPartition ==
    /\ plan.pc = "built" =>
        LET b == plan.best IN
        /\ b.pp * b.ep * b.replicas <= plan.gpus
        /\ b.pp \in 1..Low(plan.layers, plan.maxpp)
        /\ b.ep \in 1..High(1, plan.experts)
        /\ plan.warnings = {}
        /\ Boundaries(b) < MaxDepth
        /\ plan.experts > 0 => b.pp * b.ep * b.replicas \in {1, plan.gpus}
        /\ \A r \in 1..plan.gpus : \A x \in Groups(r) : ~Beats(Score(x), Score(b))
        /\ \A l \in 0..plan.layers - 1 : \E s \in 1..2 :
            /\ {t \in 1..2 : l \in plan.stages[t].first..plan.stages[t].past - 1} = {s}
            /\ CacheRow(plan.stages[s], l) \in 0..plan.stages[s].rows - 1
        /\ plan.layers >= 2 => \A s \in 1..2 : plan.stages[s].rows >= 1
=============================================================================
