# A verification of PyNuSMV

PyNuSMV is a Python interface to NuSMV, a symbolic model checker written in C.
A Python process holds one NuSMV at a time, full of global structures; the
Python layer starts and stops it, drives a model through its compilation, wraps
C pointers in objects, and exposes BDDs, finite-state machines and model
checking. This directory models the parts of it in which state, order and
failure matter, checks the models with TLC on small instances, and proves the
main results with TLAPS for every instance.

Paths below are relative to `src/` (so `pynusmv/glob.py` is
`src/src/pynusmv/glob.py` in the repository, `BddFsm.c` is
`src/src/nusmv/src/fsm/bdd/BddFsm.c`).

## 1. The system

| Component | State it keeps | Operations | Modelled in |
|---|---|---|---|
| Session and model pipeline: `pynusmv/init.py`, `pynusmv/glob.py`, and what they call in `compile`, `enc`, `parser`, `cinit` | `__collector`, `__collecting`; four module globals that cache wrappers; in C the flags of `cmps`, `parsed_tree`, the list of syntax errors, the flattener, layers, hierarchy, encodings and FSMs | `init_nusmv`, `deinit_nusmv`, `reset_nusmv`, `load*`, `flatten_hierarchy`, `encode_variables`, `build_flat_model`, `build_model`, `compute_model`, four getters; NuSMV commands and expression parsing, which touch the same C state | `Lifecycle`, `ModelPipeline` |
| Pointer wrappers: `PointerWrapper` (`utils.py`), BDD and BDDList (`dd.py`), the collector (`init.py`), CUDD's reference counts | `_ptr`, `_freeit`, weak references in the collector; a count per node | creation, copy, lists, element access, drop, cycles, `gc.collect`, the sweep at `deinit_nusmv` | `Wrappers` |
| Image computation and fairness (`BddFsm.c`) | none (functions of a relation) | images, states without successors, Emerson-Lei | `FsmImages`, `FsmFairness` |
| The FSM's cache (`BddFsmCache.c`, `BddFsm.c`) and the Python caches above it (`fsm.py`) | layers, `computed`, a given reachable set, derived sets; `_reachable`, `_deadlock`, `_fair` per Python object | getters and setters of `fsm.py`, `compute_reachable` with limits, diameter | `FsmCache` |
| Invariant checking (`mcInvar.c`) | shares the cached layers | `check_invar` forward-backward | `FsmCache` |
| CTL evaluation: `mc.py`, `mcMc.c`, `mcEval.c` of NuSMV, and the CTL tool (`tools/ctl`) | none across calls; the loops of one evaluation | `ex`, `eu`, `eg`, their bounded and universal forms, `MIN` and `MAX`, `eval_ctl_spec`, `check_ctl_spec`, `eval_ctl`, `check` | `CtlSemantics`, `CtlEval` |
| Explanations: `explain*` of `mc.py`, `mcExplain.c` | the path under construction | `explain`, `explainEX`, `explainEU`, `explainEG`, the counterexamples of `Mc_CheckCTLSpec` | `Explain` |
| The tools for other logics: `tools/fairctl`, `tools/ctlk`, `tools/arctl` | none | one function per operator | `Fixpoints`, `PathLogics` |
| Multi-agent systems: `tools/mas` | the module global `__mas` | `mas`, `reset_globals`; images and protocols of groups of agents | `MasGlob`, `MasImages` |
| The tools for strategies: `tools/atl`, `tools/atlkFO`, `tools/atlkPO` | the strategies still to consider | strategic operators, in several algorithms | `Strategies` |
| Trees of explanations (`tools/tlace`, `tools/explanation`, `explain.py` of each tool) | trees | | no: sequential recursion without state |
| SMV model construction (`model.py`, `node.py`), grammars (`parser.py`), properties (`prop.py`), exceptions | trees | | no |
| SWIG bindings, the rest of NuSMV, CUDD, MiniSat, zchaff | | | no: generated or third-party; external |

**How they interact.** Everything is one process and one thread; what makes the
order of steps unpredictable is the client (any call at any moment), Python's
collector (a wrapper may die at any drop, later in a cycle, or in the sweep of
`deinit_nusmv`), `longjmp` out of C (an error leaves some structures made and
others not), and the sharing of C state by functions that do not know each
other: `parsed_tree` between every parser entry point, the flags of `cmps`
between `glob.py` and NuSMV's commands, the cached layers between a getter,
`compute_reachable` and `check_invar`.

**What is hard.** Errors half way through a step; a structure of one session
seen in the next; a pointer freed twice or after its manager; a computation
resumed from what another one, stopped by a limit, left; a cached value
outdated by a setter; several caches of one value; fixpoint loops that must
stop; operators of a logic computed through their duals, on pairs or on states,
with fairness or without, where dead ends count or do not; a search whose path is
chosen backward from sets kept forward; strategies filtered, split and filtered
again. `PROJECT.json` lists each such place with its line and the properties
that watch it, or the reason why there is none yet.

**What makes each component correct.**

* Pipeline: flags tell the truth about structures; caches point into the
  running session; only a model that compiles is built; `compute_model`
  delivers from any intermediate state; a session crashes only half way through
  the pipeline; a model that was read is lost only to a parse.
* Wrappers: references counted are references owned; nothing is freed twice or
  after the manager, and nothing leaks, as long as PyNuSMV collects.
* FSM: the cached layers are those of the breadth-first search; every set is
  what its name says; objects over one FSM agree; verdicts are right; cached
  knowledge only grows; calls return; fairness is what it is defined to be.
* Evaluation: each loop ends, with the fixpoint it is meant to compute, and the
  set returned is the one the paths of the FSM define.
* Explanations: the path is a path, it shows what was asked, the loop closes and
  meets every constraint, no search goes on for ever or takes the process down.
* Multi-agent systems: `mas()` hands out a system of this session.
* Strategies: the states returned are those from which one strategy, uniform in
  what its group observes, ensures the formula.

## 2. Modules

```
ModelPipeline <-- refines -- Lifecycle      LifecycleProofs
                                 ^                 ^
                             MasGlob   -----------'
                             Wrappers       WrappersProofs   MCWrappers

FsmImages <--- FsmCache                     FsmCacheProofs   MCFsmCache
   ^   ^------ FsmFairness <-- PathLogics   PathLogicsProofs MCPathLogics
CtlSemantics <--------------------'
       ^  ^--- CtlEval                      CtlEvalProofs    MCCtlEval
       |  ^--- Explain                      ExplainProofs    MCExplain
       ^------ MasImages <-- Strategies     StrategiesProofs MCStrategies
               (PathLogics and Strategies also extend Fixpoints)
CtlSemantics <-- ImageProofs <-- PathLogicsProofs, CtlEvalProofs, ExplainProofs,
                                 StrategiesProofs
```

**`ModelPipeline`** is the abstract specification: a session has at most one
accepted source, products are made from it one at a time, each after what it
needs, and go away together. It knows neither flags nor failures.

**`Lifecycle`** has one action per call. `cmps` is the set of flags that are
set, `built` the set of C structures that exist, `tree` what `parsed_tree`
holds (one of the kinds of models below, an expression, nothing, or memory of
an earlier session), `cache` the session of the structure each global of
`glob.py` wraps. `last` is the last call with its outcome, an exception, an
exit or a crash. Input files are of six kinds, by what the code does with them:
a model that compiles, one with an undefined identifier (flattening jumps out),
one with an ill-typed specification (flattening undoes itself), one with a
syntax error the parser recovers from, one with an error it does not, one with
an unknown character. `compute_model` makes several calls and is modelled step
by step through `todo`. NuSMV's `read_model`, `flatten_hierarchy` and
`encode_variables` commands, which a client can send through `Cmd_SecureCommandExecute`, are
actions because they move the same flags.

**`Wrappers`** has one identity per Python object. `content` is the nodes the
object wraps (one for a BDD, several and `None` for a list), `freeit` the set of
owners, `born` the session whose manager the pointer belongs to, `refs` CUDD's
counts. The counts leave out what NuSMV itself holds. `Frees` frees a set of
objects at once and records in `fault` a free that reaches a dead manager or a
node with no reference left. Every operation that returns a new BDD is
`Operate`: the result is any node, which is all the counts depend on.

**`FsmImages`** is the set algebra under `BddFsm`: a BDD is the set it denotes,
a relation a set of triples. The code's loops are recursive functions (`EU`, over
the pairs found and those of the last round, and `FairStatesInputs`), not their
fixpoint characterisation; the second part of
the module gives reference definitions (`Reach`, `FairPairs`) that mention no
loop, against which the first part is checked. `R` is the set the fairness
computation is restricted to: the reachable states under the option
`use_reachable_states`, which is set by default.

**`FsmCache`** has the C cache, the caches of each Python object, and the loop
that runs. Each round of a loop is an action (`ExpandStep`, `SearchForward`,
`SearchBackward`); the end of a loop trims, caches and resets. A getter that has
to complete the onion first (`AwaitReachable`) goes on after its loop has ended.
The time limit of `compute_reachable` may expire after any round. `check_invar`'s
heuristics are abstracted to a choice: forward, backward, or a switch to bounded
model checking. The setters of `fsm.py` are modelled as they are: they empty no
cache. `touched` remembers which of them made a cached value outdated, so that
properties can say exactly what still holds afterwards.

**`FsmFairness`** walks through every relation over a set of transitions, as the
`trans` setter lets a client do; the fairness fixpoints and, in `PathLogics`,
the operators of three tools are evaluated on each.

**`MasGlob`** composes `tools/mas/glob.py` with `Lifecycle`: every step of `mas()`
is a step of `Lifecycle` or leaves its variables alone. `mas` is the session of
the FSM the global wraps, `asking` where a call is, `handed` the session of the
MAS it returned, `kept` the sessions that ended with the global set, `parsed`
what was parsed last. What `mas()` does with a parse tree that is no model is
modelled by its outcome: it finds no main module and returns nothing, or follows
nodes that are no list and crashes.

**`CtlSemantics`** gives the operators of CTL their meaning on paths: finite
paths long enough for the number of states, infinite ones as rounds one can go for
ever. It mentions no algorithm, and takes the constraints and the states paths
start from as parameters, so that it serves logics with and without fairness.

**`CtlEval`** evaluates one node of a formula at a time, loop by loop, as
`mcMc.c` does for NuSMV and for the functions of `mc.py`, and as
`tools/ctl/eval.py` does. A `while` is two actions, `EuIterate` and `EuExit` for
example; `eg` of NuSMV is the nested loop over the constraints with `eu_si` inside
(`EgTry`, `EuSiIterate`, `EgAccumulate`), the constraints taken in any order.
A session starts with the computation of the fair states by the same loop.
Universal operators are negated existential ones, in the order of `mcEval.c`, so
that the pieces of `AU` are computed one after the other. `given` remembers the
second set a client passed to `mc.eu` or `mc.au`, which the code drops.

**`Explain`** follows `explain_recur` down a formula, an explicit stack of what is
left to explain, each search an automaton of its own. `states` and `inputs` are
the path so far, made of sets during a search and instantiated backward once the
goal is met; every `pick_one` is a choice. `eg_explain` reaches each constraint,
then looks for the way back, and starts again one step further when there is
none. `explain_and` compares the lists its conjuncts return with the copies it gave
them, as pointers: `Came` says what the comparison gives, a nested conjunction that
returns a list of the same length included (`fresh`).

**`Fixpoints`** is `fixpoint` of `utils.py`. **`PathLogics`** has one operator per
function of `fairctl/eval.py`, `ctlk/eval.py` and `arctl/eval.py`, over it.

**`MasImages`** is `tools/mas/mas.py`: what a group does not distinguish, its
protocol, and the states from which its moves lead somewhere whatever the others
do. **`Strategies`** evaluates strategic formulas with it: `tools/atl` and
`tools/atlkFO` in one fixpoint, `tools/atlkPO` strategy by strategy in its three
variants. The recursion that splits one conflict is the set `pending` of
strategies still to consider, taken in any order, with any class and any move
picked; the fixpoints are operators.

## 3. Runs

Passing runs (distinct states in brackets):

* `lifecycle` [39616]. Two sessions, all kinds of files, all calls of `Lifecycle`
  and of `MasGlob`, in every order, with NuSMV up or down. Invariants on flags, caches, models, trees and
  the cached MAS; `ComputeDelivers` and `MasDelivers` (liveness); `PipelineSpec`, the
  refinement of `ModelPipeline`.
* `wrappers` [126150 up to symmetry]. Three objects, two nodes, lists of up to
  two elements, two sessions each collecting or not.
* `fsm_cache` [38409]. Five states of which one violates the invariant, three
  inputs of which one is forbidden; three relations to load (a chain that ends
  in a deadlock, a fork with an unreachable fair state, the empty relation), a
  ring as replacement; two Python objects; limits of up to two steps.
* `path_logics` [512]. All subsets of nine transitions, some of them illegal for
  the state, the input or the target; two justice constraints. On each: the fair
  states, ten operators of each tool on three sets, two action formulas.
* `ctl_eval` [743996]. All subsets of six transitions, with dead ends, an illegal
  input and cycles that meet none, one or both of two constraints (one on the
  inputs); each operator on seven sets and the bounds -1 to 3, by each evaluator.
* `explain` [243240]. All subsets of nine transitions; twenty-four formulas, alone and
  nested, that need a path through several searches, a counterexample of six,
  and the functions for one operator, with every choice of `pick_one`.
* `strategies` [19245]. Two agents with two actions each that confuse different states,
  sixteen systems, three sets of constraints, twelve formulas, five algorithms.

Runs that refute what the documentation or a comment says (section 6):
`deinit_down`, `reachable_stale`, `until_args`, `bounded_until`,
`universal_split`. Each checks one property and TLC finds a counterexample.

**Bounds, and why they are enough.** `MaxSessions = 2`: what one session can
leave to another it leaves to the next, since `deinit_nusmv` clears `built` and
the caches, and a third session starts from a state of the same kind as the
second. Wrappers: a list, an element taken from it and another owner of the same
node need three objects; two nodes show that a free of one leaves the other
alone. FsmCache: the chain gives onions of up to four layers, so that a limit
of two steps can stop twice before the end, and a search can start from any
length; a third Python object would behave as the second. Verdicts are asked
for two sets, one that is reachable in some models and not in others. All the
safety properties of the first three runs are also proved without the bounds.
`ctl_eval`: three legal states are enough for a round of `eu` that finds nothing
new after one that did, for a path that leaves the operand and comes back, and for
two cycles with different constraints; a fourth state and a third input are there
to be illegal. `explain`: with nine transitions there are relations in which the
loop of `eg_explain` has to be given up, and searches of three steps whose middle
can be chosen wrong. `strategies`: one class of two states is enough for a
conflict, and both agents have one, over different pairs of states, so that
filtering one class takes moves from the other; protocols differ between states
the agent tells apart. `MasGlob`: as for `Lifecycle`.

Every run checks for deadlock except `wrappers`, where a client that has used
up its sessions and dropped its objects has nothing left to do; `Lifecycle` and
`MasGlob` let an ended process stutter explicitly (`Ended`, `MasEnded`), and in
`CtlEval`, `Explain` and `Strategies` the client takes a result and asks again
(`Taken`).

**Fairness.** `Lifecycle`: weak fairness of `ComputeStep`, since the interpreter
runs a started `compute_model` to its end; the client itself owes nothing.
`FsmCache`: weak fairness of `Continue`, the steps of a call under way: a C loop
cannot be interrupted and no other call can start meanwhile. That does not
presume that loops stop, which is what `CallsReturn` says. `CtlEval`, `Explain`:
the same, for the steps of the function that runs. `MasGlob`: weak fairness of
`MasStep`, the steps of a started `mas()` or `compute_model`. `FsmFairness` and
`Strategies` state none and claim no liveness.

## 4. Properties

`Lifecycle`
* `FlagsMatchStructures`: the flags of `cmps` and the C structures agree, also
  after every way a flattening can end.
* `CachesAreCurrent`: a cached wrapper is of the running session and its
  structure exists.
* `OnlySoundModels`: nothing is encoded or built from a partially read or
  ill-typed model, although NuSMV's `read_model` accepts such files.
* `ReadTreeIsLive`: the tree flattening reads is never memory of an earlier
  session, and goes with the pending errors.
* `CrashesOnlyHalfWay`: a session crashes only after a flattening of the same model
  jumped out or left a partial hierarchy, or when `deinit_nusmv` is asked for the
  statistics of a model flattened and not built. It says nothing of calls made with
  NuSMV down: most of them crash (section 6).
* `ComputeDelivers`: `compute_model` ends with a built FSM whatever steps were
  made by hand.
* `PipelineSpec`: the refinement.

`Wrappers`
* `RefsConserved`, `CollectorHoldsOwners`, `CollectedSessionsAreSafe`.

`FsmCache`
* `LayersAreOnion`: any mix of limited expansions and searches leaves the
  breadth-first layers, and `computed` is right.
* `SetsAreCurrent`: cached and remembered sets are the described ones, as long
  as no setter has been used; the states without successors survive the setter
  of `reachable_states`.
* `ObjectsAgree`: two Python objects never disagree, even on an outdated
  relation; only on `reachable_states` itself, and once it has been assigned, may they.
  What the derived sets and verdicts are worth after a setter is not specified:
  `SetsAreCurrent` and `VerdictRight` are about FSMs no setter was used on.
* `VerdictRight`: `check_invar` is right for every order of its two searches.
* `OnionOnlyGrows` (action property), `CallsReturn` (liveness).

`MasGlob`
* `MasIsCurrent`: `mas()` hands out the system of an earlier session only if that
  session was ended without `reset_globals`.
* `MainIsFound`: it misses the main module, and a flattening jumps out half done,
  only after an expression was parsed since the model was read, or for a model that
  does not compile. No other call overwrites the tree of a model that was read.
* `MasDelivers`: on the tree of a model that compiles `mas()` ends with a MAS.

`CtlEval`
* `UntilIsLeast`, `GloballyIsGreatest`: the loop over the states of the last round
  ends with the least fixpoint; the nested ones, in any order of the constraints,
  with the greatest.
* `ResultIsMeant`: the result is the set of states whose fair paths (all paths, for
  the CTL tool) satisfy the operator, and the verdict follows; empty ranges are left
  out. `LengthIsMeant`: `MIN` and `MAX` are the lengths of shortest and longest paths,
  infinite or undefined exactly when there is no such length.
* `EvaluationEnds` (liveness).

`Explain`
* `AnswerIsPath`, `AnswerExplains`: the answer is a path of the FSM from the
  state asked about, and shows the formula, or its negation for `Mc_CheckCTLSpec`.
  The second is a promise for `Explainable` formulas only: `explain_recur` returns the
  path of the left side of a disjunction whenever there is one, and of a formula that
  a path refutes (`AG a | EX b` where `AG a` fails) that path is a counterexample of
  it, no witness of the disjunction; a conjunction has similar limits. The formulas of
  the instance satisfy it (`FormulasExplainable`), and instances of random formulas,
  relations and constraints, run when the condition was found, agreed; without its
  clause on disjunctions, or that on `Bare` operands, TLC finds a path that does not
  show the formula.
* `SearchIsShortest`, which a test of `ebu_explain` depends on.
* `LoopIsFound`, `GivesUpForGood`, `ExplanationEnds` (liveness): `eg_explain` always
  finds its constraints, gives up a loop only when there is none, and stops.
* `AbortsOnUnfairSubject`: the assertion of `ex_explain` fails only for a state
  without a fair path.

`PathLogics`
* `FairnessIsMeant` (of `FsmFairness`): the nested fixpoints compute the pairs that
  lie on or lead to a fair cycle of legal steps, with and without the restriction
  to reachable states.
* `CtlToolsAreMeant`, `ArctlIsMeant`: every operator of the three tools is what the
  fair, infinite or maximal paths make of it.

`Strategies`
* `StrategiesAreMeant`: every algorithm, whatever it splits first, returns the
  states won by one strategy, by a reference that enumerates the strategies as
  functions and looks at the paths of their outcomes.
* `KnowledgeIsMeant`: what a group ignores, distributed or in common, is what a chain
  of indistinguishable states leads to.

`TypeOK` of four modules completes the list.

Every property of a passing run has a mutant, a plausible bug in a mapped
definition, under which TLC finds it violated; the mutant operators stand
before the definitions they replace and are used by no specification.

## 5. Proofs

| Module | Theorems | Obligations |
|---|---|---|
| `LifecycleProofs` | of `Lifecycle`: `TypeCorrect`, `FlagsCorrect`, `CachesCorrect`, `ModelsCorrect`, `TreesCorrect`, `CrashesCorrect`, `Refinement`; of `MasGlob`: `Implements`, `MasCurrent`, `MasMainFound` | 1062 |
| `WrappersProofs` | `TypeCorrect`, `ReferencesConserved`, `CollectorComplete`, `SafeCollection` | 676 |
| `FsmCacheProofs` | `TypeCorrect`, `LayersCorrect`, `SetsCorrect`, `AgreementCorrect`, `VerdictCorrect`, `GrowthCorrect` | 1269 |
| `ImageProofs` | `FairPairsComputed`, and what `FsmImages` and `CtlSemantics` rest on | 2220 |
| `CtlEvalProofs` | `TypeCorrect`, `UntilCorrect`, `GloballyCorrect`, `ResultCorrect`, `LengthCorrect` | 3424 |
| `PathLogicsProofs` | `FairnessCorrect`, `CtlToolsCorrect`, `ArctlCorrect` | 949 |
| `ExplainProofs` | `PathCorrect`, `LoopCorrect`, `GiveUpCorrect`, `ShortestCorrect`, `AssertionCorrect` | 5147 |
| `StrategiesProofs` | `KnowledgeCorrect`, `StrategiesCorrect`, and what it rests on: `PlayedMeans`, `FullEnforced` | 4962 |

**Assumptions.** `MaxSessions` is a positive integer. The sets of objects, states
and inputs are finite; `None` is not a node and `NoSet` not a set of states; the
initial states, invariants and justice constraints are over these sets, and so
are the relations, overrides and excluded sets. Nothing is assumed of a relation:
it may be empty, partial, or lead out of the invariant. The proofs of `FsmCache`
cover both values of `UseReachable` (the run takes the default). `CtlEvalProofs` takes
any transitions, operands and integer bounds, `PathLogicsProofs` any transitions a
client may add and any operands. `Explain` assumes of formulas what the parser
guarantees (`FormulaAssumption`: every operator has its operands, a rewritten formula
is a formula). Its theorems have one hypothesis more, `StrictBounds`: the bounds of an
`EBG` differ. Without it `PathCorrect` is false, as section 6 explains, and the others
rest on the invariant of `PathCorrect`. `StrategiesCorrect` has two: `Lively`, every
reachable state has a successor, and `Mixed`, any actions of a group go with any actions
of the other agents. The code justifies both: joint actions are the values of independent
input variables, and `check_mas` refuses a system in which an agent has no action. In a
deadlock the reference has no move and the fixpoints of the code have one, so that
the theorem needs them; TLC evaluates both on the systems of the run
(`MCSystemsAssumption`). `FullEnforced` has the first of them.

**Lifecycle.** The flags alone are not inductive. `IInv` adds `ModelInv`, which
ties the flags to the model that was accepted (`flat` only for a model that
compiles; a hierarchy without `flat` only for a partial one; a partial tree only
with its errors), `FlattenInv` (a flattener without hierarchy only after a
jump), and `DownInv` (with NuSMV down there is nothing). The refinement is then
proved step by step: each call is an abstract `Accept`, `Make`, `Reject` or
`Restart`, or a stutter.

**Wrappers.** `RefsConserved` is about the cardinality of the set of places
(object, index) that hold a node; the proofs rest on how that set splits when
an object is added or dies (`HeldIsRefs`, `RefsElsewhere`). `IInv` adds `Living`
(an owner is alive and born in a session that has begun) and `Prudent` (as long
as every session collects, every owner is of the running session): that is why
a sweep leaves no owner behind and no later drop frees anything.

**FsmCache.** `IInv` has four parts besides the types.
`CacheInv`: the cached onion is sound, and when incomplete its outermost shell is
not empty, so that resuming is never mistaken for having finished.
`LoopInv`: whatever loop runs carries an extension of the cached onion, and its
frontier is the onion's outermost shell. This makes the frontier algorithm
breadth-first: the image of the shell added to the onion is the image of the
whole onion (`ShellImage`), hence `SoundGrows`, and an empty frontier means
closed under the image, hence `CompleteOnion` with the definition of `Reach` as
the least closed set.
`SearchInv`: the bad set contains the predecessors of everything in it but its
frontier. When the backward frontier is empty it is closed backwards, and an
onion disjoint from it can never enter it (`SearchVerdict`); when the target is
not empty a bad state is reachable, since a reachable bad state means a
reachable excluded one.
`DerivedInv` and `PyInv`: a Python object holds what the C cache holds, or a
reachable set taken from a complete onion, which no call changes afterwards
(`CompleteStays`, also the reason for `OnionOnlyGrows`).

**MasGlob.** `Implements` says that a step of `mas()` is a step of `Lifecycle` or none,
so the invariant of `Lifecycle` comes for free. `MasInv` adds where a call stands:
a cached MAS of this session wraps an FSM that exists, `compute_model` inside
`mas()` runs on a tree that was a model when the main module was found, and a session
that ends with the global set is in `kept`.

**CtlEval.** `EuInv`: what `eu` has found lies below the least fixpoint, holds its
right side, and every predecessor, through its left side, of a state that is
not new is already in it. With nothing new it is closed, hence the least. `EgInv`:
the greatest fixpoint of the round survives every constraint tried and lies below
the pairs left (`RecurringMonotone`); inside, `eu_si` keeps the same invariant as
`eu` on pairs; when a round changes nothing the pairs left are a post-fixpoint,
hence the greatest. `ControlFlow` and `Entries` say once which loop leads to which.

It is the same invariant that a search for the fair states starts a session with, so
that the rest may use what `FairPairsComputed` says of them.

**Recursion and induction (`ImageProofs`).** The libraries' theorems on induction and on
recursive functions take an operator as a parameter, which the provers cannot
instantiate. Their forms for sets and functions can be proved: a set of naturals that
is not empty has a least element (`Least`, from `WFMin` of the relation `<`), hence
`Induction` on a set of naturals; a function `Loop` that is defined by
`IF more(x) THEN Loop[step(x)] ELSE res(x)` exists when a measure decreases
(`LoopExists`), and the function the code's recursion chooses is that one. From there
`FixpointLoop`: the loop from the empty or the full set ends with the least or the
greatest fixpoint. `EuIsLeast` and `StepLoop` are its uses for the loops of `FsmImages`,
in which each round works on the pairs of the last one.

**Fairness.** That the Emerson-Lei loop computes the pairs with a fair path has two
halves. `FairStays`: the fair pairs survive a round, because a fair cycle, and the way to
it, meets each constraint inside what is left. `NothingElseStays`: from a pair that
is left one can reach, inside what is left, a pair of each constraint in turn; since
there are finitely many pairs, some set one can go round in is reached (`RoundAhead`,
by the least number of pairs that lie ahead), and it meets them all.
`FairPairsComputed` says so for any `R` that no step leaves.

**Paths.** `CtlSemantics` bounds paths by the number of states. `Saturates`: paths of more
steps satisfy no more untils, since the sets of states that satisfy one within `n` steps
grow and stop growing before `n` exceeds the number of states. So an until is a least
fixpoint (`UntilUnfolds`, `UntilLeast`) and a path for ever a greatest one
(`ForeverUnfolds`, `ForeverGreatest`, the latter by `RoundAhead` again).

**PathLogics.** Each operator of the tools, a fixpoint of a function on sets, is then
compared with an until or a path for ever. What needs care is what a tool does
differently from the definition: `fairctl` restricts to fair states and reachable ones
(`FairEuIs`), universal operators are negations of existential ones (`UnlessIs`: no path
leads out of `a` before `b`), weak untils are greatest fixpoints that contain an until
(`WeakUntil`), and `arctl` counts maximal paths, so that a dead end, by the inputs of the
action formula, ends a path (`MaximalIs`).

**CtlEval: results.** `MeaningInv` has two parts. `FairInv`: the fair states found at the
start are those of the definition. `NodeInv`: what the registers of the loop that runs hold
is related to the operands of the node by what the exit of the loop will make
of it; for a bounded operator, the runs that go on for the rounds still to come
(`AheadIs`, `RunsSplit`, `Settles`: a loop that stops since nothing changes has the
result of all the rounds left). TLC agrees that `MeaningInv` is an invariant
on the instance of the run `ctl_eval`. `Return`
complements and restricts, and `ReturnMeant` shows that to be the operator.
`LengthInv` relates the sets of `MIN` and `MAX` to the states paths of so many
steps lead to (`Arrived`) or can avoid the second set in; `LengthsSettle` and
`ArrivedAll` are why no answer after as many rounds as there are states means infinity.

**Explain.** While a search runs, the path has three parts, and `PathInv` says of each
function where they begin: single states joined by transitions, up to where the
search started (`Prefix`); sets of states, each state of one linked through the inputs kept
to a state of the set before that satisfies what the search requires there
(`Chain`); and, once the search turns back, single states again (`Settled`). A
state picked then has a predecessor in the set before, so that no choice is empty, and
instantiating one set makes the last part longer by one and the middle one shorter
(`TurnsBack`). The other parts of the invariant say what the functions hand each
other: who continues after a search (`ThenInv`, `NodeInv`), that each state of eg_g has
a step to another (`FsmInv`, `HulkInv`: a constraint on inputs is met by one more
step), that the bounded searches stop where they should and not in an empty set
(`BoundInv`), that the state a loop starts from is one of the path
(`LoopInv`), and that no search cuts the path behind what a waiting call found
(`StackInv`). `Inv` is their conjunction.

**Explain: the fair loop.** `SearchInv` adds to `Inv` what the search has seen.
`EgsInv`: in the pairs of `eg`, one can go from each to a pair of each constraint without
leaving them (`Fits`), because they are what the last round of the fixpoint changes
nothing of (`LastMeetable`). So every constraint is met and there is always a step to go
on by: `LoopCorrect`. `SeenInv`: in the loop of `eu_explain`, only the last
frontier leads out of what it has seen, none of which is accepted; an empty frontier
leaves a set that no step inside the left operand leaves (`Shut`). `RoundInv` carries
that set to where the search gives the loop up, and a path inside `eg_g` would have to
stay in it (`ShutOff`, by induction on its position): `GiveUpCorrect`.

**Explain: shortest searches.** `ShortInv` counts instead: no path of as many steps as
rounds are over ends in an accepted state (`NoneWithin`), and those that stay in the
left operand end in what has been seen (`SeenWithin`). A new round makes each path one step
longer (`ShortMore`), and a search that turns back keeps the count of when it found.

**Explain: fair ends.** That the assertion of `ex_explain` holds unless the client broke it
is a chain through the whole search. Every search accepts fair states only, so a path
ends in one when it returns (`KeptInv`), also one put aside for the right
side of a conjunction (`SavedFair`), and cutting it back leaves a state it passed
earlier: fair, because a reachable state that leads to a fair state is fair (`FairBackwards`,
from `FairPairsComputed`). A search started from a state that holds `EX` starts from a fair
one, since the semantics unfolds at that node (`SatUnfolds`). TLC agrees that
`SearchInv`, `ShortInv` and `FairInv` are invariants on the instance of the run `explain`.

**Strategies: knowledge.** Extending a chain by one state is one round of the fixpoint
(`ChainStep`); the states that chains of at most `k` steps start from grow with `k` and stop
growing before it exceeds the number of states (`Saturates`), and lie in every set a
round leaves as it is. So they are the least one (`NcIs`).

**Strategies: what a group enforces.** A formula is a game on finitely many positions
(`Win`). For one strategy the fixpoints are those of CTL over its outcome
(`StaysMeans`, `EvadesMeans`, `WinMeans`), and what they compute is what all fair paths of
the outcome satisfy. For the uniform strategies, sets of pairs of a state and an action,
`PlayedMeans` reads it off the pairs. With full observability strategies can be
mixed: playing, where one of them wins, as it does there wins wherever any of them does
(`WinPlayed`), so that the nested fixpoints of `tools/atl` and `tools/atlkFO`, and
the complements they compute universal operators by, are what one strategy enforces.
`FullEnforced` says so of the operators themselves: one strategy of the group ensures the
formula from exactly the reachable states that `SatFO` (under the constraints) or
`EnforcedATL` (without) finds, and no strategy ensures it from any other.

**Strategies: the search of `atlkPO`.** The invariant is `SearchInv`. In `SF` and `FSF` what is
pending are the moves of uniform strategies (`Single`), and every uniform strategy wins
nowhere or with moves that one of them has (`Covers`). In `FS` the moves of a pending
set all win, what was found is enforced, and for every uniform strategy what it wins
was found or its winning moves are in one pending set (`Improving`). Dropping the others
is sound since a strategy wins by its winning moves alone (`WinHere`, `WinGrows`,
`WinningAgain`); a split loses no strategy, whatever class of conflicts comes first
(`SplitIs`, `DivideKeeps`); and a set without conflicts is one strategy (`NoConflict`,
`SinglePlayed`). With nothing pending, what was found is all there is. TLC found no
state of the instance in which a part of `SearchInv` fails.

**Model-checked only.** `ComputeDelivers`, `MasDelivers`, `CallsReturn`,
`EvaluationEnds` and `ExplanationEnds` (liveness under fairness), and
`AnswerExplains` of `Explain`: what a path shows recurs over the formula and the
positions of the path at once, and its proof needs, beyond the soundness of each search
(`SearchInv`), that a search which fails does so only where its formula does not
hold. `FsmCacheProofs` uses of `FairStates` only that it is a function of the relation and of the set
it is restricted to.

## 6. What the runs found

Counterexamples to statements in the repository; each is quoted with its line in
`PROJECT.json`.

* `deinit_nusmv` with NuSMV down dereferences a null pointer in
  `_reset_globals` before it can raise (`deinit_down`).
* After `fsm.trans` is replaced, `fsm.reachable_states` is that of the old
  relation (`reachable_stale`).
* `mc.eu` and `mc.au` never read their second set (`until_args`).
* The path for a bounded until may leave the states of its first operand
  (`bounded_until`).
* `[g] X p` and the other universal operators of `tools/atlkPO`, variant SF, are not the
  negations their comments announce (`universal_split`).

Seen while modelling, in the code as the models have it, without a run of its own:

* A lexer error in `load_from_file` ends the process, since nothing catches the
  jump, where `glob.py` would raise `NuSMVLexerError`.
* `flatten_hierarchy` after a `flatten_hierarchy` that jumped out aborts, and after a
  lax `read_model` it succeeds without flattening, and aborts the next time.
* `deinit_nusmv(ddinfo=True)` aborts on a model flattened and not built: the FSM it asks
  for its encoding is NULL (`init.py:101`). In a session nothing else of what is modelled
  crashes (`CrashesOnlyHalfWay`).
* With NuSMV down, no function of `glob.py` raises, save `load` of a file that does
  not exist: each reads a flag of `cmps`, NULL, and the assertion of
  `compileStruct.c:207-211` and its like ends the process, as it does for `mas()` when no
  MAS is cached. A parse dereferences the table of strings (`ustring.c`), NULL too, and
  what a command does depends on tables that are NULL or freed. `CallDown` has these
  outcomes; no property forbids them.
* Parsing an expression between `load` and `flatten_hierarchy` loses the model;
  between `load` and `mas()` it makes `mas()` return nothing, or crash.
* The diameter depends on whether a getter or `check_invar` completed the cache: the
  latter may cache its last layer twice.
* A state that is fair but not reachable is not among the fair states, under the
  default options.
* The explanation of a conjunction whose right side is an atom is that state alone,
  whatever the left side needs (`mcExplain.c:1456`).
* `explain` of `EX` or `AX` on a state without fair path ends the process, by an
  assertion (`mcExplain.c:174`).
* `ebg_explain` with equal bounds picks a state of `fair_g` in the last set without having
  looked whether there is one (`mcExplain.c:925-927`; with different bounds the loop
  before has). Where the formula fails, as the first disjunct of a disjunction that
  holds may, the path then consists of empty sets. That is why `PathCorrect` takes the
  bounds to differ.

## 7. Abstractions and what is left out

* What compiled structures contain, variable orderings, BDD node structure,
  printing and logging.
* The command `go`, `encode_variables_for_layers`, simulation, traces, LTL and
  bounded model checking. After a switch of `check_invar` to bounded model
  checking only what it does to the cache is modelled.
* Running out of memory or of time inside one image computation.
* The options of NuSMV other than `use_reachable_states` have their defaults;
  partitioning of the relation does not change the set an image denotes.
* Wrappers other than BDDs and lists (`BddTrans`, encodings, properties); the
  reference counts of the BDDs a search keeps.
* Sharing of one cache by a family of FSMs (`copy_reachable_states`), reverse
  fairness, k-step and strong images, distances.
* The shortest-counterexample search over the cached layers
  (`mcInvar.c:966-1003`) is represented by its verdict.
* `eval_simple_expression`, the explanation of `ABU`; printing a path. Of the path of a
  universal operator under a disjunction only what `explain_recur` returns: a
  counterexample of the disjunct.
* `tools/mas`: how variables are assigned to agents, the caches `_protocols` and
  `_epistemic_trans` (they hold what the model computes anew), images in a
  subsystem. `MasGlob` has the outcomes of reading a tree that is no model, not the
  nodes read.
* `tools/atlkPO`: the generating, symbolic, memoising and partial evaluations, which
  enumerate the same strategies lazily; fairness constraints on actions, which the
  tools do not handle (`tests/tools/atlkPO/testCheck.py:116`), and systems that
  `check_mas` refuses. `tools/atlkFO` caches `nfair_gamma_states` by the names of the
  agents, in a dictionary of the module: within one system that changes nothing.
* The trees built around explanations (`tools/tlace`, `tools/explanation`, `explain.py`
  of each tool), the simulation of `tools/ctlk`, and the command lines.

The vendored C code is by far the largest part of the repository: BDD packages, SAT
solvers, bounded model checking, LTL, simulation and printing. None of it is
driven by the Python layer beyond the calls modelled here, or it is a sequential
translation of data without protocol; the models stop at its interface.

## 8. Plan

Done, in this order: pipeline, wrappers, FSM cache with invariant checking,
fairness; CTL evaluation, explanations, the globals of multi-agent systems, the
fair, epistemic and action-restricted logics, strategies; with their proofs. Next, most
important first:

1. A proof of `AnswerExplains` for `Explainable` formulas, on `SearchInv` and
   `SatUnfolds`: what a path shows is kept when a later search makes it longer, and
   each search is complete.
2. Relation handles: the `trans` setter frees the relation that wrappers handed
   out before still refer to; families of FSMs over one cache.
3. The partial evaluation of `tools/atlkPO`, which stops once the states asked for are
   decided, against `Strategies`.
