------------------------------ MODULE FsmCache ------------------------------
(***************************************************************************)
(* What an FSM remembers about itself, and who looks at it.                *)
(*                                                                         *)
(* The C structure BddFsm has one cache (BddFsmCache.c): the onion of      *)
(* reachable layers, possibly incomplete, and the derived sets.  It is     *)
(* filled on demand, and three computations share and extend the onion:    *)
(* BddFsm_expand_cached_reachable_states without limits, on behalf of a    *)
(* query; the same with a limit on the steps or on the time (the command   *)
(* compute_reachable); and the forward-backward search of check_invar.     *)
(* Above it every Python BddFsm (fsm.py) over the same pointer has three   *)
(* caches of its own, and two setters.                                     *)
(*                                                                         *)
(* A set that is not there yet, a NULL pointer or None, is NoSet.          *)
(***************************************************************************)
EXTENDS FsmImages, Sequences

CONSTANTS
    NoSet,        \* NULL, None
    UseReachable, \* the option use_reachable_states, set by default
    Fsm,          \* the Python objects over the one C structure
    Models,       \* the relations of the models the client may load
    Replacements, \* the relations the trans setter may be given
    Overrides,    \* the sets the reachable_states setter may be given
    Bads,         \* the sets of states an invariant may exclude
    MaxBudget     \* bound on the -k of compute_reachable

ASSUME CacheAssumption ==
    /\ \A S \in SUBSET State : S # NoSet
    /\ UseReachable \in BOOLEAN
    /\ Models \cup Replacements \subseteq SUBSET Transition
    /\ Overrides \subseteq SUBSET State
    /\ Bads \subseteq SUBSET State
    /\ MaxBudget \in Nat

VARIABLES
    trans,        \* self->trans
    layers,       \* reachable.layers; reachable.diameter is their number
    computed,     \* reachable.computed
    override,     \* reachable.reachable_states
    notSucc,      \* not_successor_states
    deadlock,     \* deadlock_states
    fair,         \* fair_states
    py,           \* of each Python object: _reachable, _deadlock, _fair
    call,         \* the Python getter in progress: its object and name
    loop,         \* the C loop that runs
    onion,        \* its list of layers, first to last
    frontier,     \* its frontier
    budget,       \* expand: k
    bad,          \* search: last_bad_states
    badFrontier,  \* search: bad_frontier
    target,       \* search: target_states
    checked,      \* search: the states the invariant excludes
    verdict,      \* the answer check_invar has just given
    touched       \* history: the setters that made some cache outdated

onionVars == <<layers, computed>>
derivedVars == <<override, notSucc, deadlock, fair>>
expandVars == <<onion, frontier, budget>>
searchVars == <<bad, badFrontier, target, checked>>
loopVars == <<loop, expandVars, searchVars>>
vars == <<trans, onionVars, derivedVars, py, call, loopVars, verdict, touched>>

Option == {NoSet} \cup SUBSET State
Getters == {"reachable", "deadlock", "fair"}
NoCall == <<>>
NoVerdict == <<>>

Last(s) == s[Len(s)]
Reached(o) == IF o = <<>> THEN {} ELSE Last(o)

\* The outermost shell of an onion.
Shell(o) == IF Len(o) > 1 THEN Last(o) \ o[Len(o) - 1] ELSE Reached(o)

Busy == loop # "none" \/ call # NoCall

LoopReset == /\ loop' = "none"
             /\ onion' = <<>> /\ frontier' = {} /\ budget' = 0
             /\ bad' = {} /\ badFrontier' = {} /\ target' = {} /\ checked' = {}

-----------------------------------------------------------------------------
(* BddFsm_expand_cached_reachable_states: resume the cached onion, or      *)
(* start one; a loop that ends completed drops its last layer, which adds  *)
(* nothing, and one stopped by a limit caches what it has.                 *)

\* Mutant of ResumedOnion: every expansion starts again.
ResumedAnew == IF Start = {} THEN <<>> ELSE <<Start>>

ResumedOnion == IF layers # <<>> THEN layers
                ELSE IF Start = {} THEN <<>> ELSE <<Start>>

StartExpand(kind, k) ==
    /\ loop' = kind
    /\ onion' = ResumedOnion
    /\ frontier' = Shell(ResumedOnion)
    /\ budget' = k
    /\ verdict' = NoVerdict
    /\ UNCHANGED <<trans, onionVars, derivedVars, py, searchVars, touched>>

Grown == Reached(onion) \cup ForwardImage(trans, frontier)

SpentAlways == budget - 1   \* mutant of Spent

\* A negative k is no limit.
Spent == IF budget > 0 THEN budget - 1 ELSE budget

\* Mutant of ExpandStep: the frontier is not reduced to the new states.
ExpandStepWhole ==
    /\ loop \in {"expand", "timed"}
    /\ frontier # {}
    /\ budget # 0
    /\ onion' = IF Grown = Reached(onion) THEN onion ELSE Append(onion, Grown)
    /\ frontier' = Grown
    /\ budget' = Spent
    /\ UNCHANGED <<trans, onionVars, derivedVars, py, call, loop, searchVars,
                   verdict, touched>>

ExpandStep ==
    /\ loop \in {"expand", "timed"}
    /\ frontier # {}
    /\ budget # 0
    /\ onion' = Append(onion, Grown)
    /\ frontier' = Grown \ Reached(onion)
    /\ budget' = Spent
    /\ UNCHANGED <<trans, onionVars, derivedVars, py, call, loop, searchVars,
                   verdict, touched>>

\* The complete onion, without the layer that showed it complete.
Trimmed(o) == IF o = <<>> THEN o ELSE SubSeq(o, 1, Len(o) - 1)

ExpandEnd ==
    /\ loop \in {"expand", "timed"}
    /\ frontier = {} \/ budget = 0 \/ loop = "timed"
    /\ computed' = (frontier = {})
    /\ layers' = IF frontier = {} THEN Trimmed(onion) ELSE onion
    /\ LoopReset
    /\ UNCHANGED <<trans, derivedVars, py, call, verdict, touched>>

\* The command compute_reachable [-k k] [-t seconds].
ComputeReachable(k, timed) ==
    /\ ~ Busy
    /\ layers = <<>> \/ ~ computed
    /\ StartExpand(IF timed THEN "timed" ELSE "expand", k)
    /\ UNCHANGED call

\* BddFsm_get_diameter, the distances and the layers: they complete the
\* onion even when the set of reachable states has been given.
Measure ==
    /\ ~ Busy
    /\ ~ computed
    /\ StartExpand("expand", -1)
    /\ UNCHANGED call

Diameter == Len(layers)

-----------------------------------------------------------------------------
(* The getters of a Python FSM w.  _reachable, _deadlock and _fair are     *)
(* asked of C once, which may have to complete the onion first.            *)

ReachableStates == IF override # NoSet THEN override ELSE Reached(layers)

\* Mutant of NeedsExpansion: any cached onion will do.
NeedsFirstExpansion == override = NoSet /\ layers = <<>>

NeedsExpansion == override = NoSet /\ ~ computed

Remember(w, g, S) == py' = [py EXCEPT ![w][g] = S]

\* The getter g of w may go on: it is called, or its loop has ended.
Runs(w, g) == /\ loop = "none"
              /\ call \in {NoCall, <<w, g>>}
              /\ py[w][g] = NoSet

AwaitReachable(w, g) ==
    /\ ~ Busy
    /\ py[w][g] = NoSet
    /\ \/ g = "reachable"
       \/ g = "deadlock" /\ deadlock = NoSet
       \/ g = "fair" /\ fair = NoSet /\ UseReachable
    /\ NeedsExpansion
    /\ call' = <<w, g>>
    /\ StartExpand("expand", -1)

GetReachable(w) ==
    /\ Runs(w, "reachable")
    /\ ~ NeedsExpansion
    /\ Remember(w, "reachable", ReachableStates)
    /\ call' = NoCall
    /\ verdict' = NoVerdict
    /\ UNCHANGED <<trans, onionVars, derivedVars, loopVars, touched>>

GetDeadlock(w) ==
    /\ Runs(w, "deadlock")
    /\ deadlock # NoSet \/ ~ NeedsExpansion
    /\ notSucc' = IF deadlock = NoSet /\ notSucc = NoSet
                  THEN NotSuccessorStates(trans) ELSE notSucc
    /\ deadlock' = IF deadlock = NoSet
                   THEN ReachableStates \cap notSucc' ELSE deadlock
    /\ Remember(w, "deadlock", deadlock')
    /\ call' = NoCall
    /\ verdict' = NoVerdict
    /\ UNCHANGED <<trans, onionVars, override, fair, loopVars, touched>>

GetFair(w) ==
    /\ Runs(w, "fair")
    /\ fair # NoSet \/ ~ UseReachable \/ ~ NeedsExpansion
    /\ fair' = IF fair = NoSet
               THEN FairStates(trans, IF UseReachable THEN ReachableStates ELSE State)
               ELSE fair
    /\ Remember(w, "fair", fair')
    /\ call' = NoCall
    /\ verdict' = NoVerdict
    /\ UNCHANGED <<trans, onionVars, override, notSucc, deadlock, loopVars, touched>>

-----------------------------------------------------------------------------
(* The setters of fsm.py.  Neither empties a cache.                        *)

SetReachable(w, S) ==
    /\ ~ Busy
    /\ Remember(w, "reachable", S)
    /\ override' = S
    /\ touched' = touched \cup {"reachable"}
    /\ verdict' = NoVerdict
    /\ UNCHANGED <<trans, onionVars, notSucc, deadlock, fair, call, loopVars>>

NothingCached == /\ layers = <<>>
                 /\ {override, notSucc, deadlock, fair} = {NoSet}
                 /\ py = [w \in Fsm |-> [g \in Getters |-> NoSet]]

\* Mutant of SetTrans: the fair states of the C cache are forgotten.
SetTransAnew(t) ==
    /\ ~ Busy
    /\ trans' = t
    /\ touched' = IF t = trans \/ NothingCached THEN touched
                  ELSE touched \cup {"trans"}
    /\ fair' = IF t = trans THEN fair ELSE NoSet
    /\ verdict' = NoVerdict
    /\ UNCHANGED <<onionVars, override, notSucc, deadlock, py, call, loopVars>>

SetTrans(t) ==
    /\ ~ Busy
    /\ trans' = t
    /\ touched' = IF t = trans \/ NothingCached THEN touched
                  ELSE touched \cup {"trans"}
    /\ verdict' = NoVerdict
    /\ UNCHANGED <<onionVars, derivedVars, py, call, loopVars>>

-----------------------------------------------------------------------------
(* check_invar (mcInvar.c): is every reachable state outside B?  It uses a *)
(* given set of reachable states, else the cached onion, and when that is  *)
(* not complete searches in both directions, from the onion's outermost    *)
(* shell and from B; the heuristics choose the next direction, or a switch *)
(* to bounded model checking.                                              *)

CheckInvarGiven(B) ==
    /\ ~ Busy
    /\ override # NoSet /\ ~ computed
    /\ verdict' = <<B, ReachableStates \cap B = {}>>
    /\ UNCHANGED <<trans, onionVars, derivedVars, py, call, loopVars, touched>>

SearchOnion == IF layers # <<>> THEN layers ELSE <<Start>>

\* The known states decide; a bug in an initial state is worth caching.
CheckInvarKnown(B) ==
    LET buggy == Reached(SearchOnion) \cap B \cap Invar # {}
    IN /\ ~ Busy
       /\ override = NoSet \/ computed
       /\ buggy \/ computed
       /\ verdict' = <<B, ~ buggy>>
       /\ layers' = IF buggy THEN SearchOnion ELSE layers
       /\ computed' = (computed /\ (layers # <<>> \/ ~ buggy))
       /\ UNCHANGED <<trans, derivedVars, py, call, loopVars, touched>>

CheckInvarSearch(B) ==
    /\ ~ Busy
    /\ override = NoSet /\ ~ computed
    /\ Reached(SearchOnion) \cap B \cap Invar = {}
    /\ loop' = "search"
    /\ onion' = SearchOnion
    /\ frontier' = Shell(SearchOnion)
    /\ bad' = B \cap Invar
    /\ badFrontier' = B \cap Invar
    /\ target' = {}
    /\ checked' = B
    /\ verdict' = NoVerdict
    /\ UNCHANGED <<trans, onionVars, derivedVars, py, call, budget, touched>>

\* Mutant of Searching: a bug that has been found does not stop the search.
SearchingOn == loop = "search" /\ badFrontier # {} /\ frontier # {}

Searching == /\ loop = "search"
             /\ badFrontier # {} /\ frontier # {} /\ target = {}

SearchForward ==
    /\ Searching
    /\ onion' = Append(onion, Grown)
    /\ frontier' = Grown \ Reached(onion)
    /\ target' = bad \cap frontier'
    /\ UNCHANGED <<trans, onionVars, derivedVars, py, call, loop, budget, bad,
                   badFrontier, checked, verdict, touched>>

SearchBackward ==
    /\ Searching
    /\ bad' = bad \cup BackwardImage(trans, badFrontier)
    /\ badFrontier' = bad' \ bad
    /\ target' = bad' \cap Reached(onion)
    /\ UNCHANGED <<trans, onionVars, derivedVars, py, call, loop, expandVars,
                   checked, verdict, touched>>

\* Mutant of CacheOnion: a search that ends has seen every state.
CacheCompleteOnion(complete) ==
    IF Len(onion) - 1 > Diameter
    THEN layers' = onion /\ computed' = TRUE
    ELSE UNCHANGED onionVars

\* The onion is cached when forwardStep, its length less one, exceeds the
\* diameter the search began with.
CacheOnion(complete) ==
    IF Len(onion) - 1 > Diameter
    THEN layers' = onion /\ computed' = complete
    ELSE UNCHANGED onionVars

SearchEnd ==
    /\ loop = "search" /\ ~ Searching
    /\ verdict' = <<checked, target = {}>>
    /\ CacheOnion(frontier = {})
    /\ LoopReset
    /\ UNCHANGED <<trans, derivedVars, py, call, touched>>

\* What bounded model checking then answers is not modelled.
SearchToBmc ==
    /\ Searching
    /\ verdict' = NoVerdict
    /\ CacheOnion(FALSE)
    /\ LoopReset
    /\ UNCHANGED <<trans, derivedVars, py, call, touched>>

-----------------------------------------------------------------------------
Init ==
    /\ trans \in Models
    /\ layers = <<>> /\ computed = FALSE
    /\ override = NoSet /\ notSucc = NoSet /\ deadlock = NoSet /\ fair = NoSet
    /\ py = [w \in Fsm |-> [g \in Getters |-> NoSet]]
    /\ call = NoCall
    /\ loop = "none"
    /\ onion = <<>> /\ frontier = {} /\ budget = 0
    /\ bad = {} /\ badFrontier = {} /\ target = {} /\ checked = {}
    /\ verdict = NoVerdict
    /\ touched = {}

\* The steps of a call that is under way.
Continue ==
    \/ ExpandStep \/ ExpandEnd
    \/ SearchForward \/ SearchBackward \/ SearchEnd \/ SearchToBmc
    \/ \E w \in Fsm :
          call # NoCall /\ (GetReachable(w) \/ GetDeadlock(w) \/ GetFair(w))

Next ==
    \/ Continue
    \/ \E k \in {-1} \cup 1..MaxBudget, timed \in BOOLEAN :
           ComputeReachable(k, timed)
    \/ Measure
    \/ \E w \in Fsm : \/ \E g \in Getters : AwaitReachable(w, g)
                      \/ GetReachable(w) \/ GetDeadlock(w) \/ GetFair(w)
                      \/ \E S \in Overrides : SetReachable(w, S)
    \/ \E t \in Replacements : SetTrans(t)
    \/ \E B \in Bads : \/ CheckInvarGiven(B) \/ CheckInvarKnown(B)
                       \/ CheckInvarSearch(B)

\* The C loops run to their end: nothing can interrupt them.
Spec == Init /\ [][Next]_vars /\ WF_vars(Continue)

-----------------------------------------------------------------------------
(* Properties *)

TypeOK ==
    /\ trans \in Models \cup Replacements
    /\ layers \in Seq(SUBSET State) /\ computed \in BOOLEAN
    /\ {override, notSucc, deadlock, fair} \subseteq Option
    /\ py \in [Fsm -> [Getters -> Option]]
    /\ call \in {NoCall} \cup (Fsm \X Getters)
    /\ loop \in {"none", "expand", "timed", "search"}
    /\ onion \in Seq(SUBSET State) /\ frontier \in SUBSET State
    /\ budget \in -1..MaxBudget
    /\ {bad, badFrontier, target, checked} \subseteq SUBSET State
    /\ verdict \in {NoVerdict} \cup ((SUBSET State) \X BOOLEAN)
    /\ touched \subseteq {"reachable", "trans"}

TransKept == "trans" \notin touched
Untouched == touched = {}

\* Whatever mix of limited expansions and searches has filled it, the cache
\* is the breadth-first onion of the relation, and when it says complete its
\* last layer is the set of reachable states (BddFsm.c:2013-2228,
\* mcInvar.c:1439-1466).
LayersAreOnion ==
    TransKept =>
        /\ layers # <<>> => layers[1] = Start
        /\ \A k \in 1..(Len(layers) - 1) :
              layers[k + 1] = layers[k] \cup ForwardImage(trans, layers[k])
        /\ computed => Reached(layers) = Reach(trans)

\* As long as no setter has been used, every set the cache or a Python object
\* holds is the one its description asks for; the states with no successor do
\* not depend on reachability, and survive the setter of reachable_states.
SetsAreCurrent ==
    LET none == {s \in Invar : ForwardImage(trans, {s}) = {}}
        reach == Reach(trans)
        dead == none \cap reach
        just == FairStates(trans, IF UseReachable THEN reach ELSE State)
    IN /\ TransKept => notSucc \in {NoSet, none}
       /\ Untouched =>
             /\ deadlock \in {NoSet, dead}
             /\ fair \in {NoSet, just}
             /\ \A w \in Fsm : /\ py[w]["reachable"] \in {NoSet, reach}
                              /\ py[w]["deadlock"] \in {NoSet, dead}
                              /\ py[w]["fair"] \in {NoSet, just}

\* Two Python objects over one FSM never disagree, even on a relation that is
\* no longer the FSM's, unless reachable_states has been assigned.
ObjectsAgree ==
    \A v, w \in Fsm, g \in Getters :
        \/ py[v][g] = py[w][g]
        \/ NoSet \in {py[v][g], py[w][g]}
        \/ g = "reachable" /\ g \in touched

\* check_invar's answer is right in whatever order the two searches advance,
\* and whichever part of the onion it finds cached (mcInvar.c:777-1484).
VerdictRight ==
    Untouched /\ verdict # NoVerdict =>
        verdict[2] = (Reach(trans) \cap verdict[1] = {})

\* The cached onion is only ever extended, and complete for good: no resumed
\* computation loses or rewrites a layer, not even across the trans setter.
OnionOnlyGrows ==
    [][/\ Len(layers) <= Len(layers')
       /\ \A k \in 1..Len(layers) : layers'[k] = layers[k]
       /\ computed => computed']_vars

\* Every call comes back: each round of a loop finds a new state, forward or
\* backward, or is the last one.
CallsReturn == Busy ~> ~ Busy

-----------------------------------------------------------------------------
(* What the documentation says and the code does not do. *)

\* fsm.py:97 (the relation "Can also be replaced"), fsm.py:161 ("The
\* set of reachable states of this FSM").
ReachableOfThisFsm ==
    \A w \in Fsm : "reachable" \notin touched
                  => py[w]["reachable"] \in {NoSet, Reach(trans)}

=============================================================================
