----------------------------- MODULE Strategies ------------------------------
(***************************************************************************)
(* What a group of agents can enforce, as the tools for ATL compute it:    *)
(*   - tools/atlkPO with the naive evaluation, for groups that observe part *)
(*     of the state and play uniformly, in its three variants: split the   *)
(*     moves into uniform strategies then filter ("SF"), filter then split  *)
(*     one conflict at a time ("FS"), filter, split and filter ("FSF");    *)
(*   - tools/atlkFO ("FO"), for groups that observe everything;            *)
(*   - tools/atl ("ATL"), which ignores fairness too;                      *)
(* and what agents know (tools/ctlk).  A specification is evaluated         *)
(* bottom-up, so the operands a and b are arbitrary sets of states.         *)
(***************************************************************************)
EXTENDS MasImages, Fixpoints

CONSTANTS
    Systems,       \* the relations tried
    Fairnesses,    \* the sets of fairness constraints tried, on states
    Specs          \* the strategic formulas tried

Dual == [CAX |-> "CEX", CAG |-> "CEF", CAF |-> "CEG", CAU |-> "CEW", CAW |-> "CEU"]
Existential == {Dual[o] : o \in DOMAIN Dual}
Universal == DOMAIN Dual
Tools == {"SF", "FS", "FSF", "FO", "ATL"}

ASSUME StrategiesAssumption ==
    /\ \A t \in Systems : t \subseteq Transition /\ CheckMas(t, Reach(t))
    /\ Fairnesses \subseteq SUBSET SUBSET State
    /\ Specs \subseteq [op : Existential \cup Universal, group : SUBSET Agents,
                        a : SUBSET State, b : SUBSET State]

VARIABLES
    trans, reach,   \* the system, with its reachable states
    justice,        \* its fairness constraints
    pc,             \* "idle", "start", "filter" or "done"
    tool, spec,     \* the request
    pending,        \* the strategies still to consider, filtered in FS
    sat             \* the states found

sysVars == <<trans, reach, justice>>
vars == <<sysVars, pc, tool, spec, pending, sat>>

-----------------------------------------------------------------------------
(* tools/atlkPO/eval.py: the pairs of strat from which the group G wins,    *)
(* playing strat, if it could observe everything.                           *)

Pairs(S) == S \X Input

PreSi(S, G, strat) == PreStratSi(trans, StatesOf(S), G, strat)

\* The pairs from which G can avoid every fair path.
NfairGammaSi(G, strat) ==
    LET Unmet(Z, f) ==
            LET nf == Pairs(State \ f) \cap strat
            IN Fixpoint([Y \in SUBSET StateInput |-> (Z \cup nf) \cap PreSi(Y, G, strat)],
                        StateInput)
        Avoiding(Z, f) == PreSi(Unmet(Z, f), G, strat)
    IN Fixpoint([Z \in SUBSET StateInput |-> UNION {Avoiding(Z, f) : f \in justice}], {})

CexSi(G, phi, strat) == PreSi(Pairs(phi) \cup NfairGammaSi(G, strat), G, strat)

CewSi(G, phi, psi, strat) ==
    LET holds == Pairs(phi) \cap strat
        meets == Pairs(psi) \cap strat
        nfair == NfairGammaSi(G, strat)
    IN Fixpoint([Y \in SUBSET StateInput |->
                    (holds \cup meets \cup nfair) \cap (meets \cup PreSi(Y, G, strat))],
                StateInput)

CegSi(G, phi, strat) == CewSi(G, phi, {}, strat)

CeuSi(G, phi, psi, strat) ==
    LET holds == Pairs(phi) \cap strat
        meets == Pairs(psi) \cap strat
        nfair == NfairGammaSi(G, strat)
        Missing(Z, f) ==
            LET nf == Pairs(State \ f) \cap strat
                OneRound == [Y \in SUBSET StateInput |->
                             (holds \cup meets \cup nfair) \cap (Z \cup nf)
                                 \cap (meets \cup PreSi(Y, G, strat))]
            IN PreSi(Fixpoint(OneRound, StateInput), G, strat)
    IN IF justice = {}
       THEN Fixpoint([Z \in SUBSET StateInput |-> meets \cup (holds \cap PreSi(Z, G, strat))], {})
       ELSE Fixpoint([Z \in SUBSET StateInput |->
                         (holds \cup meets \cup nfair)
                             \cap (meets \cup UNION {Missing(Z, f) : f \in justice})], {})

Winning(s, strat) ==
    CASE s.op = "CEX" -> CexSi(s.group, s.a, strat)
      [] s.op = "CEG" -> CegSi(s.group, s.a, strat)
      [] s.op = "CEF" -> CeuSi(s.group, State, s.a, strat)
      [] s.op = "CEU" -> CeuSi(s.group, s.a, s.b, strat)
      [] s.op = "CEW" -> CewSi(s.group, s.a, s.b, strat)

\* <g> pi for [g] pi: what the group must not be able to enforce.
Sought(s) ==
    IF s.op \in Existential THEN s
    ELSE [op |-> Dual[s.op], group |-> s.group,
          a |-> IF s.op \in {"CAU", "CAW"} THEN State \ s.b ELSE State \ s.a,
          b |-> State \ (s.a \cup s.b)]

-----------------------------------------------------------------------------
(* Uniform strategies: one move of the group for the states it does not    *)
(* tell apart.                                                              *)

Classes(G, strat) == {EquivalentStates({x[1]}, G) : x \in strat}

\* The pairs of the class C, by move of the group.
ByMove(G, strat, C) ==
    LET here == {x \in strat : x[1] \in C}
    IN {{y \in here : Own(G, y[2]) = Own(G, x[2])} : x \in here}

Conflicting(G, strat) == {C \in Classes(G, strat) : Cardinality(ByMove(G, strat, C)) > 1}

\* split: every choice of one move for every class.
Split(G, strat) ==
    LET classes == Classes(G, strat)
        moves == [C \in classes |-> ByMove(G, strat, C)]
        choices == {w \in [classes -> UNION {moves[C] : C \in classes}] :
                       \A C \in classes : w[C] \in moves[C]}
    IN {UNION {w[C] : C \in classes} : w \in choices}

\* Mutant of WinningForAll: the states of the class that do not win are ignored.
WinningForSome(G, winning) == winning

\* wineq: the winning states of which every equivalent state wins.
WinningForAll(G, winning) == winning \ EquivalentStates(reach \ winning, G)

Filtered(s, strat) == Winning(s, strat) \cap Protocol(trans, reach, s.group)

-----------------------------------------------------------------------------
(* tools/atlkFO/eval.py and tools/atl/eval.py: on states, through pre_strat *)
(* and pre_nstrat.                                                          *)

Pre(S, G) == PreStrat(trans, S, G)
PreN(S, G) == PreNStrat(trans, S, G)

Least(round) == Fixpoint(round, {})
Greatest(round) == Fixpoint(round, State)

NfairGamma(G) ==
    LET Unmet(Z, f) == Greatest([Y \in SUBSET State |-> (Z \cup (State \ f)) \cap Pre(Y, G)])
    IN Least([Z \in SUBSET State |-> UNION {Pre(Unmet(Z, f), G) : f \in justice}])

Cew(G, phi, psi) ==
    Greatest([Y \in SUBSET State |->
                 (psi \cup phi \cup NfairGamma(G)) \cap (psi \cup Pre(Y, G))])

Ceu(G, phi, psi) ==
    LET nfair == NfairGamma(G)
        Missing(Z, f) ==
            Greatest([Y \in SUBSET State |->
                         (phi \cup psi \cup nfair) \cap (Z \cup (State \ f))
                             \cap (psi \cup Pre(Y, G))])
    IN IF justice = {}
       THEN Least([Z \in SUBSET State |-> psi \cup (phi \cap Pre(Z, G))])
       ELSE Least([Z \in SUBSET State |->
                      (phi \cup psi \cup nfair)
                          \cap (psi \cup UNION {Pre(Missing(Z, f), G) : f \in justice})])

\* One round of the greatest fixpoint of cag and caw: by every constraint, phi
\* until it is met in Z, or until stop.
Meeting(G, phi, stop, Z) ==
    LET ToMeet(f) ==
            Least([Y \in SUBSET State |-> stop \cup (Z \cap f) \cup (phi \cap PreN(Y, G))])
    IN {s \in phi : \A f \in justice : s \in PreN(ToMeet(f), G)}

Cag(G, phi) ==
    IF justice = {} THEN Greatest([Z \in SUBSET State |-> phi \cap PreN(Z, G)])
    ELSE Greatest([Z \in SUBSET State |-> Meeting(G, phi, {}, Z)])

FairGamma(G) == Cag(G, State)

Caw(G, phi, psi) ==
    LET stop == psi \cap FairGamma(G)
    IN IF justice = {} THEN Greatest([Z \in SUBSET State |-> psi \cup (phi \cap PreN(Z, G))])
       ELSE Greatest([Z \in SUBSET State |-> stop \cup Meeting(G, phi, stop, Z)])

Cau(G, phi, psi) ==
    LET stop == psi \cap FairGamma(G)
    IN Least([Y \in SUBSET State |-> stop \cup (phi \cap PreN(Y, G))])

\* evalATLK of atlkFO
SatFO(s) ==
    CASE s.op = "CEX" -> Pre(s.a \cup NfairGamma(s.group), s.group)
      [] s.op = "CAX" -> PreN(s.a \cap FairGamma(s.group), s.group)
      [] s.op = "CEG" -> Cew(s.group, s.a, {})
      [] s.op = "CAG" -> Cag(s.group, s.a)
      [] s.op = "CEU" -> Ceu(s.group, s.a, s.b)
      [] s.op = "CAU" -> Cau(s.group, s.a, s.b)
      [] s.op = "CEF" -> Ceu(s.group, State, s.a)
      [] s.op = "CAF" -> Cau(s.group, State, s.a)
      [] s.op = "CEW" -> Cew(s.group, s.a, s.b)
      [] s.op = "CAW" -> Caw(s.group, s.a, s.b)

\* evalATL, on an existential operator
EnforcedATL(s) ==
    LET PreG(S) == Pre(S, s.group)
    IN CASE s.op = "CEX" -> PreG(s.a)
         [] s.op = "CEG" -> Greatest([Z \in SUBSET State |-> s.a \cap PreG(Z)])
         [] s.op = "CEF" -> Least([Y \in SUBSET State |-> s.a \cup PreG(Y)])
         [] s.op = "CEU" -> Least([Y \in SUBSET State |-> s.b \cup (s.a \cap PreG(Y))])
         [] s.op = "CEW" -> Greatest([Z \in SUBSET State |-> s.b \cup (s.a \cap PreG(Z))])

SatATL(s) == IF s.op \in Universal THEN State \ EnforcedATL(Sought(s)) ELSE EnforcedATL(s)

-----------------------------------------------------------------------------
Nothing == [op |-> "CEX", group |-> {}, a |-> {}, b |-> {}]

Init ==
    /\ \E t \in Systems : trans = t /\ reach = Reach(t)
    /\ justice \in Fairnesses
    /\ pc = "idle" /\ tool = "SF" /\ spec = Nothing
    /\ pending = {} /\ sat = {}

\* evalATLK(fsm, spec, variant), evalATL(fsm, spec)
Request(v, s) ==
    /\ pc = "idle"
    /\ pc' = "start" /\ tool' = v /\ spec' = s
    /\ UNCHANGED <<sysVars, pending, sat>>

\* A logic of full observability, in one go.
EvaluateFull ==
    /\ pc = "start" /\ tool \in {"FO", "ATL"}
    /\ sat' = IF tool = "FO" THEN SatFO(spec) ELSE SatATL(spec)
    /\ pc' = "done"
    /\ UNCHANGED <<sysVars, tool, spec, pending>>

\* SF splits the whole protocol, FSF what a first filter leaves of it, and FS
\* starts from what that filter leaves.
Start_(v, strats) ==
    /\ pc = "start" /\ tool = v
    /\ pending' = strats
    /\ pc' = "filter"
    /\ UNCHANGED <<sysVars, tool, spec, sat>>

StartSF == Start_("SF", Split(spec.group, Protocol(trans, reach, spec.group)))

StartFSF ==
    LET winning == Filtered(Sought(spec), StateInput)
    IN Start_("FSF", IF winning = {} THEN {} ELSE Split(spec.group, winning))

StartFS == Start_("FS", {Filtered(Sought(spec), Protocol(trans, reach, spec.group))})

\* eval_strat: each uniform strategy is filtered, and its states added.  For a
\* universal operator, the states added are those the strategy does not win.
EvaluateSF ==
    /\ pc = "filter" /\ tool = "SF"
    /\ LET Won(strat) == StatesOf(Winning(Sought(spec), strat))
           Found(strat) == IF spec.op \in Universal THEN State \ Won(strat) ELSE Won(strat)
       IN sat' = UNION {WinningForAll(spec.group, Found(strat)) : strat \in pending}
    /\ pending' = {} /\ pc' = "done"
    /\ UNCHANGED <<sysVars, tool, spec>>

Opposite(S) == IF spec.op \in Universal THEN State \ S ELSE S

\* eval_strat_FSF: the strategies left are filtered again.
EvaluateFSF ==
    /\ pc = "filter" /\ tool = "FSF"
    /\ sat' = Opposite(UNION {WinningForAll(spec.group, StatesOf(Filtered(Sought(spec), strat))) :
                                 strat \in pending})
    /\ pending' = {} /\ pc' = "done"
    /\ UNCHANGED <<sysVars, tool, spec>>

\* eval_strat_improved without conflict left: the states that win are added.
Settle(winning) ==
    /\ Conflicting(spec.group, winning) = {}
    /\ sat' = sat \cup WinningForAll(spec.group, StatesOf(winning))
    /\ pending' = pending \ {winning}

\* Otherwise a conflicting class, the one of the first such pair the BDD package
\* picks, is split, and each part filtered again with the rest of what wins.
Divide(winning) ==
    \E C \in Conflicting(spec.group, winning) :
        LET rest == {x \in winning : x[1] \notin C}
            parts == {rest \cup m : m \in ByMove(spec.group, winning, C)}
        IN /\ pending' = (pending \ {winning}) \cup {Filtered(Sought(spec), strat) : strat \in parts}
           /\ UNCHANGED sat

EvaluateFS ==
    /\ pc = "filter" /\ tool = "FS" /\ pending # {}
    /\ LET winning == CHOOSE w \in pending : TRUE
       IN Settle(winning) \/ Divide(winning)
    /\ UNCHANGED <<sysVars, pc, tool, spec>>

ReturnFS ==
    /\ pc = "filter" /\ tool = "FS" /\ pending = {}
    /\ sat' = Opposite(sat)
    /\ pc' = "done"
    /\ UNCHANGED <<sysVars, tool, spec, pending>>

Taken ==
    /\ pc = "done"
    /\ pc' = "idle" /\ tool' = "SF" /\ spec' = Nothing /\ sat' = {}
    /\ UNCHANGED <<sysVars, pending>>

Next ==
    \/ \E v \in Tools, s \in Specs : Request(v, s)
    \/ EvaluateFull
    \/ StartSF \/ StartFSF \/ StartFS
    \/ EvaluateSF \/ EvaluateFSF \/ EvaluateFS \/ ReturnFS
    \/ Taken

Spec == Init /\ [][Next]_vars

-----------------------------------------------------------------------------
(* tools/ctlk/eval.py: what agents do not know.                            *)

Nd(G, phi) == EquivalentStates(phi \cap reach, G) \cap reach
Nk(agent, phi) == Nd({agent}, phi)
Ne(G, phi) == UNION {Nk(agent, phi) : agent \in G}

\* Mutant of Nc: everybody's ignorance, once.
NcOnce(G, phi) == Ne(G, phi)

Nc(G, phi) == Fixpoint([Z \in SUBSET State |-> Ne(G, Z \cup phi)], {})

-----------------------------------------------------------------------------
(* References.                                                              *)

\* The states of S that a path of one step or more inside S leads to from x.
Onward(t, S, x) ==
    {y \in S : \A D \in SUBSET S :
        (\A z \in S : (\E u \in D \cup {x} : z \in Successors(t, u)) => z \in D) => y \in D}

\* The states some fair path inside S starts from.
Endless(t, J, S) ==
    LET W == S \cap Invar
        rounds == UNION {C \in SUBSET W : /\ C # {} /\ \A x \in C : Onward(t, C, x) = C
                                          /\ \A f \in J : C \cap f # {}}
    IN {s \in W : s \in rounds \/ Onward(t, W, s) \cap rounds # {}}

\* The states all fair paths of t from which satisfy the path formula of s.
Ensured(t, J, s) ==
    LET F == Endless(t, J, State)
    IN CASE s.op = "CEX" -> {p \in State : Successors(t, p) \cap F \subseteq s.a}
         [] s.op = "CEG" -> {p \in State : Unless(t, F, p, s.a, {})}
         [] s.op = "CEW" -> {p \in State : Unless(t, F, p, s.a, s.b)}
         [] s.op = "CEF" -> State \ Endless(t, J, State \ s.a)
         [] s.op = "CEU" -> {p \in State : Unless(t, F, p, s.a, s.b)} \ Endless(t, J, State \ s.b)

\* Every reachable state has a successor.
Lively == \A t \in Systems : \A p \in Reach(t) : Successors(t, p) # {}

\* Any actions of a group go with any actions of the other agents.
Mixed ==
    \A G \in SUBSET Agents : \A i, j \in Input : \E m \in Input :
        Own(G, m) = Own(G, i) /\ Own(Agents \ G, m) = Own(Agents \ G, j)

Full == tool \in {"FO", "ATL"}
Seen(G, p) == IF Full THEN p ELSE Sight(G, p)

\* The functions from what the group sees to what it does.
UniformStrategies(G) ==
    {f \in [{Seen(G, p) : p \in reach} -> {Own(G, i) : i \in Input}] :
        \A p \in reach : \E x \in Protocol(trans, reach, G) : x[1] = p /\ Own(G, x[2]) = f[Seen(G, p)]}

\* What can happen when the group plays f.
Outcome(G, f) == {e \in trans : e[1] \in reach /\ Own(G, e[2]) = f[Seen(G, e[1])]}

\* The states from which, and from all those the group takes them for, some one
\* strategy ensures s.
Enforced(s) ==
    LET J == IF tool = "ATL" THEN {} ELSE justice
        ByPlaying(f) ==
            LET ensured == reach \cap Ensured(Outcome(s.group, f), J, s)
            IN {p \in ensured : {q \in reach : Seen(s.group, q) = Seen(s.group, p)} \subseteq ensured}
    IN UNION {ByPlaying(f) : f \in UniformStrategies(s.group)}

Meant == IF spec.op \in Existential THEN Enforced(spec) ELSE reach \ Enforced(Sought(spec))

\* Every tool and variant returns the states of the system from which the group
\* has, for <g> pi, or has not, for [g] ~pi, one strategy, uniform when it
\* observes part of the state, all fair outcomes of which satisfy pi: filtering
\* the moves first, in any order of the conflicts, loses no strategy and keeps
\* no two moves in states the group takes for each other, and strategies that
\* leave no fair path count (atlkPO/eval.py:301-858, atlkFO/eval.py:344-528,
\* atl/eval.py:108-154).  [g] pi in the variant SF is the one exception.
StrategiesAreMeant ==
    pc = "done" /\ (tool = "SF" => spec.op \in Existential) => sat \cap reach = Meant

\* [g] pi in the variant SF, of which atlkPO/eval.py:382 says "[g] G p = ~<g> F ~p".
UniversalIsDual ==
    pc = "done" /\ tool = "SF" /\ spec.op \in Universal => sat \cap reach = Meant

\* A group ignores phi, in common, in exactly the reachable states that a chain
\* of reachable states leads from to one of phi, each looking to some agent of
\* the group like the one before; it ignores it together in those that look to
\* all its agents like a reachable state of phi (ctlk/eval.py:184-241).
KnowledgeIsMeant ==
    pc = "idle" =>
        \A s \in Specs :
            LET Look(n, p, q) == Sees[n][p] = Sees[n][q]
                IsChain(w, last) ==
                    /\ w[last] \in s.a
                    /\ \A k \in 1..last : \E n \in s.group : Look(n, w[k - 1], w[k])
            IN /\ Nc(s.group, s.a) =
                     {p \in reach : \E last \in 1..Cardinality(State) :
                         \E w \in [0..last -> reach] : w[0] = p /\ IsChain(w, last)}
               /\ Nd(s.group, s.a) =
                     {p \in reach : \E q \in s.a \cap reach : \A n \in s.group : Look(n, p, q)}

=============================================================================
