----------------------------- MODULE MasImages -------------------------------
(***************************************************************************)
(* The set algebra of a multi-agent system (tools/mas/mas.py): an FSM whose *)
(* inputs are the joint actions of some agents, each of which observes     *)
(* part of the state.  The operators take the relation t, and R for its    *)
(* reachable states, which mas.py reads from the cache of the FSM.         *)
(***************************************************************************)
EXTENDS CtlSemantics

CONSTANTS
    Agents,
    Action,       \* the values of the input variables of an agent
    Sees          \* Sees[a][s]: what agent a observes of state s

ASSUME MasAssumption ==
    /\ Input \subseteq [Agents -> Action]
    /\ DOMAIN Sees = Agents

-----------------------------------------------------------------------------
\* The part of a joint action, and of what is observed, that is the group G's.
Own(G, i) == [a \in G |-> i[a]]
Sight(G, s) == [a \in G |-> Sees[a][s]]

\* bdd.forsome(ngamma_cube): the actions of the agents out of G are forgotten.
ForsomeOthers(si, G) ==
    {x \in StateInput : \E i \in Input : Own(G, i) = Own(G, x[2]) /\ <<x[1], i>> \in si}

\* equivalent_states: what the agents of G, together, cannot tell from a state
\* of S.
EquivalentStates(S, G) ==
    {q \in Invar : \E p \in S \cap Invar : Sight(G, p) = Sight(G, q)}

\* The moves of G with which some step leads to a reachable state, with every
\* action of the other agents.
Protocol(t, R, G) == Within(R, ForsomeOthers(WeakBackwardImage(t, R), G))

\* The pairs of strat whose moves of G lead to S, whatever the others do, and
\* do lead somewhere.
PreStratSi(t, S, G, strat) ==
    strat \cap ForsomeOthers(WeakBackwardImage(t, S)
                                \ ForsomeOthers(WeakBackwardImage(t, State \ S), G), G)

PreStrat(t, S, G) == StatesOf(PreStratSi(t, S, G, StateInput))

PreNStrat(t, S, G) == State \ PreStrat(t, State \ S, G)

-----------------------------------------------------------------------------
\* check_free_choice: in no state do the actions of the others restrict an
\* agent's.
FreeChoice(t, R) ==
    Within(R, WeakBackwardImage(t, R))
        = {x \in R \X Input : \A a \in Agents : x \in Protocol(t, R, {a})}

\* check_uniform_choice: an agent has the same actions in the states it does
\* not tell apart.
UniformChoice(t, R) ==
    \A a \in Agents, s \in R :
        LET Choices(q) == {i \in Input : <<q, i>> \in Protocol(t, R, {a})}
        IN \A q \in R \cap EquivalentStates({s}, {a}) : Choices(q) = Choices(s)

CheckMas(t, R) == FreeChoice(t, R) /\ UniformChoice(t, R)

=============================================================================
