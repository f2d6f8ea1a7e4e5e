----------------------------- MODULE FsmImages ------------------------------
(***************************************************************************)
(* The set algebra of a BDD-encoded FSM (BddFsm.c).                        *)
(*                                                                         *)
(* A BDD over current variables is the set it denotes: of states, or of    *)
(* <<state, inputs>> pairs.  A transition relation is a set of triples     *)
(* <<state, inputs, state>>; it is a parameter of every operator, because  *)
(* pynusmv lets a client replace it.                                       *)
(***************************************************************************)
EXTENDS Integers, FiniteSets

CONSTANTS
    State,        \* valuations of the state variables
    Input,        \* valuations of the input variables
    Initial,      \* self->init
    Invar,        \* self->invar_states
    InvarInput,   \* self->invar_inputs
    Justice       \* self->justice, as a set of sets of pairs

StateInput == State \X Input
Transition == State \X Input \X State

ASSUME FsmAssumption ==
    /\ IsFiniteSet(State) /\ IsFiniteSet(Input)
    /\ Initial \subseteq State
    /\ Invar \subseteq State
    /\ InvarInput \subseteq Input
    /\ Justice \subseteq SUBSET StateInput

Start == Initial \cap Invar

-----------------------------------------------------------------------------
\* One application of the relation t.  The constraints are applied on both
\* sides, whatever the caller passes.
ForwardImage(t, S) ==
    {q \in Invar : \E p \in S \cap Invar, i \in InvarInput : <<p, i, q>> \in t}

BackwardImage(t, S) ==
    {p \in Invar : \E q \in S \cap Invar, i \in InvarInput : <<p, i, q>> \in t}

WeakBackwardImage(t, S) ==
    {x \in Invar \X InvarInput : \E q \in S \cap Invar : <<x[1], x[2], q>> \in t}

NotSuccessorStates(t) == Invar \ BackwardImage(t, State)

\* BddFsm_states_inputs_to_states: the inputs are quantified away.
StatesOf(si) == {s \in State : \E i \in Input : <<s, i>> \in si}

\* The pairs the Emerson-Lei computation is restricted to: the relation
\* alone decides, no constraint is applied, and R, which is not shifted to the
\* next variables, restricts the state that is left.
StatesInputsConstraints(t, R) ==
    {<<e[1], e[2]>> : e \in t \cap (R \X Input \X State)}

-----------------------------------------------------------------------------
(* The Emerson-Lei computation of the fair pairs, loop by loop.  R is the  *)
(* set of reachable states when the option use_reachable_states is set, as *)
(* it is by default, and every state otherwise.                            *)

Within(R, si) == si \cap (R \X Input)

EX(t, R, si) == Within(R, WeakBackwardImage(t, StatesOf(si)))

\* Mutant of EU: one round.
EUOnce(t, R, f, g) == Within(R, g) \cup (f \cap EX(t, R, Within(R, g)))

\* Each round works on the pairs the last one added.
EU(t, R, f, g) ==
    LET Loop[l \in [y : SUBSET StateInput, new : SUBSET StateInput]] ==
            IF l.new = {} THEN l.y
            ELSE LET more == l.y \cup (f \cap EX(t, R, l.new))
                 IN Loop[[y |-> more, new |-> more \ l.y]]
    IN Loop[[y |-> Within(R, g), new |-> Within(R, g)]]

\* One round of the greatest fixpoint over subspace.
FairStep(t, R, si, subspace) ==
    EX(t, R, {x \in si : \A p \in Justice : x \in EU(t, R, subspace, si \cap p)})

FairStatesInputs(t, R) ==
    LET subspace == StatesInputsConstraints(t, R)
        Loop[si \in SUBSET StateInput] ==
            LET next == si \cap FairStep(t, R, si, subspace) \cap subspace
            IN IF next = si THEN si ELSE Loop[next]
    IN Loop[StateInput]

FairStates(t, R) == StatesOf(FairStatesInputs(t, R))

-----------------------------------------------------------------------------
(* References, from the descriptions of the functions above.               *)

Closed(t, S) == Start \subseteq S /\ ForwardImage(t, S) \subseteq S

\* The reachable states: the least set with Start that a step cannot leave.
Reach(t) == {s \in State : \A S \in SUBSET State : Closed(t, S) => s \in S}

Legal == Invar \X InvarInput

\* A step between two legal pairs.
Leads(t, x, y) == <<x[1], x[2], y[1]>> \in t

\* The pairs of C that some path of one step or more inside C leads x to.
Beyond(t, C, x) ==
    {y \in C : \A D \in SUBSET C :
        (\A z \in C : (\E u \in D \cup {x} : Leads(t, u, z)) => z \in D) => y \in D}

\* A set of pairs one can go round for ever, meeting every constraint.
FairCycle(t, C) == /\ C # {}
                   /\ \A x \in C : Beyond(t, C, x) = C
                   /\ \A p \in Justice : p \cap C # {}

\* A pair is fair when it lies on, or leads to, a fair cycle.
FairPairs(t) ==
    LET cycles == UNION {C \in SUBSET Legal : FairCycle(t, C)}
    IN {x \in Legal : x \in cycles \/ Beyond(t, Legal, x) \cap cycles # {}}

=============================================================================
