----------------------------- MODULE PathLogics ------------------------------
(***************************************************************************)
(* The evaluation functions of three tools, on every relation a client can *)
(* assemble (FsmFairness), against the paths of that relation:             *)
(*   - tools/fairctl: CTL over the fair paths between reachable states;    *)
(*   - tools/ctlk: CTL over every path;                                    *)
(*   - tools/arctl: CTL over the maximal paths whose inputs all satisfy an *)
(*     action formula alpha.                                               *)
(* A specification is evaluated bottom-up, so the operands of a temporal   *)
(* operator are arbitrary sets of states.                                  *)
(***************************************************************************)
EXTENDS FsmFairness, CtlSemantics, Fixpoints

CONSTANTS
    Args,      \* the operands tried
    Alphas     \* the action formulas tried, as sets of inputs

ASSUME LogicsAssumption == Args \subseteq SUBSET State /\ Alphas \subseteq SUBSET Input

-----------------------------------------------------------------------------
(* tools/fairctl/eval.py, over the relation t and its reachable states R.  *)

Pairs(S) == S \X Input

\* Mutant of EgInner: the pairs found are met with phi before the step back only.
EgInnerOutside(t, phi, Z) ==
    LET OneRound(f) == [Y \in SUBSET StateInput |->
                           (Z \cap f) \cup WeakBackwardImage(t, StatesOf(Y))]
        ToMeet(f) == Fixpoint(OneRound(f), {})
        meeting == {x \in Z : \A f \in Justice : x \in ToMeet(f)}
    IN Pairs(phi) \cap WeakBackwardImage(t, StatesOf(meeting))

\* One round of the greatest fixpoint on pairs, and a least one in it for every
\* fairness constraint, on pairs too: both project what they step back from.
EgInner(t, phi, Z) ==
    LET OneRound(f) == [Y \in SUBSET StateInput |->
                           (Z \cap f) \cup (Pairs(phi) \cap WeakBackwardImage(t, StatesOf(Y)))]
        ToMeet(f) == Fixpoint(OneRound(f), {})
        meeting == {x \in Z : \A f \in Justice : x \in ToMeet(f)}
    IN Pairs(phi) \cap WeakBackwardImage(t, StatesOf(meeting))

FairEg(t, phi) ==
    StatesOf(Fixpoint([Z \in SUBSET StateInput |-> EgInner(t, phi, Z)], StateInput))

\* fair_states
FairOnes(t) == FairEg(t, State)

FairEx(t, R, phi) == BackwardImage(t, phi \cap FairOnes(t) \cap R) \cap R

FairEu(t, R, phi, psi) ==
    LET fair == FairOnes(t)
    IN Fixpoint([X \in SUBSET State |->
                    (psi \cap fair \cap R)
                        \cup (phi \cap BackwardImage(t, X \cap fair \cap R) \cap R)], {})

\* eval_ctl
FairCtl(t, R, type, a, b) ==
    CASE type = "EX" -> FairEx(t, R, a)
      [] type = "EF" -> FairEu(t, R, State, a)
      [] type = "EG" -> FairEg(t, a)
      [] type = "EU" -> FairEu(t, R, a, b)
      [] type = "EW" -> FairEg(t, a) \cup FairEu(t, R, a, b)
      [] type = "AX" -> State \ FairEx(t, R, State \ a)
      [] type = "AF" -> State \ FairEg(t, State \ a)
      [] type = "AG" -> State \ FairEu(t, R, State, State \ a)
      [] type = "AU" ->
             State \ (FairEu(t, R, State \ b, State \ (a \cup b)) \cup FairEg(t, State \ b))
      [] type = "AW" -> State \ FairEu(t, R, State \ b, State \ (a \cup b))

-----------------------------------------------------------------------------
(* tools/ctlk/eval.py and tools/arctl/eval.py: the same fixpoints, through *)
(* any input or through those of alpha.                                    *)

\* _ex: the constrained backward image.
ExBy(t, alpha, phi) ==
    {p \in Invar : \E i \in alpha \cap InvarInput, q \in phi \cap Invar : <<p, i, q>> \in t}

EuBy(t, alpha, phi, psi) ==
    Fixpoint([Z \in SUBSET State |-> psi \cup (phi \cap ExBy(t, alpha, Z))], {})

EgBy(t, alpha, phi) == Fixpoint([Z \in SUBSET State |-> phi \cap ExBy(t, alpha, Z)], State)

\* evalCTLK
Ctlk(t, type, a, b) ==
    CASE type = "EX" -> ExBy(t, Input, a)
      [] type = "EF" -> EuBy(t, Input, State, a)
      [] type = "EG" -> EgBy(t, Input, a)
      [] type = "EU" -> EuBy(t, Input, a, b)
      [] type = "EW" -> EuBy(t, Input, a, b) \cup EgBy(t, Input, a)
      [] type = "AX" -> State \ ExBy(t, Input, State \ a)
      [] type = "AF" -> State \ EgBy(t, Input, State \ a)
      [] type = "AG" -> State \ EuBy(t, Input, State, State \ a)
      [] type = "AU" ->
             State \ (EuBy(t, Input, State \ b, State \ (a \cup b)) \cup EgBy(t, Input, State \ b))
      [] type = "AW" -> State \ EuBy(t, Input, State \ b, State \ (a \cup b))

\* The states no input of alpha leads out of.
Stuck(t, alpha) == State \ ExBy(t, alpha, State)

\* Mutant of Aau: dead ends are forgotten.
AauEndless(t, alpha, a, b) ==
    State \ (EuBy(t, alpha, State \ b, State \ (a \cup b)) \cup EgBy(t, alpha, State \ b))

\* aau: neither a way to a state out of a, or a dead end, nor a way round.
Aau(t, alpha, a, b) ==
    State \ (EuBy(t, alpha, State \ b, (State \ b) \cap ((State \ a) \cup Stuck(t, alpha)))
               \cup EgBy(t, alpha, State \ b))

\* evalArctl
Arctl(t, alpha, type, a, b) ==
    CASE type = "EX" -> ExBy(t, alpha, a)
      [] type = "EF" -> EuBy(t, alpha, State, a)
      [] type = "EG" -> EuBy(t, alpha, a, (a \cap Stuck(t, alpha)) \cup EgBy(t, alpha, a))
      [] type = "EU" -> EuBy(t, alpha, a, b)
      [] type = "EW" -> State \ Aau(t, alpha, State \ b, State \ (a \cup b))
      [] type = "AX" -> ExBy(t, alpha, State) \ ExBy(t, alpha, State \ a)
      [] type = "AF" -> State \ (EuBy(t, alpha, State \ a, (State \ a) \cap Stuck(t, alpha))
                                   \cup EgBy(t, alpha, State \ a))
      [] type = "AG" -> State \ EuBy(t, alpha, State, State \ a)
      [] type = "AU" -> Aau(t, alpha, a, b)
      [] type = "AW" -> State \ EuBy(t, alpha, State \ b, State \ (a \cup b))

-----------------------------------------------------------------------------
(* References.                                                             *)

Types == {"EX", "EF", "EG", "EU", "EW", "AX", "AF", "AG", "AU", "AW"}
Operands(type) == Args \X (IF type \in {"EU", "EW", "AU", "AW"} THEN Args ELSE {{}})

\* The states with a maximal path inside S: one that never ends, or ends where
\* it must.
Maximal(t, S) ==
    {s \in S : \E w \in Paths(t, s, Cardinality(State)) :
        /\ Holding(S, w, 1, Len(w))
        /\ w[Len(w)] \in Forever(t, {}, S) \/ Successors(t, w[Len(w)]) = {}}

\* Like Satisfies, over the maximal paths of t.
MeantBy(t, type, s, a, b) ==
    CASE type = "AX" -> Successors(t, s) # {} /\ Successors(t, s) \subseteq a
      [] type = "EG" -> s \in Maximal(t, a)
      [] type = "AF" -> s \notin Maximal(t, State \ a)
      [] type = "AU" -> Unless(t, State, s, a, b) /\ s \notin Maximal(t, State \ b)
      [] type = "EW" -> Until(t, State, s, a, b) \/ s \in Maximal(t, a)
      [] OTHER -> Satisfies(t, {}, State, type, s, a, b, 0, 0)

\* A state satisfies a formula of the fairctl tool exactly when the fair paths
\* from it do, and one of the ctlk tool when all paths do, for every operator:
\* the pairs projected inside the nested fixpoints lose no fair path and let no
\* unfair one in (fairctl/eval.py:103-132, ctlk/eval.py:151-181).
CtlToolsAreMeant ==
    LET reach == Reach(trans)
        fair == Forever(trans, Justice, State)
    IN \A type \in Types : \A o \in Operands(type) :
        /\ FairCtl(trans, reach, type, o[1], o[2]) \cap reach =
             {s \in reach : Satisfies(trans, Justice, fair, type, s, o[1], o[2], 0, 0)}
        /\ Ctlk(trans, type, o[1], o[2]) \cap Invar =
             {s \in Invar : Satisfies(trans, {}, State, type, s, o[1], o[2], 0, 0)}

\* A state satisfies a formula of ARCTL exactly when the maximal paths through
\* inputs of alpha do, those that end in a state without such an input included
\* (arctl/eval.py:120-219).
ArctlIsMeant ==
    \A alpha \in Alphas :
        LET t == {e \in trans : e[2] \in alpha}
        IN \A type \in Types : \A o \in Operands(type) :
            Arctl(trans, alpha, type, o[1], o[2]) \cap Invar =
                {s \in Invar : MeantBy(t, type, s, o[1], o[2])}

=============================================================================
