-------------------------- MODULE PathLogicsProofs ---------------------------
(***************************************************************************)
(* Proofs about the fair states of every relation a client can assemble    *)
(* (FsmFairness), and about the tools that evaluate formulas over its      *)
(* paths (PathLogics).                                                     *)
(***************************************************************************)
EXTENDS PathLogics, ImageProofs

\* Whatever transitions a client adds or masks, the pairs computed are those
\* on, or with a way to, a cycle that meets every constraint.
THEOREM FairnessCorrect == Spec => []FairnessIsMeant
<1>1. FairnessIsMeant
  <2>1. State \in SUBSET State /\ ForwardImage(trans, State) \subseteq State
    BY FsmAssumption DEF ForwardImage
  <2>2. FairStatesInputs(trans, State) = Within(State, FairPairs(trans))
    BY <2>1, FairPairsComputed
  <2>3. Within(State, FairPairs(trans)) = FairPairs(trans)
    BY LegalPairs DEF Within, StateInput
  <2>4. FairStatesInputs(trans, Reach(trans)) = Within(Reach(trans), FairPairs(trans))
    BY ReachClosed, FairPairsComputed
  <2> QED
    BY <2>2, <2>3, <2>4 DEF FairnessIsMeant
<1> QED
  BY <1>1, PTL

-----------------------------------------------------------------------------
(* The nested fixpoints of the fairctl tool.                               *)

\* What one constraint f is met from, inside Z.
ToMeet(t, phi, Z, f) ==
    Fixpoint([Y \in SUBSET StateInput |->
                 (Z \cap f) \cup (Pairs(phi) \cap WeakBackwardImage(t, StatesOf(Y)))], {})

\* The steps back of a set of pairs.
LEMMA WeakBackMeans ==
    ASSUME NEW t, NEW S \in SUBSET StateInput
    PROVE  /\ WeakBackwardImage(t, StatesOf(S)) \in SUBSET Legal
           /\ WeakBackwardImage(t, StatesOf(S)) \in SUBSET StateInput
           /\ \A x \in Legal : x \in WeakBackwardImage(t, StatesOf(S)) <=>
                 \E y \in S : y[1] \in Invar /\ Leads(t, x, y)
<1>1. EX(t, State, S) = WeakBackwardImage(t, StatesOf(S))
  BY FsmAssumption DEF EX, Within, WeakBackwardImage
<1>2. \A x : x \in EX(t, State, S) <=>
              x \in Legal /\ x[1] \in State /\ \E y \in S : y[1] \in Invar /\ Leads(t, x, y)
  BY ExMeans
<1>3. \A x \in Legal : x[1] \in State
  BY LegalPairs, FsmAssumption
<1>4. EX(t, State, S) \in SUBSET Legal
  BY <1>2
<1> HIDE DEF EX
<1> QED
  BY <1>1, <1>2, <1>3, <1>4, LegalPairs

\* More pairs have more steps back.
LEMMA WeakBackGrows ==
    ASSUME NEW t, NEW S \in SUBSET StateInput, NEW T \in SUBSET StateInput, S \subseteq T
    PROVE  WeakBackwardImage(t, StatesOf(S)) \subseteq WeakBackwardImage(t, StatesOf(T))
BY DEF WeakBackwardImage, StatesOf

LEMMA ToMeetIs ==
    ASSUME NEW t, NEW phi, NEW Z \in SUBSET StateInput, NEW f
    PROVE  /\ ToMeet(t, phi, Z, f) \in SUBSET StateInput
           /\ Z \cap f \subseteq ToMeet(t, phi, Z, f)
           /\ Pairs(phi) \cap WeakBackwardImage(t, StatesOf(ToMeet(t, phi, Z, f)))
                 \subseteq ToMeet(t, phi, Z, f)
           /\ \A W \in SUBSET StateInput :
                 Z \cap f \subseteq W
                   /\ Pairs(phi) \cap WeakBackwardImage(t, StatesOf(W)) \subseteq W
                 => ToMeet(t, phi, Z, f) \subseteq W
<1> DEFINE round == [Y \in SUBSET StateInput |->
                 (Z \cap f) \cup (Pairs(phi) \cap WeakBackwardImage(t, StatesOf(Y)))]
<1>1. round \in [SUBSET StateInput -> SUBSET StateInput]
  BY WeakBackMeans
<1>2. \A S, T \in SUBSET StateInput : S \subseteq T => round[S] \subseteq round[T]
  <2> SUFFICES ASSUME NEW S \in SUBSET StateInput, NEW T \in SUBSET StateInput, S \subseteq T
               PROVE  round[S] \subseteq round[T]
    OBVIOUS
  <2>1. WeakBackwardImage(t, StatesOf(S)) \subseteq WeakBackwardImage(t, StatesOf(T))
    BY WeakBackGrows
  <2> QED
    BY <2>1
<1>3. ToMeet(t, phi, Z, f) = Fixpoint(round, {})
  BY DEF ToMeet
<1>4. \A Y \in SUBSET StateInput :
         round[Y] = (Z \cap f) \cup (Pairs(phi) \cap WeakBackwardImage(t, StatesOf(Y)))
  OBVIOUS
<1> HIDE DEF round
<1>5. IsLeast(StateInput, round, ToMeet(t, phi, Z, f))
  BY <1>1, <1>2, <1>3, PairsFinite, FixpointLeast
<1> QED
  BY <1>4, <1>5 DEF IsLeast

LEMMA EgInnerIs ==
    ASSUME NEW t, NEW phi, NEW Z
    PROVE  EgInner(t, phi, Z) =
              Pairs(phi) \cap WeakBackwardImage(t, StatesOf(
                  {x \in Z : \A f \in Justice : x \in ToMeet(t, phi, Z, f)}))
BY DEF EgInner, ToMeet

\* The greatest fixpoint around them.
LEMMA FairEgGreatest ==
    ASSUME NEW t, NEW phi
    PROVE  \E K : /\ FairEg(t, phi) = StatesOf(K)
                  /\ K \in SUBSET StateInput
                  /\ EgInner(t, phi, K) = K
                  /\ \A W \in SUBSET StateInput : W \subseteq EgInner(t, phi, W) => W \subseteq K
<1> DEFINE round == [Z \in SUBSET StateInput |-> EgInner(t, phi, Z)]
           Met(Z) == {x \in Z : \A f \in Justice : x \in ToMeet(t, phi, Z, f)}
<1>1. \A Z : EgInner(t, phi, Z) = Pairs(phi) \cap WeakBackwardImage(t, StatesOf(Met(Z)))
  BY EgInnerIs
<1>2. round \in [SUBSET StateInput -> SUBSET StateInput]
  <2> SUFFICES ASSUME NEW Z \in SUBSET StateInput PROVE EgInner(t, phi, Z) \in SUBSET StateInput
    OBVIOUS
  <2>1. Met(Z) \in SUBSET StateInput
    OBVIOUS
  <2> HIDE DEF Met
  <2> QED
    BY <1>1, <2>1, WeakBackMeans
<1>3. \A S, T \in SUBSET StateInput : S \subseteq T => round[S] \subseteq round[T]
  <2> SUFFICES ASSUME NEW S \in SUBSET StateInput, NEW T \in SUBSET StateInput, S \subseteq T
               PROVE  EgInner(t, phi, S) \subseteq EgInner(t, phi, T)
    OBVIOUS
  <2>1. ASSUME NEW f PROVE ToMeet(t, phi, S, f) \subseteq ToMeet(t, phi, T, f)
    <3> DEFINE W == ToMeet(t, phi, T, f)
    <3>1. /\ W \in SUBSET StateInput /\ T \cap f \subseteq W
          /\ Pairs(phi) \cap WeakBackwardImage(t, StatesOf(W)) \subseteq W
      BY ToMeetIs
    <3>2. S \cap f \subseteq W
      BY <3>1
    <3> HIDE DEF W
    <3>3. ToMeet(t, phi, S, f) \subseteq W
      BY <3>1, <3>2, ToMeetIs
    <3> QED
      BY <3>3 DEF W
  <2>2. Met(S) \subseteq Met(T) /\ Met(S) \in SUBSET StateInput /\ Met(T) \in SUBSET StateInput
    BY <2>1
  <2> HIDE DEF Met
  <2>3. WeakBackwardImage(t, StatesOf(Met(S))) \subseteq WeakBackwardImage(t, StatesOf(Met(T)))
    BY <2>2, WeakBackGrows
  <2> QED
    BY <1>1, <2>3
<1>4. FairEg(t, phi) = StatesOf(Fixpoint(round, StateInput))
  BY DEF FairEg
<1>5. \A Z \in SUBSET StateInput : round[Z] = EgInner(t, phi, Z)
  OBVIOUS
<1> HIDE DEF round
<1>6. IsGreatest(StateInput, round, Fixpoint(round, StateInput))
  BY <1>2, <1>3, PairsFinite, FixpointGreatest
<1> QED
  BY <1>4, <1>5, <1>6 DEF IsGreatest

\* What a constraint is met from has a way to it, by steps inside phi.
LEMMA ToMeetReaches ==
    ASSUME NEW t, NEW phi, NEW Z \in SUBSET Moves(t, phi), NEW f, NEW z \in ToMeet(t, phi, Z, f)
    PROVE  z \in Moves(t, phi) /\ (z \in Z \cap f \/ Beyond(t, Moves(t, phi), z) \cap Z \cap f # {})
<1> DEFINE M == Moves(t, phi)
           W == {u \in M : u \in Z \cap f \/ Beyond(t, M, u) \cap Z \cap f # {}}
<1>1. W \in SUBSET StateInput /\ Z \in SUBSET StateInput
  BY MovesAre
<1>2. Z \cap f \subseteq W
  OBVIOUS
<1>3. ASSUME NEW u \in Pairs(phi) \cap WeakBackwardImage(t, StatesOf(W)) PROVE u \in W
  <2>1. u \in Legal /\ u[1] \in phi /\ u = <<u[1], u[2]>>
    <3>1. u \in Legal
      BY <1>1, <1>3, WeakBackMeans
    <3> QED
      BY <3>1, LegalPairs DEF Pairs
  <2>2. PICK y \in W : y[1] \in Invar /\ Leads(t, u, y)
    <3> HIDE DEF W
    <3> QED
      BY <1>1, <1>3, <2>1, WeakBackMeans
  <2>3. y \in M /\ y[1] \in phi \cap Invar
    BY <2>2, MovesAre
  <2>4. u \in M
    BY <2>1, <2>2, <2>3, LegalPairs, MovesAre DEF Leads
  <2>5. y \in Beyond(t, M, u) /\ Beyond(t, M, y) \subseteq Beyond(t, M, u)
    BY <2>2, <2>3, BeyondStep, BeyondTransitive
  <2> QED
    BY <2>2, <2>4, <2>5
<1> HIDE DEF W
<1>4. ToMeet(t, phi, Z, f) \subseteq W
  BY <1>1, <1>2, <1>3, ToMeetIs
<1> QED
  BY <1>4 DEF W

\* The pairs left are those an infinite path inside phi that meets every
\* constraint starts with: the projection of the pairs stepped back from
\* neither loses one nor lets another in.
LEMMA FairEgIs ==
    ASSUME NEW t, NEW phi \in SUBSET State
    PROVE  FairEg(t, phi) = Forever(t, Justice, phi)
<1> DEFINE M == Moves(t, phi)
           P == RoundPairs(t, Justice, M)
           Met(Z) == {x \in Z : \A f \in Justice : x \in ToMeet(t, phi, Z, f)}
<1>1. PICK K : /\ FairEg(t, phi) = StatesOf(K)
               /\ K \in SUBSET StateInput
               /\ EgInner(t, phi, K) = K
               /\ \A W \in SUBSET StateInput : W \subseteq EgInner(t, phi, W) => W \subseteq K
  BY FairEgGreatest
<1>2. \A Z : EgInner(t, phi, Z) = Pairs(phi) \cap WeakBackwardImage(t, StatesOf(Met(Z)))
  BY EgInnerIs
<1>3. \A x : x \in Pairs(phi) => x[1] \in phi
  BY DEF Pairs
<1>4. \A Z \in SUBSET StateInput : Met(Z) \in SUBSET StateInput
  OBVIOUS
<1>5. ASSUME NEW x \in K
      PROVE  x \in M /\ \E y \in Met(K) : Leads(t, x, y)
  <2>1. x \in Legal /\ x[1] \in phi
    <3> HIDE DEF Met
    <3> QED
      BY <1>1, <1>2, <1>3, <1>4, WeakBackMeans
  <2>2. PICK y \in Met(K) : y[1] \in Invar /\ Leads(t, x, y)
    <3> HIDE DEF Met
    <3> QED
      BY <1>1, <1>2, <1>4, <2>1, WeakBackMeans
  <2>3. y[1] \in phi
    BY <1>1, <1>2, <1>3, <2>2
  <2>4. x \in M
    BY <2>1, <2>2, <2>3, LegalPairs, MovesAre DEF Leads
  <2> QED
    BY <2>2, <2>4
<1>6. K \subseteq P
  <2>1. K \in SUBSET M /\ IsFiniteSet(K)
    BY <1>5, MovesAre, FS_Subset
  <2>2. ASSUME NEW x \in K
        PROVE  \E y \in K \cap Beyond(t, M, x) :
                  \A f \in Justice : f \cap ({y} \cup (K \cap Beyond(t, M, y))) # {}
    <3>1. PICK y \in Met(K) : Leads(t, x, y)
      BY <1>5
    <3>2. y \in K /\ y \in M
      BY <1>5
    <3>3. y \in Beyond(t, M, x)
      BY <3>1, <3>2, BeyondStep
    <3>4. ASSUME NEW f \in Justice PROVE f \cap ({y} \cup (K \cap Beyond(t, M, y))) # {}
      <4>1. y \in ToMeet(t, phi, K, f)
        BY <3>1
      <4>2. y \in K \cap f \/ Beyond(t, M, y) \cap K \cap f # {}
        BY <2>1, <4>1, ToMeetReaches
      <4> QED
        BY <4>2
    <3> QED
      BY <3>2, <3>3, <3>4
  <2> QED
    BY <2>1, <2>2, RoundAhead
<1>7. P \subseteq K
  <2>1. P \in SUBSET M /\ P \in SUBSET StateInput
    BY RoundSets, MovesAre
  <2>2. ASSUME NEW f \in Justice PROVE P \subseteq ToMeet(t, phi, P, f)
    <3> DEFINE U == ToMeet(t, phi, P, f)
    <3>1. /\ U \in SUBSET StateInput /\ P \cap f \subseteq U
          /\ Pairs(phi) \cap WeakBackwardImage(t, StatesOf(U)) \subseteq U
      BY <2>1, ToMeetIs
    <3> HIDE DEF U
    <3>2. ASSUME NEW u \in P, NEW z \in P, Leads(t, u, z), z \in U PROVE u \in U
      <4>1. u \in Legal /\ u \in Pairs(phi) /\ z[1] \in Invar
        BY <2>1, MovesAre DEF Pairs, StateInput
      <4>2. u \in WeakBackwardImage(t, StatesOf(U))
        BY <3>1, <3>2, <4>1, WeakBackMeans
      <4> QED
        BY <3>1, <4>1, <4>2
    <3>3. f \cap P \subseteq U
      BY <3>1
    <3>4. P \subseteq U
      BY <3>2, <3>3, RoundMeets
    <3> QED
      BY <3>4 DEF U
  <2>3. Met(P) = P
    BY <2>2
  <2>4. ASSUME NEW x \in P PROVE x \in EgInner(t, phi, P)
    <3>1. PICK y \in P : Leads(t, x, y)
      BY RoundGoesOn
    <3>2. x \in Legal /\ x \in Pairs(phi) /\ y[1] \in Invar
      BY <2>1, MovesAre DEF Pairs, StateInput
    <3>3. x \in WeakBackwardImage(t, StatesOf(P))
      BY <2>1, <3>1, <3>2, WeakBackMeans
    <3> QED
      BY <1>2, <2>3, <3>2, <3>3
  <2> QED
    BY <1>1, <2>1, <2>4
<1>8. StatesOf(K) = {x[1] : x \in K}
  BY <1>1, StatesAre
<1> QED
  BY <1>1, <1>6, <1>7, <1>8, ForeverIs

-----------------------------------------------------------------------------
(* The operators of the three tools, on paths.                             *)

\* The legal states with a step into S.
LegalBack(t, S) == {p \in Invar : Successors(t, p) \cap S # {}}

LEMMA BackwardIs == \A t, S : BackwardImage(t, S) = LegalBack(t, S)
BY DEF BackwardImage, LegalBack, Successors

\* The steps of u are those of t through inputs of alpha.
Through(t, alpha, u) ==
    \A i \in InvarInput : \A p, q : <<p, i, q>> \in u <=> <<p, i, q>> \in t /\ i \in alpha

LEMMA ThroughAll == \A t : Through(t, Input, t)
BY FsmAssumption DEF Through

LEMMA ThroughThose == \A t, alpha : Through(t, alpha, {e \in t : e[2] \in alpha})
<1> SUFFICES ASSUME NEW t, NEW alpha PROVE Through(t, alpha, {e \in t : e[2] \in alpha})
  OBVIOUS
<1>1. \A p, i, q : <<p, i, q>>[2] = i
  OBVIOUS
<1> QED
  BY <1>1 DEF Through

LEMMA ExByIs ==
    ASSUME NEW t, NEW alpha, NEW u, Through(t, alpha, u), NEW S
    PROVE  ExBy(t, alpha, S) = LegalBack(u, S)
BY DEF Through, ExBy, LegalBack, Successors

LEMMA EuByIs ==
    ASSUME NEW t, NEW alpha, NEW u, Through(t, alpha, u),
           NEW phi \in SUBSET State, NEW psi \in SUBSET State
    PROVE  \A s \in Invar : s \in EuBy(t, alpha, phi, psi) <=> s \in Untils(u, State, phi, psi)
<1> DEFINE round == [Z \in SUBSET State |-> psi \cup (phi \cap ExBy(t, alpha, Z))]
           L == EuBy(t, alpha, phi, psi)
           U == Untils(u, State, phi, psi)
<1>1. \A Z \in SUBSET State : round[Z] = psi \cup (phi \cap LegalBack(u, Z))
  BY ExByIs
<1>2. round \in [SUBSET State -> SUBSET State]
  BY <1>1
<1>3. L = Fixpoint(round, {})
  BY DEF EuBy
<1> HIDE DEF round, L
<1>4. \A S, T \in SUBSET State : S \subseteq T => round[S] \subseteq round[T]
  BY <1>1 DEF LegalBack
<1>5. IsLeast(State, round, L)
  BY <1>2, <1>3, <1>4, FsmAssumption, FixpointLeast
<1>6. U \in SUBSET State /\ U = (State \cap State \cap psi) \cup StepsBack(u, phi, U)
  BY UntilUnfolds DEF Untils
<1> HIDE DEF U
<1>7. L \subseteq U
  <2>1. psi \cup (phi \cap LegalBack(u, U)) \subseteq U
    BY <1>6, FsmAssumption DEF LegalBack, StepsBack
  <2> QED
    BY <1>1, <1>5, <1>6, <2>1 DEF IsLeast
<1>8. Invar \cap U \subseteq L
  <2>1. L = psi \cup (phi \cap LegalBack(u, L))
    BY <1>1, <1>5 DEF IsLeast
  <2>2. Invar \cap State \cap State \cap psi \subseteq L
    BY <2>1
  <2>3. \A s \in Invar \cap State \cap phi : Successors(u, s) \cap L # {} => s \in L
    BY <2>1 DEF LegalBack
  <2>4. \A s \in Invar : Successors(u, s) \subseteq Invar
    BY SuccessorsIn
  <2> QED
    BY <2>2, <2>3, <2>4, UntilLeast DEF U
<1> QED
  BY <1>7, <1>8 DEF L, U

LEMMA EgByIs ==
    ASSUME NEW t, NEW alpha, NEW u, Through(t, alpha, u), NEW phi \in SUBSET State
    PROVE  EgBy(t, alpha, phi) = Forever(u, {}, phi)
<1> DEFINE round == [Z \in SUBSET State |-> phi \cap ExBy(t, alpha, Z)]
           L == EgBy(t, alpha, phi)
<1>1. \A Z \in SUBSET State : round[Z] = phi \cap LegalBack(u, Z)
  BY ExByIs
<1>2. round \in [SUBSET State -> SUBSET State]
  BY <1>1
<1>3. L = Fixpoint(round, State)
  BY DEF EgBy
<1> HIDE DEF round, L
<1>4. \A S, T \in SUBSET State : S \subseteq T => round[S] \subseteq round[T]
  BY <1>1 DEF LegalBack
<1>5. IsGreatest(State, round, L)
  BY <1>2, <1>3, <1>4, FsmAssumption, FixpointGreatest
<1>6. L \subseteq Forever(u, {}, phi)
  <2>1. L = phi \cap LegalBack(u, L)
    BY <1>1, <1>5 DEF IsGreatest
  <2>2. L \subseteq phi \cap Invar /\ \A p \in L : Successors(u, p) \cap L # {}
    BY <2>1 DEF LegalBack
  <2> QED
    BY <2>2, ForeverGreatest
<1>7. Forever(u, {}, phi) \subseteq L
  <2> DEFINE W == Forever(u, {}, phi)
  <2>1. W \in SUBSET State /\ W \subseteq phi \cap LegalBack(u, W)
    BY ForeverUnfolds DEF LegalBack
  <2> HIDE DEF W
  <2>2. W \subseteq L
    BY <1>1, <1>5, <2>1 DEF IsGreatest
  <2> QED
    BY <2>2 DEF W
<1> QED
  BY <1>6, <1>7 DEF L

\* Whatever leads to a fair state is fair.
LEMMA FairBackwards ==
    ASSUME NEW t, NEW J, NEW p \in Invar, Successors(t, p) \cap Forever(t, J, State) # {}
    PROVE  p \in Forever(t, J, State)
BY ForeverUnfolds, FsmAssumption

LEMMA FairEuIs ==
    ASSUME NEW t, NEW phi \in SUBSET State, NEW psi \in SUBSET State
    PROVE  \A s \in Reach(t) :
              s \in FairEu(t, Reach(t), phi, psi)
                <=> s \in Untils(t, Forever(t, Justice, State), phi, psi)
<1> DEFINE R == Reach(t)
           F == Forever(t, Justice, State)
           round == [X \in SUBSET State |->
                        (psi \cap F \cap R) \cup (phi \cap BackwardImage(t, X \cap F \cap R) \cap R)]
           L == FairEu(t, R, phi, psi)
           U == Untils(t, F, phi, psi)
<1>1. \A X \in SUBSET State :
         round[X] = (psi \cap F \cap R) \cup (phi \cap LegalBack(t, X \cap F \cap R) \cap R)
  BY BackwardIs
<1>2. L = Fixpoint(round, {})
  <2>1. FairOnes(t) = F
    BY FairEgIs DEF FairOnes
  <2> QED
    BY <2>1 DEF FairEu
<1>3. R \in SUBSET State /\ R \in SUBSET Invar /\ \A s \in R : Successors(t, s) \subseteq R
  BY ReachLegal, ReachClosed
<1>4. \A p \in Invar : Successors(t, p) \cap F # {} => p \in F
  BY FairBackwards
<1> HIDE DEF round, L, R, F
<1>5. round \in [SUBSET State -> SUBSET State]
  <2>1. \A X \in SUBSET State : round[X] \in SUBSET State
    BY <1>1, <1>3
  <2>2. round = [X \in SUBSET State |-> round[X]]
    BY DEF round
  <2> QED
    BY <2>1, <2>2
<1>6. \A S, T \in SUBSET State : S \subseteq T => round[S] \subseteq round[T]
  BY <1>1 DEF LegalBack
<1>7. IsLeast(State, round, L)
  BY <1>2, <1>5, <1>6, FsmAssumption, FixpointLeast
<1>8. U \in SUBSET State /\ U = (State \cap F \cap psi) \cup StepsBack(t, phi, U)
  BY UntilUnfolds DEF Untils
<1> HIDE DEF U
<1>9. L \subseteq U
  <2>1. (psi \cap F \cap R) \cup (phi \cap LegalBack(t, U \cap F \cap R) \cap R) \subseteq U
    BY <1>3, <1>8 DEF LegalBack, StepsBack
  <2>2. round[U] \subseteq U
    BY <1>1, <1>8, <2>1
  <2> QED
    BY <1>7, <1>8, <2>2 DEF IsLeast
<1>10. R \cap U \subseteq L
  <2>1. L = (psi \cap F \cap R) \cup (phi \cap LegalBack(t, L \cap F \cap R) \cap R)
    BY <1>1, <1>7 DEF IsLeast
  <2>2. L \subseteq F
    BY <1>4, <2>1 DEF LegalBack
  <2>3. R \cap State \cap F \cap psi \subseteq L
    BY <2>1
  <2>4. \A s \in R \cap State \cap phi : Successors(t, s) \cap L # {} => s \in L
    <3> SUFFICES ASSUME NEW s \in R, s \in phi, NEW q \in Successors(t, s), q \in L PROVE s \in L
      OBVIOUS
    <3>1. q \in L \cap F \cap R /\ s \in Invar
      BY <1>3, <2>2
    <3>2. s \in LegalBack(t, L \cap F \cap R)
      BY <3>1 DEF LegalBack
    <3> QED
      BY <2>1, <3>2
  <2> QED
    BY <1>3, <2>3, <2>4, UntilLeast DEF U
<1> QED
  BY <1>9, <1>10 DEF L, U, R, F

-----------------------------------------------------------------------------
(* The three tables.                                                       *)

LEMMA OperandSets ==
    ASSUME NEW type \in Types, NEW o \in Operands(type)
    PROVE  o[1] \in SUBSET State /\ o[2] \in SUBSET State
<1>1. CASE type \in {"EU", "EW", "AU", "AW"}
  BY <1>1, LogicsAssumption DEF Operands
<1>2. CASE type \notin {"EU", "EW", "AU", "AW"}
  BY <1>2, LogicsAssumption DEF Operands
<1> QED
  BY <1>1, <1>2

\* fairctl: on the reachable states.
LEMMA FairCtlIsMeant ==
    ASSUME NEW t, NEW type \in Types, NEW a \in SUBSET State, NEW b \in SUBSET State,
           NEW s \in Reach(t)
    PROVE  s \in FairCtl(t, Reach(t), type, a, b)
              <=> Satisfies(t, Justice, Forever(t, Justice, State), type, s, a, b, 0, 0)
<1> DEFINE R == Reach(t)
           F == Forever(t, Justice, State)
<1>1. R \in SUBSET State /\ R \in SUBSET Invar /\ \A p \in R : Successors(t, p) \subseteq R
  BY ReachLegal, ReachClosed
<1>2. F \in SUBSET State /\ \A p \in R : Successors(t, p) \cap F # {} => p \in F
  BY <1>1, FairBackwards, ForeverUnfolds
<1>3. \A S \in SUBSET State : s \in FairEx(t, R, S) <=> Successors(t, s) \cap F \cap S # {}
  <2>1. FairOnes(t) = F
    BY FairEgIs DEF FairOnes
  <2> HIDE DEF R, F
  <2>2. s \in R
    BY DEF R
  <2>3. \A S : FairEx(t, R, S) = LegalBack(t, S \cap F \cap R) \cap R
    BY <2>1, BackwardIs DEF FairEx
  <2> QED
    BY <1>1, <2>2, <2>3 DEF LegalBack
<1>4. \A p, q \in SUBSET State : s \in FairEu(t, R, p, q) <=> Until(t, F, s, p, q)
  BY <1>1, FairEuIs DEF Untils
<1>5. \A S \in SUBSET State : s \in FairEg(t, S) <=> s \in Forever(t, Justice, S)
  BY FairEgIs
<1>6. \A p, q : Unless(t, F, s, p, q) <=> ~Until(t, F, s, State \ q, State \ (p \cup q))
  BY <1>1, <1>2, UnlessIs DEF Untils
<1>7. s \in State /\ State \ a \in SUBSET State /\ State \ b \in SUBSET State /\ State \in SUBSET State
      /\ State \ (a \cup b) \in SUBSET State /\ State \ {} = State /\ a \cup {} = a
  BY <1>1
<1> SUFFICES s \in FairCtl(t, R, type, a, b) <=> Satisfies(t, Justice, F, type, s, a, b, 0, 0)
  OBVIOUS
<1> HIDE DEF R, F
<1>8. CASE type = "EX"
  BY <1>3, <1>8 DEF FairCtl, Satisfies
<1>9. CASE type = "EF"
  BY <1>4, <1>7, <1>9 DEF FairCtl, Satisfies
<1>10. CASE type = "EG"
  BY <1>5, <1>10 DEF FairCtl, Satisfies
<1>11. CASE type = "EU"
  BY <1>4, <1>11 DEF FairCtl, Satisfies
<1>12. CASE type = "EW"
  BY <1>4, <1>5, <1>12 DEF FairCtl, Satisfies
<1>13. CASE type = "AX"
  <2>1. Successors(t, s) \cap F \subseteq a <=> Successors(t, s) \cap F \cap (State \ a) = {}
    BY <1>2
  <2> QED
    BY <1>3, <1>7, <1>13, <2>1 DEF FairCtl, Satisfies
<1>14. CASE type = "AF"
  BY <1>5, <1>7, <1>14 DEF FairCtl, Satisfies
<1>15. CASE type = "AG"
  <2>1. Unless(t, F, s, a, {}) <=> ~Until(t, F, s, State, State \ a)
    BY <1>6, <1>7
  <2> QED
    BY <1>4, <1>7, <1>15, <2>1 DEF FairCtl, Satisfies
<1>16. CASE type = "AU"
  BY <1>4, <1>5, <1>6, <1>7, <1>16 DEF FairCtl, Satisfies
<1>17. CASE type = "AW"
  BY <1>4, <1>6, <1>7, <1>17 DEF FairCtl, Satisfies
<1> QED
  BY <1>8, <1>9, <1>10, <1>11, <1>12, <1>13, <1>14, <1>15, <1>16, <1>17 DEF Types

\* ctlk: on the legal states.
LEMMA CtlkIsMeant ==
    ASSUME NEW t, NEW type \in Types, NEW a \in SUBSET State, NEW b \in SUBSET State,
           NEW s \in Invar
    PROVE  s \in Ctlk(t, type, a, b) <=> Satisfies(t, {}, State, type, s, a, b, 0, 0)
<1>1. Through(t, Input, t)
  BY ThroughAll
<1>2. s \in State /\ Invar \in SUBSET State
  BY FsmAssumption
<1>3. \A S \in SUBSET State : s \in ExBy(t, Input, S) <=> Successors(t, s) \cap State \cap S # {}
  BY <1>1, ExByIs DEF LegalBack
<1>4. \A p, q \in SUBSET State : s \in EuBy(t, Input, p, q) <=> Until(t, State, s, p, q)
  BY <1>1, <1>2, EuByIs DEF Untils
<1>5. \A S \in SUBSET State : s \in EgBy(t, Input, S) <=> s \in Forever(t, {}, S)
  BY <1>1, EgByIs
<1>6. \A p, q : Unless(t, State, s, p, q) <=> ~Until(t, State, s, State \ q, State \ (p \cup q))
  BY <1>2, SuccessorsIn, UnlessIs DEF Untils
<1>7. State \ a \in SUBSET State /\ State \ b \in SUBSET State /\ State \in SUBSET State
      /\ State \ (a \cup b) \in SUBSET State /\ State \ {} = State /\ a \cup {} = a
  OBVIOUS
<1>8. CASE type = "EX"
  BY <1>3, <1>8 DEF Ctlk, Satisfies
<1>9. CASE type = "EF"
  BY <1>4, <1>7, <1>9 DEF Ctlk, Satisfies
<1>10. CASE type = "EG"
  BY <1>5, <1>10 DEF Ctlk, Satisfies
<1>11. CASE type = "EU"
  BY <1>4, <1>11 DEF Ctlk, Satisfies
<1>12. CASE type = "EW"
  BY <1>4, <1>5, <1>12 DEF Ctlk, Satisfies
<1>13. CASE type = "AX"
  <2>1. Successors(t, s) \cap State \subseteq a <=> Successors(t, s) \cap State \cap (State \ a) = {}
    OBVIOUS
  <2> QED
    BY <1>2, <1>3, <1>7, <1>13, <2>1 DEF Ctlk, Satisfies
<1>14. CASE type = "AF"
  BY <1>2, <1>5, <1>7, <1>14 DEF Ctlk, Satisfies
<1>15. CASE type = "AG"
  <2>1. Unless(t, State, s, a, {}) <=> ~Until(t, State, s, State, State \ a)
    BY <1>6, <1>7
  <2> QED
    BY <1>2, <1>4, <1>7, <1>15, <2>1 DEF Ctlk, Satisfies
<1>16. CASE type = "AU"
  BY <1>2, <1>4, <1>5, <1>6, <1>7, <1>16 DEF Ctlk, Satisfies
<1>17. CASE type = "AW"
  BY <1>2, <1>4, <1>6, <1>7, <1>17 DEF Ctlk, Satisfies
<1> QED
  BY <1>8, <1>9, <1>10, <1>11, <1>12, <1>13, <1>14, <1>15, <1>16, <1>17 DEF Types

\* Every formula of the fairctl and of the ctlk tool holds where the paths of the
\* relation say it does: the nested fixpoints, projections and dualities of
\* fairctl/eval.py:76-187 and ctlk/eval.py:151-230, for every relation, set of
\* constraints and operands.
THEOREM CtlToolsCorrect == Spec => []CtlToolsAreMeant
<1>1. CtlToolsAreMeant
  <2> DEFINE reach == Reach(trans)
             fair == Forever(trans, Justice, State)
  <2> SUFFICES ASSUME NEW type \in Types, NEW o \in Operands(type)
               PROVE  /\ FairCtl(trans, reach, type, o[1], o[2]) \cap reach =
                           {s \in reach : Satisfies(trans, Justice, fair, type, s, o[1], o[2], 0, 0)}
                      /\ Ctlk(trans, type, o[1], o[2]) \cap Invar =
                           {s \in Invar : Satisfies(trans, {}, State, type, s, o[1], o[2], 0, 0)}
    BY DEF CtlToolsAreMeant
  <2>1. o[1] \in SUBSET State /\ o[2] \in SUBSET State
    BY OperandSets
  <2>2. \A s \in reach : s \in FairCtl(trans, reach, type, o[1], o[2])
                            <=> Satisfies(trans, Justice, fair, type, s, o[1], o[2], 0, 0)
    BY <2>1, FairCtlIsMeant
  <2>3. \A s \in Invar : s \in Ctlk(trans, type, o[1], o[2])
                            <=> Satisfies(trans, {}, State, type, s, o[1], o[2], 0, 0)
    BY <2>1, CtlkIsMeant
  <2> QED
    BY <2>2, <2>3
<1> QED
  BY <1>1, PTL

-----------------------------------------------------------------------------
(* Maximal paths.                                                          *)

\* Where no step leads on.
DeadEnds(t) == {s \in State : Successors(t, s) = {}}

\* Only what the operands have in common with the legal states matters there,
\* and more states in them satisfy E[a U b] in more states.
LEMMA UntilGrows ==
    ASSUME NEW t, NEW a, NEW b, NEW x, NEW y,
           Invar \cap a \subseteq x, Invar \cap b \subseteq y
    PROVE  Invar \cap Untils(t, State, a, b) \subseteq Untils(t, State, x, y)
<1> DEFINE V == Untils(t, State, x, y)
<1>1. V = (State \cap State \cap y) \cup StepsBack(t, x, V)
  BY UntilUnfolds
<1> HIDE DEF V
<1>2. Invar \cap State \cap State \cap b \subseteq V
  BY <1>1
<1>3. \A s \in Invar \cap State \cap a : Successors(t, s) \cap V # {} => s \in V
  BY <1>1 DEF StepsBack
<1>4. \A s \in Invar : Successors(t, s) \subseteq Invar
  BY SuccessorsIn
<1> QED
  BY <1>2, <1>3, <1>4, UntilLeast DEF V

LEMMA UntilOr ==
    ASSUME NEW t, NEW a, NEW b, NEW c
    PROVE  \A s \in Invar : s \in Untils(t, State, a, b \cup c)
              <=> s \in Untils(t, State, a, b) \/ s \in Untils(t, State, a, c)
<1> DEFINE B == Untils(t, State, a, b)
           C == Untils(t, State, a, c)
<1>1. /\ B = (State \cap State \cap b) \cup StepsBack(t, a, B)
      /\ C = (State \cap State \cap c) \cup StepsBack(t, a, C)
  BY UntilUnfolds
<1>2. Invar \cap B \subseteq Untils(t, State, a, b \cup c)
  BY UntilGrows
<1>3. Invar \cap C \subseteq Untils(t, State, a, b \cup c)
  BY UntilGrows
<1> HIDE DEF B, C
<1>4. Invar \cap Untils(t, State, a, b \cup c) \subseteq B \cup C
  <2> DEFINE V == B \cup C
             d == b \cup c
  <2>1. Invar \cap State \cap State \cap d \subseteq V
    BY <1>1
  <2>2. \A s \in Invar \cap State \cap a : Successors(t, s) \cap V # {} => s \in V
    BY <1>1 DEF StepsBack
  <2>3. \A s \in Invar : Successors(t, s) \subseteq Invar
    BY SuccessorsIn
  <2> HIDE DEF V, d
  <2>4. Invar \cap Untils(t, State, a, d) \subseteq V
    BY <2>1, <2>2, <2>3, UntilLeast
  <2> QED
    BY <2>4 DEF V, d
<1> QED
  BY <1>2, <1>3, <1>4 DEF B, C

\* A way inside S to where one can stay in S for ever is part of such a path.
LEMMA UntilForever ==
    ASSUME NEW t, NEW S
    PROVE  Invar \cap Untils(t, State, S, Forever(t, {}, S)) \subseteq Forever(t, {}, S)
<1> DEFINE V == Forever(t, {}, S)
<1>1. \A s \in S \cap Invar : Successors(t, s) \cap V # {} => s \in V
  BY ForeverUnfolds
<1> HIDE DEF V
<1>2. \A s \in Invar : Successors(t, s) \subseteq Invar
  BY SuccessorsIn
<1>3. Invar \cap Untils(t, State, S, V) \subseteq V
  BY <1>1, <1>2, UntilLeast
<1> QED
  BY <1>3 DEF V

\* A maximal path inside S goes on for ever, or leads to a dead end.
LEMMA MaximalIs ==
    ASSUME NEW t, NEW S \in SUBSET State
    PROVE  \A s \in Invar : s \in Maximal(t, S)
              <=> s \in Forever(t, {}, S) \/ s \in Untils(t, State, S, S \cap DeadEnds(t))
<1> DEFINE E == Forever(t, {}, S)
           W == (S \cap DeadEnds(t)) \cup E
           c == Cardinality(State)
<1>1. Invar \in SUBSET State /\ c \in Nat
  BY FsmAssumption, FS_CardinalityType
<1>2. ASSUME NEW s \in Invar PROVE s \in Maximal(t, S) <=> s \in Untils(t, State, S, W)
  <2>1. ASSUME NEW w \in Paths(t, s, c)
        PROVE  /\ w[Len(w)] \in State /\ w[1] = s /\ Len(w) \in Nat /\ Len(w) >= 1
               /\ 1 \in 1..Len(w) /\ Len(w) \in 1..Len(w)
    <3>1. w \in PathsOf(t, s, c)
      BY <1>1, PathsAre
    <3> QED
      BY <1>1, <3>1 DEF PathsOf
  <2>2. ASSUME NEW w \in Paths(t, s, c)
        PROVE  /\ Holding(S, w, 1, Len(w))
               /\ w[Len(w)] \in E \/ Successors(t, w[Len(w)]) = {}
               <=> w[Len(w)] \in State \cap W /\ Holding(S, w, 1, Len(w) - 1)
    <3>1. \A k \in 1..Len(w) : k \in 1..(Len(w) - 1) \/ k = Len(w)
      BY <2>1
    <3>2. \A k \in 1..(Len(w) - 1) : k \in 1..Len(w)
      BY <2>1
    <3>3. E \subseteq S
      BY ForeverUnfolds
    <3> HIDE DEF E
    <3> QED
      BY <2>1, <3>1, <3>2, <3>3 DEF Holding, DeadEnds
  <2>3. s \in Untils(t, State, S, W) <=>
          \E w \in Paths(t, s, c) : w[Len(w)] \in State \cap W /\ Holding(S, w, 1, Len(w) - 1)
    <3> HIDE DEF W
    <3> QED
      BY <1>1, <2>1 DEF Untils, Until, Runs
  <2>4. s \in Maximal(t, S) <=>
          \E w \in Paths(t, s, c) : /\ Holding(S, w, 1, Len(w))
                                    /\ w[Len(w)] \in E \/ Successors(t, w[Len(w)]) = {}
    <3>1. \A w \in Paths(t, s, c) : Holding(S, w, 1, Len(w)) => s \in S
      BY <2>1 DEF Holding
    <3> QED
      BY <3>1 DEF Maximal
  <2> QED
    BY <2>2, <2>3, <2>4
<1>3. \A s \in Invar : s \in Untils(t, State, S, W)
         <=> s \in Untils(t, State, S, S \cap DeadEnds(t)) \/ s \in Untils(t, State, S, E)
  BY UntilOr
<1>4. \A s \in Invar : s \in Untils(t, State, S, E) <=> s \in E
  <2>1. Invar \cap Untils(t, State, S, E) \subseteq E
    BY UntilForever
  <2>2. E \in SUBSET State
    BY ForeverUnfolds
  <2>3. Untils(t, State, S, E) = (State \cap State \cap E) \cup StepsBack(t, S, Untils(t, State, S, E))
    BY UntilUnfolds
  <2> HIDE DEF E
  <2> QED
    BY <2>1, <2>2, <2>3
<1> QED
  BY <1>2, <1>3, <1>4

\* A way, or a path for ever, through a or b, with what lies in b counted as
\* arrived: it arrives in b through a, or stays in a.
LEMMA WeakUntil ==
    ASSUME NEW t, NEW a \in SUBSET State, NEW b \in SUBSET State
    PROVE  \A s \in Invar :
              \/ s \in Untils(t, State, a \cup b, b \cup (a \cap DeadEnds(t)))
              \/ s \in Forever(t, {}, a \cup b)
              <=> \/ s \in Untils(t, State, a, b)
                  \/ s \in Untils(t, State, a, a \cap DeadEnds(t))
                  \/ s \in Forever(t, {}, a)
<1> DEFINE D == a \cap DeadEnds(t)
           V == Untils(t, State, a, b) \cup Untils(t, State, a, D)
           c == a \cup b
           d == b \cup D
           G == Forever(t, {}, c)
<1>1. V = (State \cap (b \cup D)) \cup StepsBack(t, a, V)
  <2> DEFINE A == Untils(t, State, a, b)
             B == Untils(t, State, a, D)
  <2>1. /\ A = (State \cap State \cap b) \cup StepsBack(t, a, A)
        /\ B = (State \cap State \cap D) \cup StepsBack(t, a, B)
    BY UntilUnfolds
  <2>2. \A S, T : StepsBack(t, a, S \cup T) = StepsBack(t, a, S) \cup StepsBack(t, a, T)
    BY DEF StepsBack
  <2> HIDE DEF A, B, D
  <2>3. A \cup B = (State \cap (b \cup D)) \cup StepsBack(t, a, A \cup B)
    BY <2>1, <2>2
  <2> QED
    BY <2>3 DEF A, B
<1>2. Invar \cap Untils(t, State, a, b) \subseteq Untils(t, State, c, d)
  BY UntilGrows
<1>3. Invar \cap Untils(t, State, a, D) \subseteq Untils(t, State, c, d)
  BY UntilGrows
<1>4. \A s \in Invar : Successors(t, s) \subseteq Invar
  BY SuccessorsIn
<1>5. Invar \cap Untils(t, State, c, d) \subseteq V
  <2> HIDE DEF V
  <2>1. Invar \cap State \cap State \cap d \subseteq V
    BY <1>1
  <2>2. \A s \in Invar \cap State \cap c : Successors(t, s) \cap V # {} => s \in V
    BY <1>1 DEF StepsBack
  <2> HIDE DEF c, d
  <2> QED
    BY <1>4, <2>1, <2>2, UntilLeast
<1>6. G \in SUBSET State /\ \A p \in G : p \in c \cap Invar /\ Successors(t, p) \cap G # {}
  <2> HIDE DEF c
  <2> QED
    BY ForeverUnfolds
<1>7. Forever(t, {}, a) \subseteq G
  <2> DEFINE A == Forever(t, {}, a)
  <2>1. A \subseteq c \cap Invar /\ \A p \in A : Successors(t, p) \cap A # {}
    BY ForeverUnfolds
  <2> HIDE DEF A, c
  <2>2. A \subseteq Forever(t, {}, c)
    BY <2>1, ForeverGreatest
  <2> QED
    BY <2>2 DEF A
<1>8. G \subseteq V \cup Forever(t, {}, a)
  <2> DEFINE Z == G \ V
  <2> HIDE DEF G, V
  <2>1. Z \subseteq a \cap Invar
    BY <1>1, <1>6
  <2>2. ASSUME NEW p \in Z PROVE Successors(t, p) \cap Z # {}
    <3>1. PICK q \in Successors(t, p) : q \in G
      BY <1>6
    <3>2. p \in State \cap a
      BY <1>6, <2>1
    <3>3. q \notin V
      BY <1>1, <3>1, <3>2 DEF StepsBack
    <3> QED
      BY <3>1, <3>3
  <2> HIDE DEF Z
  <2>3. Z \subseteq Forever(t, {}, a)
    BY <2>1, <2>2, ForeverGreatest
  <2> QED
    BY <2>3 DEF Z
<1> HIDE DEF G
<1> QED
  BY <1>2, <1>3, <1>5, <1>7, <1>8 DEF G

\* arctl: on the legal states.
LEMMA ArctlIs ==
    ASSUME NEW t, NEW alpha, NEW u, Through(t, alpha, u),
           NEW type \in Types, NEW a \in SUBSET State, NEW b \in SUBSET State, NEW s \in Invar
    PROVE  s \in Arctl(t, alpha, type, a, b) <=> MeantBy(u, type, s, a, b)
<1>1. s \in State /\ Invar \in SUBSET State
  BY FsmAssumption
<1>2. \A S \in SUBSET State : s \in ExBy(t, alpha, S) <=> Successors(u, s) \cap State \cap S # {}
  BY ExByIs DEF LegalBack
<1>3. \A p, q \in SUBSET State : s \in EuBy(t, alpha, p, q) <=> s \in Untils(u, State, p, q)
  BY EuByIs
<1>4. \A S \in SUBSET State : s \in EgBy(t, alpha, S) <=> s \in Forever(u, {}, S)
  BY EgByIs
<1>5. \A p, q : Unless(u, State, s, p, q)
                   <=> s \notin Untils(u, State, State \ q, State \ (p \cup q))
  BY <1>1, SuccessorsIn, UnlessIs
<1>6. \A p, q : s \in Untils(u, State, p, q) <=> Until(u, State, s, p, q)
  BY <1>1 DEF Untils
<1>7. Stuck(t, alpha) \in SUBSET State /\ Invar \cap Stuck(t, alpha) = Invar \cap DeadEnds(u)
  <2>1. \A p \in Invar : p \in ExBy(t, alpha, State) <=> Successors(u, p) # {}
    BY ExByIs, SuccessorsIn DEF LegalBack
  <2> QED
    BY <1>1, <2>1 DEF Stuck, DeadEnds
\* A path to a state the code takes for a dead end is a way to one.
<1>8. \A S \in SUBSET State, c \in SUBSET State :
         s \in Untils(u, State, S, c \cap Stuck(t, alpha)) <=> s \in Untils(u, State, S, c \cap DeadEnds(u))
  <2> SUFFICES ASSUME NEW S \in SUBSET State, NEW c \in SUBSET State
               PROVE  s \in Untils(u, State, S, c \cap Stuck(t, alpha))
                         <=> s \in Untils(u, State, S, c \cap DeadEnds(u))
    OBVIOUS
  <2> DEFINE x == c \cap Stuck(t, alpha)
             y == c \cap DeadEnds(u)
  <2>1. Invar \cap x \subseteq y /\ Invar \cap y \subseteq x /\ Invar \cap S \subseteq S
    BY <1>7
  <2> HIDE DEF x, y
  <2>2. Invar \cap Untils(u, State, S, x) \subseteq Untils(u, State, S, y)
    BY <2>1, UntilGrows
  <2>3. Invar \cap Untils(u, State, S, y) \subseteq Untils(u, State, S, x)
    BY <2>1, UntilGrows
  <2> QED
    BY <2>2, <2>3 DEF x, y
<1>9. \A p, q, r : s \in Untils(u, State, p, q \cup r)
         <=> s \in Untils(u, State, p, q) \/ s \in Untils(u, State, p, r)
  BY UntilOr
<1>10. \A S \in SUBSET State : s \in Maximal(u, S)
          <=> s \in Forever(u, {}, S) \/ s \in Untils(u, State, S, S \cap DeadEnds(u))
  BY MaximalIs
\* A path inside S for ever, or to a dead end.
<1>11. \A S \in SUBSET State : s \in Maximal(u, S)
          <=> s \in EuBy(t, alpha, S, S \cap Stuck(t, alpha)) \/ s \in EgBy(t, alpha, S)
  BY <1>3, <1>4, <1>7, <1>8, <1>10
<1>12. State \ a \in SUBSET State /\ State \ b \in SUBSET State /\ State \in SUBSET State
       /\ State \ (a \cup b) \in SUBSET State /\ State \ {} = State /\ a \cup {} = a
  OBVIOUS
\* aau, between any two operands.
<1>13. \A p, q \in SUBSET State :
          s \in Aau(t, alpha, p, q) <=> Unless(u, State, s, p, q) /\ s \notin Maximal(u, State \ q)
  <2> SUFFICES ASSUME NEW p \in SUBSET State, NEW q \in SUBSET State
               PROVE  s \in Aau(t, alpha, p, q)
                         <=> Unless(u, State, s, p, q) /\ s \notin Maximal(u, State \ q)
    OBVIOUS
  <2> DEFINE S == State \ q
             x == State \ (p \cup q)
             y == S \cap Stuck(t, alpha)
             z == (State \ q) \cap ((State \ p) \cup Stuck(t, alpha))
  <2>1. z = x \cup y /\ S \in SUBSET State /\ z \in SUBSET State /\ y \in SUBSET State
    BY <1>7
  <2>2. s \in Aau(t, alpha, p, q) <=> ~(s \in EuBy(t, alpha, S, z) \/ s \in EgBy(t, alpha, S))
    BY <1>1 DEF Aau
  <2>3. Unless(u, State, s, p, q) <=> s \notin Untils(u, State, S, x)
    BY <1>5
  <2>4. s \in Maximal(u, S) <=> s \in EuBy(t, alpha, S, y) \/ s \in EgBy(t, alpha, S)
    BY <1>11, <2>1
  <2> HIDE DEF S, x, y, z
  <2>5. s \in EuBy(t, alpha, S, z) <=> s \in Untils(u, State, S, x) \/ s \in Untils(u, State, S, y)
    BY <1>3, <1>9, <2>1
  <2>6. s \in EuBy(t, alpha, S, y) <=> s \in Untils(u, State, S, y)
    BY <1>3, <2>1
  <2> QED
    BY <2>2, <2>3, <2>4, <2>5, <2>6 DEF S
<1>14. CASE type = "EX"
  BY <1>2, <1>14 DEF Arctl, MeantBy, Satisfies
<1>15. CASE type = "EF"
  BY <1>3, <1>6, <1>12, <1>15 DEF Arctl, MeantBy, Satisfies
<1>16. CASE type = "EG"
  <2> DEFINE y == a \cap Stuck(t, alpha)
             e == EgBy(t, alpha, a)
  <2>1. e \in SUBSET State /\ e = Forever(u, {}, a)
    BY EgByIs, ForeverUnfolds
  <2>2. y \cup e \in SUBSET State /\ y \in SUBSET State
    BY <1>7, <2>1
  <2>3. s \in Arctl(t, alpha, type, a, b) <=> s \in EuBy(t, alpha, a, y \cup e)
    BY <1>16 DEF Arctl
  <2>4. s \in Untils(u, State, a, Forever(u, {}, a)) => s \in Forever(u, {}, a)
    BY UntilForever
  <2>5. s \in Forever(u, {}, a) => s \in Untils(u, State, a, Forever(u, {}, a))
    BY <1>1, UntilUnfolds
  <2> HIDE DEF y, e
  <2>6. s \in EuBy(t, alpha, a, y \cup e) <=> s \in Untils(u, State, a, y) \/ s \in Untils(u, State, a, e)
    BY <1>3, <1>9, <2>2
  <2>7. s \in EuBy(t, alpha, a, y) <=> s \in Untils(u, State, a, y)
    BY <1>3, <2>2
  <2>8. s \in Maximal(u, a) <=> s \in EuBy(t, alpha, a, y) \/ s \in e
    BY <1>11 DEF y, e
  <2>9. MeantBy(u, type, s, a, b) <=> s \in Maximal(u, a)
    BY <1>16 DEF MeantBy
  <2> QED
    BY <2>1, <2>3, <2>4, <2>5, <2>6, <2>7, <2>8, <2>9
<1>17. CASE type = "EU"
  BY <1>3, <1>6, <1>17 DEF Arctl, MeantBy, Satisfies
<1>18. CASE type = "EW"
  <2> DEFINE c == a \cup b
             z == (State \ (State \ (a \cup b)))
                     \cap ((State \ (State \ b)) \cup Stuck(t, alpha))
             d == b \cup (a \cap DeadEnds(u))
  <2>1. State \ (State \ (a \cup b)) = c /\ State \ (State \ b) = b /\ c \in SUBSET State
    OBVIOUS
  <2>2. s \in Arctl(t, alpha, type, a, b) <=> s \in EuBy(t, alpha, c, z) \/ s \in EgBy(t, alpha, c)
    <3>1. s \in Aau(t, alpha, State \ b, State \ (a \cup b))
             <=> ~(s \in EuBy(t, alpha, c, z) \/ s \in EgBy(t, alpha, c))
      BY <1>1, <2>1 DEF Aau
    <3> QED
      BY <1>1, <1>18, <3>1 DEF Arctl
  <2>3. z \in SUBSET State /\ Invar \cap z \subseteq d /\ Invar \cap d \subseteq z
    BY <1>7, <2>1
  <2>4. s \in EuBy(t, alpha, c, z) <=> s \in Untils(u, State, c, d)
    <3> HIDE DEF c, z, d
    <3>1. s \in EuBy(t, alpha, c, z) <=> s \in Untils(u, State, c, z)
      BY <1>3, <2>1, <2>3
    <3>2. Invar \cap c \subseteq c
      OBVIOUS
    <3>3. Invar \cap Untils(u, State, c, z) \subseteq Untils(u, State, c, d)
      BY <2>3, <3>2, UntilGrows
    <3>4. Invar \cap Untils(u, State, c, d) \subseteq Untils(u, State, c, z)
      BY <2>3, <3>2, UntilGrows
    <3> QED
      BY <3>1, <3>3, <3>4
  <2>5. s \in EgBy(t, alpha, c) <=> s \in Forever(u, {}, c)
    BY <1>4, <2>1
  <2>6. s \in Untils(u, State, c, d) \/ s \in Forever(u, {}, c)
          <=> \/ s \in Untils(u, State, a, b)
              \/ s \in Untils(u, State, a, a \cap DeadEnds(u))
              \/ s \in Forever(u, {}, a)
    BY WeakUntil
  <2>7. MeantBy(u, type, s, a, b) <=> Until(u, State, s, a, b) \/ s \in Maximal(u, a)
    BY <1>18 DEF MeantBy
  <2> HIDE DEF c, z, d
  <2> QED
    BY <1>6, <1>10, <2>2, <2>4, <2>5, <2>6, <2>7
<1>19. CASE type = "AX"
  <2>1. \A S \in SUBSET State : s \in ExBy(t, alpha, S) <=> Successors(u, s) \cap S # {}
    BY <1>2, SuccessorsIn
  <2>2. Successors(u, s) \subseteq State
    BY SuccessorsIn
  <2> QED
    BY <1>12, <1>19, <2>1, <2>2 DEF Arctl, MeantBy
<1>20. CASE type = "AF"
  BY <1>1, <1>11, <1>12, <1>20 DEF Arctl, MeantBy
<1>21. CASE type = "AG"
  <2>1. Unless(u, State, s, a, {}) <=> s \notin Untils(u, State, State, State \ a)
    BY <1>5, <1>12
  <2> QED
    BY <1>1, <1>3, <1>12, <1>21, <2>1 DEF Arctl, MeantBy, Satisfies
<1>22. CASE type = "AU"
  BY <1>13, <1>22 DEF Arctl, MeantBy
<1>23. CASE type = "AW"
  BY <1>1, <1>3, <1>5, <1>12, <1>23 DEF Arctl, MeantBy, Satisfies
<1> QED
  BY <1>14, <1>15, <1>16, <1>17, <1>18, <1>19, <1>20, <1>21, <1>22, <1>23 DEF Types

\* Every ARCTL formula holds where the maximal paths through the inputs of its
\* action formula say it does, those that end in a dead end included, for every
\* relation, action formula and operands (arctl/eval.py:120-219).
THEOREM ArctlCorrect == Spec => []ArctlIsMeant
<1>1. ArctlIsMeant
  <2> SUFFICES ASSUME NEW alpha \in Alphas, NEW type \in Types, NEW o \in Operands(type)
               PROVE  Arctl(trans, alpha, type, o[1], o[2]) \cap Invar =
                         {s \in Invar : MeantBy({e \in trans : e[2] \in alpha}, type, s, o[1], o[2])}
    BY DEF ArctlIsMeant
  <2>1. o[1] \in SUBSET State /\ o[2] \in SUBSET State
    BY OperandSets
  <2>2. Through(trans, alpha, {e \in trans : e[2] \in alpha})
    BY ThroughThose
  <2>3. \A s \in Invar : s \in Arctl(trans, alpha, type, o[1], o[2])
                            <=> MeantBy({e \in trans : e[2] \in alpha}, type, s, o[1], o[2])
    BY <2>1, <2>2, ArctlIs
  <2> QED
    BY <2>3
<1> QED
  BY <1>1, PTL

=============================================================================
