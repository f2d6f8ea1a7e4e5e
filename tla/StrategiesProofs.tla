-------------------------- MODULE StrategiesProofs ---------------------------
(***************************************************************************)
(* Proofs about what agents know and what groups can enforce.              *)
(*                                                                         *)
(* Knowledge: common ignorance, a fixpoint, is a chain of states each of   *)
(* which looks to some agent like the one before.                          *)
(*                                                                         *)
(* Strategies: the fixpoints of all the tools are those of a game on a     *)
(* finite set of positions, states or pairs (Win).                         *)
(*   - In the outcome of one strategy, Win is what all fair paths satisfy  *)
(*     (WinMeans, from StaysMeans and EvadesMeans), and so is what atlkPO  *)
(*     computes of the moves of a uniform strategy (PlayedMeans).          *)
(*   - When strategies can be mixed, one of them wins wherever any does    *)
(*     (WinPlayed): the strategy of FullEnforced. What atlkFO and atl      *)
(*     compute of the universal operators is the complement (FullDual).    *)
(*   - Moves that do not win are not needed by those that do (WinHere), so *)
(*     filters and splits lose no uniform strategy (SearchInv).            *)
(***************************************************************************)
EXTENDS Strategies, ImageProofs

\* The system stays one of those tried, with its reachable states.
SystemInv == trans \in Systems /\ reach = Reach(trans) /\ justice \in Fairnesses

LEMMA SystemKept == Spec => []SystemInv
<1>1. Init => SystemInv
  BY DEF Init, SystemInv
<1>2. SystemInv /\ [Next]_vars => SystemInv'
  BY DEF SystemInv, Next, vars, sysVars, Request, EvaluateFull, Start_, StartSF, StartFSF, StartFS,
         EvaluateSF, EvaluateFSF, EvaluateFS, ReturnFS, Taken
<1> QED
  BY <1>1, <1>2, PTL DEF Spec

LEMMA ReachInside == SystemInv => reach \in SUBSET Invar /\ reach \in SUBSET State
  BY ReachLegal, FsmAssumption DEF SystemInv

-----------------------------------------------------------------------------
(* What agents know.                                                       *)

\* Agent n does not tell p from q.
Looks(n, p, q) == Sees[n][p] = Sees[n][q]

LEMMA SightIs == \A G, p, q : Sight(G, p) = Sight(G, q) <=> \A n \in G : Looks(n, p, q)
<1> SUFFICES ASSUME NEW G, NEW p, NEW q
             PROVE  Sight(G, p) = Sight(G, q) <=> \A n \in G : Looks(n, p, q)
  OBVIOUS
<1>1. \A s : Sight(G, s) = [a \in G |-> Sees[a][s]]
  BY DEF Sight
<1>2. ASSUME Sight(G, p) = Sight(G, q), NEW n \in G PROVE Looks(n, p, q)
  BY <1>1, <1>2 DEF Looks
<1>3. ASSUME \A n \in G : Looks(n, p, q) PROVE Sight(G, p) = Sight(G, q)
  BY <1>1, <1>3 DEF Looks
<1> QED
  BY <1>2, <1>3

LEMMA NdIs ==
    ASSUME SystemInv, NEW G, NEW phi
    PROVE  Nd(G, phi) = {p \in reach : \E q \in phi \cap reach : \A n \in G : Looks(n, p, q)}
  BY ReachInside, SightIs DEF Nd, EquivalentStates

LEMMA NeIs ==
    ASSUME SystemInv, NEW G, NEW phi
    PROVE  Ne(G, phi) = {p \in reach : \E n \in G : \E q \in phi \cap reach : Looks(n, p, q)}
<1>1. \A n : Nk(n, phi) = {p \in reach : \E q \in phi \cap reach : Looks(n, p, q)}
  BY NdIs DEF Nk
<1> QED
  BY <1>1 DEF Ne

\* A chain ends in phi, each of its states looking to some agent like the one
\* before.
IsChain(G, phi, w, last) ==
    w[last] \in phi /\ \A k \in 1..last : \E n \in G : Looks(n, w[k - 1], w[k])

\* The states a chain of at most k steps starts from.
Chained(G, phi, k) ==
    {p \in reach : \E last \in 1..k : \E w \in [0..last -> reach] : w[0] = p /\ IsChain(G, phi, w, last)}

LEMMA ChainStep ==
    ASSUME SystemInv, NEW G, NEW phi, NEW k \in Nat
    PROVE  Chained(G, phi, k + 1) = Ne(G, Chained(G, phi, k) \cup phi)
<1>1. ASSUME NEW p \in Chained(G, phi, k + 1) PROVE p \in Ne(G, Chained(G, phi, k) \cup phi)
  <2>0. PICK last \in 1..(k + 1) : \E w \in [0..last -> reach] : w[0] = p /\ IsChain(G, phi, w, last)
    BY DEF Chained
  <2>1. PICK w \in [0..last -> reach] : p \in reach /\ w[0] = p /\ IsChain(G, phi, w, last)
    BY <2>0 DEF Chained
  <2>2. PICK n \in G : Looks(n, p, w[1])
    BY <2>1 DEF IsChain
  <2>3. w[1] \in reach
    BY <2>1
  <2>4. CASE last = 1
    BY <2>1, <2>2, <2>3, <2>4, NeIs DEF IsChain
  <2>5. CASE last # 1
    <3> DEFINE v == [j \in 0..(last - 1) |-> w[j + 1]]
    <3>1. v \in [0..(last - 1) -> reach] /\ last - 1 \in 1..k /\ v[0] = w[1]
      BY <2>1, <2>5
    <3>2. v[last - 1] = w[last] /\ \A j \in 1..(last - 1) : v[j - 1] = w[(j + 1) - 1] /\ v[j] = w[j + 1]
      BY <2>1, <2>5
    <3>3. \A j \in 1..(last - 1) : j + 1 \in 1..last
      BY <2>1
    <3> HIDE DEF v
    <3>4. IsChain(G, phi, v, last - 1)
      BY <2>1, <3>2, <3>3 DEF IsChain
    <3>5. w[1] \in Chained(G, phi, k)
      BY <2>3, <3>1, <3>4 DEF Chained
    <3> QED
      BY <2>1, <2>2, <2>3, <3>5, NeIs
  <2> QED
    BY <2>4, <2>5
<1>2. ASSUME NEW p \in Ne(G, Chained(G, phi, k) \cup phi) PROVE p \in Chained(G, phi, k + 1)
  <2>1. PICK n \in G, q \in (Chained(G, phi, k) \cup phi) \cap reach : p \in reach /\ Looks(n, p, q)
    BY NeIs
  <2>2. CASE q \in phi
    <3> DEFINE v == [j \in 0..1 |-> IF j = 0 THEN p ELSE q]
    <3>1. v \in [0..1 -> reach] /\ v[0] = p /\ v[1] = q
      BY <2>1
    <3> HIDE DEF v
    <3>2. \A j \in 1..1 : j = 1 /\ j - 1 = 0
      OBVIOUS
    <3>3. IsChain(G, phi, v, 1)
      BY <2>1, <2>2, <3>1, <3>2 DEF IsChain
    <3>4. 1 \in 1..(k + 1)
      OBVIOUS
    <3> QED
      BY <2>1, <3>1, <3>3, <3>4 DEF Chained
  <2>3. CASE q \in Chained(G, phi, k)
    <3>0. PICK last \in 1..k : \E w \in [0..last -> reach] : w[0] = q /\ IsChain(G, phi, w, last)
      BY <2>3 DEF Chained
    <3>1. PICK w \in [0..last -> reach] : w[0] = q /\ IsChain(G, phi, w, last)
      BY <3>0
    <3> DEFINE v == [j \in 0..(last + 1) |-> IF j = 0 THEN p ELSE w[j - 1]]
    <3>2. v \in [0..(last + 1) -> reach] /\ v[0] = p /\ v[1] = q /\ last + 1 \in 1..(k + 1)
      BY <2>1, <3>1
    <3>3. v[last + 1] = w[last] /\ \A j \in 2..(last + 1) : v[j - 1] = w[(j - 1) - 1] /\ v[j] = w[j - 1]
      BY <3>1
    <3>4. \A j \in 1..(last + 1) : (j = 1 /\ j - 1 = 0) \/ (j \in 2..(last + 1) /\ j - 1 \in 1..last)
      BY <3>1
    <3> HIDE DEF v
    <3>5. IsChain(G, phi, v, last + 1)
      BY <2>1, <3>1, <3>2, <3>3, <3>4 DEF IsChain
    <3> QED
      BY <2>1, <3>2, <3>5 DEF Chained
  <2> QED
    BY <2>1, <2>2, <2>3
<1> QED
  BY <1>1, <1>2

\* Common ignorance is a chain: no longer one is needed than there are states.
LEMMA NcIs ==
    ASSUME SystemInv, NEW G, NEW phi \in SUBSET State
    PROVE  Nc(G, phi) = Chained(G, phi, Cardinality(State))
<1> DEFINE round == [Z \in SUBSET State |-> Ne(G, Z \cup phi)]
           L == Nc(G, phi)
           C == Cardinality(State)
           N == [k \in Nat |-> Chained(G, phi, k)]
<1>0. reach \in SUBSET State /\ IsFiniteSet(State) /\ C \in Nat
  BY ReachInside, FsmAssumption, FS_CardinalityType
<1>1. \A Z : Ne(G, Z) \in SUBSET State
  BY <1>0, NeIs
<1>2. round \in [SUBSET State -> SUBSET State]
  BY <1>1
<1>3. \A S, T \in SUBSET State : S \subseteq T => round[S] \subseteq round[T]
  BY NeIs
<1>4. IsLeast(State, round, L)
  BY <1>0, <1>2, <1>3, FixpointLeast DEF Nc
<1>5. \A k \in Nat : N[k] \in SUBSET State /\ N[k + 1] = round[N[k]] /\ N[k] \subseteq N[k + 1]
  <2> SUFFICES ASSUME NEW k \in Nat
               PROVE  N[k] \in SUBSET State /\ N[k + 1] = round[N[k]] /\ N[k] \subseteq N[k + 1]
    OBVIOUS
  <2>1. N[k] = Chained(G, phi, k) /\ N[k + 1] = Chained(G, phi, k + 1)
    OBVIOUS
  <2>2. N[k] \in SUBSET State
    BY <1>0, <2>1 DEF Chained
  <2>3. \A j \in 1..k : j \in 1..(k + 1)
    OBVIOUS
  <2>4. Chained(G, phi, k) \subseteq Chained(G, phi, k + 1)
    BY <2>3 DEF Chained
  <2>5. round[N[k]] = Ne(G, N[k] \cup phi)
    BY <2>2
  <2> QED
    BY <2>1, <2>2, <2>4, <2>5, ChainStep
<1>6. N[C + 1] = N[C]
  <2>1. N \in [Nat -> SUBSET State]
    BY <1>5
  <2>2. \A k \in Nat : N[k + 1] = round[N[k]] /\ N[k] \subseteq N[k + 1]
    BY <1>5
  <2> HIDE DEF N, round
  <2> QED
    BY <1>0, <1>2, <2>1, <2>2, Saturates
<1> HIDE DEF round, N, L
<1>7. L \subseteq N[C]
  BY <1>0, <1>4, <1>5, <1>6 DEF IsLeast
<1>8. \A k \in Nat : N[k] \subseteq L
  <2> DEFINE S == {k \in Nat : N[k] \subseteq L}
  <2>1. ASSUME NEW k \in Nat, \A j \in Nat : j < k => j \in S PROVE k \in S
    <3>1. CASE k = 0
      BY <3>1 DEF N, Chained
    <3>2. CASE k # 0
      <4>1. k - 1 \in Nat /\ (k - 1) + 1 = k /\ N[k - 1] \subseteq L
        BY <2>1, <3>2
      <4>2. round[N[k - 1]] \subseteq round[L]
        BY <1>3, <1>4, <1>5, <4>1 DEF IsLeast
      <4> QED
        BY <1>4, <1>5, <4>1, <4>2 DEF IsLeast
    <3> QED
      BY <3>1, <3>2
  <2>2. S \in SUBSET Nat
    OBVIOUS
  <2> HIDE DEF S
  <2>3. S = Nat
    BY <2>1, <2>2, Induction
  <2> QED
    BY <2>3 DEF S
<1>9. L = N[C] /\ N[C] = Chained(G, phi, C)
  BY <1>0, <1>7, <1>8 DEF N
<1> QED
  BY <1>9 DEF L

\* What ctlk computes is what agents do not know: Nc, a fixpoint, is a chain of
\* states that look alike, Nd compares what the whole group sees
\* (ctlk/eval.py:184-241), for every system, group and formula.
THEOREM KnowledgeCorrect == Spec => []KnowledgeIsMeant
<1>1. SystemInv => KnowledgeIsMeant
  <2> SUFFICES ASSUME SystemInv, NEW s \in Specs
               PROVE  /\ Nc(s.group, s.a) = Chained(s.group, s.a, Cardinality(State))
                      /\ Nd(s.group, s.a) =
                            {p \in reach : \E q \in s.a \cap reach :
                                \A n \in s.group : Looks(n, p, q)}
    BY DEF KnowledgeIsMeant, Chained, IsChain, Looks
  <2>1. s.a \in SUBSET State
    BY StrategiesAssumption
  <2> QED
    BY <2>1, NcIs, NdIs
<1> QED
  BY <1>1, SystemKept, PTL

-----------------------------------------------------------------------------
(* The fixpoints of the strategic operators, for any finite set X of       *)
(* positions and any monotone Q: Q[Y] has the positions from which one move *)
(* leads to Y.                                                              *)

Game(X, Q) ==
    /\ IsFiniteSet(X)
    /\ Q \in [SUBSET X -> SUBSET X]
    /\ \A S, T \in SUBSET X : S \subseteq T => Q[S] \subseteq Q[T]

\* From where one can stay in B until M.
StayStep(Q, B, M, Y) == B \cap (M \cup Q[Y])
Stays(X, Q, B, M) == Fixpoint([Y \in SUBSET X |-> StayStep(Q, B, M, Y)], X)

\* From where one can stay in B and come to M, or, after some last time, stay
\* for ever in some set of NN.
EvadeStep(X, Q, B, M, NN, Z) ==
    B \cap (M \cup UNION {Q[Stays(X, Q, B \cap (Z \cup n), M)] : n \in NN})
Evades(X, Q, B, M, NN) == Fixpoint([Z \in SUBSET X |-> EvadeStep(X, Q, B, M, NN, Z)], {})

LEMMA StaysIs ==
    ASSUME NEW X, NEW Q, Game(X, Q), NEW B \in SUBSET X, NEW M
    PROVE  LET S == Stays(X, Q, B, M)
           IN /\ S \in SUBSET X
              /\ S = StayStep(Q, B, M, S)
              /\ \A W \in SUBSET X : W \subseteq StayStep(Q, B, M, W) => W \subseteq S
<1> DEFINE round == [Y \in SUBSET X |-> StayStep(Q, B, M, Y)]
<1>1. round \in [SUBSET X -> SUBSET X]
  BY DEF Game, StayStep
<1>2. \A S, T \in SUBSET X : S \subseteq T => round[S] \subseteq round[T]
  BY DEF Game, StayStep
<1>3. \A S \in SUBSET X : round[S] = StayStep(Q, B, M, S)
  OBVIOUS
<1>4. IsFiniteSet(X)
  BY DEF Game
<1>5. Stays(X, Q, B, M) = Fixpoint(round, X)
  BY DEF Stays
<1> HIDE DEF round
<1>6. IsGreatest(X, round, Stays(X, Q, B, M))
  BY <1>1, <1>2, <1>4, <1>5, FixpointGreatest
<1> QED
  BY <1>3, <1>6 DEF IsGreatest

\* More room, more to come to, or more moves.
LEMMA StaysGrows ==
    ASSUME NEW X, NEW Q, NEW P, Game(X, Q), Game(X, P),
           NEW B \in SUBSET X, NEW C \in SUBSET X, NEW M, NEW N,
           B \subseteq C, B \cap M \subseteq N, \A Y \in SUBSET X : B \cap Q[Y] \subseteq P[Y]
    PROVE  Stays(X, Q, B, M) \subseteq Stays(X, P, C, N)
<1> DEFINE S == Stays(X, Q, B, M)
<1>1. S \in SUBSET X /\ S = StayStep(Q, B, M, S)
  BY StaysIs
<1>2. \A W \in SUBSET X : W \subseteq StayStep(P, C, N, W) => W \subseteq Stays(X, P, C, N)
  BY StaysIs
<1> HIDE DEF S
<1>3. StayStep(Q, B, M, S) \subseteq StayStep(P, C, N, S)
  BY <1>1 DEF StayStep
<1> QED
  BY <1>1, <1>2, <1>3 DEF S

LEMMA EvadesIs ==
    ASSUME NEW X, NEW Q, Game(X, Q), NEW B \in SUBSET X, NEW M, NEW NN
    PROVE  LET W == Evades(X, Q, B, M, NN)
           IN /\ W \in SUBSET X
              /\ W = EvadeStep(X, Q, B, M, NN, W)
              /\ \A Z \in SUBSET X : EvadeStep(X, Q, B, M, NN, Z) \subseteq Z => W \subseteq Z
<1> DEFINE round == [Z \in SUBSET X |-> EvadeStep(X, Q, B, M, NN, Z)]
<1>1. round \in [SUBSET X -> SUBSET X]
  BY DEF EvadeStep
<1>2. ASSUME NEW S \in SUBSET X, NEW T \in SUBSET X, S \subseteq T
      PROVE  EvadeStep(X, Q, B, M, NN, S) \subseteq EvadeStep(X, Q, B, M, NN, T)
  <2>1. \A n : /\ Stays(X, Q, B \cap (S \cup n), M) \in SUBSET X
               /\ Stays(X, Q, B \cap (T \cup n), M) \in SUBSET X
               /\ Stays(X, Q, B \cap (S \cup n), M) \subseteq Stays(X, Q, B \cap (T \cup n), M)
    BY <1>2, StaysIs, StaysGrows
  <2>2. \A n : Q[Stays(X, Q, B \cap (S \cup n), M)] \subseteq Q[Stays(X, Q, B \cap (T \cup n), M)]
    BY <2>1 DEF Game
  <2> DEFINE A(n) == Q[Stays(X, Q, B \cap (S \cup n), M)]
             D(n) == Q[Stays(X, Q, B \cap (T \cup n), M)]
  <2>3. \A n : A(n) \subseteq D(n)
    BY <2>2
  <2> HIDE DEF A, D
  <2>4. B \cap (M \cup UNION {A(n) : n \in NN}) \subseteq B \cap (M \cup UNION {D(n) : n \in NN})
    BY <2>3
  <2> QED
    BY <2>4 DEF EvadeStep, A, D
<1>3. \A S \in SUBSET X : round[S] = EvadeStep(X, Q, B, M, NN, S)
  OBVIOUS
<1>4. IsFiniteSet(X)
  BY DEF Game
<1>5. Evades(X, Q, B, M, NN) = Fixpoint(round, {})
  BY DEF Evades
<1>6. \A S, T \in SUBSET X : S \subseteq T => round[S] \subseteq round[T]
  BY <1>2, <1>3
<1> HIDE DEF round
<1>7. IsLeast(X, round, Evades(X, Q, B, M, NN))
  BY <1>1, <1>4, <1>5, <1>6, FixpointLeast
<1> QED
  BY <1>3, <1>7 DEF IsLeast

\* What one can stay in for ever, in a round that changes nothing, is part of it.
LEMMA EvadesBack ==
    ASSUME NEW X, NEW Q, Game(X, Q), NEW B \in SUBSET X, NEW M, NEW NN
    PROVE  LET W == Evades(X, Q, B, M, NN)
           IN /\ W \subseteq StayStep(Q, B, M, W)
              /\ \A n \in NN : Stays(X, Q, B \cap (W \cup n), M) \subseteq W
<1> DEFINE W == Evades(X, Q, B, M, NN)
           S(n) == Stays(X, Q, B \cap (W \cup n), M)
<1>1. W \in SUBSET X /\ W = EvadeStep(X, Q, B, M, NN, W)
  BY EvadesIs
<1>2. \A n : S(n) \in SUBSET X /\ S(n) = StayStep(Q, B \cap (W \cup n), M, S(n))
  BY <1>1, StaysIs
<1>3. W = B \cap (M \cup UNION {Q[S(n)] : n \in NN})
  BY <1>1 DEF EvadeStep
<1> HIDE DEF W, S
<1>4. ASSUME NEW n \in NN PROVE S(n) \subseteq W
  <2>1. S(n) \subseteq B \cap (M \cup Q[S(n)])
    BY <1>2 DEF StayStep
  <2> QED
    BY <2>1, <1>3
<1>5. \A n \in NN : Q[S(n)] \subseteq Q[W]
  BY <1>1, <1>2, <1>4 DEF Game
<1>6. W \subseteq StayStep(Q, B, M, W)
  BY <1>3, <1>5 DEF StayStep
<1> QED
  BY <1>4, <1>6 DEF W, S

LEMMA EvadesGrows ==
    ASSUME NEW X, NEW Q, NEW P, Game(X, Q), Game(X, P),
           NEW B \in SUBSET X, NEW C \in SUBSET X, NEW M, NEW N, NEW NN,
           B \subseteq C, B \cap M \subseteq N, \A Y \in SUBSET X : B \cap Q[Y] \subseteq P[Y]
    PROVE  Evades(X, Q, B, M, NN) \subseteq Evades(X, P, C, N, NN)
<1> DEFINE W == Evades(X, P, C, N, NN)
           S(n) == Stays(X, Q, B \cap (W \cup n), M)
           T(n) == Stays(X, P, C \cap (W \cup n), N)
<1>1. W \in SUBSET X /\ W = EvadeStep(X, P, C, N, NN, W)
  BY EvadesIs
<1>2. \A n : S(n) \in SUBSET X /\ T(n) \in SUBSET X
  <2> TAKE n
  <2> DEFINE BW == B \cap (W \cup n)
             CW == C \cap (W \cup n)
  <2>1. BW \in SUBSET X /\ CW \in SUBSET X
    OBVIOUS
  <2> HIDE DEF BW, CW
  <2>2. Stays(X, Q, BW, M) \in SUBSET X /\ Stays(X, P, CW, N) \in SUBSET X
    BY <2>1, StaysIs
  <2> HIDE DEF W
  <2> QED
    BY <2>2 DEF BW, CW
<1>3. \A n : S(n) \subseteq T(n)
  <2> TAKE n
  <2>1. B \cap (W \cup n) \in SUBSET X /\ C \cap (W \cup n) \in SUBSET X
        /\ B \cap (W \cup n) \subseteq C \cap (W \cup n) /\ (B \cap (W \cup n)) \cap M \subseteq N
        /\ \A Y \in SUBSET X : (B \cap (W \cup n)) \cap Q[Y] \subseteq P[Y]
    BY <1>1
  <2> QED
    BY <2>1, StaysGrows
<1>4. W = C \cap (N \cup UNION {P[T(n)] : n \in NN})
  BY <1>1 DEF EvadeStep
<1>5. EvadeStep(X, Q, B, M, NN, W) = B \cap (M \cup UNION {Q[S(n)] : n \in NN})
  BY DEF EvadeStep
<1>6. \A Z \in SUBSET X : EvadeStep(X, Q, B, M, NN, Z) \subseteq Z => Evades(X, Q, B, M, NN) \subseteq Z
  BY EvadesIs
<1> HIDE DEF W, S, T
<1>7. \A n \in NN : B \cap Q[S(n)] \subseteq P[T(n)]
  BY <1>2, <1>3 DEF Game
<1>8. EvadeStep(X, Q, B, M, NN, W) \subseteq W
  BY <1>4, <1>5, <1>7
<1> QED
  BY <1>1, <1>6, <1>8 DEF W

\* In fewer positions, as long as all those that win are left.
LEMMA StaysHere ==
    ASSUME NEW X, NEW Q, NEW P, Game(X, Q), Game(X, P),
           NEW B \in SUBSET X, NEW C \in SUBSET B, NEW M,
           Stays(X, Q, B, M) \subseteq C, \A Y \in SUBSET X : C \cap Q[Y] = C \cap P[Y]
    PROVE  Stays(X, P, C, M) = Stays(X, Q, B, M)
<1> DEFINE S == Stays(X, Q, B, M)
<1>1. S \in SUBSET X /\ S = StayStep(Q, B, M, S)
  BY StaysIs
<1>2. \A W \in SUBSET X : W \subseteq StayStep(P, C, M, W) => W \subseteq Stays(X, P, C, M)
  BY StaysIs
<1>3. S \subseteq C
  OBVIOUS
<1> HIDE DEF S
<1>4. S \subseteq StayStep(P, C, M, S)
  BY <1>1, <1>3 DEF StayStep
<1>5. S \subseteq Stays(X, P, C, M)
  BY <1>1, <1>2, <1>4
<1>6. Stays(X, P, C, M) \subseteq Stays(X, Q, B, M)
  BY StaysGrows
<1> QED
  BY <1>5, <1>6 DEF S

LEMMA EvadesHere ==
    ASSUME NEW X, NEW Q, NEW P, Game(X, Q), Game(X, P),
           NEW B \in SUBSET X, NEW C \in SUBSET B, NEW M, NEW NN,
           Evades(X, Q, B, M, NN) \subseteq C, \A Y \in SUBSET X : C \cap Q[Y] = C \cap P[Y]
    PROVE  Evades(X, P, C, M, NN) = Evades(X, Q, B, M, NN)
<1> DEFINE W == Evades(X, Q, B, M, NN)
           V == Evades(X, P, C, M, NN)
           S(n) == Stays(X, Q, B \cap (W \cup n), M)
           U(n) == Stays(X, Q, B \cap (V \cup n), M)
           T(n) == Stays(X, P, C \cap (V \cup n), M)
<1>1. V \subseteq W
  BY EvadesGrows
<1>2. W \in SUBSET X /\ W = EvadeStep(X, Q, B, M, NN, W) /\ W \subseteq C
      /\ V \in SUBSET X /\ V = EvadeStep(X, P, C, M, NN, V)
  BY EvadesIs
<1>3. \A n : /\ S(n) \in SUBSET X
             /\ U(n) \in SUBSET X /\ U(n) = StayStep(Q, B \cap (V \cup n), M, U(n))
             /\ T(n) \in SUBSET X
             /\ \A Z \in SUBSET X : Z \subseteq StayStep(P, C \cap (V \cup n), M, Z) => Z \subseteq T(n)
  <2> TAKE n
  <2> DEFINE BW == B \cap (W \cup n)
             BV == B \cap (V \cup n)
             CV == C \cap (V \cup n)
  <2>1. BW \in SUBSET X /\ BV \in SUBSET X /\ CV \in SUBSET X
    OBVIOUS
  <2> HIDE DEF BW, BV, CV
  <2>2. Stays(X, Q, BW, M) \in SUBSET X
    BY <2>1, StaysIs
  <2>3. Stays(X, Q, BV, M) \in SUBSET X /\ Stays(X, Q, BV, M) = StayStep(Q, BV, M, Stays(X, Q, BV, M))
    BY <2>1, StaysIs
  <2>4. /\ Stays(X, P, CV, M) \in SUBSET X
        /\ \A Z \in SUBSET X : Z \subseteq StayStep(P, CV, M, Z) => Z \subseteq Stays(X, P, CV, M)
    BY <2>1, StaysIs
  <2> HIDE DEF W, V
  <2> QED
    BY <2>2, <2>3, <2>4 DEF BW, BV, CV
<1>4. \A n \in NN : U(n) \subseteq S(n) /\ S(n) \subseteq W
  BY <1>1, <1>2, StaysGrows, EvadesBack
<1>5. W = B \cap (M \cup UNION {Q[S(n)] : n \in NN})
      /\ V = C \cap (M \cup UNION {P[T(n)] : n \in NN})
      /\ EvadeStep(X, Q, B, M, NN, V) = B \cap (M \cup UNION {Q[U(n)] : n \in NN})
  BY <1>2 DEF EvadeStep
<1>6. \A Z \in SUBSET X : EvadeStep(X, Q, B, M, NN, Z) \subseteq Z => W \subseteq Z
  BY EvadesIs
<1> HIDE DEF W, V, S, U, T
<1>7. \A n \in NN : U(n) \subseteq T(n)
  <2> TAKE n \in NN
  <2>1. U(n) \subseteq C
    BY <1>2, <1>4
  <2>2. U(n) \subseteq StayStep(P, C \cap (V \cup n), M, U(n))
    BY <1>3, <2>1 DEF StayStep
  <2> QED
    BY <1>3, <2>2
<1>8. \A n \in NN : Q[U(n)] \subseteq Q[S(n)] /\ Q[U(n)] \cap C \subseteq P[T(n)]
  <2> TAKE n \in NN
  <2>1. U(n) \in SUBSET X /\ S(n) \in SUBSET X /\ T(n) \in SUBSET X
        /\ U(n) \subseteq S(n) /\ U(n) \subseteq T(n)
    BY <1>3, <1>4, <1>7
  <2>2. Q[U(n)] \subseteq Q[S(n)] /\ P[U(n)] \subseteq P[T(n)] /\ C \cap Q[U(n)] = C \cap P[U(n)]
    BY <2>1 DEF Game
  <2> QED
    BY <2>2
<1>9. EvadeStep(X, Q, B, M, NN, V) \subseteq C
  BY <1>2, <1>5, <1>8
<1>10. EvadeStep(X, Q, B, M, NN, V) \subseteq V
  BY <1>5, <1>8, <1>9
<1> QED
  BY <1>1, <1>2, <1>6, <1>10 DEF W, V

\* A set one can stay in for ever need not be come to.
LEMMA StaysMore ==
    ASSUME NEW X, NEW Q, Game(X, Q), NEW B \in SUBSET X, NEW M, NEW Z \in SUBSET B, Z \subseteq Q[Z]
    PROVE  Stays(X, Q, B, M \cup Z) = Stays(X, Q, B, M) /\ Z \subseteq Stays(X, Q, B, M)
<1> DEFINE S == Stays(X, Q, B, M \cup Z)
<1>1. S \in SUBSET X /\ S = StayStep(Q, B, M \cup Z, S)
      /\ \A W \in SUBSET X : W \subseteq StayStep(Q, B, M \cup Z, W) => W \subseteq S
  BY StaysIs
<1>2. \A W \in SUBSET X : W \subseteq StayStep(Q, B, M, W) => W \subseteq Stays(X, Q, B, M)
  BY StaysIs
<1>3. Stays(X, Q, B, M) \subseteq S
  BY StaysGrows
<1> HIDE DEF S
<1>4. Z \subseteq StayStep(Q, B, M, Z) /\ Z \subseteq StayStep(Q, B, M \cup Z, Z)
  BY DEF StayStep
<1>5. Z \subseteq S /\ Z \subseteq Stays(X, Q, B, M)
  BY <1>1, <1>2, <1>4
<1>6. Q[Z] \subseteq Q[S]
  BY <1>1, <1>5 DEF Game
<1>7. S \subseteq StayStep(Q, B, M, S)
  BY <1>1, <1>6 DEF StayStep
<1> QED
  BY <1>1, <1>2, <1>3, <1>5, <1>7 DEF S

\* Nor need the positions from which one can stay in some set of NN for ever.
LEMMA EvadesMore ==
    ASSUME NEW X, NEW Q, Game(X, Q), NEW K \in SUBSET X, NEW B \in SUBSET K, NEW M, NEW NN,
           Evades(X, Q, K, {}, NN) \subseteq B
    PROVE  LET Z == Evades(X, Q, K, {}, NN)
           IN /\ Z \subseteq Q[Z]
              /\ Z \subseteq Evades(X, Q, B, M, NN)
              /\ Evades(X, Q, B, M \cup Z, NN) = Evades(X, Q, B, M, NN)
<1> DEFINE Z == Evades(X, Q, K, {}, NN)
           W == Evades(X, Q, B, M, NN)
           S(n) == Stays(X, Q, B \cap (W \cup n), M)
           T(n) == Stays(X, Q, B \cap (W \cup n), M \cup Z)
<1>1. Z \in SUBSET B /\ Z \subseteq Q[Z]
  BY EvadesIs, EvadesBack DEF StayStep
<1>2. Evades(X, Q, B, {}, NN) = Z /\ Evades(X, Q, B, {}, NN) \subseteq W
  BY EvadesHere, EvadesGrows
<1>9. B \in SUBSET X
  OBVIOUS
<1>3. W \in SUBSET X /\ W = EvadeStep(X, Q, B, M, NN, W)
  BY <1>9, EvadesIs
<1>0. \A V \in SUBSET X : EvadeStep(X, Q, B, M \cup Z, NN, V) \subseteq V
                             => Evades(X, Q, B, M \cup Z, NN) \subseteq V
  <2> HIDE DEF Z
  <2> QED
    BY EvadesIs
<1>4. \A n : T(n) = S(n)
  <2> TAKE n
  <2> DEFINE C == B \cap (W \cup n)
  <2>1. C \in SUBSET X /\ Z \in SUBSET C /\ Z \subseteq Q[Z]
    BY <1>1, <1>2
  <2>2. T(n) = Stays(X, Q, C, M \cup Z) /\ S(n) = Stays(X, Q, C, M)
    OBVIOUS
  <2> HIDE DEF Z, W, C, S, T
  <2>3. Stays(X, Q, C, M \cup Z) = Stays(X, Q, C, M)
    BY <2>1, StaysMore
  <2> QED
    BY <2>2, <2>3
<1>5. W = B \cap (M \cup UNION {Q[S(n)] : n \in NN})
      /\ EvadeStep(X, Q, B, M \cup Z, NN, W) = B \cap (M \cup Z \cup UNION {Q[T(n)] : n \in NN})
  BY <1>3 DEF EvadeStep
<1>6. W \subseteq Evades(X, Q, B, M \cup Z, NN)
  BY EvadesGrows
<1> HIDE DEF Z, W, S, T
<1>7. EvadeStep(X, Q, B, M \cup Z, NN, W) \subseteq W
  BY <1>2, <1>4, <1>5
<1>8. Evades(X, Q, B, M \cup Z, NN) = W
  BY <1>0, <1>3, <1>6, <1>7
<1> QED
  BY <1>1, <1>2, <1>8 DEF Z, W

\* From where one can come to M through B.
Gets(X, Q, B, M) == Fixpoint([Z \in SUBSET X |-> StayStep(Q, B, M, Z)], {})

\* It is the same with nothing to stay in.
LEMMA GetsIs ==
    ASSUME NEW X, NEW Q, Game(X, Q), NEW B \in SUBSET X, NEW M
    PROVE  Gets(X, Q, B, M) = Evades(X, Q, B, M, {{}})
<1> DEFINE round == [Z \in SUBSET X |-> StayStep(Q, B, M, Z)]
           L == Gets(X, Q, B, M)
           W == Evades(X, Q, B, M, {{}})
           S(Z) == Stays(X, Q, B \cap (Z \cup {}), M)
<1>1. round \in [SUBSET X -> SUBSET X] /\ \A A, C \in SUBSET X : A \subseteq C => round[A] \subseteq round[C]
  BY DEF Game, StayStep
<1>2. \A Z \in SUBSET X : round[Z] = StayStep(Q, B, M, Z)
  OBVIOUS
<1>3. IsFiniteSet(X) /\ L = Fixpoint(round, {})
  BY DEF Game, Gets
<1> DEFINE none == {{}}
<1> HIDE DEF none
<1>14. Evades(X, Q, B, M, none) \in SUBSET X
       /\ Evades(X, Q, B, M, none) = EvadeStep(X, Q, B, M, none, Evades(X, Q, B, M, none))
       /\ \A Z \in SUBSET X : EvadeStep(X, Q, B, M, none, Z) \subseteq Z
                                 => Evades(X, Q, B, M, none) \subseteq Z
  BY EvadesIs
<1>15. Evades(X, Q, B, M, none) \subseteq StayStep(Q, B, M, Evades(X, Q, B, M, none))
  BY EvadesBack
<1>4. W \in SUBSET X /\ W = EvadeStep(X, Q, B, M, {{}}, W) /\ W \subseteq StayStep(Q, B, M, W)
      /\ \A Z \in SUBSET X : EvadeStep(X, Q, B, M, {{}}, Z) \subseteq Z => W \subseteq Z
  BY <1>14, <1>15 DEF none
<1>5. \A Z \in SUBSET X : /\ S(Z) \in SUBSET X
                          /\ S(Z) = StayStep(Q, B \cap (Z \cup {}), M, S(Z))
                          /\ \A V \in SUBSET X : V \subseteq StayStep(Q, B \cap (Z \cup {}), M, V)
                                                     => V \subseteq S(Z)
  BY StaysIs
<1>6. \A Z \in SUBSET X : EvadeStep(X, Q, B, M, {{}}, Z) = B \cap (M \cup Q[S(Z)])
  BY DEF EvadeStep
<1> HIDE DEF round, L, W, S
<1>7. IsLeast(X, round, L)
  BY <1>1, <1>3, FixpointLeast
<1>8. S(L) \subseteq L /\ L \in SUBSET X /\ L = StayStep(Q, B, M, L)
  BY <1>2, <1>5, <1>7 DEF IsLeast, StayStep
<1>9. Q[S(L)] \subseteq Q[L]
  BY <1>5, <1>8 DEF Game
<1>10. W \subseteq L
  BY <1>4, <1>6, <1>8, <1>9 DEF StayStep
<1>11. W \subseteq S(W)
  BY <1>4, <1>5 DEF StayStep
<1>12. Q[W] \subseteq Q[S(W)]
  BY <1>4, <1>5, <1>11 DEF Game
<1>13. round[W] \subseteq W
  BY <1>2, <1>4, <1>6, <1>12 DEF StayStep
<1> QED
  BY <1>4, <1>7, <1>10, <1>13 DEF IsLeast, L, W

-----------------------------------------------------------------------------
(* What is won in K: the operand is next, or kept until the goal b if b    *)
(* ever comes, or until b, which must come, along every fair path.  The    *)
(* paths along which some constraint is met no more are those that end in  *)
(* a set of NN.                                                            *)

Avoids(X, Q, K, NN) == Evades(X, Q, K, {}, NN)

Room(X, Q, K, NN, a, b) == K \cap (a \cup b \cup Avoids(X, Q, K, NN))

Win(X, Q, K, NN, kind, a, b) ==
    CASE kind = "next" -> K \cap Q[a \cup Avoids(X, Q, K, NN)]
      [] kind = "weak" -> Stays(X, Q, Room(X, Q, K, NN, a, b), b)
      [] kind = "until" -> Evades(X, Q, Room(X, Q, K, NN, a, b), b, NN)

Kinds == {"next", "weak", "until"}

LEMMA EvadesIn ==
    ASSUME NEW X, NEW Q, Game(X, Q), NEW B \in SUBSET X, NEW M, NEW NN
    PROVE  Evades(X, Q, B, M, NN) \in SUBSET X /\ Evades(X, Q, B, M, NN) \subseteq B
<1>1. Evades(X, Q, B, M, NN) \in SUBSET X
  BY EvadesIs
<1>2. Evades(X, Q, B, M, NN) \subseteq StayStep(Q, B, M, Evades(X, Q, B, M, NN))
  BY EvadesBack
<1> QED
  BY <1>1, <1>2 DEF StayStep

LEMMA AvoidsIs ==
    ASSUME NEW X, NEW Q, Game(X, Q), NEW K \in SUBSET X, NEW NN
    PROVE  LET Z == Avoids(X, Q, K, NN)
           IN Z \in SUBSET X /\ Z \subseteq K /\ Z \subseteq Q[Z]
  BY EvadesIn, EvadesBack DEF Avoids, StayStep

LEMMA WinIn ==
    ASSUME NEW X, NEW Q, Game(X, Q), NEW K \in SUBSET X, NEW NN, NEW kind \in Kinds,
           NEW a \in SUBSET X, NEW b \in SUBSET X
    PROVE  LET W == Win(X, Q, K, NN, kind, a, b)
           IN W \in SUBSET X /\ W \subseteq K /\ Avoids(X, Q, K, NN) \subseteq W
<1> DEFINE Z == Avoids(X, Q, K, NN)
           C == Room(X, Q, K, NN, a, b)
<1>1. Z \in SUBSET X /\ Z \subseteq K /\ Z \subseteq Q[Z]
  BY AvoidsIs
<1>2. C \in SUBSET K /\ C \in SUBSET X /\ Z \subseteq C
  BY <1>1 DEF Room
<1>3. CASE kind = "next"
  <2>1. Q[Z] \subseteq Q[a \cup Z]
    BY <1>1 DEF Game
  <2> QED
    BY <1>1, <1>3, <2>1 DEF Win
<1>4. CASE kind = "weak"
  <2> HIDE DEF C
  <2>1. Stays(X, Q, C, b) \in SUBSET X /\ Stays(X, Q, C, b) \subseteq C
    BY <1>2, StaysIs DEF StayStep
  <2>2. Z \subseteq Stays(X, Q, C, b)
    BY <1>1, <1>2, StaysMore
  <2> QED
    BY <1>2, <1>4, <2>1, <2>2 DEF Win, C
<1>5. CASE kind = "until"
  <2> HIDE DEF C
  <2>1. Evades(X, Q, C, b, NN) \in SUBSET X /\ Evades(X, Q, C, b, NN) \subseteq C
    BY <1>2, EvadesIn
  <2>2. Z \subseteq Evades(X, Q, C, b, NN)
    BY <1>1, <1>2, EvadesMore DEF Avoids
  <2> QED
    BY <1>2, <1>5, <2>1, <2>2 DEF Win, C
<1> QED
  BY <1>3, <1>4, <1>5 DEF Kinds

\* With more positions or more moves, more is won.
LEMMA WinGrows ==
    ASSUME NEW X, NEW Q, NEW P, Game(X, Q), Game(X, P),
           NEW K \in SUBSET X, NEW L \in SUBSET X, K \subseteq L,
           \A Y \in SUBSET X : K \cap Q[Y] \subseteq P[Y],
           NEW NN, NEW kind \in Kinds, NEW a \in SUBSET X, NEW b \in SUBSET X
    PROVE  Win(X, Q, K, NN, kind, a, b) \subseteq Win(X, P, L, NN, kind, a, b)
<1> DEFINE Z == Avoids(X, Q, K, NN)
           V == Avoids(X, P, L, NN)
           C == Room(X, Q, K, NN, a, b)
           D == Room(X, P, L, NN, a, b)
<1>1. Z \in SUBSET X /\ V \in SUBSET X
  BY AvoidsIs
<1>2. Z \subseteq V
  BY EvadesGrows DEF Avoids
<1>3. C \in SUBSET X /\ D \in SUBSET X /\ C \subseteq D /\ C \subseteq K
  BY <1>2 DEF Room
<1>4. CASE kind = "next"
  <2>1. a \cup Z \in SUBSET X /\ a \cup V \in SUBSET X /\ a \cup Z \subseteq a \cup V
    BY <1>1, <1>2
  <2> HIDE DEF Z, V
  <2>2. K \cap Q[a \cup Z] \subseteq P[a \cup Z] /\ P[a \cup Z] \subseteq P[a \cup V]
    BY <2>1 DEF Game
  <2> QED
    BY <1>4, <2>2 DEF Win, Z, V
<1> HIDE DEF C, D
<1>5. CASE kind = "weak"
  <2>1. Stays(X, Q, C, b) \subseteq Stays(X, P, D, b)
    BY <1>3, StaysGrows
  <2> QED
    BY <1>5, <2>1 DEF Win, C, D
<1>6. CASE kind = "until"
  <2>1. Evades(X, Q, C, b, NN) \subseteq Evades(X, P, D, b, NN)
    BY <1>3, EvadesGrows
  <2> QED
    BY <1>6, <2>1 DEF Win, C, D
<1> QED
  BY <1>4, <1>5, <1>6 DEF Kinds

\* Positions that do not win are not needed by those that do.
LEMMA WinHere ==
    ASSUME NEW X, NEW Q, NEW P, Game(X, Q), Game(X, P),
           NEW K \in SUBSET X, NEW L \in SUBSET K,
           \A Y \in SUBSET X : L \cap Q[Y] = L \cap P[Y],
           NEW NN, NEW kind \in Kinds, NEW a \in SUBSET X, NEW b \in SUBSET X,
           Win(X, Q, K, NN, kind, a, b) \subseteq L
    PROVE  Win(X, P, L, NN, kind, a, b) = Win(X, Q, K, NN, kind, a, b)
<1> DEFINE Z == Avoids(X, Q, K, NN)
           C == Room(X, Q, K, NN, a, b)
           D == Room(X, P, L, NN, a, b)
<1>1. Z \subseteq Win(X, Q, K, NN, kind, a, b) /\ Z \in SUBSET X
  BY WinIn, AvoidsIs
<1>2. Avoids(X, P, L, NN) = Z
  BY <1>1, EvadesHere DEF Avoids
<1>3. C \in SUBSET X /\ D \in SUBSET C /\ D = C \cap L /\ D \subseteq L
  BY <1>2 DEF Room
<1>4. CASE kind = "next"
  <2>1. L \cap P[a \cup Z] = L \cap Q[a \cup Z]
    BY <1>1
  <2>2. Win(X, P, L, NN, kind, a, b) = L \cap P[a \cup Z]
        /\ Win(X, Q, K, NN, kind, a, b) = K \cap Q[a \cup Z]
    BY <1>2, <1>4 DEF Win
  <2> QED
    BY <2>1, <2>2
<1> HIDE DEF C, D
<1>5. CASE kind = "weak"
  <2>1. Win(X, P, L, NN, kind, a, b) = Stays(X, P, D, b)
        /\ Win(X, Q, K, NN, kind, a, b) = Stays(X, Q, C, b)
    BY <1>5 DEF Win, C, D
  <2>2. Stays(X, Q, C, b) \subseteq C
    BY <1>3, StaysIs DEF StayStep
  <2>3. Stays(X, Q, C, b) \subseteq D /\ \A Y \in SUBSET X : D \cap Q[Y] = D \cap P[Y]
    BY <1>3, <2>1, <2>2
  <2>4. Stays(X, P, D, b) = Stays(X, Q, C, b)
    BY <1>3, <2>3, StaysHere
  <2> QED
    BY <2>1, <2>4
<1>6. CASE kind = "until"
  <2>1. Win(X, P, L, NN, kind, a, b) = Evades(X, P, D, b, NN)
        /\ Win(X, Q, K, NN, kind, a, b) = Evades(X, Q, C, b, NN)
    BY <1>6 DEF Win, C, D
  <2>2. Evades(X, Q, C, b, NN) \subseteq C
    BY <1>3, EvadesIn
  <2>3. Evades(X, Q, C, b, NN) \subseteq D /\ \A Y \in SUBSET X : D \cap Q[Y] = D \cap P[Y]
    BY <1>3, <2>1, <2>2
  <2>4. Evades(X, P, D, b, NN) = Evades(X, Q, C, b, NN)
    BY <1>3, <2>3, EvadesHere
  <2> QED
    BY <2>1, <2>4
<1> QED
  BY <1>4, <1>5, <1>6 DEF Kinds

-----------------------------------------------------------------------------
(* One strategy is enough.  U are strategies, F[f] the positions from which *)
(* f leads where; two of them can be played in different positions, and    *)
(* some one leads to a given set wherever any move does.                   *)

\* h plays f in A.
PlaysIn(X, F, h, f, A) == \A Y \in SUBSET X : F[h][Y] \cap A = F[f][Y] \cap A

Mixable(X, Q, U, F) ==
    /\ U # {}
    /\ \A f \in U : Game(X, F[f]) /\ \A Y \in SUBSET X : F[f][Y] \subseteq Q[Y]
    /\ \A f, g \in U, A \in SUBSET X :
          \E h \in U : PlaysIn(X, F, h, f, A) /\ PlaysIn(X, F, h, g, X \ A)
    /\ \A Y \in SUBSET X : \E f \in U : F[f][Y] = Q[Y]

\* A strategy that evades from fewer positions than possible can be improved.
LEMMA EvadesImproved ==
    ASSUME NEW X, NEW Q, Game(X, Q), NEW U, NEW F, Mixable(X, Q, U, F),
           NEW B \in SUBSET X, NEW M, NEW NN, NEW f \in U,
           Evades(X, F[f], B, M, NN) # Evades(X, Q, B, M, NN)
    PROVE  \E g \in U : /\ Evades(X, F[f], B, M, NN) \subseteq Evades(X, F[g], B, M, NN)
                        /\ Evades(X, F[f], B, M, NN) # Evades(X, F[g], B, M, NN)
                        /\ PlaysIn(X, F, g, f, Evades(X, F[f], B, M, NN))
<1> DEFINE Z == Evades(X, F[f], B, M, NN)
           V(n) == Stays(X, Q, B \cap (Z \cup n), M)
<1>1. Game(X, F[f]) /\ \A Y \in SUBSET X : F[f][Y] \subseteq Q[Y]
  BY DEF Mixable
<1>2. Z \in SUBSET X /\ Z \subseteq B /\ Z = EvadeStep(X, F[f], B, M, NN, Z)
      /\ Evades(X, Q, B, M, NN) \in SUBSET X
  BY <1>1, EvadesIn, EvadesIs
<1>3. Z \subseteq Evades(X, Q, B, M, NN)
  BY <1>1, EvadesGrows
<1>4. ~(EvadeStep(X, Q, B, M, NN, Z) \subseteq Z)
  <2>1. \A S \in SUBSET X : EvadeStep(X, Q, B, M, NN, S) \subseteq S
                               => Evades(X, Q, B, M, NN) \subseteq S
    BY EvadesIs
  <2> QED
    BY <1>2, <1>3, <2>1
<1>5. B \cap M \subseteq Z
  BY <1>2 DEF EvadeStep
<1>6. PICK n \in NN, x \in B : x \in Q[V(n)] /\ x \notin Z
  BY <1>4, <1>5 DEF EvadeStep
<1>7. V(n) \in SUBSET X /\ V(n) = StayStep(Q, B \cap (Z \cup n), M, V(n))
  <2> DEFINE C == B \cap (Z \cup n)
  <2>1. C \in SUBSET X
    OBVIOUS
  <2> HIDE DEF C
  <2>2. Stays(X, Q, C, M) \in SUBSET X /\ Stays(X, Q, C, M) = StayStep(Q, C, M, Stays(X, Q, C, M))
    BY <2>1, StaysIs
  <2> HIDE DEF Z
  <2> QED
    BY <2>2 DEF C
<1> HIDE DEF V
<1>8. PICK e \in U : F[e][V(n)] = Q[V(n)]
  BY <1>7 DEF Mixable
<1>9. PICK g \in U : PlaysIn(X, F, g, f, Z) /\ PlaysIn(X, F, g, e, X \ Z)
  BY <1>2 DEF Mixable
<1>10. Game(X, F[g])
  BY DEF Mixable
<1> DEFINE W == Evades(X, F[g], B, M, NN)
           T == V(n) \cup W
<1>11. W \in SUBSET X /\ W \subseteq B /\ W = EvadeStep(X, F[g], B, M, NN, W)
       /\ W \subseteq StayStep(F[g], B, M, W)
  <2> DEFINE P == F[g]
  <2>1. Game(X, P)
    BY <1>10
  <2> HIDE DEF P
  <2>2. Evades(X, P, B, M, NN) \in SUBSET X /\ Evades(X, P, B, M, NN) \subseteq B
    BY <2>1, EvadesIn
  <2>3. Evades(X, P, B, M, NN) = EvadeStep(X, P, B, M, NN, Evades(X, P, B, M, NN))
    BY <2>1, EvadesIs
  <2>4. Evades(X, P, B, M, NN) \subseteq StayStep(P, B, M, Evades(X, P, B, M, NN))
    BY <2>1, EvadesBack
  <2> QED
    BY <2>2, <2>3, <2>4 DEF P
<1>12. Z \subseteq W
  <2>1. Z \in SUBSET B /\ Z \in SUBSET X
    BY <1>2
  <2>2. Evades(X, F[f], Z, M, NN) = Z
    BY <1>1, <2>1, EvadesHere
  <2>3. \A Y \in SUBSET X : Z \cap F[f][Y] \subseteq F[g][Y]
    BY <1>9 DEF PlaysIn
  <2> HIDE DEF Z
  <2>4. Evades(X, F[f], Z, M, NN) \subseteq W
    BY <1>1, <1>2, <1>10, <2>1, <2>3, EvadesGrows
  <2> QED
    BY <2>2, <2>4
<1> HIDE DEF Z, W
<1>13. Q[V(n)] \ Z \subseteq F[g][V(n)]
  BY <1>1, <1>7, <1>8, <1>9 DEF PlaysIn, Game
<1>14. T \in SUBSET X /\ F[g][V(n)] \subseteq F[g][T] /\ F[g][W] \subseteq F[g][T]
  BY <1>7, <1>10, <1>11 DEF Game
<1>15. T \subseteq StayStep(F[g], B \cap (W \cup n), M, T)
  <2>1. T \subseteq B \cap (W \cup n)
    BY <1>7, <1>11, <1>12 DEF StayStep
  <2>2. W \subseteq M \cup F[g][T]
    BY <1>11, <1>14 DEF StayStep
  <2>3. V(n) \subseteq M \cup F[g][T]
    BY <1>7, <1>12, <1>13, <1>14, <2>2 DEF StayStep
  <2> QED
    BY <2>1, <2>2, <2>3 DEF StayStep
<1> DEFINE S == Stays(X, F[g], B \cap (W \cup n), M)
<1>16. S \in SUBSET X /\ T \subseteq S
  <2>1. B \cap (W \cup n) \in SUBSET X
    OBVIOUS
  <2>2. S \in SUBSET X /\ \A Y \in SUBSET X : Y \subseteq StayStep(F[g], B \cap (W \cup n), M, Y) => Y \subseteq S
    BY <1>10, <2>1, StaysIs
  <2> HIDE DEF S, T
  <2> QED
    BY <1>14, <1>15, <2>2
<1>17. x \in F[g][V(n)] /\ V(n) \subseteq S
  BY <1>6, <1>13, <1>16
<1>18. x \in F[g][S]
  BY <1>7, <1>10, <1>16, <1>17 DEF Game
<1>19. x \in W
  BY <1>6, <1>11, <1>18 DEF EvadeStep
<1> QED
  BY <1>6, <1>9, <1>12, <1>19 DEF Z, W

\* So some one strategy evades from wherever it is possible; it can be one that
\* plays a given one where that evades already.
LEMMA EvadesPlayed ==
    ASSUME NEW X, NEW Q, Game(X, Q), NEW U, NEW F, Mixable(X, Q, U, F),
           NEW B \in SUBSET X, NEW M, NEW NN, NEW f \in U
    PROVE  \E g \in U : /\ Evades(X, F[g], B, M, NN) = Evades(X, Q, B, M, NN)
                        /\ PlaysIn(X, F, g, f, Evades(X, F[f], B, M, NN))
<1> DEFINE Z(g) == Evades(X, F[g], B, M, NN)
           D == {g \in U : Z(f) \subseteq Z(g) /\ PlaysIn(X, F, g, f, Z(f))}
           m == [g \in U |-> Cardinality(X \ Z(g))]
<1>1. \A g \in U : Z(g) \in SUBSET X
  BY EvadesIn DEF Mixable
<1>2. IsFiniteSet(X)
  BY DEF Game
<1>3. m \in [U -> Nat]
  BY <1>1, <1>2, Nested
<1>4. f \in D
  BY DEF PlaysIn
<1>5. D \in SUBSET U /\ D # {}
  BY <1>4
<1> HIDE DEF D, m
<1>6. PICK g \in D : \A h \in D : m[g] <= m[h]
  BY <1>3, <1>5, LeastMeasure
<1> HIDE DEF Z
<1>7. g \in U /\ Z(f) \subseteq Z(g) /\ PlaysIn(X, F, g, f, Z(f))
  BY <1>6 DEF D
<1>8. ASSUME Z(g) # Evades(X, Q, B, M, NN) PROVE FALSE
  <2>1. PICK h \in U : Z(g) \subseteq Z(h) /\ Z(g) # Z(h) /\ PlaysIn(X, F, h, g, Z(g))
    BY <1>7, <1>8, EvadesImproved DEF Z
  <2>2. PlaysIn(X, F, h, f, Z(f))
    BY <1>7, <2>1 DEF PlaysIn
  <2>3. h \in D
    BY <1>7, <2>1, <2>2 DEF D
  <2>4. m[g] <= m[h]
    BY <1>6, <2>3
  <2>5. Cardinality(X \ Z(h)) < Cardinality(X \ Z(g))
    BY <1>1, <1>2, <1>7, <2>1, Nested
  <2>6. Cardinality(X \ Z(h)) \in Nat /\ Cardinality(X \ Z(g)) \in Nat
    BY <1>1, <1>2, <1>7, Nested
  <2> QED
    BY <1>7, <2>4, <2>5, <2>6 DEF m
<1> QED
  BY <1>7, <1>8 DEF Z

\* Some one strategy wins wherever one can win.
LEMMA WinPlayed ==
    ASSUME NEW X, NEW Q, Game(X, Q), NEW U, NEW F, Mixable(X, Q, U, F),
           NEW NN, NEW kind \in Kinds, NEW a \in SUBSET X, NEW b \in SUBSET X
    PROVE  \E f \in U : Win(X, F[f], X, NN, kind, a, b) = Win(X, Q, X, NN, kind, a, b)
<1> DEFINE Z == Avoids(X, Q, X, NN)
           C == Room(X, Q, X, NN, a, b)
           W == Win(X, Q, X, NN, kind, a, b)
<1>0. X \in SUBSET X
  OBVIOUS
<1>1. PICK f0 \in U : TRUE
  BY DEF Mixable
<1>2. PICK f \in U : Avoids(X, F[f], X, NN) = Z
  BY <1>0, <1>1, EvadesPlayed DEF Avoids
<1>3. \A g \in U : Game(X, F[g]) /\ Avoids(X, F[g], X, NN) \in SUBSET X
                     /\ Avoids(X, F[g], X, NN) \subseteq Z
                     /\ Win(X, F[g], X, NN, kind, a, b) \subseteq W
  <2> TAKE g \in U
  <2>1. Game(X, F[g]) /\ \A Y \in SUBSET X : F[g][Y] \subseteq Q[Y]
    BY DEF Mixable
  <2>2. Avoids(X, F[g], X, NN) \in SUBSET X
    BY <1>0, <2>1, AvoidsIs
  <2>3. \A Y \in SUBSET X : X \cap F[g][Y] \subseteq Q[Y]
    BY <2>1
  <2>4. Avoids(X, F[g], X, NN) \subseteq Z
    BY <1>0, <2>1, <2>3, EvadesGrows DEF Avoids
  <2>5. Win(X, F[g], X, NN, kind, a, b) \subseteq W
    BY <1>0, <2>1, <2>3, WinGrows
  <2> QED
    BY <2>1, <2>2, <2>4, <2>5
<1>4. Z \in SUBSET X /\ Z \subseteq Q[Z]
  BY <1>0, AvoidsIs
<1>5. ASSUME NEW g \in U, PlaysIn(X, F, g, f, Z) PROVE Avoids(X, F[g], X, NN) = Z
  <2>1. Evades(X, F[f], X, {}, NN) = Z /\ Z \in SUBSET X
    BY <1>2, <1>4 DEF Avoids
  <2> HIDE DEF Z
  <2>2. \A Y \in SUBSET X : Z \cap F[f][Y] = Z \cap F[f][Y]
    OBVIOUS
  <2>3. Evades(X, F[f], Z, {}, NN) = Z
    BY <1>0, <1>3, <2>1, <2>2, EvadesHere
  <2>4. \A Y \in SUBSET X : Z \cap F[f][Y] \subseteq F[g][Y]
    BY <1>5 DEF PlaysIn
  <2>5. Evades(X, F[f], Z, {}, NN) \subseteq Evades(X, F[g], X, {}, NN)
    BY <1>0, <1>3, <2>1, <2>4, EvadesGrows
  <2> QED
    BY <1>3, <2>3, <2>5 DEF Avoids
<1>6. ASSUME NEW g \in U, PlaysIn(X, F, g, f, Z) PROVE Room(X, F[g], X, NN, a, b) = C
  BY <1>5, <1>6 DEF Room
<1>7. C \in SUBSET X /\ Z \subseteq C
  BY <1>4 DEF Room
<1>8. CASE kind = "next"
  <2>1. a \cup Z \in SUBSET X
    BY <1>4
  <2> DEFINE A == a \cup Z
  <2> HIDE DEF Z, A
  <2>2. PICK e \in U : F[e][A] = Q[A]
    BY <2>1 DEF Mixable, A
  <2>3. PICK g \in U : PlaysIn(X, F, g, f, Z) /\ PlaysIn(X, F, g, e, X \ Z)
    BY <1>4 DEF Mixable
  <2>4. Avoids(X, F[g], X, NN) = Z
    BY <1>5, <2>3
  <2>5. Z \subseteq F[g][Z]
    BY <1>0, <1>3, <2>4, AvoidsIs
  <2>6. F[g][Z] \subseteq F[g][A] /\ A \in SUBSET X
    BY <1>3, <1>4, <2>1 DEF Game, A
  <2>7. Q[A] \subseteq X
    BY <2>6 DEF Game
  <2>8. Q[A] \subseteq F[g][A]
    BY <2>2, <2>3, <2>5, <2>6, <2>7 DEF PlaysIn
  <2>9. W \subseteq Win(X, F[g], X, NN, kind, a, b)
    BY <1>8, <2>4, <2>8 DEF Win, Z, A
  <2>10. Win(X, F[g], X, NN, kind, a, b) \subseteq W
    BY <1>3
  <2> HIDE DEF W
  <2>11. Win(X, F[g], X, NN, kind, a, b) = W
    BY <2>9, <2>10
  <2> QED
    BY <2>11 DEF W
<1>9. CASE kind = "weak"
  <2>1. W = Stays(X, Q, C, b)
    BY <1>9 DEF Win
  <2> HIDE DEF C, Z, W
  <2>2. W \in SUBSET X /\ W = StayStep(Q, C, b, W) /\ Z \subseteq W
    <3>1. Stays(X, Q, C, b) \in SUBSET X /\ Stays(X, Q, C, b) = StayStep(Q, C, b, Stays(X, Q, C, b))
      BY <1>7, StaysIs
    <3>2. Z \subseteq Stays(X, Q, C, b)
      BY <1>4, <1>7, StaysMore
    <3> QED
      BY <2>1, <3>1, <3>2
  <2>3. PICK e \in U : F[e][W] = Q[W]
    BY <2>2 DEF Mixable
  <2>4. PICK g \in U : PlaysIn(X, F, g, f, Z) /\ PlaysIn(X, F, g, e, X \ Z)
    BY <1>4 DEF Mixable
  <2>5. Avoids(X, F[g], X, NN) = Z /\ Room(X, F[g], X, NN, a, b) = C
    BY <1>5, <1>6, <2>4
  <2>6. Z \subseteq F[g][Z]
    BY <1>0, <1>3, <2>5, AvoidsIs
  <2>7. F[g][Z] \subseteq F[g][W]
    BY <1>3, <1>4, <2>2 DEF Game
  <2>8. W \subseteq StayStep(F[g], C, b, W)
    BY <2>2, <2>3, <2>4, <2>6, <2>7 DEF StayStep, PlaysIn
  <2>9. W \subseteq Stays(X, F[g], C, b)
    BY <1>3, <1>7, <2>2, <2>8, StaysIs
  <2>10. W \subseteq Win(X, F[g], X, NN, kind, a, b)
    BY <1>9, <2>5, <2>9 DEF Win
  <2>11. Win(X, F[g], X, NN, kind, a, b) \subseteq W
    BY <1>3
  <2>12. Win(X, F[g], X, NN, kind, a, b) = W
    BY <2>10, <2>11
  <2> QED
    BY <2>12 DEF W
<1>10. CASE kind = "until"
  <2>1. W = Evades(X, Q, C, b, NN)
    BY <1>10 DEF Win
  <2>2. PICK g \in U : /\ Evades(X, F[g], C, b, NN) = Evades(X, Q, C, b, NN)
                       /\ PlaysIn(X, F, g, f, Evades(X, F[f], C, b, NN))
    BY <1>7, EvadesPlayed
  <2>3. Z \subseteq Evades(X, F[f], C, b, NN)
    <3> HIDE DEF C, Z
    <3>1. Game(X, F[f]) /\ C \in SUBSET X /\ Evades(X, F[f], X, {}, NN) = Z /\ Z \subseteq C
      BY <1>2, <1>3, <1>7 DEF Avoids
    <3>2. Evades(X, F[f], X, {}, NN) \subseteq Evades(X, F[f], C, b, NN)
      BY <1>0, <3>1, EvadesMore
    <3> QED
      BY <3>1, <3>2
  <2>4. PlaysIn(X, F, g, f, Z)
    BY <2>2, <2>3 DEF PlaysIn
  <2>5. Avoids(X, F[g], X, NN) = Z /\ Room(X, F[g], X, NN, a, b) = C
    BY <1>5, <1>6, <2>4
  <2>6. Win(X, F[g], X, NN, kind, a, b) = W
    BY <1>10, <2>1, <2>2, <2>5 DEF Win
  <2> QED
    BY <2>6
<1> QED
  BY <1>8, <1>9, <1>10 DEF Kinds

-----------------------------------------------------------------------------
(* One game seen through another: h takes the positions of S to those they *)
(* stand for, and moves from them lead to what stands for where they lead. *)

Shadow(X1, Q1, K, X2, Q2, S, h) ==
    /\ Game(X1, Q1) /\ Game(X2, Q2)
    /\ K \in SUBSET X1 /\ S \in SUBSET K
    /\ h \in [S -> X2] /\ \A p \in X2 : \E x \in S : h[x] = p
    /\ \A Y \in SUBSET K : \A x \in S : x \in Q1[Y] <=> h[x] \in Q2[{h[y] : y \in Y \cap S}]

\* In S, A1 has what stands for the elements of A2.
Over(S, h, A1, A2) == \A x \in S : x \in A1 <=> h[x] \in A2

\* What a set that stands for another one is taken to.
LEMMA ShadowSet ==
    ASSUME NEW X1, NEW Q1, NEW K, NEW X2, NEW Q2, NEW S, NEW h, Shadow(X1, Q1, K, X2, Q2, S, h),
           NEW A1 \in SUBSET K, NEW A2 \in SUBSET X2, Over(S, h, A1, A2)
    PROVE  \A x \in S : x \in Q1[A1] <=> h[x] \in Q2[A2]
<1>1. {h[y] : y \in A1 \cap S} = A2
  BY DEF Shadow, Over
<1> QED
  BY <1>1 DEF Shadow

LEMMA ShadowStays ==
    ASSUME NEW X1, NEW Q1, NEW K, NEW X2, NEW Q2, NEW S, NEW h, Shadow(X1, Q1, K, X2, Q2, S, h),
           NEW B1 \in SUBSET K, NEW B2 \in SUBSET X2, Over(S, h, B1, B2),
           NEW M1, NEW M2, Over(S, h, M1, M2)
    PROVE  Over(S, h, Stays(X1, Q1, B1, M1), Stays(X2, Q2, B2, M2))
<1> DEFINE S1 == Stays(X1, Q1, B1, M1)
           S2 == Stays(X2, Q2, B2, M2)
<1>0. Game(X1, Q1) /\ Game(X2, Q2) /\ B1 \in SUBSET X1 /\ K \in SUBSET X1
  BY DEF Shadow
<1>1. S1 \in SUBSET X1 /\ S1 = StayStep(Q1, B1, M1, S1)
      /\ \A W \in SUBSET X1 : W \subseteq StayStep(Q1, B1, M1, W) => W \subseteq S1
  BY <1>0, StaysIs
<1>2. S2 \in SUBSET X2 /\ S2 = StayStep(Q2, B2, M2, S2)
      /\ \A W \in SUBSET X2 : W \subseteq StayStep(Q2, B2, M2, W) => W \subseteq S2
  BY <1>0, StaysIs
<1> HIDE DEF S1, S2
<1>3. S1 \in SUBSET K
  BY <1>1 DEF StayStep
<1> DEFINE T == {h[y] : y \in S1 \cap S}
<1>4. T \subseteq S2
  <2>1. T \in SUBSET X2
    BY DEF Shadow
  <2>2. ASSUME NEW y \in S1 \cap S PROVE h[y] \in StayStep(Q2, B2, M2, T)
    <3>1. y \in Q1[S1] => h[y] \in Q2[T]
      BY <1>3, <2>2 DEF Shadow
    <3>2. y \in B1 /\ (y \in M1 \/ y \in Q1[S1])
      BY <1>1 DEF StayStep
    <3> QED
      BY <3>1, <3>2 DEF StayStep, Over
  <2>3. T \subseteq StayStep(Q2, B2, M2, T)
    BY <2>2
  <2> HIDE DEF T
  <2> QED
    BY <1>2, <2>1, <2>3
<1> DEFINE W == {x \in S : h[x] \in S2}
<1>5. W \subseteq S1
  <2>1. W \in SUBSET K /\ W \in SUBSET X1
    BY <1>0 DEF Shadow
  <2>2. \A x \in S : x \in Q1[W] <=> h[x] \in Q2[S2]
    BY <1>2, <2>1, ShadowSet DEF Over
  <2>3. \A x \in S : h[x] \in S2 => h[x] \in B2 /\ (h[x] \in M2 \/ h[x] \in Q2[S2])
    BY <1>2 DEF StayStep
  <2>4. W \subseteq StayStep(Q1, B1, M1, W)
    BY <2>2, <2>3 DEF StayStep, Over
  <2> QED
    BY <1>1, <2>1, <2>4
<1> QED
  BY <1>4, <1>5 DEF Over, S1, S2

\* The sets that n gives to the elements of I.
Family(n, I) == {n[j] : j \in I}

LEMMA ShadowEvades ==
    ASSUME NEW X1, NEW Q1, NEW K, NEW X2, NEW Q2, NEW S, NEW h, Shadow(X1, Q1, K, X2, Q2, S, h),
           NEW B1 \in SUBSET K, NEW B2 \in SUBSET X2, Over(S, h, B1, B2),
           NEW M1, NEW M2, Over(S, h, M1, M2),
           NEW I, NEW n1, NEW n2, \A j \in I : Over(S, h, n1[j], n2[j])
    PROVE  Over(S, h, Evades(X1, Q1, B1, M1, Family(n1, I)),
                      Evades(X2, Q2, B2, M2, Family(n2, I)))
<1> DEFINE N1 == Family(n1, I)
           N2 == Family(n2, I)
           W1 == Evades(X1, Q1, B1, M1, N1)
           W2 == Evades(X2, Q2, B2, M2, N2)
<1>0. Game(X1, Q1) /\ Game(X2, Q2) /\ B1 \in SUBSET X1 /\ K \in SUBSET X1
  BY DEF Shadow
<1> HIDE DEF N1, N2
<1>1. W1 \in SUBSET X1 /\ W1 = EvadeStep(X1, Q1, B1, M1, N1, W1)
      /\ \A Z \in SUBSET X1 : EvadeStep(X1, Q1, B1, M1, N1, Z) \subseteq Z => W1 \subseteq Z
  <2>1. Game(X1, Q1) /\ B1 \in SUBSET X1
    BY <1>0
  <2> QED
    BY <2>1, EvadesIs
<1>2. W2 \in SUBSET X2 /\ W2 = EvadeStep(X2, Q2, B2, M2, N2, W2)
      /\ \A Z \in SUBSET X2 : EvadeStep(X2, Q2, B2, M2, N2, Z) \subseteq Z => W2 \subseteq Z
  BY <1>0, EvadesIs
<1> HIDE DEF W1, W2
<1>3. \A x \in S : h[x] \in W2 => x \in W1
  <2> DEFINE D == {p \in X2 : \A x \in S : h[x] = p => x \in W1}
  <2>1. ASSUME NEW j \in I, NEW x \in S, h[x] \in B2, h[x] \in Q2[Stays(X2, Q2, B2 \cap (D \cup n2[j]), M2)]
        PROVE  x \in W1
    <3> DEFINE C2 == B2 \cap (D \cup n2[j])
               C1 == {y \in S : h[y] \in C2}
               C == B1 \cap (W1 \cup n1[j])
    <3>1. C1 \in SUBSET K /\ C2 \in SUBSET X2 /\ Over(S, h, C1, C2)
      BY DEF Shadow, Over
    <3>2. C1 \subseteq C
      BY DEF Over
    <3>3. C1 \in SUBSET X1 /\ C \in SUBSET X1
      BY <1>0, <3>1
    <3> HIDE DEF C1, C2, C
    <3>4. Over(S, h, Stays(X1, Q1, C1, M1), Stays(X2, Q2, C2, M2))
      BY <3>1, ShadowStays
    <3>5. Stays(X1, Q1, C1, M1) \in SUBSET C1 /\ Stays(X1, Q1, C1, M1) \in SUBSET X1
          /\ Stays(X2, Q2, C2, M2) \in SUBSET X2
      BY <1>0, <3>1, <3>3, StaysIs DEF StayStep
    <3>6. x \in Q1[Stays(X1, Q1, C1, M1)]
      BY <2>1, <3>1, <3>4, <3>5, ShadowSet DEF C2
    <3>7. Stays(X1, Q1, C1, M1) \subseteq Stays(X1, Q1, C, M1) /\ Stays(X1, Q1, C, M1) \in SUBSET X1
      BY <1>0, <3>2, <3>3, StaysGrows, StaysIs
    <3>8. x \in Q1[Stays(X1, Q1, C, M1)]
      BY <1>0, <3>5, <3>6, <3>7 DEF Game
    <3>9. x \in B1 /\ n1[j] \in N1
      BY <2>1 DEF Over, N1, Family
    <3>10. x \in EvadeStep(X1, Q1, B1, M1, N1, W1)
      BY <3>8, <3>9 DEF EvadeStep, C
    <3> QED
      BY <1>1, <3>10
  <2>2. ASSUME NEW p \in EvadeStep(X2, Q2, B2, M2, N2, D) PROVE p \in D
    <3>1. p \in B2 /\ p \in X2
      BY <2>2 DEF EvadeStep
    <3>2. ASSUME NEW x \in S, h[x] = p PROVE x \in W1
      <4>1. CASE p \in M2
        <5>1. x \in B1 /\ x \in M1
          BY <3>1, <3>2, <4>1 DEF Over
        <5> QED
          BY <1>1, <5>1 DEF EvadeStep
      <4>2. CASE p \notin M2
        <5>1. PICK n \in N2 : p \in Q2[Stays(X2, Q2, B2 \cap (D \cup n), M2)]
          BY <2>2, <4>2 DEF EvadeStep
        <5>2. PICK j \in I : n = n2[j]
          BY DEF N2, Family
        <5> QED
          BY <2>1, <3>1, <3>2, <5>1, <5>2
      <4> QED
        BY <4>1, <4>2
    <3> QED
      BY <3>1, <3>2
  <2>3. D \in SUBSET X2
    OBVIOUS
  <2> HIDE DEF D
  <2>4. W2 \subseteq D
    BY <1>2, <2>2, <2>3
  <2> QED
    BY <2>4 DEF D
<1>4. \A x \in S : x \in W1 => h[x] \in W2
  <2> DEFINE D == {x \in K : x \in S => h[x] \in W2}
  <2>1. ASSUME NEW j \in I, NEW x \in S, x \in B1, x \in Q1[Stays(X1, Q1, B1 \cap (D \cup n1[j]), M1)]
        PROVE  h[x] \in W2
    <3> DEFINE C1 == B1 \cap (D \cup n1[j])
               C2 == B2 \cap (W2 \cup n2[j])
    <3>1. C1 \in SUBSET K /\ C2 \in SUBSET X2 /\ C1 \in SUBSET X1
      BY <1>0
    <3>2. Over(S, h, C1, C2)
      BY DEF Shadow, Over
    <3> HIDE DEF C1, C2
    <3>3. Over(S, h, Stays(X1, Q1, C1, M1), Stays(X2, Q2, C2, M2))
      BY <3>1, <3>2, ShadowStays
    <3>4. Stays(X1, Q1, C1, M1) \in SUBSET C1 /\ Stays(X2, Q2, C2, M2) \in SUBSET X2
      BY <1>0, <3>1, StaysIs DEF StayStep
    <3>5. h[x] \in Q2[Stays(X2, Q2, C2, M2)]
      BY <2>1, <3>1, <3>3, <3>4, ShadowSet DEF C1
    <3>6. h[x] \in B2 /\ n2[j] \in N2
      BY <2>1 DEF Over, N2, Family
    <3>7. h[x] \in EvadeStep(X2, Q2, B2, M2, N2, W2)
      BY <3>5, <3>6 DEF EvadeStep, C2
    <3> QED
      BY <1>2, <3>7
  <2>2. ASSUME NEW x \in EvadeStep(X1, Q1, B1, M1, N1, D) PROVE x \in D
    <3>1. x \in B1 /\ x \in K
      BY <2>2 DEF EvadeStep
    <3>2. ASSUME x \in S PROVE h[x] \in W2
      <4>1. CASE x \in M1
        <5>1. h[x] \in B2 /\ h[x] \in M2
          BY <3>1, <3>2, <4>1 DEF Over
        <5> QED
          BY <1>2, <5>1 DEF EvadeStep
      <4>2. CASE x \notin M1
        <5>1. PICK n \in N1 : x \in Q1[Stays(X1, Q1, B1 \cap (D \cup n), M1)]
          BY <2>2, <4>2 DEF EvadeStep
        <5>2. PICK j \in I : n = n1[j]
          BY DEF N1, Family
        <5> QED
          BY <2>1, <3>1, <3>2, <5>1, <5>2
      <4> QED
        BY <4>1, <4>2
    <3> QED
      BY <3>1, <3>2
  <2>3. D \in SUBSET X1
    BY <1>0
  <2> HIDE DEF D
  <2>4. W1 \subseteq D
    BY <1>1, <2>2, <2>3
  <2> QED
    BY <2>4 DEF D
<1> QED
  BY <1>3, <1>4 DEF Over, W1, W2, N1, N2

\* What one wins in the one, one wins in the other.
LEMMA ShadowWin ==
    ASSUME NEW X1, NEW Q1, NEW K, NEW X2, NEW Q2, NEW S, NEW h, Shadow(X1, Q1, K, X2, Q2, S, h),
           NEW I, NEW n1, NEW n2, \A j \in I : Over(S, h, n1[j], n2[j]),
           NEW a1 \in SUBSET X1, NEW a2 \in SUBSET X2, Over(S, h, a1, a2),
           NEW b1 \in SUBSET X1, NEW b2 \in SUBSET X2, Over(S, h, b1, b2), NEW kind \in Kinds,
           \A Z1 \in SUBSET K, Z2 \in SUBSET X2 : Over(S, h, Z1, Z2) =>
               \A x \in S : x \in Q1[a1 \cup Z1] <=> h[x] \in Q2[a2 \cup Z2]
    PROVE  Over(S, h, Win(X1, Q1, K, Family(n1, I), kind, a1, b1),
                      Win(X2, Q2, X2, Family(n2, I), kind, a2, b2))
<1> DEFINE N1 == Family(n1, I)
           N2 == Family(n2, I)
           Z1 == Avoids(X1, Q1, K, N1)
           Z2 == Avoids(X2, Q2, X2, N2)
           C1 == Room(X1, Q1, K, N1, a1, b1)
           C2 == Room(X2, Q2, X2, N2, a2, b2)
<1>0. Game(X1, Q1) /\ Game(X2, Q2) /\ K \in SUBSET X1 /\ X2 \in SUBSET X2 /\ K \in SUBSET K
      /\ S \in SUBSET K
  BY DEF Shadow
<1>1. Over(S, h, K, X2) /\ Over(S, h, {}, {})
  BY DEF Shadow, Over
<1>2. Over(S, h, Z1, Z2)
  BY <1>0, <1>1, ShadowEvades DEF Avoids
<1> HIDE DEF N1, N2
<1>3. Z1 \in SUBSET X1 /\ Z1 \in SUBSET K /\ Z2 \in SUBSET X2
  BY <1>0, AvoidsIs
<1>4. C1 \in SUBSET K /\ C2 \in SUBSET X2 /\ Over(S, h, C1, C2)
  BY <1>0, <1>1, <1>2, <1>3 DEF Room, Over
<1>5. CASE kind = "next"
  <2>1. \A x \in S : x \in Q1[a1 \cup Z1] <=> h[x] \in Q2[a2 \cup Z2]
    BY <1>2, <1>3
  <2>2. \A x \in S : h[x] \in X2 /\ x \in K
    BY DEF Shadow
  <2> QED
    BY <1>5, <2>1, <2>2 DEF Win, Over, N1, N2
<1>6. CASE kind = "weak"
  <2> HIDE DEF C1, C2
  <2>1. Over(S, h, Stays(X1, Q1, C1, b1), Stays(X2, Q2, C2, b2))
    BY <1>4, ShadowStays
  <2> QED
    BY <1>6, <2>1 DEF Win, C1, C2, N1, N2
<1>7. CASE kind = "until"
  <2> HIDE DEF C1, C2
  <2>1. Over(S, h, Evades(X1, Q1, C1, b1, N1), Evades(X2, Q2, C2, b2, N2))
    BY <1>4, ShadowEvades DEF N1, N2
  <2> QED
    BY <1>7, <2>1 DEF Win, C1, C2, N1, N2
<1> QED
  BY <1>5, <1>6, <1>7 DEF Kinds

-----------------------------------------------------------------------------
(* Paths of states that go on for ever: the ways of ImageProofs, from pair *)
(* to pair, with one and the same input everywhere.                        *)

Tag(C) == {<<p, 0>> : p \in C}
Tagged(t) == {e \in State \X {0} \X State : e[3] \in Successors(t, e[1])}
Tags(J) == {Tag(f) : f \in J}

LEMMA TagSame ==
    ASSUME NEW A, NEW B
    PROVE  /\ Tag(A) = Tag(B) <=> A = B
           /\ Tag(A) \subseteq Tag(B) <=> A \subseteq B
           /\ Tag(A) \cap Tag(B) # {} <=> A \cap B # {}
           /\ \A p : <<p, 0>> \in Tag(A) <=> p \in A
<1>1. \A C, p : <<p, 0>> \in Tag(C) <=> p \in C
  BY DEF Tag
<1>2. \A C : \A x \in Tag(C) : \E p \in C : x = <<p, 0>>
  BY DEF Tag
<1>8. ASSUME NEW C, NEW D PROVE Tag(C) \subseteq Tag(D) <=> C \subseteq D
  <2>1. ASSUME Tag(C) \subseteq Tag(D), NEW p \in C PROVE p \in D
    BY <1>1, <2>1
  <2>2. ASSUME C \subseteq D, NEW x \in Tag(C) PROVE x \in Tag(D)
    <3>1. PICK p \in C : x = <<p, 0>>
      BY <1>2
    <3> QED
      BY <1>1, <2>2, <3>1
  <2> QED
    BY <2>1, <2>2
<1>3. Tag(A) \subseteq Tag(B) <=> A \subseteq B
  BY <1>8
<1>4. Tag(B) \subseteq Tag(A) <=> B \subseteq A
  BY <1>8
<1>5. ASSUME NEW x \in Tag(A) \cap Tag(B) PROVE A \cap B # {}
  <2>1. PICK p \in A : x = <<p, 0>>
    BY <1>2
  <2>2. p \in B
    BY <1>1, <2>1
  <2> QED
    BY <2>1, <2>2
<1>6. ASSUME NEW p \in A \cap B PROVE Tag(A) \cap Tag(B) # {}
  <2>1. <<p, 0>> \in Tag(A) \cap Tag(B)
    BY <1>1
  <2> QED
    BY <2>1
<1>7. Tag(A) = Tag(B) <=> A = B
  BY <1>3, <1>4
<1> QED
  BY <1>1, <1>3, <1>5, <1>6, <1>7

LEMMA TagLeads ==
    \A t, q : \A p \in State : Leads(Tagged(t), <<p, 0>>, <<q, 0>>) <=> q \in Successors(t, p)
  BY SuccessorsIn DEF Leads, Tagged

LEMMA OnwardStep ==
    ASSUME NEW t, NEW C, NEW x, NEW z \in C,
           z \in Successors(t, x) \/ \E u \in Onward(t, C, x) : z \in Successors(t, u)
    PROVE  z \in Onward(t, C, x)
  BY DEF Onward

LEMMA OnwardIs ==
    ASSUME NEW t, NEW C \in SUBSET State, NEW x \in State
    PROVE  Beyond(Tagged(t), Tag(C), <<x, 0>>) = Tag(Onward(t, C, x))
<1> DEFINE N == Beyond(Tagged(t), Tag(C), <<x, 0>>)
           O == Onward(t, C, x)
<1>1. O \in SUBSET C /\ N \in SUBSET Tag(C)
  BY BeyondIn DEF Onward
<1>2. N \subseteq Tag(O)
  <2>1. ASSUME NEW u \in Tag(C) \cap Tag(O), NEW z \in Tag(C), Leads(Tagged(t), u, z)
        PROVE  z \in Tag(O)
    <3>1. PICK p \in O, q \in C : u = <<p, 0>> /\ z = <<q, 0>>
      BY <2>1 DEF Tag
    <3>2. q \in Successors(t, p)
      BY <1>1, <2>1, <3>1, TagLeads
    <3> QED
      BY <3>1, <3>2, OnwardStep DEF Tag
  <2>2. ASSUME NEW z \in Tag(C), Leads(Tagged(t), <<x, 0>>, z) PROVE z \in Tag(O)
    <3>1. PICK q \in C : z = <<q, 0>>
      BY <2>2 DEF Tag
    <3>2. q \in Successors(t, x)
      BY <2>2, <3>1, TagLeads
    <3> QED
      BY <3>1, <3>2, OnwardStep DEF Tag
  <2> HIDE DEF O
  <2> QED
    BY <2>1, <2>2, BeyondLeast
<1>3. ASSUME NEW y \in O PROVE <<y, 0>> \in N
  <2> DEFINE D == {z \in C : <<z, 0>> \in N}
  <2>1. ASSUME NEW z \in C, NEW u \in D \cup {x}, z \in Successors(t, u) PROVE z \in D
    <3>1. Leads(Tagged(t), <<u, 0>>, <<z, 0>>) /\ <<z, 0>> \in Tag(C)
      BY <2>1, TagLeads DEF Tag
    <3>2. u = x \/ <<u, 0>> \in N
      OBVIOUS
    <3>3. <<z, 0>> \in N
      BY <3>1, <3>2, BeyondStep
    <3> QED
      BY <3>3
  <2>2. D \in SUBSET C
    OBVIOUS
  <2> HIDE DEF D, N
  <2>3. y \in D
    BY <2>1, <2>2 DEF Onward
  <2> QED
    BY <2>3 DEF D
<1>4. Tag(O) \subseteq N
  BY <1>3 DEF Tag
<1> QED
  BY <1>2, <1>4

\* What Endless goes round.
StateRound(t, J, C) ==
    C # {} /\ (\A x \in C : Onward(t, C, x) = C) /\ \A f \in J : C \cap f # {}

LEMMA TagRound ==
    ASSUME NEW t, NEW J, NEW C \in SUBSET State
    PROVE  StateRound(t, J, C) <=> Round(Tagged(t), Tags(J), Tag(C))
<1>1. C # {} <=> Tag(C) # {}
  BY DEF Tag
<1>2. ASSUME NEW x \in C
      PROVE  Beyond(Tagged(t), Tag(C), <<x, 0>>) = Tag(C) <=> Onward(t, C, x) = C
  <2>1. Beyond(Tagged(t), Tag(C), <<x, 0>>) = Tag(Onward(t, C, x))
    BY OnwardIs
  <2> QED
    BY <2>1, TagSame
<1>3. (\A x \in C : Onward(t, C, x) = C) <=> \A x \in Tag(C) : Beyond(Tagged(t), Tag(C), x) = Tag(C)
  BY <1>2 DEF Tag
<1>4. \A f : C \cap f # {} <=> Tag(f) \cap Tag(C) # {}
  BY TagSame
<1>5. (\A f \in J : C \cap f # {}) <=> \A p \in Tags(J) : p \cap Tag(C) # {}
  BY <1>4 DEF Tags
<1> QED
  BY <1>1, <1>3, <1>5 DEF StateRound, Round

LEMMA EndlessIs ==
    ASSUME NEW t, NEW J, NEW S
    PROVE  RoundPairs(Tagged(t), Tags(J), Tag(S \cap Invar)) = Tag(Endless(t, J, S))
<1> DEFINE W == S \cap Invar
           rounds == UNION {C \in SUBSET W : StateRound(t, J, C)}
           R == UNION {C \in SUBSET Tag(W) : Round(Tagged(t), Tags(J), C)}
<1>1. W \in SUBSET State
  BY FsmAssumption
<1>2. Endless(t, J, S) = {s \in W : s \in rounds \/ Onward(t, W, s) \cap rounds # {}}
  BY DEF Endless, StateRound
<1>3. RoundPairs(Tagged(t), Tags(J), Tag(W))
        = {x \in Tag(W) : x \in R \/ Beyond(Tagged(t), Tag(W), x) \cap R # {}}
  BY DEF RoundPairs
<1>4. R = Tag(rounds)
  <2>1. ASSUME NEW C \in SUBSET Tag(W), Round(Tagged(t), Tags(J), C) PROVE C \subseteq Tag(rounds)
    <3> DEFINE D == {p \in W : <<p, 0>> \in C}
    <3>1. D \in SUBSET State /\ D \in SUBSET W
      BY <1>1
    <3>2. Tag(D) = C
      BY DEF Tag
    <3> HIDE DEF D
    <3>3. StateRound(t, J, D)
      BY <2>1, <3>1, <3>2, TagRound
    <3>4. D \subseteq rounds
      BY <3>1, <3>3
    <3> HIDE DEF rounds
    <3> QED
      BY <3>2, <3>4 DEF Tag
  <2>2. ASSUME NEW C \in SUBSET W, StateRound(t, J, C) PROVE Tag(C) \subseteq R
    <3>1. Tag(C) \in SUBSET Tag(W) /\ C \in SUBSET State
      BY <1>1 DEF Tag
    <3>2. Round(Tagged(t), Tags(J), Tag(C))
      BY <2>2, <3>1, TagRound
    <3> QED
      BY <3>1, <3>2
  <2>3. R \subseteq Tag(rounds)
    BY <2>1
  <2>4. ASSUME NEW p \in rounds PROVE <<p, 0>> \in R
    <3>1. PICK C \in SUBSET W : StateRound(t, J, C) /\ p \in C
      OBVIOUS
    <3> QED
      BY <2>2, <3>1 DEF Tag
  <2> HIDE DEF R, rounds
  <2> QED
    BY <2>3, <2>4 DEF Tag
<1>5. \A s \in W : Beyond(Tagged(t), Tag(W), <<s, 0>>) = Tag(Onward(t, W, s))
  BY <1>1, OnwardIs
<1> HIDE DEF R, rounds, W
<1>7. ASSUME NEW s \in W
      PROVE  <<s, 0>> \in R \/ Beyond(Tagged(t), Tag(W), <<s, 0>>) \cap R # {}
                <=> s \in rounds \/ Onward(t, W, s) \cap rounds # {}
  <2>1. Beyond(Tagged(t), Tag(W), <<s, 0>>) = Tag(Onward(t, W, s))
    BY <1>5
  <2>2. <<s, 0>> \in R <=> s \in rounds
    BY <1>4, TagSame
  <2>3. Beyond(Tagged(t), Tag(W), <<s, 0>>) \cap R # {} <=> Onward(t, W, s) \cap rounds # {}
    BY <1>4, <2>1, TagSame
  <2> QED
    BY <2>2, <2>3
<1>8. RoundPairs(Tagged(t), Tags(J), Tag(W)) = Tag(Endless(t, J, S))
  BY <1>2, <1>3, <1>7 DEF Tag
<1> QED
  BY <1>8 DEF W

LEMMA EndlessUnfolds ==
    ASSUME NEW t, NEW J, NEW S
    PROVE  LET E == Endless(t, J, S)
           IN /\ E \in SUBSET (S \cap Invar) /\ E \in SUBSET State
              /\ \A p \in S \cap Invar : Successors(t, p) \cap E # {} => p \in E
              /\ \A p \in E : Successors(t, p) \cap E # {}
<1> DEFINE E == Endless(t, J, S)
           W == S \cap Invar
           P == RoundPairs(Tagged(t), Tags(J), Tag(W))
<1>1. P = Tag(E)
  BY EndlessIs
<1>2. E \in SUBSET W /\ W \in SUBSET State
  BY FsmAssumption DEF Endless
<1>3. ASSUME NEW p \in W, NEW q \in Successors(t, p) \cap E PROVE p \in E
  <2>1. <<p, 0>> \in Tag(W) /\ <<q, 0>> \in P /\ Leads(Tagged(t), <<p, 0>>, <<q, 0>>)
    BY <1>1, <1>2, TagSame, TagLeads
  <2>2. <<p, 0>> \in P
    BY <2>1, RoundBack
  <2> QED
    BY <1>1, <2>2, TagSame
<1>4. ASSUME NEW p \in E PROVE Successors(t, p) \cap E # {}
  <2>1. <<p, 0>> \in P
    BY <1>1, TagSame
  <2>2. PICK y \in P : Leads(Tagged(t), <<p, 0>>, y)
    BY <2>1, RoundGoesOn
  <2>3. PICK q \in E : y = <<q, 0>>
    BY <1>1 DEF Tag
  <2> QED
    BY <1>2, <2>2, <2>3, TagLeads
<1> QED
  BY <1>2, <1>3, <1>4

LEMMA EndlessMeets ==
    ASSUME NEW t, NEW J, NEW S, NEW f \in J, NEW U, f \cap Endless(t, J, S) \subseteq U,
           \A u, z \in Endless(t, J, S) : z \in Successors(t, u) /\ z \in U => u \in U
    PROVE  Endless(t, J, S) \subseteq U
<1> DEFINE E == Endless(t, J, S)
           P == RoundPairs(Tagged(t), Tags(J), Tag(S \cap Invar))
<1>1. P = Tag(E) /\ E \in SUBSET State
  BY EndlessIs, EndlessUnfolds
<1>2. Tag(f) \in Tags(J)
  BY DEF Tags
<1> HIDE DEF E, P
<1>3. Tag(f) \cap P \subseteq Tag(U)
  BY <1>1 DEF Tag, E
<1>4. ASSUME NEW u \in P, NEW z \in P, Leads(Tagged(t), u, z), z \in Tag(U) PROVE u \in Tag(U)
  <2>1. PICK p \in E, q \in E : u = <<p, 0>> /\ z = <<q, 0>>
    BY <1>1 DEF Tag
  <2>2. q \in Successors(t, p) /\ q \in U
    BY <1>1, <1>4, <2>1, TagLeads, TagSame
  <2> QED
    BY <2>1, <2>2, TagSame DEF E
<1>5. P \subseteq Tag(U)
  BY <1>2, <1>3, <1>4, RoundMeets DEF P
<1> QED
  BY <1>1, <1>5, TagSame DEF E, Tag

LEMMA EndlessAhead ==
    ASSUME NEW t, NEW J, J # {}, NEW S, NEW H \in SUBSET (S \cap Invar),
           \A f \in J : \A x \in H : H \cap f \cap Onward(t, S \cap Invar, x) # {}
    PROVE  H \subseteq Endless(t, J, S)
<1> DEFINE W == S \cap Invar
<1>1. IsFiniteSet(Tag(H)) /\ Tag(H) \in SUBSET Tag(W) /\ H \in SUBSET State /\ W \in SUBSET State
  <2>1. H \in SUBSET State /\ W \in SUBSET State /\ IsFiniteSet(State)
    BY FsmAssumption
  <2>2. IsFiniteSet(State \X {0})
    BY <2>1, FS_Singleton, FS_Product
  <2>3. Tag(H) \in SUBSET (State \X {0})
    BY <2>1 DEF Tag
  <2>4. Tag(H) \subseteq Tag(W)
    BY TagSame
  <2> QED
    BY <2>1, <2>2, <2>3, <2>4, FS_Subset
<1>2. \A x \in H : Beyond(Tagged(t), Tag(W), <<x, 0>>) = Tag(Onward(t, W, x))
  BY <1>1, OnwardIs
<1>3. ASSUME NEW x \in Tag(H)
      PROVE  \E y \in Tag(H) \cap Beyond(Tagged(t), Tag(W), x) :
                 \A p \in Tags(J) : p \cap ({y} \cup (Tag(H) \cap Beyond(Tagged(t), Tag(W), y))) # {}
  <2>1. PICK u \in H : x = <<u, 0>>
    BY DEF Tag
  <2>2. PICK v \in H : v \in Onward(t, W, u)
    OBVIOUS
  <2>3. <<v, 0>> \in Tag(H) \cap Beyond(Tagged(t), Tag(W), x)
    <3>1. Beyond(Tagged(t), Tag(W), x) = Tag(Onward(t, W, u))
      BY <1>2, <2>1
    <3>2. <<v, 0>> \in Tag(Onward(t, W, u)) /\ <<v, 0>> \in Tag(H)
      BY <2>2, TagSame
    <3> QED
      BY <3>1, <3>2
  <2>4. ASSUME NEW p \in Tags(J) PROVE p \cap Tag(H) \cap Beyond(Tagged(t), Tag(W), <<v, 0>>) # {}
    <3>1. PICK f \in J : p = Tag(f)
      BY DEF Tags
    <3>2. PICK w \in H \cap f : w \in Onward(t, W, v)
      OBVIOUS
    <3>3. <<w, 0>> \in p \cap Tag(H) \cap Beyond(Tagged(t), Tag(W), <<v, 0>>)
      <4>1. Beyond(Tagged(t), Tag(W), <<v, 0>>) = Tag(Onward(t, W, v))
        BY <1>2
      <4>2. <<w, 0>> \in Tag(Onward(t, W, v)) /\ <<w, 0>> \in Tag(H) /\ <<w, 0>> \in Tag(f)
        BY <3>2, TagSame
      <4> QED
        BY <3>1, <4>1, <4>2
    <3> QED
      BY <3>3
  <2> DEFINE y == <<v, 0>>
             D == Tag(H) \cap Beyond(Tagged(t), Tag(W), y)
  <2>5. \A p \in Tags(J) : p \cap D # {}
    BY <2>4
  <2> HIDE DEF D
  <2>6. y \in Tag(H) \cap Beyond(Tagged(t), Tag(W), x) /\ \A p \in Tags(J) : p \cap ({y} \cup D) # {}
    BY <2>3, <2>5
  <2> HIDE DEF y
  <2> QED
    BY <2>6 DEF D
<1>4. Tag(H) \subseteq RoundPairs(Tagged(t), Tags(J), Tag(W))
  BY <1>1, <1>3, RoundAhead
<1>5. Tag(H) \subseteq Tag(Endless(t, J, S))
  BY <1>4, EndlessIs
<1> QED
  BY <1>5, TagSame

-----------------------------------------------------------------------------
(* What a strategy ensures, when the steps of its outcome are those of o,  *)
(* which do not leave R and never end there.                               *)

Total(o, R) ==
    R \in SUBSET Invar /\ \A p \in R : Successors(o, p) \subseteq R /\ Successors(o, p) # {}

\* From where every step leads to Y.
Leading(o, R) == [Y \in SUBSET R |-> {p \in R : Successors(o, p) \subseteq Y}]

\* Without constraints, every path is fair: it meets, for ever, any state.
Met(J) == IF J = {} THEN {State} ELSE J

\* For every constraint, the states that do not meet it.
Unmet(R, J) == {R \ f : f \in Met(J)}

LEMMA LeadingGame ==
    ASSUME NEW o, NEW R, Total(o, R)
    PROVE  /\ Game(R, Leading(o, R)) /\ R \in SUBSET State /\ R \in SUBSET R
           /\ \A Y \in SUBSET R : \A p \in R : p \in Leading(o, R)[Y] <=> Successors(o, p) \subseteq Y
<1>1. R \in SUBSET State /\ IsFiniteSet(R)
  BY FsmAssumption, FS_Subset DEF Total
<1>2. Leading(o, R) \in [SUBSET R -> SUBSET R]
  BY DEF Leading
<1>3. \A Y \in SUBSET R : Leading(o, R)[Y] = {p \in R : Successors(o, p) \subseteq Y}
  BY DEF Leading
<1> QED
  BY <1>1, <1>2, <1>3 DEF Game

\* What leads out of B, before M, within R.
Leaving(o, R, B, M) == Untils(o, State, State \ M, R \ B)

LEMMA LeavingIs ==
    ASSUME NEW o, NEW R, Total(o, R), NEW B, NEW M
    PROVE  \A p \in R : p \in Leaving(o, R, B, M) <=>
               p \notin B \/ (p \notin M /\ Successors(o, p) \cap Leaving(o, R, B, M) # {})
<1> DEFINE U == Leaving(o, R, B, M)
<1>1. R \in SUBSET State
  BY LeadingGame
<1>2. U = (State \cap State \cap (R \ B)) \cup StepsBack(o, State \ M, U)
  BY UntilUnfolds DEF Leaving
<1> QED
  BY <1>1, <1>2 DEF StepsBack

LEMMA LeavingLeast ==
    ASSUME NEW o, NEW R, Total(o, R), NEW B, NEW M, NEW V,
           \A p \in R : p \notin B \/ (p \notin M /\ Successors(o, p) \cap V # {}) => p \in V
    PROVE  R \cap Leaving(o, R, B, M) \subseteq V
<1>1. \A p \in R : Successors(o, p) \subseteq R
  BY DEF Total
<1>2. R \cap State \cap State \cap (R \ B) \subseteq V
  OBVIOUS
<1>3. \A p \in R \cap State \cap (State \ M) : Successors(o, p) \cap V # {} => p \in V
  OBVIOUS
<1> QED
  BY <1>1, <1>2, <1>3, UntilLeast DEF Leaving

LEMMA StaysMeans ==
    ASSUME NEW o, NEW R, Total(o, R), NEW B \in SUBSET R, NEW M
    PROVE  Stays(R, Leading(o, R), B, M) = R \ Leaving(o, R, B, M)
<1> DEFINE Q == Leading(o, R)
           U == Leaving(o, R, B, M)
           S == Stays(R, Q, B, M)
<1>1. Game(R, Q) /\ \A Y \in SUBSET R : \A p \in R : p \in Q[Y] <=> Successors(o, p) \subseteq Y
  BY LeadingGame
<1>2. S \in SUBSET R /\ S = StayStep(Q, B, M, S)
      /\ \A W \in SUBSET R : W \subseteq StayStep(Q, B, M, W) => W \subseteq S
  BY <1>1, StaysIs
<1>3. \A p \in R : p \in U <=> p \notin B \/ (p \notin M /\ Successors(o, p) \cap U # {})
  BY LeavingIs
<1>4. \A p \in R : Successors(o, p) \subseteq R
  BY DEF Total
<1> HIDE DEF Q, U, S
<1>5. R \ U \subseteq S
  <2>1. \A p \in R \ U : p \in B /\ (p \in M \/ Successors(o, p) \subseteq R \ U)
    BY <1>3, <1>4
  <2>2. R \ U \subseteq StayStep(Q, B, M, R \ U)
    BY <1>1, <2>1 DEF StayStep
  <2> QED
    BY <1>2, <2>2
<1>6. R \cap U \subseteq R \ S
  <2>1. \A p \in S : p \in B /\ (p \in M \/ Successors(o, p) \subseteq S)
    BY <1>1, <1>2 DEF StayStep
  <2> DEFINE V == R \ S
  <2>2. \A p \in R : p \notin B \/ (p \notin M /\ Successors(o, p) \cap V # {}) => p \in V
    BY <2>1
  <2> HIDE DEF V
  <2>3. R \cap U \subseteq V
    BY <2>2, LeavingLeast DEF U
  <2> QED
    BY <2>3 DEF V
<1> QED
  BY <1>2, <1>5, <1>6 DEF S, U, Q

LEMMA EvadesMeans ==
    ASSUME NEW o, NEW R, Total(o, R), NEW B \in SUBSET R, NEW M, NEW J, J # {}
    PROVE  Evades(R, Leading(o, R), B, M, {R \ f : f \in J})
              = R \ (Leaving(o, R, B, M) \cup Endless(o, J, State \ M))
<1> DEFINE Q == Leading(o, R)
           U == Leaving(o, R, B, M)
           E == Endless(o, J, State \ M)
           NN == {R \ f : f \in J}
           Z == Evades(R, Q, B, M, NN)
           N == R \ (U \cup E)
<1>0. R \in SUBSET State /\ R \in SUBSET Invar /\ \A p \in R : Successors(o, p) \subseteq R
  BY LeadingGame DEF Total
<1>1. Game(R, Q) /\ \A Y \in SUBSET R : \A p \in R : p \in Q[Y] <=> Successors(o, p) \subseteq Y
  BY LeadingGame
<1>2. \A p \in R : p \in U <=> p \notin B \/ (p \notin M /\ Successors(o, p) \cap U # {})
  BY LeavingIs
<1>3. E \in SUBSET ((State \ M) \cap Invar) /\ E \in SUBSET State
      /\ (\A p \in (State \ M) \cap Invar : Successors(o, p) \cap E # {} => p \in E)
      /\ (\A p \in E : Successors(o, p) \cap E # {})
  <2> DEFINE D == State \ M
  <2> HIDE DEF D
  <2>1. LET G == Endless(o, J, D)
        IN /\ G \in SUBSET (D \cap Invar) /\ G \in SUBSET State
           /\ \A p \in D \cap Invar : Successors(o, p) \cap G # {} => p \in G
           /\ \A p \in G : Successors(o, p) \cap G # {}
    BY EndlessUnfolds
  <2> QED
    BY <2>1 DEF D
<1> HIDE DEF NN, Q
<1>4. Z \in SUBSET R /\ Z = EvadeStep(R, Q, B, M, NN, Z) /\ Z \subseteq StayStep(Q, B, M, Z)
      /\ \A W \in SUBSET R : EvadeStep(R, Q, B, M, NN, W) \subseteq W => Z \subseteq W
  <2>1. Game(R, Q)
    BY <1>1
  <2>2. Z \in SUBSET R /\ Z = EvadeStep(R, Q, B, M, NN, Z)
        /\ \A W \in SUBSET R : EvadeStep(R, Q, B, M, NN, W) \subseteq W => Z \subseteq W
    BY <2>1, EvadesIs
  <2>3. Z \subseteq StayStep(Q, B, M, Z)
    BY <2>1, EvadesBack
  <2> QED
    BY <2>2, <2>3
<1> HIDE DEF U, E, Z
<1>5. Z \subseteq N
  <2>1. ASSUME NEW f \in J, NEW p \in B, p \notin M,
               p \in Q[Stays(R, Q, B \cap (N \cup (R \ f)), M)]
        PROVE  p \in N
    <3> DEFINE V == Stays(R, Q, B \cap (N \cup (R \ f)), M)
    <3>1. B \cap (N \cup (R \ f)) \in SUBSET R
      OBVIOUS
    <3>2. V \in SUBSET R /\ V = StayStep(Q, B \cap (N \cup (R \ f)), M, V)
      BY <1>1, <3>1, StaysIs
    <3> HIDE DEF V
    <3>3. \A y \in V : y \in B /\ y \in N \cup (R \ f) /\ (y \in M \/ Successors(o, y) \subseteq V)
      BY <1>1, <3>2 DEF StayStep
    <3>4. R \cap U \subseteq R \ V
      <4> DEFINE Y == R \ V
      <4>1. \A y \in R : y \notin B \/ (y \notin M /\ Successors(o, y) \cap Y # {}) => y \in Y
        BY <3>3
      <4> HIDE DEF Y
      <4>2. R \cap U \subseteq Y
        BY <4>1, LeavingLeast DEF U
      <4> QED
        BY <4>2 DEF Y
    <3>5. Successors(o, p) \subseteq V
      BY <1>1, <2>1, <3>2 DEF V
    <3>6. p \notin U
      BY <1>2, <2>1, <3>2, <3>4, <3>5
    <3>7. ASSUME p \in E PROVE FALSE
      <4>1. PICK q \in Successors(o, p) : q \in E
        BY <1>3, <3>7
      <4> DEFINE Y == E \ V
                 D == State \ M
      <4>2. f \cap E \subseteq Y
        BY <3>3
      <4>3. \A u, z \in E : z \in Successors(o, u) /\ z \in Y => u \in Y
        BY <1>3, <3>3
      <4>4. E = Endless(o, J, D)
        BY DEF E
      <4> HIDE DEF Y, D
      <4>5. Endless(o, J, D) \subseteq Y
        BY <4>2, <4>3, <4>4, EndlessMeets
      <4> QED
        BY <3>5, <4>1, <4>4, <4>5 DEF Y
    <3> QED
      BY <2>1, <3>6, <3>7
  <2>2. EvadeStep(R, Q, B, M, NN, N) \subseteq N
    <3> SUFFICES ASSUME NEW p \in EvadeStep(R, Q, B, M, NN, N) PROVE p \in N
      OBVIOUS
    <3>1. p \in B
      BY DEF EvadeStep
    <3>2. CASE p \in M
      BY <1>2, <1>3, <3>1, <3>2
    <3>3. CASE p \notin M
      <4>1. PICK f \in J : p \in Q[Stays(R, Q, B \cap (N \cup (R \ f)), M)]
        BY <3>3 DEF EvadeStep, NN
      <4> QED
        BY <2>1, <3>1, <3>3, <4>1
    <3> QED
      BY <3>2, <3>3
  <2>3. N \in SUBSET R
    OBVIOUS
  <2> QED
    BY <1>4, <2>2, <2>3
<1>6. N \subseteq Z
  <2> DEFINE H == (R \ Z) \ U
             W == (State \ M) \cap Invar
  <2>1. B \cap M \subseteq Z
    BY <1>4 DEF EvadeStep
  <2>2. H \in SUBSET W /\ H \subseteq B
    BY <1>0, <1>2, <2>1
  <2>3. \A y \in R \ U : y \notin M => Successors(o, y) \subseteq R \ U
    BY <1>0, <1>2
  <2>4. ASSUME NEW f \in J, NEW x \in H, H \cap f \cap Onward(o, W, x) = {} PROVE FALSE
    <3> DEFINE T == {y \in R \ U : y \in Z \/ y \in Onward(o, W, x)}
    <3>1. ASSUME NEW y \in T, y \notin Z PROVE y \in R \ f /\ y \notin M /\ Successors(o, y) \subseteq T
      <4>1. y \in H /\ y \in Onward(o, W, x)
        BY <3>1
      <4>2. y \in R \ f /\ y \notin M
        BY <2>2, <2>4, <4>1
      <4>3. ASSUME NEW z \in Successors(o, y) PROVE z \in T
        <5>1. z \in R \ U
          BY <2>3, <4>1, <4>2, <4>3
        <5>2. CASE z \in M
          BY <1>2, <2>1, <5>1, <5>2
        <5>3. CASE z \notin M
          <6>1. z \in W
            BY <1>0, <5>1, <5>3
          <6>2. z \in Onward(o, W, x)
            BY <4>1, <4>3, <6>1, OnwardStep
          <6> QED
            BY <5>1, <6>2
        <5> QED
          BY <5>2, <5>3
      <4> QED
        BY <4>2, <4>3
    <3>2. ASSUME NEW y \in T, y \in Z, y \notin M PROVE Successors(o, y) \subseteq T
      <4>1. Successors(o, y) \subseteq Z
        BY <1>1, <1>4, <3>2 DEF StayStep
      <4> QED
        BY <2>3, <3>2, <4>1
    <3>3. T \in SUBSET R /\ T \subseteq B
      BY <1>2
    <3> DEFINE C == B \cap (Z \cup (R \ f))
               V == Stays(R, Q, C, M)
    <3>4. C \in SUBSET R
      OBVIOUS
    <3>5. V \in SUBSET R /\ \A Y \in SUBSET R : Y \subseteq StayStep(Q, C, M, Y) => Y \subseteq V
      <4> HIDE DEF C
      <4> QED
        BY <1>1, <3>4, StaysIs
    <3>6. \A y \in T : y \in C /\ (y \in M \/ y \in Q[T])
      BY <1>1, <3>1, <3>2, <3>3
    <3> HIDE DEF V, T, C
    <3>7. T \subseteq StayStep(Q, C, M, T)
      BY <3>6 DEF StayStep
    <3>8. T \subseteq V
      BY <3>3, <3>5, <3>7
    <3>9. Successors(o, x) \subseteq T
      <4> SUFFICES ASSUME NEW z \in Successors(o, x) PROVE z \in T
        OBVIOUS
      <4>1. z \in R \ U
        BY <2>2, <2>3
      <4>2. CASE z \in M
        BY <1>2, <2>1, <4>1, <4>2 DEF T
      <4>3. CASE z \notin M
        <5>1. z \in W
          BY <1>0, <4>1, <4>3
        <5>2. z \in Onward(o, W, x)
          BY <5>1, OnwardStep
        <5> QED
          BY <4>1, <5>2 DEF T
      <4> QED
        BY <4>2, <4>3
    <3>10. x \in Q[V]
      BY <1>1, <3>5, <3>8, <3>9
    <3>11. x \in B /\ R \ f \in NN
      BY <2>2 DEF NN
    <3>12. x \in EvadeStep(R, Q, B, M, NN, Z)
      BY <3>10, <3>11 DEF EvadeStep, V, C
    <3> QED
      BY <1>4, <3>12
  <2>5. \A f \in J : \A x \in H : H \cap f \cap Onward(o, W, x) # {}
    BY <2>4
  <2> HIDE DEF H
  <2>6. H \subseteq E
    BY <2>2, <2>5, EndlessAhead DEF E
  <2> QED
    BY <2>6 DEF H
<1> QED
  BY <1>5, <1>6 DEF Z, U, E, NN, Q

LEMMA EndlessMet ==
    ASSUME NEW t, NEW J, NEW S
    PROVE  Endless(t, J, S) = Endless(t, Met(J), S) /\ Met(J) # {}
<1>1. FsmAssumption
  BY FsmAssumption
<1>2. \A C \in SUBSET (S \cap Invar) : C # {} => C \cap State # {}
  BY <1>1 DEF FsmAssumption
<1>3. CASE J = {}
  <2>1. {C \in SUBSET (S \cap Invar) : /\ C # {} /\ \A x \in C : Onward(t, C, x) = C
                                       /\ \A f \in J : C \cap f # {}}
        = {C \in SUBSET (S \cap Invar) : /\ C # {} /\ \A x \in C : Onward(t, C, x) = C
                                         /\ \A f \in {State} : C \cap f # {}}
    BY <1>2, <1>3
  <2> QED
    BY <1>3, <2>1 DEF Endless, Met
<1> QED
  BY <1>3 DEF Met

\* Only what there is in the room of the goal matters.
LEMMA GoalInside ==
    ASSUME NEW X, NEW Q, NEW B \in SUBSET X, NEW M, NEW N, B \cap M = B \cap N, NEW NN
    PROVE  /\ Stays(X, Q, B, M) = Stays(X, Q, B, N)
           /\ Evades(X, Q, B, M, NN) = Evades(X, Q, B, N, NN)
<1>1. \A C \in SUBSET B : \A Y : StayStep(Q, C, M, Y) = StayStep(Q, C, N, Y)
  BY DEF StayStep
<1>2. \A C \in SUBSET B : Stays(X, Q, C, M) = Stays(X, Q, C, N)
  BY <1>1 DEF Stays
<1>3. \A Z : EvadeStep(X, Q, B, M, NN, Z) = EvadeStep(X, Q, B, N, NN, Z)
  <2> TAKE Z
  <2>1. \A n : B \cap (Z \cup n) \in SUBSET B
    OBVIOUS
  <2>2. \A n \in NN : Stays(X, Q, B \cap (Z \cup n), M) = Stays(X, Q, B \cap (Z \cup n), N)
    BY <1>2, <2>1
  <2>3. {Q[Stays(X, Q, B \cap (Z \cup n), M)] : n \in NN}
        = {Q[Stays(X, Q, B \cap (Z \cup n), N)] : n \in NN}
    BY <2>2
  <2> QED
    BY <2>3 DEF EvadeStep
<1> QED
  BY <1>2, <1>3 DEF Evades

\* Nothing leads out of everything.
LEMMA LeavingNone ==
    ASSUME NEW o, NEW R, Total(o, R), NEW M
    PROVE  R \cap Leaving(o, R, R, M) = {}
<1>1. \A p \in R : p \notin R \/ (p \notin M /\ Successors(o, p) \cap {} # {}) => p \in {}
  OBVIOUS
<1> QED
  BY <1>1, LeavingLeast

\* On the paths that are fair, a holds until b unless one leads out of them both.
LEMMA UnlessMeans ==
    ASSUME NEW o, NEW R, Total(o, R), NEW F,
           \A p \in R : Successors(o, p) \cap F # {} => p \in F,
           NEW a, NEW b, NEW B, B = R \cap (a \cup b \cup (R \ F))
    PROVE  \A p \in R : Unless(o, F, p, a, b) <=> p \notin Leaving(o, R, B, b)
<1> DEFINE U == Untils(o, F, State \ b, State \ (a \cup b))
           V == Leaving(o, R, B, b)
<1>1. R \in SUBSET State /\ \A p \in R : Successors(o, p) \subseteq R
  BY LeadingGame DEF Total
<1>2. \A p \in R : Unless(o, F, p, a, b) <=> p \notin U
  BY <1>1, UnlessIs
<1>3. U = (State \cap F \cap (State \ (a \cup b))) \cup StepsBack(o, State \ b, U)
  BY UntilUnfolds
<1>4. \A p \in R : p \in V <=> p \notin B \/ (p \notin b /\ Successors(o, p) \cap V # {})
  BY LeavingIs
<1>5. R \cap U \subseteq V
  <2> HIDE DEF V
  <2>1. R \cap State \cap F \cap (State \ (a \cup b)) \subseteq V
    BY <1>4
  <2>2. \A s \in R \cap State \cap (State \ b) : Successors(o, s) \cap V # {} => s \in V
    BY <1>4
  <2> QED
    BY <1>1, <2>1, <2>2, UntilLeast
<1>6. R \cap V \subseteq U
  <2> HIDE DEF U
  <2>1. \A p \in R : p \notin B \/ (p \notin b /\ Successors(o, p) \cap U # {}) => p \in U
    BY <1>1, <1>3 DEF StepsBack
  <2> QED
    BY <2>1, LeavingLeast
<1> QED
  BY <1>2, <1>5, <1>6

-----------------------------------------------------------------------------
(* What a formula asks for, in these terms.                                *)

KindOf(op) == IF op = "CEX" THEN "next" ELSE IF op \in {"CEG", "CEW"} THEN "weak" ELSE "until"
Along(s) == IF s.op = "CEF" THEN State ELSE s.a
Goal(s) == IF s.op = "CEF" THEN s.a ELSE IF s.op \in {"CEU", "CEW"} THEN s.b ELSE {}

LEMMA AvoidsMeans ==
    ASSUME NEW o, NEW R, Total(o, R), NEW J
    PROVE  Avoids(R, Leading(o, R), R, Unmet(R, J)) = R \ Endless(o, J, State)
<1>1. Evades(R, Leading(o, R), R, {}, {R \ f : f \in Met(J)})
        = R \ (Leaving(o, R, R, {}) \cup Endless(o, Met(J), State \ {}))
  BY EndlessMet, EvadesMeans
<1>2. State \ {} = State
  OBVIOUS
<1> QED
  BY <1>1, <1>2, LeavingNone, EndlessMet DEF Avoids, Unmet

LEMMA ExistentialIs ==
    /\ Existential = {"CEX", "CEG", "CEF", "CEU", "CEW"}
    /\ Universal = {"CAX", "CAG", "CAF", "CAU", "CAW"}
    /\ Dual["CAX"] = "CEX" /\ Dual["CAG"] = "CEF" /\ Dual["CAF"] = "CEG" /\ Dual["CAU"] = "CEW"
    /\ Dual["CAW"] = "CEU"
  BY DEF Existential, Universal, Dual

\* What is won in the outcome o of a strategy.
WonIn(o, R, J, s) ==
    Win(R, Leading(o, R), R, Unmet(R, J), KindOf(s.op), R \cap Along(s), R \cap Goal(s))

\* It is what the strategy ensures.
LEMMA WinMeans ==
    ASSUME NEW o, NEW R, Total(o, R), NEW J, NEW s, s.op \in Existential
    PROVE  R \cap Ensured(o, J, s) = WonIn(o, R, J, s)
<1> DEFINE Q == Leading(o, R)
           NN == Unmet(R, J)
           F == Endless(o, J, State)
           a == Along(s)
           b == Goal(s)
           Z == Avoids(R, Q, R, NN)
           B == Room(R, Q, R, NN, R \cap a, R \cap b)
<1>1. R \in SUBSET State /\ \A p \in R : Successors(o, p) \subseteq R
  BY LeadingGame DEF Total
<1>2. Z = R \ F
  BY AvoidsMeans
<1>3. B = R \cap (a \cup b \cup (R \ F)) /\ B \in SUBSET R /\ B \cap (R \cap b) = B \cap b
  BY <1>2 DEF Room
<1>4. \A p \in R : Successors(o, p) \cap F # {} => p \in F
  BY <1>1, EndlessUnfolds DEF Total
<1>5. \A p \in R : Unless(o, F, p, a, b) <=> p \notin Leaving(o, R, B, b)
  <2> HIDE DEF F, B, a, b
  <2> QED
    BY <1>3, <1>4, UnlessMeans
<1> USE DEF WonIn
<1>6. CASE s.op = "CEX"
  <2>1. KindOf(s.op) = "next" /\ a = s.a
    BY <1>6 DEF KindOf, Along
  <2>2. Win(R, Q, R, NN, "next", R \cap a, R \cap b) = R \cap Q[(R \cap a) \cup Z]
    BY DEF Win
  <2>3. (R \cap a) \cup Z \in SUBSET R
    BY <1>2
  <2> HIDE DEF Q, Z, F
  <2>4. \A p \in R : p \in Q[(R \cap a) \cup Z] <=> Successors(o, p) \subseteq (R \cap a) \cup Z
    BY <2>3, LeadingGame DEF Q
  <2>5. Ensured(o, J, s) = {p \in State : Successors(o, p) \cap F \subseteq s.a}
    BY <1>6 DEF Ensured, F
  <2> QED
    BY <1>1, <1>2, <2>1, <2>2, <2>4, <2>5 DEF Q, Z, F
<1>7. CASE s.op \in {"CEG", "CEW"}
  <2>1. KindOf(s.op) = "weak" /\ a = s.a /\ b = (IF s.op = "CEW" THEN s.b ELSE {})
    BY <1>7 DEF KindOf, Along, Goal
  <2>2. Win(R, Q, R, NN, "weak", R \cap a, R \cap b) = Stays(R, Q, B, R \cap b)
    BY DEF Win
  <2> HIDE DEF B, F, a, b
  <2>3. Stays(R, Q, B, R \cap b) = R \ Leaving(o, R, B, b)
    BY <1>3, GoalInside, StaysMeans
  <2>4. Ensured(o, J, s) = {p \in State : Unless(o, F, p, a, b)}
    <3>1. CASE s.op = "CEG"
      BY <2>1, <3>1 DEF Ensured, F
    <3>2. CASE s.op = "CEW"
      BY <2>1, <3>2 DEF Ensured, F
    <3> QED
      BY <1>7, <3>1, <3>2
  <2> QED
    BY <1>1, <1>5, <2>1, <2>2, <2>3, <2>4 DEF B, F, a, b
<1>8. CASE s.op \in {"CEF", "CEU"}
  <2>1. KindOf(s.op) = "until"
    BY <1>8 DEF KindOf
  <2>2. Win(R, Q, R, NN, "until", R \cap a, R \cap b) = Evades(R, Q, B, R \cap b, NN)
    BY DEF Win
  <2>3. Evades(R, Q, B, R \cap b, NN) = R \ (Leaving(o, R, B, b) \cup Endless(o, J, State \ b))
    <3> HIDE DEF B, b
    <3>1. Evades(R, Q, B, R \cap b, NN) = Evades(R, Q, B, b, NN)
      BY <1>3, GoalInside
    <3>2. Evades(R, Q, B, b, {R \ f : f \in Met(J)})
            = R \ (Leaving(o, R, B, b) \cup Endless(o, Met(J), State \ b))
      BY <1>3, EvadesMeans, EndlessMet
    <3> QED
      BY <3>1, <3>2, EndlessMet DEF Unmet
  <2>4. R \cap Ensured(o, J, s) = R \ (Leaving(o, R, B, b) \cup Endless(o, J, State \ b))
    <3>1. CASE s.op = "CEU"
      <4>1. a = s.a /\ b = s.b
        BY <3>1 DEF Along, Goal
      <4> HIDE DEF B, F, a, b
      <4>2. Ensured(o, J, s) = {p \in State : Unless(o, F, p, a, b)} \ Endless(o, J, State \ b)
        BY <3>1, <4>1 DEF Ensured, F
      <4> QED
        BY <1>1, <1>5, <4>2
    <3>2. CASE s.op = "CEF"
      <4>1. a = State /\ b = s.a
        BY <3>2 DEF Along, Goal
      <4>2. B = R
        BY <1>1, <1>3, <4>1
      <4> HIDE DEF B, F, a, b
      <4>3. Ensured(o, J, s) = State \ Endless(o, J, State \ b)
        BY <3>2, <4>1 DEF Ensured
      <4>4. R \cap Leaving(o, R, B, b) = {}
        BY <4>2, LeavingNone
      <4> QED
        BY <1>1, <4>3, <4>4
    <3> QED
      BY <1>8, <3>1, <3>2
  <2> QED
    BY <2>1, <2>2, <2>3, <2>4
<1> QED
  BY <1>6, <1>7, <1>8, ExistentialIs

-----------------------------------------------------------------------------
(* The images, by where the moves of a group lead.                         *)

\* Where the move of x leads, with every action of the other agents.
Out(t, G, x) ==
    {q \in Invar : x[1] \in Invar /\ \E i \in InvarInput : Own(G, i) = Own(G, x[2]) /\ <<x[1], i, q>> \in t}

LEMMA OutIn ==
    ASSUME NEW t, NEW G, NEW x \in StateInput
    PROVE  Out(t, G, x) \subseteq Successors(t, x[1]) /\ Out(t, G, x) \in SUBSET State
  BY SuccessorsIn DEF Out, Successors

LEMMA ForsomeIs ==
    ASSUME NEW t, NEW G, NEW S
    PROVE  \A x : x \in ForsomeOthers(WeakBackwardImage(t, S), G)
                    <=> x \in StateInput /\ Out(t, G, x) \cap S # {}
<1> TAKE x
<1>1. InvarInput \subseteq Input /\ Invar \subseteq State
  BY FsmAssumption
<1>2. ASSUME x \in ForsomeOthers(WeakBackwardImage(t, S), G)
      PROVE  x \in StateInput /\ Out(t, G, x) \cap S # {}
  <2>1. PICK i \in Input : Own(G, i) = Own(G, x[2]) /\ <<x[1], i>> \in WeakBackwardImage(t, S)
    BY <1>2 DEF ForsomeOthers
  <2>2. <<x[1], i>>[1] = x[1] /\ <<x[1], i>>[2] = i
    OBVIOUS
  <2>3. x[1] \in Invar /\ i \in InvarInput /\ \E q \in S \cap Invar : <<x[1], i, q>> \in t
    BY <2>1, <2>2 DEF WeakBackwardImage
  <2> QED
    BY <1>2, <2>1, <2>3 DEF Out, ForsomeOthers
<1>3. ASSUME x \in StateInput, Out(t, G, x) \cap S # {}
      PROVE  x \in ForsomeOthers(WeakBackwardImage(t, S), G)
  <2>1. PICK q \in Out(t, G, x) : q \in S
    BY <1>3
  <2>2. PICK i \in InvarInput : q \in Invar /\ x[1] \in Invar /\ Own(G, i) = Own(G, x[2]) /\ <<x[1], i, q>> \in t
    BY <2>1 DEF Out
  <2> DEFINE y == <<x[1], i>>
  <2>3. y \in Invar \X InvarInput /\ y[1] = x[1] /\ y[2] = i
    BY <2>2
  <2>4. y \in WeakBackwardImage(t, S)
    BY <2>1, <2>2, <2>3 DEF WeakBackwardImage
  <2> QED
    BY <1>1, <1>3, <2>2, <2>4 DEF ForsomeOthers
<1> QED
  BY <1>2, <1>3

LEMMA ForsomeAgain ==
    ASSUME NEW G, NEW si
    PROVE  \A i, j \in Input, p \in State : Own(G, i) = Own(G, j) =>
               (<<p, i>> \in ForsomeOthers(si, G) <=> <<p, j>> \in ForsomeOthers(si, G))
<1> TAKE i, j \in Input, p \in State
<1> HAVE Own(G, i) = Own(G, j)
<1> DEFINE x == <<p, i>>
           y == <<p, j>>
<1>1. x \in StateInput /\ y \in StateInput /\ x[1] = p /\ x[2] = i /\ y[1] = p /\ y[2] = j
  BY DEF StateInput
<1> HIDE DEF x, y
<1>2. x \in ForsomeOthers(si, G) <=> \E k \in Input : Own(G, k) = Own(G, i) /\ <<p, k>> \in si
  BY <1>1 DEF ForsomeOthers
<1>3. y \in ForsomeOthers(si, G) <=> \E k \in Input : Own(G, k) = Own(G, j) /\ <<p, k>> \in si
  BY <1>1 DEF ForsomeOthers
<1> QED
  BY <1>2, <1>3 DEF x, y

\* pre_strat_si keeps the moves that lead somewhere, and nowhere but to S.
LEMMA PreStratSiIs ==
    ASSUME NEW t, NEW S \in SUBSET State, NEW G, NEW strat
    PROVE  PreStratSi(t, S, G, strat)
              = {x \in strat \cap StateInput : Out(t, G, x) # {} /\ Out(t, G, x) \subseteq S}
<1> DEFINE T == ForsomeOthers(WeakBackwardImage(t, State \ S), G)
           W == WeakBackwardImage(t, S)
<1> SUFFICES ASSUME NEW x \in StateInput
             PROVE  x \in ForsomeOthers(W \ T, G) <=> Out(t, G, x) # {} /\ Out(t, G, x) \subseteq S
  BY DEF PreStratSi, ForsomeOthers
<1>1. x = <<x[1], x[2]>> /\ x[1] \in State /\ x[2] \in Input
  BY DEF StateInput
<1>2. Out(t, G, x) \in SUBSET State
  BY OutIn
<1>3. x \in T <=> ~(Out(t, G, x) \subseteq S)
  BY <1>2, ForsomeIs
<1>4. x \in ForsomeOthers(W, G) <=> Out(t, G, x) \cap S # {}
  BY ForsomeIs
<1>5. \A i \in Input : Own(G, i) = Own(G, x[2]) => (<<x[1], i>> \in T <=> x \in T)
  BY <1>1, ForsomeAgain
<1> HIDE DEF T, W
<1>6. x \in ForsomeOthers(W \ T, G) <=> \E i \in Input : Own(G, i) = Own(G, x[2]) /\ <<x[1], i>> \in W \ T
  BY DEF ForsomeOthers
<1>7. x \in ForsomeOthers(W, G) <=> \E i \in Input : Own(G, i) = Own(G, x[2]) /\ <<x[1], i>> \in W
  BY DEF ForsomeOthers
<1> QED
  BY <1>3, <1>4, <1>5, <1>6, <1>7

\* Some move in p leads somewhere, and nowhere but to S.
CanLead(t, G, p, S) == \E i \in Input : Out(t, G, <<p, i>>) # {} /\ Out(t, G, <<p, i>>) \subseteq S

\* pre_strat
LEMMA PreStratIs ==
    ASSUME NEW t, NEW S \in SUBSET State, NEW G
    PROVE  PreStrat(t, S, G) = {p \in State : CanLead(t, G, p, S)}
<1> DEFINE W == PreStratSi(t, S, G, StateInput)
<1>1. W = {x \in StateInput : Out(t, G, x) # {} /\ Out(t, G, x) \subseteq S}
  BY PreStratSiIs
<1>2. \A p \in State, i \in Input : <<p, i>> \in StateInput
  BY DEF StateInput
<1> HIDE DEF W
<1>3. \A p \in State, i \in Input : <<p, i>> \in W
         <=> Out(t, G, <<p, i>>) # {} /\ Out(t, G, <<p, i>>) \subseteq S
  BY <1>1, <1>2
<1> QED
  BY <1>3 DEF PreStrat, StatesOf, W, CanLead

\* In what no step leaves, the protocol has every move that leads somewhere.
LEMMA ProtocolIs ==
    ASSUME NEW t, NEW R \in SUBSET State, \A p \in R : Successors(t, p) \subseteq R, NEW G
    PROVE  Protocol(t, R, G) = {x \in StateInput : x[1] \in R /\ Out(t, G, x) # {}}
<1>1. \A x : x \in ForsomeOthers(WeakBackwardImage(t, R), G)
                <=> x \in StateInput /\ Out(t, G, x) \cap R # {}
  BY ForsomeIs
<1>2. \A x \in StateInput : x = <<x[1], x[2]>> /\ x[1] \in State /\ x[2] \in Input
  BY DEF StateInput
<1>3. \A x \in StateInput : x \in R \X Input <=> x[1] \in R
  BY <1>2
<1>4. \A x \in StateInput : x[1] \in R => (Out(t, G, x) \cap R # {} <=> Out(t, G, x) # {})
  BY OutIn
<1> QED
  BY <1>1, <1>3, <1>4 DEF Protocol, Within

-----------------------------------------------------------------------------
(* What happens when a group plays a uniform strategy.                     *)

LEMMA SystemIs ==
    SystemInv => /\ reach \in SUBSET Invar /\ reach \in SUBSET State
                 /\ \A p \in reach : Successors(trans, p) \subseteq reach
                 /\ justice \in SUBSET SUBSET State
                 /\ Lively => \A p \in reach : Successors(trans, p) # {}
<1>1. SystemInv => justice \in SUBSET SUBSET State
  BY StrategiesAssumption DEF SystemInv
<1> QED
  BY <1>1, ReachLegal, ReachInside DEF SystemInv, Lively

LEMMA UniformIs ==
    ASSUME SystemInv, NEW G, NEW f
    PROVE  f \in UniformStrategies(G) <=>
              /\ f \in [{Seen(G, p) : p \in reach} -> {Own(G, i) : i \in Input}]
              /\ \A p \in reach : \E i \in Input : Own(G, i) = f[Seen(G, p)] /\ Out(trans, G, <<p, i>>) # {}
<1> DEFINE P == Protocol(trans, reach, G)
<1>1. P = {x \in StateInput : x[1] \in reach /\ Out(trans, G, x) # {}}
  BY SystemIs, ProtocolIs
<1>2. \A x \in StateInput : x = <<x[1], x[2]>> /\ x[1] \in State /\ x[2] \in Input
  BY DEF StateInput
<1>3. \A p \in reach : \A i \in Input : <<p, i>> \in StateInput
  BY SystemIs DEF StateInput
<1>4. ASSUME NEW p \in reach
      PROVE  (\E x \in P : x[1] = p /\ Own(G, x[2]) = f[Seen(G, p)])
                <=> \E i \in Input : Own(G, i) = f[Seen(G, p)] /\ Out(trans, G, <<p, i>>) # {}
  <2>1. ASSUME NEW x \in P, x[1] = p, Own(G, x[2]) = f[Seen(G, p)]
        PROVE  \E i \in Input : Own(G, i) = f[Seen(G, p)] /\ Out(trans, G, <<p, i>>) # {}
    BY <1>1, <1>2, <2>1
  <2>2. ASSUME NEW i \in Input, Own(G, i) = f[Seen(G, p)], Out(trans, G, <<p, i>>) # {}
        PROVE  \E x \in P : x[1] = p /\ Own(G, x[2]) = f[Seen(G, p)]
    <3> DEFINE y == <<p, i>>
    <3>1. y \in StateInput /\ y[1] = p /\ y[2] = i
      BY <1>3
    <3> HIDE DEF y
    <3>2. y \in P
      BY <1>1, <2>2, <3>1 DEF y
    <3> QED
      BY <2>2, <3>1, <3>2
  <2> QED
    BY <2>1, <2>2
<1> QED
  BY <1>4 DEF UniformStrategies

LEMMA OutcomeIs ==
    ASSUME SystemInv, NEW G, NEW f, NEW p \in reach, NEW i, Own(G, i) = f[Seen(G, p)]
    PROVE  Successors(Outcome(G, f), p) = Out(trans, G, <<p, i>>)
<1>1. \A k, q : <<p, k, q>> \in Outcome(G, f) <=> <<p, k, q>> \in trans /\ Own(G, k) = Own(G, i)
  BY DEF Outcome
<1> QED
  BY <1>1, SystemIs DEF Successors, Out

LEMMA OutcomeTotal ==
    ASSUME SystemInv, NEW G, NEW f \in UniformStrategies(G)
    PROVE  Total(Outcome(G, f), reach)
<1> SUFFICES ASSUME NEW p \in reach
             PROVE  Successors(Outcome(G, f), p) \subseteq reach /\ Successors(Outcome(G, f), p) # {}
  BY SystemIs DEF Total
<1>1. PICK i \in Input : Own(G, i) = f[Seen(G, p)] /\ Out(trans, G, <<p, i>>) # {}
  BY UniformIs
<1>2. Successors(Outcome(G, f), p) = Out(trans, G, <<p, i>>)
  BY <1>1, OutcomeIs
<1>3. <<p, i>> \in StateInput /\ <<p, i>>[1] = p
  BY SystemIs DEF StateInput
<1> QED
  BY <1>1, <1>2, <1>3, SystemIs, OutIn

-----------------------------------------------------------------------------
(* What atlkPO computes of a set of moves, in these terms.                 *)

Forcing(G, strat) == [Y \in SUBSET StateInput |-> PreSi(Y, G, strat)]
UnmetPairs == {Pairs(State \ f) : f \in Met(justice)}

LEMMA StatesIn ==
    /\ \A S : StatesOf(S) \in SUBSET State
    /\ \A S, T : S \subseteq T => StatesOf(S) \subseteq StatesOf(T)
  BY DEF StatesOf

LEMMA ForcingGame ==
    ASSUME NEW G, NEW strat
    PROVE  /\ Game(StateInput, Forcing(G, strat))
           /\ \A Y \in SUBSET StateInput : Forcing(G, strat)[Y]
                  = {x \in strat \cap StateInput : Out(trans, G, x) # {} /\ Out(trans, G, x) \subseteq StatesOf(Y)}
<1> DEFINE Q == Forcing(G, strat)
<1>1. \A Y \in SUBSET StateInput : Q[Y] = PreStratSi(trans, StatesOf(Y), G, strat)
  BY DEF Forcing, PreSi
<1>2. \A Y \in SUBSET StateInput : Q[Y]
         = {x \in strat \cap StateInput : Out(trans, G, x) # {} /\ Out(trans, G, x) \subseteq StatesOf(Y)}
  BY <1>1, StatesIn, PreStratSiIs
<1>3. Q = [Y \in SUBSET StateInput |-> Q[Y]]
  BY DEF Forcing
<1> HIDE DEF Q
<1>4. Q \in [SUBSET StateInput -> SUBSET StateInput]
  BY <1>2, <1>3
<1>5. \A S, T \in SUBSET StateInput : S \subseteq T => Q[S] \subseteq Q[T]
  <2> TAKE S, T \in SUBSET StateInput
  <2> HAVE S \subseteq T
  <2>1. StatesOf(S) \subseteq StatesOf(T)
    BY StatesIn
  <2> QED
    BY <1>2, <2>1
<1> QED
  BY <1>2, <1>4, <1>5, PairsFinite DEF Game, Q

LEMMA NoMoves ==
    ASSUME NEW X, NEW Q, Game(X, Q), Q[{}] = {}, NEW K \in SUBSET X
    PROVE  Avoids(X, Q, K, {{}}) = {}
<1>1. Gets(X, Q, K, {}) = Avoids(X, Q, K, {{}})
  BY GetsIs DEF Avoids
<1> DEFINE round == [Z \in SUBSET X |-> StayStep(Q, K, {}, Z)]
<1>2. round \in [SUBSET X -> SUBSET X]
  BY DEF StayStep
<1>3. \A S, T \in SUBSET X : S \subseteq T => round[S] \subseteq round[T]
  BY DEF StayStep, Game
<1>4. round[{}] = {}
  BY DEF StayStep
<1>5. IsLeast(X, round, Fixpoint(round, {}))
  <2> HIDE DEF round
  <2> QED
    BY <1>2, <1>3, FixpointLeast DEF Game
<1>6. Fixpoint(round, {}) = {}
  <2> HIDE DEF round
  <2>1. {} \in SUBSET X /\ round[{}] \subseteq {}
    BY <1>4
  <2> QED
    BY <1>5, <2>1 DEF IsLeast
<1> QED
  BY <1>1, <1>6 DEF Gets

LEMMA PairsAre ==
    /\ \A S : S \subseteq State => Pairs(S) \in SUBSET StateInput
    /\ \A S : \A x \in StateInput : x \in Pairs(S) <=> x[1] \in S
    /\ Pairs({}) = {} /\ Pairs(State) = StateInput
  BY DEF Pairs, StateInput

LEMMA NfairSiIs ==
    ASSUME SystemInv, NEW G, NEW strat \in SUBSET StateInput
    PROVE  NfairGammaSi(G, strat) = Avoids(StateInput, Forcing(G, strat), strat, UnmetPairs)
<1> DEFINE X == StateInput
           Q == Forcing(G, strat)
           Mine(Z, f) == [Y \in SUBSET X |-> (Z \cup (Pairs(State \ f) \cap strat)) \cap PreSi(Y, G, strat)]
           mine == [Z \in SUBSET X |-> UNION {PreSi(Fixpoint(Mine(Z, f), X), G, strat) : f \in justice}]
           theirs == [Z \in SUBSET X |-> EvadeStep(X, Q, strat, {}, UnmetPairs, Z)]
<1>1. NfairGammaSi(G, strat) = Fixpoint(mine, {})
  BY DEF NfairGammaSi
<1>2. Avoids(X, Q, strat, UnmetPairs) = Fixpoint(theirs, {})
  BY DEF Avoids, Evades
<1>3. Game(X, Q) /\ (\A Y \in SUBSET X : Q[Y] = PreSi(Y, G, strat) /\ Q[Y] \subseteq strat) /\ Q[{}] = {}
  <2>1. \A Y \in SUBSET X : Q[Y] = PreSi(Y, G, strat)
    BY DEF Forcing
  <2>2. StatesOf({}) = {}
    BY DEF StatesOf
  <2> QED
    BY <2>1, <2>2, ForcingGame
<1>4. CASE justice # {}
  <2>1. ASSUME NEW Z \in SUBSET X
        PROVE  UNION {PreSi(Fixpoint(Mine(Z, f), X), G, strat) : f \in justice}
                  = EvadeStep(X, Q, strat, {}, UnmetPairs, Z)
    <3> DEFINE St(n) == Stays(X, Q, strat \cap (Z \cup n), {})
    <3>1. ASSUME NEW f \in justice
          PROVE  PreSi(Fixpoint(Mine(Z, f), X), G, strat) = Q[St(Pairs(State \ f))]
      <4> DEFINE B == strat \cap (Z \cup Pairs(State \ f))
      <4>1. \A Y \in SUBSET X : (Z \cup (Pairs(State \ f) \cap strat)) \cap PreSi(Y, G, strat)
                                   = StayStep(Q, B, {}, Y)
        BY <1>3 DEF StayStep
      <4>2. Mine(Z, f) = [Y \in SUBSET X |-> StayStep(Q, B, {}, Y)]
        BY <4>1
      <4>3. Fixpoint(Mine(Z, f), X) = Stays(X, Q, B, {})
        BY <4>2 DEF Stays
      <4>4. Stays(X, Q, B, {}) \in SUBSET X
        <5>1. B \in SUBSET X
          OBVIOUS
        <5> HIDE DEF B
        <5> QED
          BY <1>3, <5>1, StaysIs
      <4> HIDE DEF B, Mine
      <4> QED
        BY <1>3, <4>3, <4>4 DEF B
    <3> HIDE DEF Mine, Q
    <3>2. {PreSi(Fixpoint(Mine(Z, f), X), G, strat) : f \in justice} = {Q[St(n)] : n \in UnmetPairs}
      BY <1>4, <3>1 DEF UnmetPairs, Met
    <3>3. UNION {Q[St(n)] : n \in UnmetPairs} \subseteq strat
      <4>1. \A n \in UnmetPairs : St(n) \in SUBSET X
        <5> TAKE n \in UnmetPairs
        <5> DEFINE B == strat \cap (Z \cup n)
        <5>1. B \in SUBSET X
          OBVIOUS
        <5> HIDE DEF B
        <5>2. Stays(X, Q, B, {}) \in SUBSET X
          BY <1>3, <5>1, StaysIs
        <5> QED
          BY <5>2 DEF B
      <4> HIDE DEF St
      <4> QED
        BY <1>3, <4>1
    <3>4. EvadeStep(X, Q, strat, {}, UnmetPairs, Z) = strat \cap UNION {Q[St(n)] : n \in UnmetPairs}
      BY DEF EvadeStep
    <3> HIDE DEF St
    <3> QED
      BY <3>2, <3>3, <3>4
  <2>2. mine = theirs
    <3> HIDE DEF Mine, Q
    <3> QED
      BY <2>1
  <2> QED
    BY <1>1, <1>2, <2>2
<1>5. CASE justice = {}
  <2>1. UnmetPairs = {{}}
    <3>1. Met(justice) = {State}
      BY <1>5 DEF Met
    <3>2. UnmetPairs = {Pairs(State \ State)}
      BY <3>1 DEF UnmetPairs
    <3>3. State \ State = {}
      OBVIOUS
    <3> QED
      BY <3>2, <3>3, PairsAre
  <2>2. Avoids(X, Q, strat, UnmetPairs) = {}
    <3> HIDE DEF Q
    <3> QED
      BY <1>3, <2>1, NoMoves
  <2>3. mine = [Z \in SUBSET X |-> {}]
    BY <1>5
  <2>4. Fixpoint([Z \in SUBSET X |-> {}], {}) = {}
    <3> DEFINE none == [Z \in SUBSET X |-> {}]
    <3>1. none \in [SUBSET X -> SUBSET X] /\ \A S \in SUBSET X : none[S] = {}
      OBVIOUS
    <3> HIDE DEF none
    <3>2. IsLeast(X, none, Fixpoint(none, {}))
      BY <3>1, PairsFinite, FixpointLeast
    <3> QED
      BY <3>1, <3>2 DEF IsLeast, none
  <2> QED
    BY <1>1, <2>2, <2>3, <2>4
<1> QED
  BY <1>4, <1>5

\* What a strategy of the code wins, with what the group can avoid.
LEMMA WinningIs ==
    ASSUME SystemInv, NEW s, s.op \in Existential, s.a \in SUBSET State, s.b \in SUBSET State,
           NEW strat \in SUBSET StateInput
    PROVE  Winning(s, strat) = Win(StateInput, Forcing(s.group, strat), strat, UnmetPairs,
                                   KindOf(s.op), Pairs(Along(s)), Pairs(Goal(s)))
<1> DEFINE X == StateInput
           G == s.group
           Q == Forcing(G, strat)
           a == Pairs(Along(s))
           b == Pairs(Goal(s))
           A == Avoids(X, Q, strat, UnmetPairs)
           B == Room(X, Q, strat, UnmetPairs, a, b)
<1>1. Game(X, Q) /\ (\A Y \in SUBSET X : Q[Y] = PreSi(Y, G, strat) /\ Q[Y] \subseteq strat)
  <2>1. \A Y \in SUBSET X : Q[Y] = PreSi(Y, G, strat)
    BY DEF Forcing
  <2> QED
    BY <2>1, ForcingGame
<1>2. NfairGammaSi(G, strat) = A
  BY NfairSiIs
<1>3. A \in SUBSET X /\ A \subseteq strat
  <2> HIDE DEF Q
  <2> QED
    BY <1>1, AvoidsIs
<1>4. B = (a \cap strat) \cup (b \cap strat) \cup A /\ B \in SUBSET X
  BY <1>3 DEF Room
<1> HIDE DEF Q
<1>5. CASE s.op = "CEX"
  <2>1. a = Pairs(s.a) /\ a \in SUBSET X /\ KindOf(s.op) = "next"
    BY <1>5, PairsAre DEF Along, KindOf
  <2> HIDE DEF A, B, a, b
  <2>2. Winning(s, strat) = PreSi(a \cup A, G, strat)
    BY <1>2, <1>5, <2>1 DEF Winning, CexSi
  <2>3. a \cup A \in SUBSET X
    BY <1>3, <2>1
  <2>4. PreSi(a \cup A, G, strat) = strat \cap Q[a \cup A]
    BY <1>1, <2>3
  <2>5. Win(X, Q, strat, UnmetPairs, "next", a, b) = strat \cap Q[a \cup A]
    BY DEF Win, A
  <2> QED
    BY <2>1, <2>2, <2>4, <2>5 DEF Q, a, b
<1>6. CASE s.op \in {"CEG", "CEW"}
  <2>1. KindOf(s.op) = "weak" /\ Winning(s, strat) = CewSi(G, Along(s), Goal(s), strat)
    BY <1>6 DEF KindOf, Winning, CegSi, Along, Goal
  <2>2. CewSi(G, Along(s), Goal(s), strat)
          = Fixpoint([Y \in SUBSET X |->
                ((a \cap strat) \cup (b \cap strat) \cup A) \cap ((b \cap strat) \cup PreSi(Y, G, strat))], X)
    BY <1>2 DEF CewSi
  <2> HIDE DEF A, a, b, B
  <2>3. \A Y \in SUBSET X :
            ((a \cap strat) \cup (b \cap strat) \cup A) \cap ((b \cap strat) \cup PreSi(Y, G, strat))
                = StayStep(Q, B, b, Y)
    BY <1>1, <1>3, <1>4 DEF StayStep
  <2>4. CewSi(G, Along(s), Goal(s), strat) = Stays(X, Q, B, b)
    BY <2>2, <2>3 DEF Stays
  <2>5. Win(X, Q, strat, UnmetPairs, "weak", a, b) = Stays(X, Q, B, b)
    BY DEF Win, B
  <2> QED
    BY <2>1, <2>4, <2>5 DEF Q, a, b
<1>7. CASE s.op \in {"CEF", "CEU"}
  <2>1. KindOf(s.op) = "until" /\ Winning(s, strat) = CeuSi(G, Along(s), Goal(s), strat)
    BY <1>7 DEF KindOf, Winning, Along, Goal
  <2>2. Win(X, Q, strat, UnmetPairs, "until", a, b) = Evades(X, Q, B, b, UnmetPairs)
    BY DEF Win
  <2> DEFINE bs == b \cap strat
             as == a \cap strat
  <2>3. CASE justice = {}
    <3>1. CeuSi(G, Along(s), Goal(s), strat)
            = Fixpoint([Z \in SUBSET X |-> bs \cup (as \cap PreSi(Z, G, strat))], {})
      BY <2>3 DEF CeuSi
    <3>2. UnmetPairs = {{}}
      <4>1. Met(justice) = {State}
        BY <2>3 DEF Met
      <4>2. UnmetPairs = {Pairs(State \ State)}
        BY <4>1 DEF UnmetPairs
      <4>3. State \ State = {}
        OBVIOUS
      <4> QED
        BY <4>2, <4>3, PairsAre
    <3>3. A = {}
      <4>1. StatesOf({}) = {}
        BY DEF StatesOf
      <4>2. Q[{}] = {}
        BY <4>1, ForcingGame DEF Q
      <4> QED
        BY <1>1, <3>2, <4>2, NoMoves
    <3> HIDE DEF A, B, a, b
    <3>4. \A Z \in SUBSET X : bs \cup (as \cap PreSi(Z, G, strat)) = StayStep(Q, B, b, Z)
      BY <1>1, <1>4, <3>3 DEF StayStep
    <3>5. CeuSi(G, Along(s), Goal(s), strat) = Gets(X, Q, B, b)
      BY <3>1, <3>4 DEF Gets
    <3>6. Gets(X, Q, B, b) = Evades(X, Q, B, b, UnmetPairs)
      BY <1>1, <1>4, <3>2, GetsIs
    <3> QED
      BY <2>1, <2>2, <3>5, <3>6 DEF Q, a, b
  <2>4. CASE justice # {}
    <3> DEFINE Mine(Z, f) == [Y \in SUBSET X |-> (as \cup bs \cup A) \cap (Z \cup (Pairs(State \ f) \cap strat))
                                 \cap (bs \cup PreSi(Y, G, strat))]
               mine == [Z \in SUBSET X |-> (as \cup bs \cup A)
                           \cap (bs \cup UNION {PreSi(Fixpoint(Mine(Z, f), X), G, strat) : f \in justice})]
               theirs == [Z \in SUBSET X |-> EvadeStep(X, Q, B, b, UnmetPairs, Z)]
    <3>1. CeuSi(G, Along(s), Goal(s), strat) = Fixpoint(mine, {})
      BY <1>2, <2>4 DEF CeuSi
    <3>2. Evades(X, Q, B, b, UnmetPairs) = Fixpoint(theirs, {})
      BY DEF Evades
    <3> HIDE DEF A, B, a, b
    <3>3. ASSUME NEW Z \in SUBSET X
          PROVE  (as \cup bs \cup A) \cap (bs \cup UNION {PreSi(Fixpoint(Mine(Z, f), X), G, strat) : f \in justice})
                    = EvadeStep(X, Q, B, b, UnmetPairs, Z)
      <4> DEFINE St(n) == Stays(X, Q, B \cap (Z \cup n), b)
      <4>1. ASSUME NEW f \in justice
            PROVE  PreSi(Fixpoint(Mine(Z, f), X), G, strat) = Q[St(Pairs(State \ f))]
        <5> DEFINE C == B \cap (Z \cup Pairs(State \ f))
        <5>1. \A Y \in SUBSET X : (as \cup bs \cup A) \cap (Z \cup (Pairs(State \ f) \cap strat))
                                     \cap (bs \cup PreSi(Y, G, strat)) = StayStep(Q, C, b, Y)
          BY <1>1, <1>3, <1>4 DEF StayStep
        <5>2. Mine(Z, f) = [Y \in SUBSET X |-> StayStep(Q, C, b, Y)]
          BY <5>1
        <5>3. Fixpoint(Mine(Z, f), X) = Stays(X, Q, C, b)
          BY <5>2 DEF Stays
        <5>4. Stays(X, Q, C, b) \in SUBSET X
          <6>1. C \in SUBSET X
            BY <1>4
          <6> HIDE DEF C
          <6> QED
            BY <1>1, <6>1, StaysIs
        <5> HIDE DEF C, Mine
        <5> QED
          BY <1>1, <5>3, <5>4 DEF C
      <4> HIDE DEF Mine
      <4>2. {PreSi(Fixpoint(Mine(Z, f), X), G, strat) : f \in justice} = {Q[St(n)] : n \in UnmetPairs}
        BY <2>4, <4>1 DEF UnmetPairs, Met
      <4>3. as \cup bs \cup A = B
        BY <1>4
      <4>4. EvadeStep(X, Q, B, b, UnmetPairs, Z) = B \cap (b \cup UNION {Q[St(n)] : n \in UnmetPairs})
        BY DEF EvadeStep
      <4>5. B \cap (bs \cup UNION {Q[St(n)] : n \in UnmetPairs}) = B \cap (b \cup UNION {Q[St(n)] : n \in UnmetPairs})
        <5>1. B \subseteq strat
          BY <1>3, <1>4
        <5> QED
          BY <5>1
      <4> HIDE DEF St, as, bs
      <4> QED
        BY <4>2, <4>3, <4>4, <4>5
    <3>4. mine = theirs
      <4> HIDE DEF Mine
      <4> QED
        BY <3>3
    <3> QED
      BY <2>1, <2>2, <3>1, <3>2, <3>4 DEF Q, a, b
  <2> QED
    BY <2>3, <2>4
<1> QED
  BY <1>5, <1>6, <1>7, ExistentialIs

-----------------------------------------------------------------------------
(* A uniform strategy, as a set of moves.                                  *)

Played(G, f) == {x \in StateInput : x[1] \in reach /\ Own(G, x[2]) = f[Seen(G, x[1])]}

\* The state of each of its pairs.
Stand(K) == [x \in K |-> x[1]]

LEMMA PlayedIs ==
    ASSUME SystemInv, NEW G, NEW f \in UniformStrategies(G)
    PROVE  LET K == Played(G, f)
           IN /\ K \in SUBSET StateInput
              /\ \A x \in K : x[1] \in reach /\ Out(trans, G, x) # {} /\ Out(trans, G, x) \subseteq reach
                              /\ Successors(Outcome(G, f), x[1]) = Out(trans, G, x)
              /\ \A p \in reach : \E x \in K : x[1] = p
<1> DEFINE K == Played(G, f)
<1>1. K \in SUBSET StateInput
  BY DEF Played
<1>2. ASSUME NEW x \in K
      PROVE  x[1] \in reach /\ Out(trans, G, x) # {} /\ Out(trans, G, x) \subseteq reach
             /\ Successors(Outcome(G, f), x[1]) = Out(trans, G, x)
  <2>1. x = <<x[1], x[2]>> /\ x[1] \in reach /\ Own(G, x[2]) = f[Seen(G, x[1])]
    BY DEF Played, StateInput
  <2>2. Successors(Outcome(G, f), x[1]) = Out(trans, G, <<x[1], x[2]>>)
    BY <2>1, OutcomeIs
  <2> QED
    BY <2>1, <2>2, OutcomeTotal DEF Total
<1>3. ASSUME NEW p \in reach PROVE \E x \in K : x[1] = p
  <2>1. PICK i \in Input : Own(G, i) = f[Seen(G, p)]
    BY UniformIs
  <2> DEFINE x == <<p, i>>
  <2>2. x \in StateInput /\ x[1] = p /\ x[2] = i
    BY SystemIs DEF StateInput
  <2> HIDE DEF x
  <2>3. x \in K
    BY <2>1, <2>2 DEF Played
  <2> QED
    BY <2>2, <2>3
<1> QED
  BY <1>1, <1>2, <1>3

LEMMA PlayedShadow ==
    ASSUME SystemInv, NEW G, NEW f \in UniformStrategies(G)
    PROVE  LET K == Played(G, f)
           IN Shadow(StateInput, Forcing(G, K), K, reach, Leading(Outcome(G, f), reach), K, Stand(K))
<1> DEFINE K == Played(G, f)
           Q1 == Forcing(G, K)
           o == Outcome(G, f)
           Q2 == Leading(o, reach)
           h == Stand(K)
<1>1. /\ K \in SUBSET StateInput
      /\ \A x \in K : x[1] \in reach /\ Out(trans, G, x) # {} /\ Successors(o, x[1]) = Out(trans, G, x)
      /\ \A p \in reach : \E x \in K : x[1] = p
  BY PlayedIs
<1>2. Total(o, reach)
  BY OutcomeTotal
<1>3. Game(StateInput, Q1) /\ \A Y \in SUBSET StateInput : Q1[Y]
          = {x \in K \cap StateInput : Out(trans, G, x) # {} /\ Out(trans, G, x) \subseteq StatesOf(Y)}
  BY ForcingGame
<1>4. Game(reach, Q2)
      /\ \A Y \in SUBSET reach : \A p \in reach : p \in Q2[Y] <=> Successors(o, p) \subseteq Y
  BY <1>2, LeadingGame
<1> HIDE DEF K, Q1, Q2, o
<1>5. h \in [K -> reach] /\ (\A x \in K : h[x] = x[1]) /\ \A p \in reach : \E x \in K : h[x] = p
  BY <1>1 DEF Stand
<1>6. ASSUME NEW Y \in SUBSET K, NEW x \in K
      PROVE  x \in Q1[Y] <=> h[x] \in Q2[{h[y] : y \in Y \cap K}]
  <2>1. {h[y] : y \in Y \cap K} = {y[1] : y \in Y}
    BY <1>5
  <2>2. Y \in SUBSET StateInput
    BY <1>1
  <2>3. StatesOf(Y) = {y[1] : y \in Y}
    BY <2>2, StatesAre
  <2>4. StatesOf(Y) \in SUBSET reach
    BY <1>1, <2>3
  <2>5. x \in Q1[Y] <=> Out(trans, G, x) \subseteq StatesOf(Y)
    BY <1>1, <1>3, <2>2
  <2>6. h[x] \in Q2[StatesOf(Y)] <=> Successors(o, x[1]) \subseteq StatesOf(Y)
    BY <1>1, <1>4, <1>5, <2>4
  <2> QED
    BY <1>1, <2>1, <2>3, <2>5, <2>6
<1> QED
  BY <1>1, <1>3, <1>4, <1>5, <1>6 DEF Shadow, K, Q1, Q2, o

LEMMA KindIn == \A s : s.op \in Existential => KindOf(s.op) \in Kinds
  BY DEF KindOf, Kinds

LEMMA UnmetFamilies ==
    /\ UnmetPairs = Family([f \in Met(justice) |-> Pairs(State \ f)], Met(justice))
    /\ \A R, J : Unmet(R, J) = Family([f \in Met(J) |-> R \ f], Met(J))
  BY DEF UnmetPairs, Unmet, Family

\* What atlkPO finds that the moves of a uniform strategy win, a fixpoint on
\* pairs, is what the strategy ensures on the fair paths of its outcome, from
\* every reachable state (atlkPO/eval.py:463-602).
THEOREM PlayedMeans ==
    ASSUME SystemInv, NEW s, s.op \in Existential, s.a \in SUBSET State, s.b \in SUBSET State,
           NEW f \in UniformStrategies(s.group)
    PROVE  LET K == Played(s.group, f)
           IN /\ Winning(s, K) \in SUBSET K
              /\ \A x \in K : x \in Winning(s, K) <=> x[1] \in Ensured(Outcome(s.group, f), justice, s)
              /\ StatesOf(Winning(s, K)) = reach \cap Ensured(Outcome(s.group, f), justice, s)
<1> DEFINE G == s.group
           K == Played(G, f)
           Q1 == Forcing(G, K)
           o == Outcome(G, f)
           Q2 == Leading(o, reach)
           h == Stand(K)
           I == Met(justice)
           n1 == [j \in I |-> Pairs(State \ j)]
           n2 == [j \in I |-> reach \ j]
           a == Along(s)
           b == Goal(s)
           kind == KindOf(s.op)
           E == Ensured(o, justice, s)
<1>1. /\ K \in SUBSET StateInput
      /\ \A x \in K : x[1] \in reach /\ Out(trans, G, x) # {} /\ Successors(o, x[1]) = Out(trans, G, x)
      /\ \A p \in reach : \E x \in K : x[1] = p
  BY PlayedIs
<1>2. Shadow(StateInput, Q1, K, reach, Q2, K, h) /\ \A x \in K : h[x] = x[1]
  <2>1. Shadow(StateInput, Q1, K, reach, Q2, K, h)
    BY PlayedShadow
  <2> HIDE DEF K
  <2> QED
    BY <2>1 DEF Stand
<1>3. Total(o, reach) /\ reach \in SUBSET State /\ \A x \in StateInput : x[1] \in State /\ x[2] \in Input
  BY OutcomeTotal, SystemIs DEF StateInput
<1>4. a \in SUBSET State /\ b \in SUBSET State /\ kind \in Kinds
  BY KindIn DEF Along, Goal
<1>5. Winning(s, K) = Win(StateInput, Q1, K, Family(n1, I), kind, Pairs(a), Pairs(b))
  BY <1>1, WinningIs, UnmetFamilies
<1>6. reach \cap E = Win(reach, Q2, reach, Family(n2, I), kind, reach \cap a, reach \cap b)
  <2>1. Unmet(reach, justice) = Family(n2, I)
    BY UnmetFamilies
  <2>2. WonIn(o, reach, justice, s)
          = Win(reach, Q2, reach, Unmet(reach, justice), kind, reach \cap a, reach \cap b)
    BY DEF WonIn
  <2> HIDE DEF o, n2, I, E, Q2, kind, a, b
  <2>3. reach \cap Ensured(o, justice, s) = WonIn(o, reach, justice, s)
    BY <1>3, WinMeans
  <2> QED
    BY <2>1, <2>2, <2>3 DEF E
<1>7. /\ \A Y \in SUBSET StateInput : Q1[Y]
             = {x \in K \cap StateInput : Out(trans, G, x) # {} /\ Out(trans, G, x) \subseteq StatesOf(Y)}
      /\ \A Y \in SUBSET reach : \A p \in reach : p \in Q2[Y] <=> Successors(o, p) \subseteq Y
  BY <1>3, ForcingGame, LeadingGame
<1> HIDE DEF K, Q1, Q2, o, h, a, b, I, kind, E
<1>8. \A j \in I : Over(K, h, n1[j], n2[j])
  <2> TAKE j \in I
  <2>1. n1[j] = Pairs(State \ j) /\ n2[j] = reach \ j
    OBVIOUS
  <2>2. \A x \in K : x \in Pairs(State \ j) <=> x[1] \in State \ j
    BY <1>1, PairsAre
  <2> QED
    BY <1>1, <1>2, <1>3, <2>1, <2>2 DEF Over
<1>9. Pairs(a) \in SUBSET StateInput /\ Pairs(b) \in SUBSET StateInput
      /\ reach \cap a \in SUBSET reach /\ reach \cap b \in SUBSET reach
      /\ Over(K, h, Pairs(a), reach \cap a) /\ Over(K, h, Pairs(b), reach \cap b)
  <2>1. \A x \in K : (x \in Pairs(a) <=> x[1] \in a) /\ (x \in Pairs(b) <=> x[1] \in b)
    BY <1>1, PairsAre
  <2> QED
    BY <1>1, <1>2, <1>4, <2>1, PairsAre DEF Over
<1>10. ASSUME NEW Z1 \in SUBSET K, NEW Z2 \in SUBSET reach, Over(K, h, Z1, Z2), NEW x \in K
       PROVE  x \in Q1[Pairs(a) \cup Z1] <=> h[x] \in Q2[(reach \cap a) \cup Z2]
  <2> DEFINE A1 == Pairs(a) \cup Z1
             A2 == (reach \cap a) \cup Z2
  <2>1. A1 \in SUBSET StateInput /\ A2 \in SUBSET reach
    BY <1>1, <1>9
  <2>2. \A p \in reach : p \in StatesOf(A1) <=> p \in A2
    <3> TAKE p \in reach
    <3>1. StatesOf(A1) = {y[1] : y \in A1}
      BY <2>1, StatesAre
    <3>2. ASSUME p \in StatesOf(A1) PROVE p \in A2
      <4>1. PICK y \in A1 : y[1] = p
        BY <3>1, <3>2
      <4>2. CASE y \in Pairs(a)
        BY <2>1, <4>1, <4>2, PairsAre
      <4>3. CASE y \in Z1
        BY <1>2, <1>10, <4>1, <4>3 DEF Over
      <4> QED
        BY <4>1, <4>2, <4>3
    <3>3. ASSUME p \in A2 PROVE p \in StatesOf(A1)
      <4>1. PICK y \in K : y[1] = p
        BY <1>1
      <4>2. y \in A1
        BY <1>1, <1>2, <1>10, <3>3, <4>1, PairsAre DEF Over
      <4> QED
        BY <3>1, <4>1, <4>2
    <3> QED
      BY <3>2, <3>3
  <2> HIDE DEF A1, A2
  <2>3. x \in Q1[A1] <=> Out(trans, G, x) \subseteq StatesOf(A1)
    BY <1>1, <1>7, <2>1
  <2>4. h[x] \in Q2[A2] <=> Out(trans, G, x) \subseteq A2
    BY <1>1, <1>2, <1>7, <2>1
  <2>5. Out(trans, G, x) \subseteq reach
    BY <1>1, <1>3 DEF Total
  <2>6. x \in Q1[A1] <=> h[x] \in Q2[A2]
    BY <2>2, <2>3, <2>4, <2>5
  <2> QED
    BY <2>6 DEF A1, A2
<1>11. Over(K, h, Win(StateInput, Q1, K, Family(n1, I), kind, Pairs(a), Pairs(b)),
                  Win(reach, Q2, reach, Family(n2, I), kind, reach \cap a, reach \cap b))
  <2> HIDE DEF n1, n2
  <2> QED
    BY <1>2, <1>4, <1>8, <1>9, <1>10, ShadowWin
<1>12. Winning(s, K) \in SUBSET K
  <2>1. Game(StateInput, Q1)
    BY ForcingGame DEF Q1
  <2> HIDE DEF n1
  <2>2. Win(StateInput, Q1, K, Family(n1, I), kind, Pairs(a), Pairs(b)) \subseteq K
    BY <1>1, <1>4, <1>9, <2>1, WinIn
  <2> QED
    BY <1>5, <2>2
<1>13. \A x \in K : x \in Winning(s, K) <=> x[1] \in E
  BY <1>1, <1>2, <1>5, <1>6, <1>11 DEF Over
<1>14. StatesOf(Winning(s, K)) = reach \cap E
  <2>1. StatesOf(Winning(s, K)) = {x[1] : x \in Winning(s, K)}
    BY <1>1, <1>12, StatesAre
  <2> HIDE DEF n1, n2
  <2> QED
    BY <1>1, <1>12, <1>13, <2>1
<1> QED
  BY <1>12, <1>13, <1>14 DEF K, E, o

-----------------------------------------------------------------------------
(* What atlkFO and atl compute, in the same terms.                         *)

Moving(G) == [Y \in SUBSET State |-> Pre(Y, G)]

LEMMA MovingGame ==
    ASSUME NEW G
    PROVE  /\ Game(State, Moving(G))
           /\ \A Y \in SUBSET State : Moving(G)[Y] = Pre(Y, G)
           /\ \A Y \in SUBSET State : Moving(G)[Y] = {p \in State : CanLead(trans, G, p, Y)}
           /\ Moving(G)[{}] = {}
<1> DEFINE Q == Moving(G)
<1>1. \A Y \in SUBSET State : Q[Y] = Pre(Y, G)
  BY DEF Moving
<1>2. \A Y \in SUBSET State : Q[Y] = {p \in State : CanLead(trans, G, p, Y)}
  <2> TAKE Y \in SUBSET State
  <2>1. PreStrat(trans, Y, G) = {p \in State : CanLead(trans, G, p, Y)}
    BY PreStratIs
  <2> QED
    BY <1>1, <2>1 DEF Pre
<1>3. Q = [Y \in SUBSET State |-> Q[Y]]
  BY DEF Moving
<1> HIDE DEF Q
<1>4. Q \in [SUBSET State -> SUBSET State]
  BY <1>2, <1>3
<1>5. \A S, T \in SUBSET State : S \subseteq T => Q[S] \subseteq Q[T]
  <2> TAKE S, T \in SUBSET State
  <2> HAVE S \subseteq T
  <2>1. \A p \in State : CanLead(trans, G, p, S) => CanLead(trans, G, p, T)
    BY DEF CanLead
  <2> QED
    BY <1>2, <2>1
<1>6. Q[{}] = {}
  <2>1. \A p : ~CanLead(trans, G, p, {})
    BY DEF CanLead
  <2> QED
    BY <1>2, <2>1
<1> QED
  BY <1>1, <1>2, <1>4, <1>5, <1>6, FsmAssumption DEF Game, Q

\* What changes nothing can be left out.
LEMMA FixpointEmpty ==
    ASSUME NEW X, IsFiniteSet(X)
    PROVE  Fixpoint([Z \in SUBSET X |-> {}], {}) = {}
<1> DEFINE none == [Z \in SUBSET X |-> {}]
<1>1. none \in [SUBSET X -> SUBSET X] /\ \A S \in SUBSET X : none[S] = {}
  OBVIOUS
<1> HIDE DEF none
<1>2. IsLeast(X, none, Fixpoint(none, {}))
  BY <1>1, FixpointLeast
<1> QED
  BY <1>1, <1>2 DEF IsLeast, none

LEMMA UnmetNone == \A R, J : J = {} /\ R \in SUBSET State => Unmet(R, J) = {{}}
<1> TAKE R, J
<1> HAVE J = {} /\ R \in SUBSET State
<1>1. Met(J) = {State}
  BY DEF Met
<1>2. Unmet(R, J) = {R \ State} /\ R \ State = {}
  BY <1>1 DEF Unmet
<1> QED
  BY <1>2

LEMMA UnmetSome == \A R, J : J # {} => Unmet(R, J) = {R \ f : f \in J}
  BY DEF Met, Unmet

\* The rounds of the code and those of Evades, for any set of moves.
EvadeRound(G, B, M, Z) ==
    B \cap (M \cup UNION {Pre(Greatest([Y \in SUBSET State |->
                                           B \cap (Z \cup (State \ f)) \cap (M \cup Pre(Y, G))]), G) : f \in justice})

LEMMA EvadeRoundIs ==
    ASSUME NEW G, NEW B \in SUBSET State, NEW M, justice # {}
    PROVE  Fixpoint([Z \in SUBSET State |-> EvadeRound(G, B, M, Z)], {})
              = Evades(State, Moving(G), B, M, Unmet(State, justice))
<1> DEFINE Q == Moving(G)
           NN == Unmet(State, justice)
<1>1. Game(State, Q) /\ \A Y \in SUBSET State : Q[Y] = Pre(Y, G)
  BY MovingGame
<1> HIDE DEF Q
<1>2. ASSUME NEW Z \in SUBSET State PROVE EvadeRound(G, B, M, Z) = EvadeStep(State, Q, B, M, NN, Z)
  <2> DEFINE St(n) == Stays(State, Q, B \cap (Z \cup n), M)
             Mine(f) == [Y \in SUBSET State |-> B \cap (Z \cup (State \ f)) \cap (M \cup Pre(Y, G))]
  <2>1. ASSUME NEW f \in justice PROVE Pre(Greatest(Mine(f)), G) = Q[St(State \ f)]
    <3> DEFINE C == B \cap (Z \cup (State \ f))
    <3>1. \A Y \in SUBSET State : B \cap (Z \cup (State \ f)) \cap (M \cup Pre(Y, G)) = StayStep(Q, C, M, Y)
      BY <1>1 DEF StayStep
    <3>2. Mine(f) = [Y \in SUBSET State |-> StayStep(Q, C, M, Y)]
      BY <3>1
    <3>3. Greatest(Mine(f)) = Stays(State, Q, C, M)
      BY <3>2 DEF Greatest, Stays
    <3>4. Stays(State, Q, C, M) \in SUBSET State
      <4>1. C \in SUBSET State
        OBVIOUS
      <4> HIDE DEF C
      <4> QED
        BY <1>1, <4>1, StaysIs
    <3> HIDE DEF C, Mine
    <3> QED
      BY <1>1, <3>3, <3>4 DEF C
  <2>2. EvadeRound(G, B, M, Z) = B \cap (M \cup UNION {Pre(Greatest(Mine(f)), G) : f \in justice})
    BY DEF EvadeRound
  <2>3. EvadeStep(State, Q, B, M, NN, Z) = B \cap (M \cup UNION {Q[St(n)] : n \in NN})
    BY DEF EvadeStep
  <2>4. NN = {State \ f : f \in justice}
    BY UnmetSome
  <2> HIDE DEF Mine, St, NN
  <2>5. {Pre(Greatest(Mine(f)), G) : f \in justice} = {Q[St(n)] : n \in NN}
    BY <2>1, <2>4
  <2> QED
    BY <2>2, <2>3, <2>5
<1>3. [Z \in SUBSET State |-> EvadeRound(G, B, M, Z)] = [Z \in SUBSET State |-> EvadeStep(State, Q, B, M, NN, Z)]
  BY <1>2
<1> QED
  BY <1>3 DEF Evades, Q

LEMMA NfairIs == ASSUME NEW G PROVE NfairGamma(G) = Avoids(State, Moving(G), State, Unmet(State, justice))
<1> DEFINE Mine(Z, f) == [Y \in SUBSET State |-> (Z \cup (State \ f)) \cap Pre(Y, G)]
           mine == [Z \in SUBSET State |-> UNION {Pre(Greatest(Mine(Z, f)), G) : f \in justice}]
<1>1. NfairGamma(G) = Fixpoint(mine, {})
  BY DEF NfairGamma, Least
<1>2. CASE justice # {}
  <2>1. \A Y : Pre(Y, G) \in SUBSET State
    BY DEF Pre, PreStrat, StatesOf
  <2>2. ASSUME NEW Z \in SUBSET State
        PROVE  UNION {Pre(Greatest(Mine(Z, f)), G) : f \in justice} = EvadeRound(G, State, {}, Z)
    <3> DEFINE Theirs(f) == [Y \in SUBSET State |-> State \cap (Z \cup (State \ f)) \cap ({} \cup Pre(Y, G))]
    <3>1. \A f \in justice : Mine(Z, f) = Theirs(f)
      BY <2>1
    <3>2. EvadeRound(G, State, {}, Z) = State \cap ({} \cup UNION {Pre(Greatest(Theirs(f)), G) : f \in justice})
      BY DEF EvadeRound
    <3> HIDE DEF Mine, Theirs
    <3>3. {Pre(Greatest(Mine(Z, f)), G) : f \in justice} = {Pre(Greatest(Theirs(f)), G) : f \in justice}
      BY <3>1
    <3>4. UNION {Pre(Greatest(Theirs(f)), G) : f \in justice} \subseteq State
      BY <2>1
    <3> QED
      BY <3>2, <3>3, <3>4
  <2>3. mine = [Z \in SUBSET State |-> EvadeRound(G, State, {}, Z)]
    <3> HIDE DEF Mine
    <3> QED
      BY <2>2
  <2>4. Fixpoint([Z \in SUBSET State |-> EvadeRound(G, State, {}, Z)], {})
           = Evades(State, Moving(G), State, {}, Unmet(State, justice))
    BY <1>2, EvadeRoundIs
  <2> QED
    BY <1>1, <2>3, <2>4 DEF Avoids
<1>3. CASE justice = {}
  <2>1. mine = [Z \in SUBSET State |-> {}]
    BY <1>3
  <2>2. Unmet(State, justice) = {{}}
    BY <1>3, UnmetNone
  <2>3. Avoids(State, Moving(G), State, {{}}) = {}
    BY MovingGame, NoMoves
  <2> QED
    BY <1>1, <2>1, <2>2, <2>3, FixpointEmpty, FsmAssumption
<1> QED
  BY <1>2, <1>3

LEMMA EvadesNone ==
    ASSUME NEW G, NEW B \in SUBSET State, NEW M, justice = {}
    PROVE  Fixpoint([Z \in SUBSET State |-> B \cap (M \cup Pre(Z, G))], {})
              = Evades(State, Moving(G), B, M, Unmet(State, justice))
<1> DEFINE Q == Moving(G)
<1>1. Game(State, Q) /\ \A Y \in SUBSET State : Q[Y] = Pre(Y, G)
  BY MovingGame
<1>2. Unmet(State, justice) = {{}}
  BY UnmetNone
<1> HIDE DEF Q
<1>3. \A Z \in SUBSET State : B \cap (M \cup Pre(Z, G)) = StayStep(Q, B, M, Z)
  BY <1>1 DEF StayStep
<1>4. Fixpoint([Z \in SUBSET State |-> B \cap (M \cup Pre(Z, G))], {}) = Gets(State, Q, B, M)
  BY <1>3 DEF Gets
<1>5. Gets(State, Q, B, M) = Evades(State, Q, B, M, {{}})
  BY <1>1, GetsIs
<1> QED
  BY <1>2, <1>4, <1>5 DEF Q

\* What a formula on what a group can enforce wins, on states.
WonBy(J, s) ==
    Win(State, Moving(s.group), State, Unmet(State, J), KindOf(s.op), Along(s), Goal(s))

LEMMA FullIs ==
    ASSUME NEW s, s.op \in Existential, s.a \in SUBSET State, s.b \in SUBSET State
    PROVE  SatFO(s) = WonBy(justice, s)
<1> DEFINE G == s.group
           Q == Moving(G)
           NN == Unmet(State, justice)
           a == Along(s)
           b == Goal(s)
           A == Avoids(State, Q, State, NN)
           B == Room(State, Q, State, NN, a, b)
<1>1. Game(State, Q) /\ \A Y \in SUBSET State : Q[Y] = Pre(Y, G)
  BY MovingGame
<1>2. NfairGamma(G) = A
  BY NfairIs
<1>3. A \in SUBSET State /\ a \in SUBSET State /\ b \in SUBSET State
  <2>1. A \in SUBSET State
    <3> HIDE DEF Q
    <3> QED
      BY <1>1, AvoidsIs
  <2> QED
    BY <2>1 DEF Along, Goal
<1>4. B = a \cup b \cup A /\ B \in SUBSET State
  BY <1>3 DEF Room
<1> HIDE DEF Q
<1>5. CASE s.op = "CEX"
  <2>1. a = s.a /\ KindOf(s.op) = "next"
    BY <1>5 DEF Along, KindOf
  <2>2. SatFO(s) = Pre(s.a \cup NfairGamma(G), G)
    BY <1>5 DEF SatFO
  <2>3. Win(State, Q, State, NN, "next", a, b) = State \cap Q[a \cup A]
    BY DEF Win
  <2> HIDE DEF A, B, a, b, NN
  <2>4. a \cup A \in SUBSET State
    BY <1>3
  <2>5. Q[a \cup A] = Pre(a \cup A, G) /\ Q[a \cup A] \in SUBSET State
    BY <1>1, <2>4 DEF Game
  <2>6. SatFO(s) = State \cap Q[a \cup A]
    BY <1>2, <2>1, <2>2, <2>5
  <2> QED
    BY <2>1, <2>3, <2>6 DEF Q, a, b, NN, WonBy
<1>6. CASE s.op \in {"CEG", "CEW"}
  <2>1. KindOf(s.op) = "weak" /\ SatFO(s) = Cew(G, a, b)
    BY <1>6 DEF KindOf, SatFO, Along, Goal
  <2>2. Cew(G, a, b) = Fixpoint([Y \in SUBSET State |-> (b \cup a \cup A) \cap (b \cup Pre(Y, G))], State)
    BY <1>2 DEF Cew, Greatest
  <2>3. Win(State, Q, State, NN, "weak", a, b) = Stays(State, Q, B, b)
    BY DEF Win
  <2> HIDE DEF A, B, a, b
  <2>4. \A Y \in SUBSET State : (b \cup a \cup A) \cap (b \cup Pre(Y, G)) = StayStep(Q, B, b, Y)
    BY <1>1, <1>4 DEF StayStep
  <2>5. Cew(G, a, b) = Stays(State, Q, B, b)
    BY <2>2, <2>4 DEF Stays
  <2> QED
    BY <2>1, <2>3, <2>5 DEF Q, a, b, WonBy
<1>7. CASE s.op \in {"CEF", "CEU"}
  <2>1. KindOf(s.op) = "until" /\ SatFO(s) = Ceu(G, a, b)
    BY <1>7 DEF KindOf, SatFO, Along, Goal
  <2>2. Win(State, Q, State, NN, "until", a, b) = Evades(State, Q, B, b, NN)
    BY DEF Win
  <2>3. CASE justice = {}
    <3>1. Ceu(G, a, b) = Fixpoint([Z \in SUBSET State |-> b \cup (a \cap Pre(Z, G))], {})
      BY <2>3 DEF Ceu, Least
    <3>2. A = {}
      <4>1. Q[{}] = {} /\ NN = {{}}
        BY <2>3, MovingGame, UnmetNone DEF Q
      <4> QED
        BY <1>1, <4>1, NoMoves
    <3> HIDE DEF A, B, a, b, NN
    <3>3. \A Z \in SUBSET State : b \cup (a \cap Pre(Z, G)) = B \cap (b \cup Pre(Z, G))
      BY <1>4, <3>2
    <3>4. Ceu(G, a, b) = Fixpoint([Z \in SUBSET State |-> B \cap (b \cup Pre(Z, G))], {})
      BY <3>1, <3>3
    <3>5. Ceu(G, a, b) = Evades(State, Q, B, b, NN)
      BY <1>4, <2>3, <3>4, EvadesNone DEF Q, NN
    <3> QED
      BY <2>1, <2>2, <3>5 DEF Q, a, b, NN, WonBy
  <2>4. CASE justice # {}
    <3>1. Ceu(G, a, b) = Fixpoint([Z \in SUBSET State |-> EvadeRound(G, a \cup b \cup A, b, Z)], {})
      BY <1>2, <2>4 DEF Ceu, Least, EvadeRound
    <3> HIDE DEF A, B, a, b, NN
    <3>2. Ceu(G, a, b) = Evades(State, Q, B, b, NN)
      BY <1>4, <2>4, <3>1, EvadeRoundIs DEF Q, NN
    <3> QED
      BY <2>1, <2>2, <3>2 DEF Q, a, b, NN, WonBy
  <2> QED
    BY <2>3, <2>4
<1> QED
  BY <1>5, <1>6, <1>7, ExistentialIs

-----------------------------------------------------------------------------
(* The operators on what a group cannot avoid, by complement.              *)

\* d does to complements what r, which is monotone, does to sets.
Dually(X, r, d) ==
    /\ IsFiniteSet(X) /\ r \in [SUBSET X -> SUBSET X]
    /\ \A S, T \in SUBSET X : S \subseteq T => r[S] \subseteq r[T]
    /\ d = [Z \in SUBSET X |-> X \ r[X \ Z]]

LEMMA FixpointDual ==
    ASSUME NEW X, NEW r, NEW d, Dually(X, r, d)
    PROVE  Fixpoint(d, X) = X \ Fixpoint(r, {}) /\ Fixpoint(d, {}) = X \ Fixpoint(r, X)
<1>0. /\ IsFiniteSet(X) /\ r \in [SUBSET X -> SUBSET X]
      /\ \A S, T \in SUBSET X : S \subseteq T => r[S] \subseteq r[T]
  BY DEF Dually
<1>1. d \in [SUBSET X -> SUBSET X] /\ \A Z \in SUBSET X : d[Z] = X \ r[X \ Z] /\ X \ Z \in SUBSET X
  BY <1>0 DEF Dually
<1>2. \A S, T \in SUBSET X : S \subseteq T => d[S] \subseteq d[T]
  <2> TAKE S, T \in SUBSET X
  <2> HAVE S \subseteq T
  <2>1. r[X \ T] \subseteq r[X \ S]
    <3>1. X \ T \in SUBSET X /\ X \ S \in SUBSET X /\ X \ T \subseteq X \ S
      OBVIOUS
    <3> QED
      BY <1>0, <3>1
  <2> QED
    BY <1>1, <2>1
<1> DEFINE l == Fixpoint(r, {})
           g == Fixpoint(r, X)
           dl == Fixpoint(d, {})
           dg == Fixpoint(d, X)
<1>3. IsLeast(X, r, l) /\ IsGreatest(X, r, g)
  BY <1>0, FixpointLeast, FixpointGreatest
<1>4. IsLeast(X, d, dl) /\ IsGreatest(X, d, dg)
  BY <1>0, <1>1, <1>2, FixpointLeast, FixpointGreatest
<1> HIDE DEF l, g, dl, dg
<1>5. \A Z \in SUBSET X : X \ (X \ Z) = Z
  OBVIOUS
<1>6. dg = X \ l
  <2>1. X \ l \in SUBSET X /\ X \ dg \in SUBSET X
    OBVIOUS
  <2>2. d[X \ l] = X \ l /\ r[X \ dg] = X \ dg
    <3>1. r[l] = l /\ X \ (X \ l) = l
      BY <1>3, <1>5 DEF IsLeast, IsGreatest
    <3>2. d[dg] = dg /\ d[dg] = X \ r[X \ dg] /\ r[X \ dg] \in SUBSET X
      BY <1>0, <1>1, <1>4, <2>1 DEF IsLeast, IsGreatest
    <3>3. X \ (X \ r[X \ dg]) = r[X \ dg]
      BY <3>2
    <3>4. d[X \ l] = X \ r[X \ (X \ l)]
      BY <1>1, <2>1
    <3> QED
      BY <3>1, <3>2, <3>3, <3>4
  <2>3. X \ l \subseteq dg /\ l \subseteq X \ dg
    BY <1>3, <1>4, <2>1, <2>2 DEF IsLeast, IsGreatest
  <2> QED
    BY <1>3, <1>4, <2>3 DEF IsLeast, IsGreatest
<1>7. dl = X \ g
  <2>1. X \ g \in SUBSET X /\ X \ dl \in SUBSET X
    OBVIOUS
  <2>2. d[X \ g] = X \ g /\ r[X \ dl] = X \ dl
    <3>1. r[g] = g /\ X \ (X \ g) = g
      BY <1>3, <1>5 DEF IsLeast, IsGreatest
    <3>2. d[dl] = dl /\ d[dl] = X \ r[X \ dl] /\ r[X \ dl] \in SUBSET X
      BY <1>0, <1>1, <1>4, <2>1 DEF IsLeast, IsGreatest
    <3>3. X \ (X \ r[X \ dl]) = r[X \ dl]
      BY <3>2
    <3>4. d[X \ g] = X \ r[X \ (X \ g)]
      BY <1>1, <2>1
    <3> QED
      BY <3>1, <3>2, <3>3, <3>4
  <2>3. dl \subseteq X \ g /\ X \ dl \subseteq g
    BY <1>3, <1>4, <2>1, <2>2 DEF IsLeast, IsGreatest
  <2> QED
    BY <1>3, <1>4, <2>3 DEF IsLeast, IsGreatest
<1> QED
  BY <1>6, <1>7 DEF l, g, dl, dg

LEMMA PreNIs == ASSUME NEW G, NEW S PROVE PreN(S, G) = State \ Pre(State \ S, G)
  BY DEF PreN, PreNStrat, Pre

\* Where G cannot but stop, or come, within phi, to where it already cannot.
Bound(G, stop, phi) == [Y \in SUBSET State |-> stop \cup (phi \cap PreN(Y, G))]

Rest(S) == State \ S

LEMMA StepDual ==
    ASSUME NEW G, NEW stop \in SUBSET State, NEW phi \in SUBSET State
    PROVE  /\ Least(Bound(G, stop, phi)) = Rest(Stays(State, Moving(G), Rest(stop), Rest(phi)))
           /\ Greatest(Bound(G, stop, phi)) = Rest(Gets(State, Moving(G), Rest(stop), Rest(phi)))
<1> DEFINE Q == Moving(G)
           B == Rest(stop)
           M == Rest(phi)
           d == [Y \in SUBSET State |-> stop \cup (phi \cap PreN(Y, G))]
           r == [Y \in SUBSET State |-> StayStep(Q, B, M, Y)]
<1>1. Game(State, Q) /\ \A Y \in SUBSET State : Q[Y] = Pre(Y, G)
  BY MovingGame
<1> HIDE DEF Q
<1>2. r \in [SUBSET State -> SUBSET State] /\ \A S, T \in SUBSET State : S \subseteq T => r[S] \subseteq r[T]
  BY <1>1 DEF StayStep, Game, Rest
<1>3. ASSUME NEW Y \in SUBSET State
      PROVE  stop \cup (phi \cap PreN(Y, G)) = State \ r[State \ Y]
  <2>1. State \ Y \in SUBSET State
    OBVIOUS
  <2>2. r[State \ Y] = B \cap (M \cup Pre(State \ Y, G))
    BY <1>1, <2>1 DEF StayStep
  <2>4. B = State \ stop /\ M = State \ phi
    BY DEF Rest
  <2>3. PreN(Y, G) = State \ Pre(State \ Y, G)
    BY PreNIs
  <2> HIDE DEF r, B, M
  <2> QED
    BY <2>2, <2>3, <2>4
<1>4. d = [Y \in SUBSET State |-> State \ r[State \ Y]]
  <2> HIDE DEF r
  <2> QED
    BY <1>3
<1>5. Fixpoint(d, State) = State \ Fixpoint(r, {}) /\ Fixpoint(d, {}) = State \ Fixpoint(r, State)
  <2>1. IsFiniteSet(State)
    BY FsmAssumption
  <2> HIDE DEF r, d
  <2>2. Dually(State, r, d)
    BY <1>2, <1>4, <2>1 DEF Dually
  <2> QED
    BY <2>2, FixpointDual
<1> QED
  BY <1>5 DEF Bound, Least, Greatest, Stays, Gets, Q, Rest

\* The rounds of the greatest fixpoints, by complement.
MeetRound(G, phi, stop) == [Z \in SUBSET State |-> stop \cup Meeting(G, phi, stop, Z)]
LEMMA MeetingDual ==
    ASSUME NEW G, NEW stop \in SUBSET State, NEW phi \in SUBSET State, justice # {}
    PROVE  Greatest(MeetRound(G, phi, stop))
              = State \ Evades(State, Moving(G), State \ stop, State \ phi, Unmet(State, justice))
<1> DEFINE Q == Moving(G)
           NN == Unmet(State, justice)
           B == State \ stop
           M == State \ phi
           d == [Z \in SUBSET State |-> stop \cup Meeting(G, phi, stop, Z)]
           r == [Z \in SUBSET State |-> EvadeStep(State, Q, B, M, NN, Z)]
<1>1. Game(State, Q) /\ \A Y \in SUBSET State : Q[Y] = Pre(Y, G) /\ Q[Y] \in SUBSET State
  <2>1. Game(State, Q) /\ \A Y \in SUBSET State : Q[Y] = Pre(Y, G)
    BY MovingGame
  <2> HIDE DEF Q
  <2>2. \A Y \in SUBSET State : Q[Y] \in SUBSET State
    BY <2>1 DEF Game
  <2> QED
    BY <2>1, <2>2
<1>2. NN = {State \ f : f \in justice}
  BY UnmetSome
<1> HIDE DEF Q, NN
<1>3. B \in SUBSET State
  OBVIOUS
<1>4. \A C \in SUBSET State : Stays(State, Q, C, M) \in SUBSET State
  <2> HIDE DEF M
  <2> QED
    BY <1>1, StaysIs
<1>5. r \in [SUBSET State -> SUBSET State]
  BY DEF EvadeStep
<1>6. ASSUME NEW S \in SUBSET State, NEW T \in SUBSET State, S \subseteq T PROVE r[S] \subseteq r[T]
  <2> DEFINE A(n) == Q[Stays(State, Q, B \cap (S \cup n), M)]
             E(n) == Q[Stays(State, Q, B \cap (T \cup n), M)]
  <2>1. ASSUME NEW n \in NN PROVE A(n) \subseteq E(n)
    <3> DEFINE C == B \cap (S \cup n)
               D == B \cap (T \cup n)
    <3>1. C \in SUBSET State /\ D \in SUBSET State /\ C \subseteq D /\ C \cap M \subseteq M
      BY <1>6
    <3> HIDE DEF C, D, M, B
    <3>2. \A Y \in SUBSET State : C \cap Q[Y] \subseteq Q[Y]
      OBVIOUS
    <3>3. Stays(State, Q, C, M) \subseteq Stays(State, Q, D, M)
      BY <1>1, <3>1, <3>2, StaysGrows
    <3>4. Q[Stays(State, Q, C, M)] \subseteq Q[Stays(State, Q, D, M)]
      BY <1>1, <1>4, <3>1, <3>3 DEF Game
    <3> QED
      BY <3>4 DEF C, D
  <2>2. EvadeStep(State, Q, B, M, NN, S) \subseteq EvadeStep(State, Q, B, M, NN, T)
    <3> HIDE DEF A, E
    <3>1. B \cap (M \cup UNION {A(n) : n \in NN}) \subseteq B \cap (M \cup UNION {E(n) : n \in NN})
      BY <2>1
    <3> HIDE DEF B, M
    <3> QED
      BY <3>1 DEF EvadeStep, A, E
  <2> QED
    BY <2>2
<1>7. ASSUME NEW Z \in SUBSET State
      PROVE  stop \cup Meeting(G, phi, stop, Z) = State \ r[State \ Z]
  <2> DEFINE ToMeet(f) == Least([Y \in SUBSET State |-> stop \cup (Z \cap f) \cup (phi \cap PreN(Y, G))])
             St(n) == Stays(State, Q, B \cap ((State \ Z) \cup n), M)
  <2>1. Meeting(G, phi, stop, Z) = {s \in phi : \A f \in justice : s \in PreN(ToMeet(f), G)}
    BY DEF Meeting
  <2>2. r[State \ Z] = B \cap (M \cup UNION {Q[St(n)] : n \in NN})
    BY DEF EvadeStep
  <2>3. ASSUME NEW f \in justice PROVE PreN(ToMeet(f), G) = State \ Q[St(State \ f)]
    <3> DEFINE C == stop \cup (Z \cap f)
               W == Stays(State, Q, State \ C, State \ phi)
    <3>1. C \in SUBSET State
      OBVIOUS
    <3>2. ToMeet(f) = State \ W
      <4>1. ToMeet(f) = Least(Bound(G, C, phi))
        BY DEF Bound
      <4> HIDE DEF C, ToMeet
      <4>2. Least(Bound(G, C, phi)) = Rest(Stays(State, Moving(G), Rest(C), Rest(phi)))
        BY <3>1, StepDual
      <4> QED
        BY <4>1, <4>2 DEF Rest, Q
    <3>3. State \ C = B \cap ((State \ Z) \cup (State \ f))
      OBVIOUS
    <3>4. W = St(State \ f)
      BY <3>3
    <3>5. W \in SUBSET State
      BY <1>4
    <3>6. State \ (State \ W) = W
      BY <3>5
    <3>7. PreN(ToMeet(f), G) = State \ Pre(State \ ToMeet(f), G)
      BY PreNIs
    <3> HIDE DEF W, C, ToMeet, St
    <3> QED
      BY <1>1, <3>2, <3>4, <3>5, <3>6, <3>7
  <2> HIDE DEF ToMeet, St, r
  <2>4. \A p \in State : p \in UNION {Q[St(n)] : n \in NN} <=> \E f \in justice : p \in Q[St(State \ f)]
    BY <1>2
  <2>5. \A p \in State : (\A f \in justice : p \in PreN(ToMeet(f), G)) <=> ~ \E f \in justice : p \in Q[St(State \ f)]
    BY <2>3
  <2> QED
    BY <2>1, <2>2, <2>4, <2>5
<1>8. d = [Z \in SUBSET State |-> State \ r[State \ Z]]
  <2> HIDE DEF r
  <2> QED
    BY <1>7
<1>9. Fixpoint(d, State) = State \ Fixpoint(r, {})
  <2>1. IsFiniteSet(State)
    BY FsmAssumption
  <2> HIDE DEF r, d
  <2>2. Dually(State, r, d)
    BY <1>5, <1>6, <1>8, <2>1 DEF Dually
  <2> QED
    BY <2>2, FixpointDual
<1> QED
  BY <1>9 DEF MeetRound, Greatest, Evades, Q, NN

\* Avoiding is what a strategy that leaves no fair path does.
LEMMA AvoidsHere ==
    ASSUME NEW G
    PROVE  LET A == Avoids(State, Moving(G), State, Unmet(State, justice))
           IN A \in SUBSET State /\ A = Evades(State, Moving(G), State, {}, Unmet(State, justice))
<1>1. Game(State, Moving(G)) /\ State \in SUBSET State
  BY MovingGame
<1> QED
  BY <1>1, AvoidsIs DEF Avoids

LEMMA CagIs ==
    ASSUME NEW G, NEW phi \in SUBSET State
    PROVE  Cag(G, phi) = State \ Evades(State, Moving(G), State, State \ phi, Unmet(State, justice))
<1> DEFINE Q == Moving(G)
           NN == Unmet(State, justice)
<1>1. {} \in SUBSET State /\ State \ {} = State
  OBVIOUS
<1>2. CASE justice = {}
  <2>1. Cag(G, phi) = Greatest([Z \in SUBSET State |-> {} \cup (phi \cap PreN(Z, G))])
    <3>1. \A Z : {} \cup (phi \cap PreN(Z, G)) = phi \cap PreN(Z, G)
      OBVIOUS
    <3> QED
      BY <1>2, <3>1 DEF Cag
  <2>3. Greatest(Bound(G, {}, phi)) = State \ Gets(State, Q, State, State \ phi)
    <3>1. {} \in SUBSET State /\ State = Rest({})
      BY DEF Rest
    <3>2. Greatest(Bound(G, {}, phi)) = Rest(Gets(State, Moving(G), Rest({}), Rest(phi)))
      BY <3>1, StepDual
    <3> QED
      BY <3>1, <3>2 DEF Rest
  <2>4. Gets(State, Q, State, State \ phi) = Evades(State, Q, State, State \ phi, {{}})
    <3> DEFINE M == State \ phi
    <3>1. Game(State, Q) /\ State \in SUBSET State
      BY MovingGame
    <3> HIDE DEF M, Q
    <3>2. Gets(State, Q, State, M) = Evades(State, Q, State, M, {{}})
      BY <3>1, GetsIs
    <3> QED
      BY <3>2 DEF M
  <2>5. NN = {{}}
    BY <1>2, UnmetNone
  <2> QED
    BY <1>1, <2>1, <2>3, <2>4, <2>5 DEF Bound
<1>3. CASE justice # {}
  <2>1. Cag(G, phi) = Greatest([Z \in SUBSET State |-> {} \cup Meeting(G, phi, {}, Z)])
    <3>1. \A Z : {} \cup Meeting(G, phi, {}, Z) = Meeting(G, phi, {}, Z)
      OBVIOUS
    <3> QED
      BY <1>3, <3>1 DEF Cag
  <2> DEFINE none == {}
  <2>2. none \in SUBSET State
    OBVIOUS
  <2>3. Greatest(MeetRound(G, phi, none))
          = State \ Evades(State, Q, State \ none, State \ phi, NN)
    <3> HIDE DEF none
    <3> QED
      BY <1>3, <2>2, MeetingDual
  <2> QED
    BY <1>1, <2>1, <2>3 DEF MeetRound
<1> QED
  BY <1>2, <1>3

LEMMA FairGammaIs ==
    ASSUME NEW G
    PROVE  FairGamma(G) = State \ Avoids(State, Moving(G), State, Unmet(State, justice))
<1>1. State \in SUBSET State /\ State \ State = {}
  OBVIOUS
<1> QED
  BY <1>1, CagIs, AvoidsHere DEF FairGamma

\* What one cannot keep up, one can be kept from.
LEMMA CauIs ==
    ASSUME NEW G, NEW phi \in SUBSET State, NEW psi \in SUBSET State
    PROVE  LET a == State \ psi
               b == State \ (phi \cup psi)
               NN == Unmet(State, justice)
           IN Cau(G, phi, psi) = State \ Stays(State, Moving(G), Room(State, Moving(G), State, NN, a, b), b)
<1> DEFINE Q == Moving(G)
           a == State \ psi
           b == State \ (phi \cup psi)
           NN == Unmet(State, justice)
           A == Avoids(State, Q, State, NN)
           B == Room(State, Q, State, NN, a, b)
           stop == psi \cap FairGamma(G)
           M == State \ phi
<1>1. Game(State, Q) /\ A \in SUBSET State /\ A \subseteq Q[A]
  <2>1. Game(State, Q) /\ State \in SUBSET State
    BY MovingGame
  <2> HIDE DEF Q
  <2> QED
    BY <2>1, AvoidsIs
<1>2. FairGamma(G) = State \ A
  BY FairGammaIs
<1>3. stop \in SUBSET State
  OBVIOUS
<1>4. Cau(G, phi, psi) = State \ Stays(State, Q, State \ stop, M)
  <2>1. Cau(G, phi, psi) = Least(Bound(G, stop, phi))
    BY DEF Cau, Bound
  <2> HIDE DEF stop
  <2>2. Least(Bound(G, stop, phi)) = Rest(Stays(State, Q, Rest(stop), Rest(phi)))
    BY <1>3, StepDual
  <2> QED
    BY <2>1, <2>2 DEF Rest
<1> HIDE DEF A
<1>5. State \ stop = B /\ B \in SUBSET State /\ A \in SUBSET B
      /\ B \cap M \subseteq b \cup A /\ B \cap b \subseteq M
  <2>1. B = State \cap (a \cup b \cup A)
    BY DEF Room, A
  <2> HIDE DEF B
  <2> QED
    BY <1>1, <1>2, <2>1
<1> HIDE DEF B, b, M, Q
<1>6. \A Y \in SUBSET State : B \cap Q[Y] \subseteq Q[Y]
  OBVIOUS
<1>7. Stays(State, Q, B, M) \subseteq Stays(State, Q, B, b \cup A)
  BY <1>1, <1>5, <1>6, StaysGrows
<1>8. Stays(State, Q, B, b \cup A) = Stays(State, Q, B, b)
  <2>1. A \in SUBSET B /\ A \subseteq Q[A] /\ Game(State, Q) /\ B \in SUBSET State
    BY <1>1, <1>5
  <2> QED
    BY <2>1, StaysMore
<1>9. Stays(State, Q, B, b) \subseteq Stays(State, Q, B, M)
  BY <1>1, <1>5, <1>6, StaysGrows
<1>10. Stays(State, Q, B, M) = Stays(State, Q, B, b)
  BY <1>7, <1>8, <1>9
<1> QED
  BY <1>4, <1>5, <1>10 DEF B, b, Q

LEMMA CawIs ==
    ASSUME NEW G, NEW phi \in SUBSET State, NEW psi \in SUBSET State
    PROVE  LET a == State \ psi
               b == State \ (phi \cup psi)
               NN == Unmet(State, justice)
           IN Caw(G, phi, psi) = State \ Evades(State, Moving(G), Room(State, Moving(G), State, NN, a, b), b, NN)
<1> DEFINE Q == Moving(G)
           a == State \ psi
           b == State \ (phi \cup psi)
           NN == Unmet(State, justice)
           A == Avoids(State, Q, State, NN)
           B == Room(State, Q, State, NN, a, b)
           stop == psi \cap FairGamma(G)
           M == State \ phi
<1>0. Game(State, Q) /\ Q[{}] = {}
  BY MovingGame
<1>1. A \in SUBSET State /\ A = Evades(State, Q, State, {}, NN)
  BY AvoidsHere
<1>2. FairGamma(G) = State \ A
  BY FairGammaIs
<1>3. CASE justice = {}
  <2>1. NN = {{}}
    BY <1>3, UnmetNone
  <2>2. A = {}
    <3> HIDE DEF Q
    <3>1. State \in SUBSET State
      OBVIOUS
    <3> QED
      BY <1>0, <2>1, <3>1, NoMoves
  <2>3. Caw(G, phi, psi) = State \ Gets(State, Q, B, M)
    <3>1. Caw(G, phi, psi) = Greatest(Bound(G, psi, phi))
      BY <1>3 DEF Caw, Bound
    <3>2. B = State \cap (a \cup b \cup A)
      BY DEF Room
    <3>3. Greatest(Bound(G, psi, phi)) = Rest(Gets(State, Q, Rest(psi), Rest(phi)))
      BY StepDual
    <3> HIDE DEF B, A
    <3>4. B = Rest(psi)
      BY <2>2, <3>2 DEF Rest
    <3>5. M = Rest(phi)
      BY DEF Rest
    <3> HIDE DEF M
    <3>6. Caw(G, phi, psi) = Rest(Gets(State, Q, B, M))
      BY <3>1, <3>3, <3>4, <3>5
    <3> QED
      BY <3>6 DEF Rest
  <2>4. B = State \ psi /\ B \in SUBSET State /\ B \cap M = B \cap b
    <3>1. B = State \cap (a \cup b \cup A)
      BY DEF Room
    <3> HIDE DEF B, A
    <3> QED
      BY <2>2, <3>1
  <2> HIDE DEF B, M, b, Q, NN
  <2>5. Gets(State, Q, B, M) = Evades(State, Q, B, M, {{}})
    BY <1>0, <2>4, GetsIs
  <2>6. Evades(State, Q, B, M, {{}}) = Evades(State, Q, B, b, {{}})
    BY <2>4, GoalInside
  <2> QED
    BY <2>1, <2>3, <2>4, <2>5, <2>6 DEF M, B, b, Q, NN
<1>4. CASE justice # {}
  <2>1. Caw(G, phi, psi) = State \ Evades(State, Q, State \ stop, M, NN)
    <3> DEFINE x == stop
    <3>1. Caw(G, phi, psi) = Greatest(MeetRound(G, phi, x))
      BY <1>4 DEF Caw, MeetRound
    <3>2. x \in SUBSET State
      OBVIOUS
    <3> HIDE DEF x
    <3>3. Greatest(MeetRound(G, phi, x))
            = State \ Evades(State, Q, State \ x, State \ phi, NN)
      BY <1>4, <3>2, MeetingDual
    <3> QED
      BY <3>1, <3>3 DEF x
  <2> HIDE DEF A
  <2>2. State \ stop = B /\ B \in SUBSET State /\ A \subseteq B
        /\ B \cap M \subseteq b \cup A /\ B \cap b \subseteq M
    <3>1. B = State \cap (a \cup b \cup A)
      BY DEF Room, A
    <3> HIDE DEF B
    <3> QED
      BY <1>1, <1>2, <3>1
  <2> HIDE DEF B, b, M, Q, NN
  <2>3. \A Y \in SUBSET State : B \cap Q[Y] \subseteq Q[Y]
    OBVIOUS
  <2>4. Evades(State, Q, B, M, NN) \subseteq Evades(State, Q, B, b \cup A, NN)
    BY <1>0, <2>2, <2>3, EvadesGrows
  <2>5. Evades(State, Q, B, b \cup A, NN) = Evades(State, Q, B, b, NN)
    <3>1. State \in SUBSET State
      OBVIOUS
    <3>2. Evades(State, Q, State, {}, NN) \subseteq B
      BY <1>1, <2>2
    <3>3. Evades(State, Q, B, b \cup Evades(State, Q, State, {}, NN), NN) = Evades(State, Q, B, b, NN)
      BY <1>0, <2>2, <3>1, <3>2, EvadesMore
    <3> QED
      BY <1>1, <3>3
  <2>6. Evades(State, Q, B, b, NN) \subseteq Evades(State, Q, B, M, NN)
    BY <1>0, <2>2, <2>3, EvadesGrows
  <2>7. Evades(State, Q, B, M, NN) = Evades(State, Q, B, b, NN)
    BY <2>4, <2>5, <2>6
  <2> QED
    BY <2>1, <2>2, <2>7 DEF B, b, Q, NN
<1> QED
  BY <1>3, <1>4

\* What is sought for [g] pi, and how evalATLK has it.
LEMMA SoughtIs ==
    ASSUME NEW s, s.op \in Existential \cup Universal, s.group \in SUBSET Agents,
           s.a \in SUBSET State, s.b \in SUBSET State
    PROVE  /\ Sought(s).op \in Existential /\ Sought(s).group = s.group
           /\ Sought(s).a \in SUBSET State /\ Sought(s).b \in SUBSET State
           /\ s.op \in Existential => Sought(s) = s
           /\ s.op \in Universal =>
                 /\ s.op \notin Existential
                 /\ Sought(s).op = Dual[s.op]
                 /\ Sought(s).a = (IF s.op \in {"CAU", "CAW"} THEN State \ s.b ELSE State \ s.a)
                 /\ Sought(s).b = State \ (s.a \cup s.b)
<1>1. CASE s.op \in Existential
  BY <1>1, ExistentialIs DEF Sought
<1>2. CASE s.op \in Universal
  <2>1. s.op \notin Existential /\ Dual[s.op] \in Existential
    BY <1>2, ExistentialIs
  <2>2. Sought(s) = [op |-> Dual[s.op], group |-> s.group,
                     a |-> IF s.op \in {"CAU", "CAW"} THEN State \ s.b ELSE State \ s.a,
                     b |-> State \ (s.a \cup s.b)]
    BY <2>1 DEF Sought
  <2> QED
    BY <1>2, <2>1, <2>2
<1> QED
  BY <1>1, <1>2

LEMMA FullDual ==
    ASSUME NEW s, s.op \in Universal, s.group \in SUBSET Agents,
           s.a \in SUBSET State, s.b \in SUBSET State
    PROVE  SatFO(s) = State \ WonBy(justice, Sought(s))
<1> DEFINE G == s.group
           Q == Moving(G)
           NN == Unmet(State, justice)
           u == Sought(s)
           A == Avoids(State, Q, State, NN)
<1>1. /\ u.group = G /\ u.op = Dual[s.op]
      /\ u.a = (IF s.op \in {"CAU", "CAW"} THEN State \ s.b ELSE State \ s.a)
      /\ u.b = State \ (s.a \cup s.b)
  BY SoughtIs
<1>2. A \in SUBSET State
  BY AvoidsHere
<1>3. \A Y \in SUBSET State : Q[Y] = Pre(Y, G)
  BY MovingGame
<1>4. WonBy(justice, u) = Win(State, Q, State, NN, KindOf(u.op), Along(u), Goal(u))
  BY <1>1 DEF WonBy
<1> HIDE DEF u
<1>5. CASE s.op = "CAX"
  <2>1. KindOf(u.op) = "next" /\ Along(u) = State \ s.a
    BY <1>1, <1>5, ExistentialIs DEF KindOf, Along
  <2>2. SatFO(s) = PreN(s.a \cap FairGamma(G), G)
    BY <1>5 DEF SatFO
  <2>3. FairGamma(G) = State \ A
    BY FairGammaIs
  <2>4. State \ (s.a \cap FairGamma(G)) = (State \ s.a) \cup A
    <3> HIDE DEF A
    <3> QED
      BY <1>2, <2>3
  <2>5. PreN(s.a \cap FairGamma(G), G) = State \ Pre((State \ s.a) \cup A, G)
    BY <2>4, PreNIs
  <2>6. Win(State, Q, State, NN, "next", Along(u), Goal(u)) = State \cap Q[Along(u) \cup A]
    BY DEF Win
  <2>7. (State \ s.a) \cup A \in SUBSET State
    BY <1>2
  <2> HIDE DEF A, Q, NN
  <2>8. Q[(State \ s.a) \cup A] = Pre((State \ s.a) \cup A, G)
    BY <1>3, <2>7
  <2>9. WonBy(justice, u) = State \cap Pre((State \ s.a) \cup A, G)
    BY <1>4, <2>1, <2>6, <2>8
  <2> QED
    BY <2>2, <2>5, <2>9 DEF u
<1>6. CASE s.op \in {"CAF", "CAU"}
  <2> DEFINE phi == IF s.op = "CAF" THEN State ELSE s.a
             psi == IF s.op = "CAF" THEN s.a ELSE s.b
             a == State \ psi
             b == State \ (phi \cup psi)
             B == Room(State, Q, State, NN, a, b)
  <2>1. KindOf(u.op) = "weak" /\ Along(u) = a /\ Goal(u) = b /\ SatFO(s) = Cau(G, phi, psi)
    BY <1>1, <1>6, ExistentialIs DEF KindOf, Along, Goal, SatFO
  <2>2. phi \in SUBSET State /\ psi \in SUBSET State
    OBVIOUS
  <2> HIDE DEF phi, psi
  <2>3. Cau(G, phi, psi) = State \ Stays(State, Q, B, b)
    BY <2>2, CauIs
  <2>4. Win(State, Q, State, NN, "weak", a, b) = Stays(State, Q, B, b)
    BY DEF Win
  <2> HIDE DEF a, b, B, Q, NN
  <2> QED
    BY <1>4, <2>1, <2>3, <2>4 DEF u
<1>7. CASE s.op = "CAG"
  <2>1. KindOf(u.op) = "until" /\ Along(u) = State /\ Goal(u) = State \ s.a
    BY <1>1, <1>7, ExistentialIs DEF KindOf, Along, Goal
  <2>2. SatFO(s) = State \ Evades(State, Q, State, State \ s.a, NN)
    BY <1>7, CagIs DEF SatFO
  <2>3. Room(State, Q, State, NN, State, State \ s.a) = State
    BY DEF Room
  <2>4. Win(State, Q, State, NN, "until", State, State \ s.a) = Evades(State, Q, State, State \ s.a, NN)
    BY <2>3 DEF Win
  <2> DEFINE b == State \ s.a
  <2> HIDE DEF Q, NN, b
  <2> QED
    BY <1>4, <2>1, <2>2, <2>4 DEF u, b
<1>8. CASE s.op = "CAW"
  <2> DEFINE phi == s.a
             psi == s.b
             a == State \ psi
             b == State \ (phi \cup psi)
             B == Room(State, Q, State, NN, a, b)
  <2>1. KindOf(u.op) = "until" /\ Along(u) = a /\ Goal(u) = b /\ SatFO(s) = Caw(G, phi, psi)
    BY <1>1, <1>8, ExistentialIs DEF KindOf, Along, Goal, SatFO
  <2>2. phi \in SUBSET State /\ psi \in SUBSET State
    OBVIOUS
  <2> HIDE DEF phi, psi
  <2>3. Caw(G, phi, psi) = State \ Evades(State, Q, B, b, NN)
    BY <2>2, CawIs
  <2>4. Win(State, Q, State, NN, "until", a, b) = Evades(State, Q, B, b, NN)
    BY DEF Win
  <2> HIDE DEF a, b, B, Q, NN
  <2> QED
    BY <1>4, <2>1, <2>3, <2>4 DEF u
<1> QED
  BY <1>5, <1>6, <1>7, <1>8, ExistentialIs

\* evalATL, where every path is fair.
LEMMA AtlIs ==
    ASSUME NEW s, s.op \in Existential, s.a \in SUBSET State, s.b \in SUBSET State
    PROVE  EnforcedATL(s) = WonBy({}, s)
<1> DEFINE G == s.group
           Q == Moving(G)
           NN == Unmet(State, {})
           a == Along(s)
           b == Goal(s)
           A == Avoids(State, Q, State, NN)
           B == Room(State, Q, State, NN, a, b)
<1>1. Game(State, Q) /\ (\A Y \in SUBSET State : Q[Y] = Pre(Y, G)) /\ Q[{}] = {} /\ State \in SUBSET State
  BY MovingGame
<1>2. NN = {{}}
  BY UnmetNone
<1>3. A = {}
  <2> HIDE DEF Q
  <2> QED
    BY <1>1, <1>2, NoMoves
<1>4. B = a \cup b /\ B \in SUBSET State
  <2>1. B = State \cap (a \cup b \cup A)
    BY DEF Room
  <2>2. a \in SUBSET State /\ b \in SUBSET State
    BY DEF Along, Goal
  <2> HIDE DEF B, A, a, b
  <2> QED
    BY <1>3, <2>1, <2>2
<1>5. WonBy({}, s) = Win(State, Q, State, NN, KindOf(s.op), a, b)
  BY DEF WonBy
<1>6. \A Y \in SUBSET State : Pre(Y, G) \in SUBSET State
  BY DEF Pre, PreStrat, StatesOf
<1>7. CASE s.op = "CEX"
  <2>1. a = s.a /\ KindOf(s.op) = "next"
    BY <1>7 DEF Along, KindOf
  <2>2. EnforcedATL(s) = Pre(s.a, G)
    BY <1>7 DEF EnforcedATL
  <2>3. Win(State, Q, State, NN, "next", a, b) = State \cap Q[a \cup A]
    BY DEF Win
  <2> HIDE DEF A, Q, NN, b
  <2>4. a \cup A = s.a
    BY <1>3, <2>1
  <2>5. State \cap Q[s.a] = Pre(s.a, G)
    BY <1>1, <1>6
  <2> QED
    BY <1>5, <2>1, <2>2, <2>3, <2>4, <2>5
<1>8. CASE s.op \in {"CEG", "CEW"}
  <2>1. KindOf(s.op) = "weak" /\ EnforcedATL(s)
          = Greatest([Z \in SUBSET State |-> b \cup (a \cap Pre(Z, G))])
    <3>1. CASE s.op = "CEG"
      <4>1. a = s.a /\ b = {}
        BY <3>1 DEF Along, Goal
      <4>2. \A Z : b \cup (a \cap Pre(Z, G)) = s.a \cap Pre(Z, G)
        BY <4>1
      <4> HIDE DEF a, b
      <4> QED
        BY <3>1, <4>2 DEF EnforcedATL, KindOf
    <3>2. CASE s.op = "CEW"
      BY <3>2 DEF EnforcedATL, KindOf, Along, Goal
    <3> QED
      BY <1>8, <3>1, <3>2
  <2>2. Win(State, Q, State, NN, "weak", a, b) = Stays(State, Q, B, b)
    BY DEF Win
  <2> HIDE DEF A, B, a, b, Q, NN
  <2>3. \A Z \in SUBSET State : b \cup (a \cap Pre(Z, G)) = StayStep(Q, B, b, Z)
    BY <1>1, <1>4 DEF StayStep
  <2>4. EnforcedATL(s) = Stays(State, Q, B, b)
    BY <2>1, <2>3 DEF Greatest, Stays
  <2> QED
    BY <1>5, <2>1, <2>2, <2>4
<1>9. CASE s.op \in {"CEF", "CEU"}
  <2>1. KindOf(s.op) = "until" /\ EnforcedATL(s)
          = Least([Z \in SUBSET State |-> b \cup (a \cap Pre(Z, G))])
    <3>1. CASE s.op = "CEF"
      <4>1. a = State /\ b = s.a
        BY <3>1 DEF Along, Goal
      <4>2. \A Z \in SUBSET State : b \cup (a \cap Pre(Z, G)) = s.a \cup Pre(Z, G)
        BY <1>6, <4>1
      <4> HIDE DEF a, b
      <4>3. [Z \in SUBSET State |-> b \cup (a \cap Pre(Z, G))] = [Z \in SUBSET State |-> s.a \cup Pre(Z, G)]
        BY <4>2
      <4> QED
        BY <3>1, <4>3 DEF EnforcedATL, KindOf
    <3>2. CASE s.op = "CEU"
      BY <3>2 DEF EnforcedATL, KindOf, Along, Goal
    <3> QED
      BY <1>9, <3>1, <3>2
  <2>2. Win(State, Q, State, NN, "until", a, b) = Evades(State, Q, B, b, NN)
    BY DEF Win
  <2> HIDE DEF A, B, a, b, Q, NN
  <2>3. \A Z \in SUBSET State : b \cup (a \cap Pre(Z, G)) = StayStep(Q, B, b, Z)
    BY <1>1, <1>4 DEF StayStep
  <2>4. EnforcedATL(s) = Gets(State, Q, B, b)
    BY <2>1, <2>3 DEF Least, Gets
  <2>5. Gets(State, Q, B, b) = Evades(State, Q, B, b, {{}})
    BY <1>1, <1>4, GetsIs
  <2> QED
    BY <1>2, <1>5, <2>1, <2>2, <2>4, <2>5
<1> QED
  BY <1>7, <1>8, <1>9, ExistentialIs

-----------------------------------------------------------------------------
(* Groups that observe everything play a move of their own in every state. *)

\* From where, in the reachable states, a move of G leads where.
Here(G) == [Y \in SUBSET reach |-> {p \in reach : CanLead(trans, G, p, Y)}]

LEMMA HereGame ==
    ASSUME SystemInv, NEW G
    PROVE  /\ Game(reach, Here(G))
           /\ \A Y \in SUBSET reach : \A p \in reach : p \in Here(G)[Y] <=> CanLead(trans, G, p, Y)
<1>1. IsFiniteSet(reach)
  BY SystemIs, FsmAssumption, FS_Subset
<1>2. \A p, S, T : S \subseteq T /\ CanLead(trans, G, p, S) => CanLead(trans, G, p, T)
  BY DEF CanLead
<1>3. \A Y \in SUBSET reach : Here(G)[Y] = {p \in reach : CanLead(trans, G, p, Y)}
  BY DEF Here
<1>4. Here(G) = [Y \in SUBSET reach |-> Here(G)[Y]]
  BY DEF Here
<1>5. Here(G) \in [SUBSET reach -> SUBSET reach]
  BY <1>3, <1>4
<1>6. \A S, T \in SUBSET reach : S \subseteq T => Here(G)[S] \subseteq Here(G)[T]
  BY <1>2, <1>3
<1> QED
  BY <1>1, <1>3, <1>5, <1>6 DEF Game

\* The strategy that plays c.
Chosen(G, c) == [p \in reach |-> Own(G, c[p])]

LEMMA ChosenIs ==
    ASSUME SystemInv, Full, NEW G, NEW c \in [reach -> Input],
           \A p \in reach : Out(trans, G, <<p, c[p]>>) # {}
    PROVE  /\ Chosen(G, c) \in UniformStrategies(G)
           /\ \A p \in reach : Successors(Outcome(G, Chosen(G, c)), p) = Out(trans, G, <<p, c[p]>>)
<1> DEFINE f == Chosen(G, c)
<1>1. \A p : Seen(G, p) = p
  BY DEF Seen
<1>2. {Seen(G, p) : p \in reach} = reach
  BY <1>1
<1>3. f \in [reach -> {Own(G, i) : i \in Input}] /\ \A p \in reach : f[p] = Own(G, c[p]) /\ c[p] \in Input
  BY DEF Chosen
<1> HIDE DEF f
<1>4. \A p \in reach : \E i \in Input : Own(G, i) = f[Seen(G, p)] /\ Out(trans, G, <<p, i>>) # {}
  <2> TAKE p \in reach
  <2>1. Own(G, c[p]) = f[Seen(G, p)] /\ c[p] \in Input /\ Out(trans, G, <<p, c[p]>>) # {}
    BY <1>1, <1>3
  <2> QED
    BY <2>1
<1>5. f \in [{Seen(G, p) : p \in reach} -> {Own(G, i) : i \in Input}]
  BY <1>2, <1>3
<1>6. f \in UniformStrategies(G)
  BY <1>4, <1>5, UniformIs
<1>7. ASSUME NEW p \in reach PROVE Successors(Outcome(G, f), p) = Out(trans, G, <<p, c[p]>>)
  <2>1. Own(G, c[p]) = f[Seen(G, p)]
    BY <1>1, <1>3
  <2> QED
    BY <2>1, OutcomeIs
<1> QED
  BY <1>6, <1>7 DEF f

\* Every strategy is played by some such c.
LEMMA ChosenBy ==
    ASSUME SystemInv, NEW G, NEW f \in UniformStrategies(G)
    PROVE  \E c \in [reach -> Input] : \A p \in reach :
               /\ Out(trans, G, <<p, c[p]>>) # {}
               /\ Successors(Outcome(G, f), p) = Out(trans, G, <<p, c[p]>>)
<1> DEFINE Fits(p, i) == Own(G, i) = f[Seen(G, p)] /\ Out(trans, G, <<p, i>>) # {}
           c == [p \in reach |-> CHOOSE i \in Input : Fits(p, i)]
<1>1. \A p \in reach : \E i \in Input : Fits(p, i)
  BY UniformIs
<1>2. \A p \in reach : c[p] \in Input /\ Fits(p, c[p])
  BY <1>1
<1>3. c \in [reach -> Input]
  BY <1>2
<1>4. \A p \in reach : Own(G, c[p]) = f[Seen(G, p)] /\ Out(trans, G, <<p, c[p]>>) # {}
  BY <1>2
<1> HIDE DEF c
<1>5. \A p \in reach : Successors(Outcome(G, f), p) = Out(trans, G, <<p, c[p]>>)
  <2> TAKE p \in reach
  <2> QED
    BY <1>4, OutcomeIs
<1> QED
  BY <1>3, <1>4, <1>5

\* Somewhere there is always a move to.
LEMMA SomeMove ==
    ASSUME SystemInv, Lively, NEW G, NEW p \in reach
    PROVE  \E i \in Input : Out(trans, G, <<p, i>>) # {}
<1>1. PICK q \in Successors(trans, p) : TRUE
  BY SystemIs
<1>2. PICK i \in InvarInput : q \in Invar /\ <<p, i, q>> \in trans
  BY <1>1 DEF Successors
<1>3. q \in Out(trans, G, <<p, i>>) /\ i \in Input
  BY <1>2, SystemIs, FsmAssumption DEF Out
<1> QED
  BY <1>3

Plays(G) == [f \in UniformStrategies(G) |-> Leading(Outcome(G, f), reach)]

LEMMA FullMixable ==
    ASSUME SystemInv, Lively, Full, NEW G
    PROVE  Mixable(reach, Here(G), UniformStrategies(G), Plays(G))
<1> DEFINE U == UniformStrategies(G)
           F == Plays(G)
           Q == Here(G)
<1>1. \A Y \in SUBSET reach : \A p \in reach : p \in Q[Y] <=> CanLead(trans, G, p, Y)
  BY HereGame
<1>2. ASSUME NEW f \in U
      PROVE  Game(reach, F[f]) /\ \A Y \in SUBSET reach : \A p \in reach :
                 p \in F[f][Y] <=> Successors(Outcome(G, f), p) \subseteq Y
  <2>1. Total(Outcome(G, f), reach) /\ F[f] = Leading(Outcome(G, f), reach)
    BY OutcomeTotal DEF Plays
  <2> QED
    BY <2>1, LeadingGame
<1>3. \A f \in U : \A Y \in SUBSET reach : F[f][Y] \in SUBSET reach
  BY <1>2 DEF Game
<1> HIDE DEF F, Q
<1>4. ASSUME NEW c \in [reach -> Input], \A p \in reach : Out(trans, G, <<p, c[p]>>) # {}
      PROVE  \E h \in U : \A Y \in SUBSET reach : \A p \in reach :
                 p \in F[h][Y] <=> Out(trans, G, <<p, c[p]>>) \subseteq Y
  <2>1. Chosen(G, c) \in U /\ \A p \in reach :
            Successors(Outcome(G, Chosen(G, c)), p) = Out(trans, G, <<p, c[p]>>)
    BY <1>4, ChosenIs
  <2> QED
    BY <1>2, <2>1
<1>5. ASSUME NEW Y \in SUBSET reach PROVE \E h \in U : F[h][Y] = Q[Y]
  <2> DEFINE Fits(p, i) == Out(trans, G, <<p, i>>) # {}
                           /\ (CanLead(trans, G, p, Y) => Out(trans, G, <<p, i>>) \subseteq Y)
             c == [p \in reach |-> CHOOSE i \in Input : Fits(p, i)]
  <2>1. \A p \in reach : \E i \in Input : Fits(p, i)
    <3> TAKE p \in reach
    <3>1. CASE CanLead(trans, G, p, Y)
      BY <3>1 DEF CanLead
    <3>2. CASE ~CanLead(trans, G, p, Y)
      BY <3>2, SomeMove
    <3> QED
      BY <3>1, <3>2
  <2>2. \A p \in reach : c[p] \in Input /\ Fits(p, c[p])
    BY <2>1
  <2>3. c \in [reach -> Input]
    BY <2>2
  <2>4. \A p \in reach : Out(trans, G, <<p, c[p]>>) # {}
    BY <2>2
  <2>5. \A p \in reach : CanLead(trans, G, p, Y) <=> Out(trans, G, <<p, c[p]>>) \subseteq Y
    BY <2>2 DEF CanLead
  <2> HIDE DEF c
  <2>6. PICK h \in U : \A S \in SUBSET reach : \A p \in reach :
                 p \in F[h][S] <=> Out(trans, G, <<p, c[p]>>) \subseteq S
    BY <1>4, <2>3, <2>4
  <2>7. Q[Y] \in SUBSET reach
    BY HereGame DEF Game, Q
  <2> QED
    BY <1>1, <1>3, <2>5, <2>6, <2>7
<1>6. U # {}
  BY <1>5
<1>7. ASSUME NEW f \in U, NEW Y \in SUBSET reach PROVE F[f][Y] \subseteq Q[Y]
  <2>1. PICK c \in [reach -> Input] : \A p \in reach :
            /\ Out(trans, G, <<p, c[p]>>) # {}
            /\ Successors(Outcome(G, f), p) = Out(trans, G, <<p, c[p]>>)
    BY ChosenBy
  <2>2. \A p \in reach : Successors(Outcome(G, f), p) \subseteq Y => CanLead(trans, G, p, Y)
    BY <2>1 DEF CanLead
  <2> QED
    BY <1>1, <1>2, <1>3, <2>2
<1>8. ASSUME NEW f \in U, NEW g \in U, NEW A \in SUBSET reach
      PROVE  \E h \in U : PlaysIn(reach, F, h, f, A) /\ PlaysIn(reach, F, h, g, reach \ A)
  <2>1. PICK c \in [reach -> Input] : \A p \in reach :
            /\ Out(trans, G, <<p, c[p]>>) # {}
            /\ Successors(Outcome(G, f), p) = Out(trans, G, <<p, c[p]>>)
    BY ChosenBy
  <2>2. PICK d \in [reach -> Input] : \A p \in reach :
            /\ Out(trans, G, <<p, d[p]>>) # {}
            /\ Successors(Outcome(G, g), p) = Out(trans, G, <<p, d[p]>>)
    BY ChosenBy
  <2> DEFINE e == [p \in reach |-> IF p \in A THEN c[p] ELSE d[p]]
  <2>3. e \in [reach -> Input]
    OBVIOUS
  <2>4. \A p \in reach : (p \in A => e[p] = c[p]) /\ (p \notin A => e[p] = d[p])
    OBVIOUS
  <2> HIDE DEF e
  <2>5. \A p \in reach : Out(trans, G, <<p, e[p]>>) # {}
    BY <2>1, <2>2, <2>4
  <2>6. PICK h \in U : \A S \in SUBSET reach : \A p \in reach :
                 p \in F[h][S] <=> Out(trans, G, <<p, e[p]>>) \subseteq S
    BY <1>4, <2>3, <2>5
  <2>7. \A S \in SUBSET reach : \A p \in A : p \in F[h][S] <=> p \in F[f][S]
    <3>1. \A S \in SUBSET reach : \A p \in reach : p \in F[f][S] <=> Out(trans, G, <<p, c[p]>>) \subseteq S
      BY <1>2, <2>1
    <3> TAKE S \in SUBSET reach
    <3> TAKE p \in A
    <3>2. p \in reach /\ e[p] = c[p]
      BY <2>4
    <3> QED
      BY <2>6, <3>1, <3>2
  <2>8. \A S \in SUBSET reach : \A p \in reach \ A : p \in F[h][S] <=> p \in F[g][S]
    <3>1. \A S \in SUBSET reach : \A p \in reach : p \in F[g][S] <=> Out(trans, G, <<p, d[p]>>) \subseteq S
      BY <1>2, <2>2
    <3> TAKE S \in SUBSET reach
    <3> TAKE p \in reach \ A
    <3>2. p \in reach /\ e[p] = d[p]
      BY <2>4
    <3> QED
      BY <2>6, <3>1, <3>2
  <2> QED
    BY <2>7, <2>8 DEF PlaysIn
<1> QED
  BY <1>2, <1>5, <1>6, <1>7, <1>8 DEF Mixable, Q, F

-----------------------------------------------------------------------------
(* Full observability: what the tools compute is what some one strategy     *)
(* ensures.                                                                 *)

\* The states themselves.
Same == [p \in reach |-> p]

\* Only reachable states matter.
LEMMA HereLeads ==
    ASSUME SystemInv, NEW G
    PROVE  \A Y \in SUBSET State : \A Z \in SUBSET reach : Y \cap reach = Z \cap reach =>
               \A p \in reach : p \in Moving(G)[Y] <=> p \in Here(G)[Z]
<1>1. \A p \in reach : \A i \in Input : Out(trans, G, <<p, i>>) \subseteq reach
  <2> TAKE p \in reach
  <2> TAKE i \in Input
  <2>1. <<p, i>> \in StateInput /\ <<p, i>>[1] = p
    BY SystemIs DEF StateInput
  <2>2. Out(trans, G, <<p, i>>) \subseteq Successors(trans, p)
    BY <2>1, OutIn
  <2> QED
    BY <2>2, SystemIs
<1> TAKE Y \in SUBSET State
<1> TAKE Z \in SUBSET reach
<1> HAVE Y \cap reach = Z \cap reach
<1> TAKE p \in reach
<1>2. CanLead(trans, G, p, Y) <=> CanLead(trans, G, p, Z)
  BY <1>1 DEF CanLead
<1>3. p \in Moving(G)[Y] <=> CanLead(trans, G, p, Y)
  BY MovingGame, SystemIs
<1>4. p \in Here(G)[Z] <=> CanLead(trans, G, p, Z)
  BY HereGame
<1> QED
  BY <1>2, <1>3, <1>4

LEMMA FullShadow ==
    ASSUME SystemInv, NEW G
    PROVE  Shadow(State, Moving(G), State, reach, Here(G), reach, Same)
<1>1. Game(State, Moving(G)) /\ Game(reach, Here(G))
  BY MovingGame, HereGame
<1>2. reach \in SUBSET State /\ State \in SUBSET State
  BY SystemIs
<1>3. Same \in [reach -> reach] /\ \A p \in reach : Same[p] = p
  BY DEF Same
<1>4. ASSUME NEW Y \in SUBSET State, NEW x \in reach
      PROVE  x \in Moving(G)[Y] <=> Same[x] \in Here(G)[{Same[y] : y \in Y \cap reach}]
  <2> DEFINE Z == {Same[y] : y \in Y \cap reach}
  <2>1. Z \in SUBSET reach /\ Y \cap reach = Z \cap reach
    BY <1>3
  <2> HIDE DEF Z
  <2>2. x \in Moving(G)[Y] <=> x \in Here(G)[Z]
    BY <2>1, HereLeads
  <2>3. x \in Moving(G)[Y] <=> Same[x] \in Here(G)[Z]
    BY <2>2, <1>3
  <2> QED
    BY <2>3 DEF Z
<1> QED
  BY <1>1, <1>2, <1>3, <1>4 DEF Shadow

\* What the group wins moving in reachable states.
WonHere(J, s) ==
    Win(reach, Here(s.group), reach, Unmet(reach, J), KindOf(s.op), reach \cap Along(s), reach \cap Goal(s))

LEMMA AlongIn ==
    ASSUME NEW s, s.a \in SUBSET State, s.b \in SUBSET State
    PROVE  Along(s) \in SUBSET State /\ Goal(s) \in SUBSET State
  BY DEF Along, Goal

LEMMA WonByHere ==
    ASSUME SystemInv, NEW J, NEW s, s.op \in Existential, s.a \in SUBSET State, s.b \in SUBSET State
    PROVE  reach \cap WonBy(J, s) = WonHere(J, s)
<1> DEFINE G == s.group
           n1 == [f \in Met(J) |-> State \ f]
           n2 == [f \in Met(J) |-> reach \ f]
           a1 == Along(s)
           b1 == Goal(s)
           a2 == reach \cap Along(s)
           b2 == reach \cap Goal(s)
           kind == KindOf(s.op)
           I == Met(J)
           Q1 == Moving(G)
           Q2 == Here(G)
           W1 == Win(State, Q1, State, Family(n1, I), kind, a1, b1)
           W2 == Win(reach, Q2, reach, Family(n2, I), kind, a2, b2)
<1>0. reach \in SUBSET State
  BY SystemIs
<1>1. Unmet(State, J) = Family(n1, I) /\ Unmet(reach, J) = Family(n2, I)
  BY UnmetFamilies
<1>2. W1 = WonBy(J, s) /\ W2 = WonHere(J, s)
  BY <1>1 DEF WonBy, WonHere
<1>3. Shadow(State, Q1, State, reach, Q2, reach, Same)
  BY FullShadow
<1>4. \A p \in reach : Same[p] = p
  BY DEF Same
<1>5. \A j \in I : Over(reach, Same, n1[j], n2[j])
  BY <1>0, <1>4 DEF Over
<1>6. a1 \in SUBSET State /\ b1 \in SUBSET State /\ a2 \in SUBSET reach /\ b2 \in SUBSET reach
  BY AlongIn
<1>7. Over(reach, Same, a1, a2) /\ Over(reach, Same, b1, b2)
  BY <1>4 DEF Over
<1>8. kind \in Kinds
  BY KindIn
<1>9. \A Z1 \in SUBSET State, Z2 \in SUBSET reach : Over(reach, Same, Z1, Z2) =>
          \A x \in reach : x \in Q1[a1 \cup Z1] <=> Same[x] \in Q2[a2 \cup Z2]
  <2> TAKE Z1 \in SUBSET State, Z2 \in SUBSET reach
  <2> HAVE Over(reach, Same, Z1, Z2)
  <2> TAKE x \in reach
  <2> DEFINE Y1 == a1 \cup Z1
             Y2 == a2 \cup Z2
  <2>1. Y1 \in SUBSET State /\ Y2 \in SUBSET reach
    BY <1>6
  <2>2. Y1 \cap reach = Y2 \cap reach
    BY <1>4 DEF Over
  <2> HIDE DEF Y1, Y2, Q1, Q2
  <2>3. x \in Q1[Y1] <=> x \in Q2[Y2]
    BY <2>1, <2>2, HereLeads DEF Q1, Q2
  <2>4. x \in Q1[Y1] <=> Same[x] \in Q2[Y2]
    BY <1>4, <2>3
  <2> QED
    BY <2>4 DEF Y1, Y2
<1> HIDE DEF a1, a2, b1, b2, n1, n2, I, kind, Q1, Q2
<1>10. Over(reach, Same, W1, W2)
  BY <1>3, <1>5, <1>6, <1>7, <1>8, <1>9, ShadowWin
<1>11. Game(reach, Q2)
  BY HereGame DEF Q2
<1>12. W2 \subseteq reach
  BY <1>6, <1>8, <1>11, WinIn
<1> HIDE DEF W1, W2
<1>13. reach \cap W1 = W2
  BY <1>4, <1>10, <1>12 DEF Over
<1> QED
  BY <1>2, <1>13

\* Without constraints to heed in ATL.
Heeded == IF tool = "ATL" THEN {} ELSE justice

\* What the strategy f ensures.
EnsuredBy(f, s) == reach \cap Ensured(Outcome(s.group, f), Heeded, s)

LEMMA BestPlay ==
    ASSUME SystemInv, Lively, Full, NEW s, s.op \in Existential,
           s.a \in SUBSET State, s.b \in SUBSET State
    PROVE  \E g \in UniformStrategies(s.group) :
              /\ EnsuredBy(g, s) = reach \cap WonBy(Heeded, s)
              /\ \A f \in UniformStrategies(s.group) : EnsuredBy(f, s) \subseteq EnsuredBy(g, s)
<1> DEFINE G == s.group
           U == UniformStrategies(G)
           J == Heeded
           NN == Unmet(reach, J)
           a == reach \cap Along(s)
           b == reach \cap Goal(s)
           kind == KindOf(s.op)
           F == Plays(G)
           Q == Here(G)
           W == Win(reach, Q, reach, NN, kind, a, b)
           Ens(f) == reach \cap Ensured(Outcome(G, f), J, s)
<1>4. \A f \in U : Ens(f) = Win(reach, F[f], reach, NN, kind, a, b)
  <2> TAKE f \in U
  <2>1. Total(Outcome(G, f), reach) /\ F[f] = Leading(Outcome(G, f), reach)
    BY OutcomeTotal DEF Plays
  <2>2. Ens(f) = WonIn(Outcome(G, f), reach, J, s)
    BY <2>1, WinMeans
  <2> QED
    BY <2>1, <2>2 DEF WonIn
<1>5. WonHere(J, s) = W
  BY DEF WonHere
<1>6. kind \in Kinds
  BY KindIn
<1>7. Game(reach, Q) /\ Mixable(reach, Q, U, F)
  BY HereGame, FullMixable
<1>8. a \in SUBSET reach /\ b \in SUBSET reach /\ reach \in SUBSET reach
  OBVIOUS
<1> HIDE DEF a, b, kind, NN, F, Q, U
<1>9. PICK g \in U : Win(reach, F[g], reach, NN, kind, a, b) = W
  BY <1>6, <1>7, <1>8, WinPlayed
<1>10. \A f \in U : Win(reach, F[f], reach, NN, kind, a, b) \subseteq W
  <2> TAKE f \in U
  <2>1. Game(reach, F[f]) /\ \A Y \in SUBSET reach : F[f][Y] \subseteq Q[Y]
    BY <1>7 DEF Mixable
  <2>2. \A Y \in SUBSET reach : reach \cap F[f][Y] \subseteq Q[Y]
    BY <2>1
  <2> HIDE DEF W
  <2> DEFINE P == F[f]
  <2>3. Game(reach, P) /\ \A Y \in SUBSET reach : reach \cap P[Y] \subseteq Q[Y]
    BY <2>1, <2>2
  <2> HIDE DEF P
  <2>4. Win(reach, P, reach, NN, kind, a, b) \subseteq Win(reach, Q, reach, NN, kind, a, b)
    BY <1>6, <1>7, <1>8, <2>3, WinGrows
  <2> QED
    BY <2>4 DEF P, W
<1> HIDE DEF W
<1>11. Ens(g) = W /\ \A f \in U : Ens(f) \subseteq W
  BY <1>4, <1>9, <1>10
<1>12. W = reach \cap WonBy(J, s)
  BY <1>5, WonByHere
<1> QED
  BY <1>9, <1>11, <1>12 DEF EnsuredBy, U

\* All that is seen is the state.
LEMMA FullWon ==
    ASSUME SystemInv, Lively, Full, NEW s, s.op \in Existential,
           s.a \in SUBSET State, s.b \in SUBSET State
    PROVE  Enforced(s) = reach \cap WonBy(Heeded, s)
<1> DEFINE G == s.group
           U == UniformStrategies(G)
           Ens(f) == reach \cap Ensured(Outcome(G, f), Heeded, s)
           ByPlaying(f) == {p \in Ens(f) : {q \in reach : Seen(G, q) = Seen(G, p)} \subseteq Ens(f)}
<1>1. Enforced(s) = UNION {ByPlaying(f) : f \in U}
  BY DEF Enforced, Heeded
<1>2. \A p : Seen(G, p) = p
  BY DEF Seen
<1>3. \A f \in U : ByPlaying(f) = EnsuredBy(f, s)
  BY <1>2 DEF EnsuredBy
<1> HIDE DEF ByPlaying, U
<1>4. PICK g \in U : /\ EnsuredBy(g, s) = reach \cap WonBy(Heeded, s)
                     /\ \A f \in U : EnsuredBy(f, s) \subseteq EnsuredBy(g, s)
  BY BestPlay DEF U
<1>5. UNION {ByPlaying(f) : f \in U} = EnsuredBy(g, s)
  BY <1>3, <1>4
<1> QED
  BY <1>1, <1>4, <1>5

\* With full observability, what the fixpoints of atlkFO and atl find of an
\* existential formula is what one strategy ensures from all the states found,
\* and no strategy ensures the formula from any other reachable state; atl heeds
\* no constraint (atlkFO/eval.py:344-528, atl/eval.py:108-154).
THEOREM FullEnforced ==
    ASSUME SystemInv, Lively, Full, NEW s, s.op \in Existential,
           s.a \in SUBSET State, s.b \in SUBSET State
    PROVE  LET found == IF tool = "FO" THEN SatFO(s) ELSE EnforcedATL(s)
               heeded == IF tool = "FO" THEN justice ELSE {}
               Ensures(f) == reach \cap Ensured(Outcome(s.group, f), heeded, s)
           IN \E g \in UniformStrategies(s.group) :
                 /\ Ensures(g) = reach \cap found
                 /\ \A f \in UniformStrategies(s.group) : Ensures(f) \subseteq found
<1> DEFINE found == IF tool = "FO" THEN SatFO(s) ELSE EnforcedATL(s)
           heeded == IF tool = "FO" THEN justice ELSE {}
           Ensures(f) == reach \cap Ensured(Outcome(s.group, f), heeded, s)
<1>1. heeded = Heeded
  BY DEF Full, Heeded
<1>2. found = WonBy(Heeded, s)
  <2>1. CASE tool = "FO"
    BY <2>1, FullIs DEF Heeded
  <2>2. CASE tool = "ATL"
    BY <2>2, AtlIs DEF Heeded
  <2> QED
    BY <2>1, <2>2 DEF Full
<1> HIDE DEF found, heeded
<1>3. \A f : Ensures(f) = EnsuredBy(f, s)
  BY <1>1 DEF EnsuredBy
<1>4. PICK g \in UniformStrategies(s.group) :
          /\ EnsuredBy(g, s) = reach \cap WonBy(Heeded, s)
          /\ \A f \in UniformStrategies(s.group) : EnsuredBy(f, s) \subseteq EnsuredBy(g, s)
  BY BestPlay
<1> HIDE DEF Ensures
<1>5. /\ Ensures(g) = reach \cap found
      /\ \A f \in UniformStrategies(s.group) : Ensures(f) \subseteq found
  BY <1>2, <1>3, <1>4
<1>6. g \in UniformStrategies(s.group)
  BY <1>4
<1> QED
  BY <1>5, <1>6 DEF found, heeded, Ensures

-----------------------------------------------------------------------------
(* Partial observability: the moves of a uniform strategy, as the tool     *)
(* builds it.                                                               *)

LEMMA OwnIs == \A G, i, j : Own(G, i) = Own(G, j) <=> \A a \in G : i[a] = j[a]
<1> TAKE G, i, j
<1>1. \A k : Own(G, k) = [a \in G |-> k[a]]
  BY DEF Own
<1>2. ASSUME Own(G, i) = Own(G, j), NEW a \in G PROVE i[a] = j[a]
  BY <1>1, <1>2
<1>3. ASSUME \A a \in G : i[a] = j[a] PROVE Own(G, i) = Own(G, j)
  BY <1>1, <1>3
<1> QED
  BY <1>2, <1>3

\* The joint actions with which some step leads to a reachable state.
Open(x) == x \in reach \X Input /\ x \in WeakBackwardImage(trans, reach)

LEMMA ProtocolOpen ==
    ASSUME NEW G
    PROVE  \A x : x \in Protocol(trans, reach, G) <=>
               x \in StateInput /\ x \in reach \X Input /\
               \E i \in Input : Own(G, i) = Own(G, x[2]) /\ <<x[1], i>> \in WeakBackwardImage(trans, reach)
  BY DEF Protocol, Within, ForsomeOthers

LEMMA ChecksAre ==
    ASSUME SystemInv
    PROVE  /\ \A x : Open(x) <=> x \in reach \X Input /\ \A a \in Agents : x \in Protocol(trans, reach, {a})
           /\ \A a \in Agents : \A p, q \in reach : Sees[a][p] = Sees[a][q] =>
                  \A i \in Input : <<p, i>> \in Protocol(trans, reach, {a})
                                      => <<q, i>> \in Protocol(trans, reach, {a})
<1>1. FreeChoice(trans, reach) /\ UniformChoice(trans, reach)
  BY StrategiesAssumption DEF SystemInv, CheckMas
<1>2. Within(reach, WeakBackwardImage(trans, reach))
          = {x \in reach \X Input : \A a \in Agents : x \in Protocol(trans, reach, {a})}
  BY <1>1 DEF FreeChoice
<1>3. \A x : Open(x) <=> x \in Within(reach, WeakBackwardImage(trans, reach))
  BY DEF Open, Within
<1>4. \A x : Open(x) <=> x \in reach \X Input /\ \A a \in Agents : x \in Protocol(trans, reach, {a})
  BY <1>2, <1>3
<1>5. ASSUME NEW a \in Agents, NEW p \in reach, NEW q \in reach, Sees[a][p] = Sees[a][q],
             NEW i \in Input, <<p, i>> \in Protocol(trans, reach, {a})
      PROVE  <<q, i>> \in Protocol(trans, reach, {a})
  <2>1. Sight({a}, p) = Sight({a}, q)
    BY <1>5, SightIs DEF Looks
  <2>2. q \in reach \cap EquivalentStates({p}, {a})
    BY <2>1, SystemIs DEF EquivalentStates
  <2>3. {j \in Input : <<q, j>> \in Protocol(trans, reach, {a})}
            = {j \in Input : <<p, j>> \in Protocol(trans, reach, {a})}
    BY <1>1, <2>2 DEF UniformChoice
  <2>4. i \in {j \in Input : <<p, j>> \in Protocol(trans, reach, {a})}
    BY <1>5
  <2> QED
    BY <2>3, <2>4
<1> QED
  BY <1>4, <1>5

\* A group has the same moves in the states it does not tell apart.
LEMMA ProtocolAlike ==
    ASSUME SystemInv, Lively, Mixed, NEW G \in SUBSET Agents,
           NEW p \in reach, NEW q \in reach, Sight(G, p) = Sight(G, q),
           NEW i \in Input, <<p, i>> \in Protocol(trans, reach, G)
    PROVE  <<q, i>> \in Protocol(trans, reach, G)
<1>1. PICK k \in Input : Own(G, k) = Own(G, i) /\ <<p, k>> \in WeakBackwardImage(trans, reach)
  <2> DEFINE x == <<p, i>>
  <2>1. x \in Protocol(trans, reach, G) /\ x[1] = p /\ x[2] = i
    OBVIOUS
  <2> HIDE DEF x
  <2>2. \E k \in Input : Own(G, k) = Own(G, x[2]) /\ <<x[1], k>> \in WeakBackwardImage(trans, reach)
    BY <2>1, ProtocolOpen
  <2> QED
    BY <2>1, <2>2
<1>2. Open(<<p, k>>)
  BY <1>1 DEF Open
<1>3. \A a \in G : <<q, k>> \in Protocol(trans, reach, {a})
  <2> TAKE a \in G
  <2>1. a \in Agents /\ Sees[a][p] = Sees[a][q]
    BY SightIs DEF Looks
  <2>2. <<p, k>> \in Protocol(trans, reach, {a})
    BY <1>2, <2>1, ChecksAre
  <2> QED
    BY <2>1, <2>2, ChecksAre
<1>4. PICK l \in Input : Open(<<q, l>>)
  <2>1. PICK s \in Successors(trans, q) : TRUE
    BY SystemIs
  <2>2. PICK l \in InvarInput : s \in Invar /\ <<q, l, s>> \in trans
    BY <2>1 DEF Successors
  <2>3. s \in reach /\ q \in Invar /\ q \in State /\ l \in Input
    BY <2>1, <2>2, SystemIs, FsmAssumption
  <2>4. <<q, l>> \in WeakBackwardImage(trans, reach)
    BY <2>2, <2>3 DEF WeakBackwardImage, StateInput
  <2> QED
    BY <2>3, <2>4 DEF Open
<1>5. PICK m \in Input : Own(G, m) = Own(G, k) /\ Own(Agents \ G, m) = Own(Agents \ G, l)
  BY DEF Mixed
<1>6. ASSUME NEW a \in Agents, NEW j \in Input, m[a] = j[a], <<q, j>> \in Protocol(trans, reach, {a})
      PROVE  <<q, m>> \in Protocol(trans, reach, {a})
  <2>1. Own({a}, m) = Own({a}, j)
    BY <1>6, OwnIs
  <2>2. PICK n \in Input : Own({a}, n) = Own({a}, j) /\ <<q, n>> \in WeakBackwardImage(trans, reach)
    BY <1>6, ProtocolOpen
  <2>3. <<q, m>> \in StateInput /\ <<q, m>> \in reach \X Input
    BY SystemIs DEF StateInput
  <2> QED
    BY <2>1, <2>2, <2>3, ProtocolOpen
<1>7. \A a \in Agents : <<q, m>> \in Protocol(trans, reach, {a})
  <2> TAKE a \in Agents
  <2>1. CASE a \in G
    <3>1. m[a] = k[a]
      BY <1>5, <2>1, OwnIs
    <3> QED
      BY <1>3, <1>6, <2>1, <3>1
  <2>2. CASE a \notin G
    <3>1. m[a] = l[a]
      BY <1>5, <2>2, OwnIs
    <3>2. <<q, l>> \in Protocol(trans, reach, {a})
      BY <1>4, ChecksAre
    <3> QED
      BY <1>6, <3>1, <3>2
  <2> QED
    BY <2>1, <2>2
<1>8. Open(<<q, m>>)
  BY <1>7, ChecksAre
<1>9. Own(G, m) = Own(G, i) /\ <<q, m>> \in WeakBackwardImage(trans, reach)
  BY <1>1, <1>5, <1>8 DEF Open
<1>10. <<q, i>> \in StateInput /\ <<q, i>> \in reach \X Input
  BY SystemIs DEF StateInput
<1> QED
  BY <1>9, <1>10, ProtocolOpen

Offered(G) == Protocol(trans, reach, G)

LEMMA OfferedIs ==
    ASSUME SystemInv, NEW G
    PROVE  /\ Offered(G) \in SUBSET StateInput
           /\ \A x : x \in Offered(G) <=> x \in StateInput /\ x[1] \in reach /\ Out(trans, G, x) # {}
<1>1. reach \in SUBSET State /\ \A p \in reach : Successors(trans, p) \subseteq reach
  BY SystemIs
<1>2. Protocol(trans, reach, G) = {x \in StateInput : x[1] \in reach /\ Out(trans, G, x) # {}}
  BY <1>1, ProtocolIs
<1> QED
  BY <1>2 DEF Offered

\* One move for the states the group does not tell apart.
Single(G, K) ==
    /\ K \in SUBSET Offered(G)
    /\ \A x, y \in K : Sight(G, x[1]) = Sight(G, y[1]) => Own(G, x[2]) = Own(G, y[2])

LEMMA PlayedSingle ==
    ASSUME SystemInv, ~Full, NEW G, NEW f \in UniformStrategies(G)
    PROVE  Single(G, Played(G, f))
<1>1. \A x \in Played(G, f) : x \in StateInput /\ x[1] \in reach /\ Out(trans, G, x) # {}
  BY PlayedIs
<1>2. Played(G, f) \in SUBSET Offered(G)
  BY <1>1, OfferedIs
<1>3. \A x \in Played(G, f) : Own(G, x[2]) = f[Sight(G, x[1])]
  BY DEF Played, Seen
<1> QED
  BY <1>2, <1>3 DEF Single

LEMMA SinglePlayed ==
    ASSUME SystemInv, Lively, Mixed, ~Full, NEW G \in SUBSET Agents, NEW K, Single(G, K)
    PROVE  \E f \in UniformStrategies(G) : K \subseteq Played(G, f)
<1> DEFINE Shown == {Sight(G, p) : p \in reach}
           Fits(v, i) == /\ \A p \in reach : Sight(G, p) = v => <<p, i>> \in Offered(G)
                         /\ \A y \in K : Sight(G, y[1]) = v => Own(G, y[2]) = Own(G, i)
           c == [v \in Shown |-> CHOOSE i \in Input : Fits(v, i)]
           f == [v \in Shown |-> Own(G, c[v])]
<1>0. \A p : Seen(G, p) = Sight(G, p)
  BY DEF Seen
<1>1. \A x \in Offered(G) : x[1] \in reach /\ x[2] \in Input /\ x = <<x[1], x[2]>>
  BY OfferedIs DEF StateInput
<1>2. ASSUME NEW p \in reach, NEW q \in reach, Sight(G, p) = Sight(G, q), NEW i \in Input,
             <<p, i>> \in Offered(G)
      PROVE  <<q, i>> \in Offered(G)
  <2>1. <<p, i>> \in Protocol(trans, reach, G)
    BY <1>2 DEF Offered
  <2>2. <<q, i>> \in Protocol(trans, reach, G)
    BY <1>2, <2>1, ProtocolAlike
  <2> QED
    BY <2>2 DEF Offered
<1>3. ASSUME NEW v \in Shown PROVE \E i \in Input : Fits(v, i)
  <2>1. CASE \E y \in K : Sight(G, y[1]) = v
    <3>1. PICK y \in K : Sight(G, y[1]) = v
      BY <2>1
    <3>2. y \in Offered(G)
      BY DEF Single
    <3>3. y[1] \in reach /\ y[2] \in Input /\ <<y[1], y[2]>> \in Offered(G)
      BY <1>1, <3>2
    <3>4. \A p \in reach : Sight(G, p) = v => <<p, y[2]>> \in Offered(G)
      BY <1>2, <3>1, <3>3
    <3>5. \A z \in K : Sight(G, z[1]) = v => Own(G, z[2]) = Own(G, y[2])
      BY <3>1 DEF Single
    <3> QED
      BY <3>3, <3>4, <3>5
  <2>2. CASE ~\E y \in K : Sight(G, y[1]) = v
    <3>1. PICK q \in reach : v = Sight(G, q)
      OBVIOUS
    <3>2. PICK i \in Input : Out(trans, G, <<q, i>>) # {}
      BY SomeMove
    <3>3. <<q, i>> \in StateInput /\ <<q, i>>[1] = q
      BY SystemIs DEF StateInput
    <3>4. <<q, i>> \in Offered(G)
      BY <3>2, <3>3, OfferedIs
    <3>5. \A p \in reach : Sight(G, p) = v => <<p, i>> \in Offered(G)
      BY <1>2, <3>1, <3>4
    <3> QED
      BY <2>2, <3>5
  <2> QED
    BY <2>1, <2>2
<1>4. \A v \in Shown : c[v] \in Input /\ Fits(v, c[v])
  BY <1>3
<1>5. f \in [Shown -> {Own(G, i) : i \in Input}] /\ \A v \in Shown : f[v] = Own(G, c[v])
  BY <1>4
<1>6. {Seen(G, p) : p \in reach} = Shown
  BY <1>0
<1>7. \A p \in reach : Sight(G, p) \in Shown
  OBVIOUS
<1> HIDE DEF Shown, c, f
<1>8. \A p \in reach : \E i \in Input : Own(G, i) = f[Seen(G, p)] /\ Out(trans, G, <<p, i>>) # {}
  <2> TAKE p \in reach
  <2> DEFINE v == Sight(G, p)
  <2>1. c[v] \in Input /\ f[v] = Own(G, c[v]) /\ <<p, c[v]>> \in Offered(G)
    BY <1>4, <1>5, <1>7
  <2>2. Out(trans, G, <<p, c[v]>>) # {}
    BY <2>1, OfferedIs
  <2> QED
    BY <1>0, <2>1, <2>2
<1>9. f \in [{Seen(G, p) : p \in reach} -> {Own(G, i) : i \in Input}]
  BY <1>5, <1>6
<1>10. f \in UniformStrategies(G)
  BY <1>8, <1>9, UniformIs
<1>11. K \subseteq Played(G, f)
  <2> SUFFICES ASSUME NEW x \in K PROVE x \in Played(G, f)
    OBVIOUS
  <2>1. x \in StateInput /\ x[1] \in reach
    BY OfferedIs DEF Single
  <2>2. Own(G, x[2]) = f[Sight(G, x[1])]
    BY <1>4, <1>5, <1>7, <2>1
  <2> QED
    BY <1>0, <2>1, <2>2 DEF Played
<1> QED
  BY <1>10, <1>11

\* A formula the tool looks for strategies for.
Form(s) == s.op \in Existential /\ s.a \in SUBSET State /\ s.b \in SUBSET State /\ s.group \in SUBSET Agents

LEMMA ForcingIn ==
    ASSUME NEW G, NEW K \in SUBSET StateInput, NEW L \in SUBSET K
    PROVE  \A Y \in SUBSET StateInput :
               Forcing(G, L)[Y] = L \cap Forcing(G, K)[Y]
  BY ForcingGame

LEMMA WinningGame ==
    ASSUME SystemInv, NEW s, Form(s), NEW K \in SUBSET StateInput
    PROVE  /\ Pairs(Along(s)) \in SUBSET StateInput /\ Pairs(Goal(s)) \in SUBSET StateInput
           /\ KindOf(s.op) \in Kinds
           /\ Game(StateInput, Forcing(s.group, K))
           /\ Winning(s, K) = Win(StateInput, Forcing(s.group, K), K, UnmetPairs,
                                  KindOf(s.op), Pairs(Along(s)), Pairs(Goal(s)))
           /\ Winning(s, K) \subseteq K
<1>1. Along(s) \in SUBSET State /\ Goal(s) \in SUBSET State
  BY AlongIn DEF Form
<1>2. Pairs(Along(s)) \in SUBSET StateInput /\ Pairs(Goal(s)) \in SUBSET StateInput
  BY <1>1, PairsAre
<1>3. KindOf(s.op) \in Kinds
  BY KindIn DEF Form
<1>4. Game(StateInput, Forcing(s.group, K))
  BY ForcingGame
<1>5. Winning(s, K) = Win(StateInput, Forcing(s.group, K), K, UnmetPairs,
                          KindOf(s.op), Pairs(Along(s)), Pairs(Goal(s)))
  BY WinningIs DEF Form
<1>6. Winning(s, K) \subseteq K
  BY <1>2, <1>3, <1>4, <1>5, WinIn
<1> QED
  BY <1>2, <1>3, <1>4, <1>5, <1>6

\* With more moves, more wins.
LEMMA WinningGrows ==
    ASSUME SystemInv, NEW s, Form(s), NEW L \in SUBSET StateInput, NEW K \in SUBSET L
    PROVE  Winning(s, K) \subseteq Winning(s, L)
<1> DEFINE G == s.group
           Q == Forcing(G, K)
           P == Forcing(G, L)
           a == Pairs(Along(s))
           b == Pairs(Goal(s))
           kind == KindOf(s.op)
<1>1. K \in SUBSET StateInput
  OBVIOUS
<1>2. /\ a \in SUBSET StateInput /\ b \in SUBSET StateInput /\ kind \in Kinds
      /\ Game(StateInput, Q) /\ Game(StateInput, P)
      /\ Winning(s, K) = Win(StateInput, Q, K, UnmetPairs, kind, a, b)
      /\ Winning(s, L) = Win(StateInput, P, L, UnmetPairs, kind, a, b)
  BY <1>1, WinningGame
<1>3. \A Y \in SUBSET StateInput : K \cap Q[Y] \subseteq P[Y]
  BY ForcingIn
<1> HIDE DEF Q, P, a, b, kind
<1> QED
  BY <1>1, <1>2, <1>3, WinGrows

\* Moves that do not win are not needed by those that do.
LEMMA WinningAgain ==
    ASSUME SystemInv, NEW s, Form(s), NEW K \in SUBSET StateInput, NEW L \in SUBSET K,
           Winning(s, K) \subseteq L
    PROVE  Winning(s, L) = Winning(s, K)
<1> DEFINE G == s.group
           Q == Forcing(G, K)
           P == Forcing(G, L)
           a == Pairs(Along(s))
           b == Pairs(Goal(s))
           kind == KindOf(s.op)
<1>1. L \in SUBSET StateInput
  OBVIOUS
<1>2. /\ a \in SUBSET StateInput /\ b \in SUBSET StateInput /\ kind \in Kinds
      /\ Game(StateInput, Q) /\ Game(StateInput, P)
      /\ Winning(s, K) = Win(StateInput, Q, K, UnmetPairs, kind, a, b)
      /\ Winning(s, L) = Win(StateInput, P, L, UnmetPairs, kind, a, b)
  BY <1>1, WinningGame
<1>3. \A Y \in SUBSET StateInput : L \cap Q[Y] = L \cap P[Y]
  BY ForcingIn
<1> HIDE DEF Q, P, a, b, kind
<1> QED
  BY <1>1, <1>2, <1>3, WinHere

\* The states that win whichever of the states it looks like the state is.
LEMMA ForAllIs ==
    ASSUME SystemInv, NEW G, NEW S \in SUBSET reach
    PROVE  WinningForAll(G, S) = {p \in S : {q \in reach : Sight(G, q) = Sight(G, p)} \subseteq S}
<1>1. reach \in SUBSET Invar
  BY SystemIs
<1>2. \A p : p \in EquivalentStates(reach \ S, G)
                 <=> p \in Invar /\ \E q \in reach \ S : Sight(G, q) = Sight(G, p)
  BY <1>1 DEF EquivalentStates
<1> QED
  BY <1>1, <1>2 DEF WinningForAll

LEMMA ForAllGrows ==
    ASSUME SystemInv, NEW G, NEW T \in SUBSET reach, NEW S \in SUBSET T
    PROVE  WinningForAll(G, S) \subseteq WinningForAll(G, T)
<1>1. WinningForAll(G, S) = {p \in S : {q \in reach : Sight(G, q) = Sight(G, p)} \subseteq S}
  <2>1. S \in SUBSET reach
    OBVIOUS
  <2> QED
    BY <2>1, ForAllIs
<1>2. WinningForAll(G, T) = {p \in T : {q \in reach : Sight(G, q) = Sight(G, p)} \subseteq T}
  BY ForAllIs
<1> QED
  BY <1>1, <1>2

\* What a set of moves wins, whichever the state is of those that look alike.
Settled(s, K) == WinningForAll(s.group, StatesOf(Winning(s, K)))

LEMMA WonInReach ==
    ASSUME SystemInv, NEW s, Form(s), NEW K \in SUBSET Offered(s.group)
    PROVE  /\ K \in SUBSET StateInput
           /\ Winning(s, K) \subseteq K
           /\ StatesOf(K) \in SUBSET reach
           /\ StatesOf(Winning(s, K)) \in SUBSET reach
<1>1. K \in SUBSET StateInput /\ \A x \in K : x[1] \in reach
  BY OfferedIs
<1>2. Winning(s, K) \subseteq K
  BY <1>1, WinningGame
<1>3. StatesOf(K) \in SUBSET reach
  <2> SUFFICES ASSUME NEW p \in StatesOf(K) PROVE p \in reach
    OBVIOUS
  <2>1. PICK i \in Input : <<p, i>> \in K
    BY DEF StatesOf
  <2>2. <<p, i>>[1] \in reach
    BY <1>1, <2>1
  <2> QED
    BY <2>2
<1>4. StatesOf(Winning(s, K)) \subseteq StatesOf(K)
  BY <1>2, StatesIn
<1> QED
  BY <1>1, <1>2, <1>3, <1>4

LEMMA SettledGrows ==
    ASSUME SystemInv, NEW s, Form(s), NEW L \in SUBSET Offered(s.group), NEW K \in SUBSET L
    PROVE  Settled(s, K) \subseteq Settled(s, L)
<1>1. L \in SUBSET StateInput /\ StatesOf(Winning(s, L)) \in SUBSET reach
  BY WonInReach
<1>2. Winning(s, K) \subseteq Winning(s, L)
  BY <1>1, WinningGrows
<1>3. StatesOf(Winning(s, K)) \subseteq StatesOf(Winning(s, L))
  BY <1>2, StatesIn
<1> DEFINE S == StatesOf(Winning(s, K))
           T == StatesOf(Winning(s, L))
<1> HIDE DEF S, T
<1>4. S \in SUBSET T /\ T \in SUBSET reach
  BY <1>1, <1>3 DEF S, T
<1>5. WinningForAll(s.group, S) \subseteq WinningForAll(s.group, T)
  BY <1>4, ForAllGrows
<1> QED
  BY <1>5 DEF Settled, S, T

LEMMA EnforcedIs ==
    ASSUME SystemInv, ~Full, NEW s, Form(s)
    PROVE  Enforced(s) = UNION {Settled(s, Played(s.group, f)) : f \in UniformStrategies(s.group)}
<1> DEFINE G == s.group
           U == UniformStrategies(G)
           J == IF tool = "ATL" THEN {} ELSE justice
           Ens(f) == reach \cap Ensured(Outcome(G, f), J, s)
           ByPlaying(f) == {p \in Ens(f) : {q \in reach : Seen(G, q) = Seen(G, p)} \subseteq Ens(f)}
<1>1. Enforced(s) = UNION {ByPlaying(f) : f \in U}
  BY DEF Enforced
<1>2. J = justice /\ \A p : Seen(G, p) = Sight(G, p)
  BY DEF Full, Seen
<1>3. \A f \in U : ByPlaying(f) = Settled(s, Played(G, f))
  <2> TAKE f \in U
  <2> DEFINE S == StatesOf(Winning(s, Played(G, f)))
  <2>1. S = reach \cap Ensured(Outcome(G, f), justice, s)
    BY PlayedMeans DEF Form
  <2>2. S = Ens(f)
    BY <1>2, <2>1
  <2>3. S \in SUBSET reach
    BY <2>1
  <2> HIDE DEF S, Ens
  <2>4. WinningForAll(G, S) = {p \in S : {q \in reach : Sight(G, q) = Sight(G, p)} \subseteq S}
    BY <2>3, ForAllIs
  <2>5. WinningForAll(G, S) = ByPlaying(f)
    BY <1>2, <2>2, <2>4
  <2> QED
    BY <2>5 DEF Settled, S
<1> HIDE DEF ByPlaying, U
<1> QED
  BY <1>1, <1>3 DEF U

\* What no strategy wins, none settles.
LEMMA NothingSettled ==
    ASSUME NEW s, NEW K, Winning(s, K) = {}
    PROVE  Settled(s, K) = {}
  BY DEF Settled, StatesOf, WinningForAll

\* A set of moves that one uniform strategy plays settles what that ensures.
LEMMA SingleSettled ==
    ASSUME SystemInv, Lively, Mixed, ~Full, NEW s, Form(s), NEW K, Single(s.group, K)
    PROVE  Settled(s, K) \subseteq Enforced(s)
<1>1. s.group \in SUBSET Agents
  BY DEF Form
<1>2. PICK f \in UniformStrategies(s.group) : K \subseteq Played(s.group, f)
  BY <1>1, SinglePlayed
<1>3. Played(s.group, f) \in SUBSET Offered(s.group)
  BY PlayedSingle DEF Single
<1>4. Settled(s, K) \subseteq Settled(s, Played(s.group, f))
  BY <1>2, <1>3, SettledGrows
<1> QED
  BY <1>2, <1>4, EnforcedIs

\* Moves that include what a strategy wins settle what that ensures.
LEMMA WonSettled ==
    ASSUME SystemInv, ~Full, NEW s, Form(s), NEW f \in UniformStrategies(s.group),
           NEW K \in SUBSET Offered(s.group), Winning(s, Played(s.group, f)) \subseteq K
    PROVE  Settled(s, Played(s.group, f)) \subseteq Settled(s, K)
<1> DEFINE L == Played(s.group, f)
           V == Winning(s, L)
<1>1. L \in SUBSET Offered(s.group)
  BY PlayedSingle DEF Single
<1>2. L \in SUBSET StateInput /\ V \subseteq L
  BY <1>1, WonInReach
<1> HIDE DEF L
<1>3. Winning(s, V) = Winning(s, L)
  BY <1>2, WinningAgain
<1>4. V \subseteq K
  BY DEF L
<1> HIDE DEF V
<1>5. Settled(s, V) \subseteq Settled(s, K)
  BY <1>4, SettledGrows
<1>6. Settled(s, V) = Settled(s, L)
  BY <1>3 DEF Settled
<1> QED
  BY <1>5, <1>6 DEF L

\* Sets of moves such that every uniform strategy wins with those of one of them.
Covers(s, KK) ==
    \A f \in UniformStrategies(s.group) :
        \/ Winning(s, Played(s.group, f)) = {}
        \/ \E K \in KK : Winning(s, Played(s.group, f)) \subseteq K

LEMMA AllFound ==
    ASSUME SystemInv, Lively, Mixed, ~Full, NEW s, Form(s),
           NEW KK, \A K \in KK : Single(s.group, K), Covers(s, KK)
    PROVE  UNION {Settled(s, K) : K \in KK} = Enforced(s)
<1>1. \A K \in KK : Settled(s, K) \subseteq Enforced(s)
  BY SingleSettled
<1>2. ASSUME NEW f \in UniformStrategies(s.group)
      PROVE  Settled(s, Played(s.group, f)) \subseteq UNION {Settled(s, K) : K \in KK}
  <2>1. CASE Winning(s, Played(s.group, f)) = {}
    BY <2>1, NothingSettled
  <2>2. CASE \E K \in KK : Winning(s, Played(s.group, f)) \subseteq K
    <3>1. PICK K \in KK : Winning(s, Played(s.group, f)) \subseteq K
      BY <2>2
    <3>2. K \in SUBSET Offered(s.group)
      BY DEF Single
    <3>3. Settled(s, Played(s.group, f)) \subseteq Settled(s, K)
      BY <3>1, <3>2, WonSettled
    <3> QED
      BY <3>3
  <2> QED
    BY <2>1, <2>2 DEF Covers
<1>3. UNION {Settled(s, K) : K \in KK} \subseteq Enforced(s)
  BY <1>1
<1>4. Enforced(s) = UNION {Settled(s, Played(s.group, f)) : f \in UniformStrategies(s.group)}
  BY EnforcedIs
<1>5. Enforced(s) \subseteq UNION {Settled(s, K) : K \in KK}
  <2> DEFINE V == UNION {Settled(s, K) : K \in KK}
  <2>1. \A f \in UniformStrategies(s.group) : Settled(s, Played(s.group, f)) \subseteq V
    BY <1>2
  <2> HIDE DEF V
  <2>2. Enforced(s) \subseteq V
    BY <1>4, <2>1
  <2> QED
    BY <2>2 DEF V
<1> QED
  BY <1>3, <1>5

\* Classes are of states that look alike.
LEMMA ClassIs ==
    ASSUME SystemInv, NEW G, NEW p \in reach
    PROVE  \A q : q \in EquivalentStates({p}, G) <=> q \in Invar /\ Sight(G, q) = Sight(G, p)
<1>1. p \in Invar
  BY SystemIs
<1> QED
  BY <1>1 DEF EquivalentStates

LEMMA ClassesAre ==
    ASSUME SystemInv, NEW G, NEW V \in SUBSET Offered(G)
    PROVE  /\ \A x \in V : x[1] \in reach
           /\ \A x \in V : EquivalentStates({x[1]}, G) \in Classes(G, V)
                           /\ x[1] \in EquivalentStates({x[1]}, G)
           /\ \A C \in Classes(G, V) : \E x \in V : x[1] \in C
           /\ \A C \in Classes(G, V) : \A x, y \in V : x[1] \in C => (y[1] \in C <=> Sight(G, y[1]) = Sight(G, x[1]))
           /\ \A C, D \in Classes(G, V) : \A x, y \in V :
                  x[1] \in C /\ y[1] \in D /\ Sight(G, x[1]) = Sight(G, y[1]) => C = D
<1>1. \A x \in V : x[1] \in reach /\ x[1] \in Invar
  BY OfferedIs, SystemIs
<1>2. \A x \in V : EquivalentStates({x[1]}, G) \in Classes(G, V)
  BY DEF Classes
<1>3. \A p \in reach : \A q : q \in EquivalentStates({p}, G) <=> q \in Invar /\ Sight(G, q) = Sight(G, p)
  BY ClassIs
<1>4. \A x \in V : x[1] \in EquivalentStates({x[1]}, G)
  BY <1>1, <1>3
<1>5. ASSUME NEW C \in Classes(G, V)
      PROVE  \E v \in V : \A q : q \in C <=> q \in Invar /\ Sight(G, q) = Sight(G, v[1])
  <2>1. PICK v \in V : C = EquivalentStates({v[1]}, G)
    BY DEF Classes
  <2> QED
    BY <1>1, <1>3, <2>1
<1>6. \A C \in Classes(G, V) : \E x \in V : x[1] \in C
  BY <1>1, <1>5
<1>7. ASSUME NEW C \in Classes(G, V), NEW x \in V, NEW y \in V, x[1] \in C
      PROVE  y[1] \in C <=> Sight(G, y[1]) = Sight(G, x[1])
  <2>1. PICK v \in V : \A q : q \in C <=> q \in Invar /\ Sight(G, q) = Sight(G, v[1])
    BY <1>5
  <2> QED
    BY <1>1, <1>7, <2>1
<1>8. ASSUME NEW C \in Classes(G, V), NEW D \in Classes(G, V), NEW x \in V, NEW y \in V,
             x[1] \in C, y[1] \in D, Sight(G, x[1]) = Sight(G, y[1])
      PROVE  C = D
  <2>1. PICK u \in V : \A q : q \in C <=> q \in Invar /\ Sight(G, q) = Sight(G, u[1])
    BY <1>5
  <2>2. PICK v \in V : \A q : q \in D <=> q \in Invar /\ Sight(G, q) = Sight(G, v[1])
    BY <1>5
  <2>3. Sight(G, u[1]) = Sight(G, v[1])
    BY <1>8, <2>1, <2>2
  <2>4. \A q : q \in C <=> q \in D
    BY <2>1, <2>2, <2>3
  <2> QED
    BY <2>4
<1> QED
  BY <1>1, <1>2, <1>4, <1>6, <1>7, <1>8

\* The pairs of V in C with the move of x.
Alike(G, V, C, x) == {y \in V : y[1] \in C /\ Own(G, y[2]) = Own(G, x[2])}

LEMMA ByMoveIs ==
    ASSUME NEW G, NEW V, NEW C
    PROVE  \A m : m \in ByMove(G, V, C) <=> \E x \in V : x[1] \in C /\ m = Alike(G, V, C, x)
<1> DEFINE here == {x \in V : x[1] \in C}
           A(x) == {y \in here : Own(G, y[2]) = Own(G, x[2])}
<1>1. \A x : A(x) = Alike(G, V, C, x)
  BY DEF Alike
<1>2. ByMove(G, V, C) = {A(x) : x \in here}
  BY DEF ByMove
<1> HIDE DEF A
<1>3. ByMove(G, V, C) = {Alike(G, V, C, x) : x \in here}
  BY <1>1, <1>2
<1> QED
  BY <1>3

\* Splitting gives uniform strategies, of which every one in the set is part.
LEMMA SplitIs ==
    ASSUME SystemInv, NEW G, NEW V \in SUBSET Offered(G)
    PROVE  /\ \A K \in Split(G, V) : Single(G, K)
           /\ \A W : Single(G, W) /\ W \subseteq V => \E K \in Split(G, V) : W \subseteq K
<1> DEFINE classes == Classes(G, V)
           moves == [C \in classes |-> ByMove(G, V, C)]
           choices == {w \in [classes -> UNION {moves[C] : C \in classes}] :
                          \A C \in classes : w[C] \in moves[C]}
           Taking(w) == UNION {w[C] : C \in classes}
<1>1. Split(G, V) = {Taking(w) : w \in choices}
  BY DEF Split
<1>2. \A C \in classes : moves[C] = ByMove(G, V, C)
  OBVIOUS
<1>3. ASSUME NEW w \in choices PROVE Single(G, Taking(w))
  <2>1. \A C \in classes : \E x \in V : x[1] \in C /\ w[C] = Alike(G, V, C, x)
    BY <1>2, ByMoveIs
  <2>2. \A z : z \in Taking(w) <=> \E C \in classes : z \in w[C]
    OBVIOUS
  <2> HIDE DEF classes, Taking
  <2>3. \A C \in classes : w[C] \subseteq V /\ \A z \in w[C] : z[1] \in C
    BY <2>1 DEF Alike
  <2>4. \A C \in classes : \A y, z \in w[C] : Own(G, y[2]) = Own(G, z[2])
    BY <2>1 DEF Alike
  <2>5. ASSUME NEW y \in Taking(w), NEW z \in Taking(w), Sight(G, y[1]) = Sight(G, z[1])
        PROVE  Own(G, y[2]) = Own(G, z[2])
    <3>1. PICK C \in classes : y \in w[C]
      BY <2>2
    <3>2. PICK D \in classes : z \in w[D]
      BY <2>2
    <3>3. y \in V /\ z \in V /\ y[1] \in C /\ z[1] \in D
      BY <2>3, <3>1, <3>2
    <3>4. C = D
      BY <2>5, <3>3, ClassesAre DEF classes
    <3> QED
      BY <2>4, <3>1, <3>2, <3>4
  <2>6. Taking(w) \in SUBSET Offered(G)
    BY <2>2, <2>3
  <2> QED
    BY <2>5, <2>6 DEF Single
<1>4. ASSUME NEW W, Single(G, W), W \subseteq V PROVE \E w \in choices : W \subseteq Taking(w)
  <2> DEFINE Fits(C, x) == x[1] \in C /\ ((\E y \in W : y[1] \in C) => x \in W)
             c == [C \in classes |-> CHOOSE x \in V : Fits(C, x)]
             w == [C \in classes |-> Alike(G, V, C, c[C])]
  <2>1. \A C \in classes : \E x \in V : Fits(C, x)
    <3> TAKE C \in classes
    <3>1. CASE \E y \in W : y[1] \in C
      BY <1>4, <3>1
    <3>2. CASE ~\E y \in W : y[1] \in C
      BY <3>2, ClassesAre
    <3> QED
      BY <3>1, <3>2
  <2>2. \A C \in classes : c[C] \in V /\ Fits(C, c[C])
    BY <2>1
  <2> HIDE DEF c
  <2>3. \A C \in classes : w[C] = Alike(G, V, C, c[C]) /\ w[C] \in moves[C]
    BY <1>2, <2>2, ByMoveIs
  <2>4. w \in [classes -> UNION {moves[C] : C \in classes}]
    <3>1. \A C \in classes : w[C] \in UNION {moves[D] : D \in classes}
      BY <2>3
    <3> HIDE DEF moves
    <3> QED
      BY <3>1
  <2> HIDE DEF w, moves
  <2>5. w \in choices
    BY <2>3, <2>4
  <2>6. ASSUME NEW z \in W PROVE \E C \in classes : z \in w[C]
    <3> DEFINE C == EquivalentStates({z[1]}, G)
    <3>1. z \in V /\ C \in classes /\ z[1] \in C
      BY <1>4, ClassesAre
    <3> HIDE DEF C, classes
    <3>2. c[C] \in W /\ c[C] \in V /\ c[C][1] \in C
      BY <2>2, <3>1
    <3>3. Sight(G, z[1]) = Sight(G, c[C][1])
      BY <3>1, <3>2, ClassesAre DEF classes
    <3>4. Own(G, z[2]) = Own(G, c[C][2])
      BY <1>4, <3>2, <3>3 DEF Single
    <3>5. z \in w[C]
      BY <2>3, <3>1, <3>4 DEF Alike
    <3> QED
      BY <3>1, <3>5
  <2>7. W \subseteq Taking(w)
    BY <2>6
  <2> QED
    BY <2>5, <2>7
<1> HIDE DEF choices, Taking
<1> QED
  BY <1>1, <1>3, <1>4

-----------------------------------------------------------------------------
(* Filtering first, and splitting one conflict at a time.                  *)

LEMMA FilteredIs ==
    ASSUME SystemInv, NEW s, Form(s), NEW K \in SUBSET Offered(s.group)
    PROVE  /\ Filtered(s, K) = Winning(s, K)
           /\ Filtered(s, K) \in SUBSET K
           /\ Winning(s, Filtered(s, K)) = Filtered(s, K)
<1>1. K \in SUBSET StateInput /\ Winning(s, K) \subseteq K
  BY WonInReach
<1>2. Filtered(s, K) = Winning(s, K)
  BY <1>1 DEF Filtered, Offered
<1> DEFINE V == Winning(s, K)
<1> HIDE DEF V
<1>3. V \in SUBSET K /\ Winning(s, K) \subseteq V
  BY <1>1 DEF V
<1>4. Winning(s, V) = Winning(s, K)
  BY <1>1, <1>3, WinningAgain
<1> QED
  BY <1>1, <1>2, <1>4 DEF V

\* What a uniform strategy wins is left by the first filter, of any moves that
\* include its own.
LEMMA FilterKeeps ==
    ASSUME SystemInv, ~Full, NEW s, Form(s), NEW f \in UniformStrategies(s.group),
           NEW L \in SUBSET StateInput, Played(s.group, f) \subseteq L
    PROVE  /\ Single(s.group, Winning(s, Played(s.group, f)))
           /\ Winning(s, Played(s.group, f)) \subseteq Filtered(s, L)
<1>1. Single(s.group, Played(s.group, f))
  BY PlayedSingle
<1>2. Played(s.group, f) \in SUBSET Offered(s.group)
  BY <1>1 DEF Single
<1>3. Winning(s, Played(s.group, f)) \subseteq Played(s.group, f)
  BY <1>2, WonInReach
<1>4. Winning(s, Played(s.group, f)) \subseteq Winning(s, L)
  BY WinningGrows
<1>5. Single(s.group, Winning(s, Played(s.group, f)))
  BY <1>1, <1>3 DEF Single
<1> QED
  BY <1>2, <1>3, <1>4, <1>5 DEF Filtered, Offered

\* Two different elements are two.
LEMMA OneOnly ==
    ASSUME NEW S, IsFiniteSet(S), ~(Cardinality(S) > 1), NEW x \in S, NEW y \in S
    PROVE  x = y
<1> SUFFICES ASSUME x # y PROVE FALSE
  OBVIOUS
<1>1. IsFiniteSet({x}) /\ Cardinality({x}) = 1
  BY FS_Singleton
<1>2. {x} \in SUBSET S
  OBVIOUS
<1>3. Cardinality({x}) <= Cardinality(S) /\ (Cardinality(S) = Cardinality({x}) => S = {x})
  BY <1>2, FS_Subset
<1>4. Cardinality(S) \in Nat
  BY FS_CardinalityType
<1> QED
  BY <1>1, <1>3, <1>4

\* Without conflict left, what wins is one uniform strategy.
LEMMA NoConflict ==
    ASSUME SystemInv, NEW G, NEW V \in SUBSET Offered(G), Conflicting(G, V) = {}
    PROVE  Single(G, V)
<1>1. IsFiniteSet(V)
  <2>1. V \in SUBSET StateInput
    BY OfferedIs
  <2> QED
    BY <2>1, PairsFinite, FS_Subset
<1>2. ASSUME NEW x \in V, NEW y \in V, Sight(G, x[1]) = Sight(G, y[1]) PROVE Own(G, x[2]) = Own(G, y[2])
  <2> DEFINE C == EquivalentStates({x[1]}, G)
             M == ByMove(G, V, C)
  <2>1. C \in Classes(G, V) /\ x[1] \in C
    BY ClassesAre
  <2>2. y[1] \in C
    BY <1>2, <2>1, ClassesAre
  <2> HIDE DEF C
  <2>3. Alike(G, V, C, x) \in M /\ Alike(G, V, C, y) \in M
    BY <2>1, <2>2, ByMoveIs
  <2>4. ~(Cardinality(M) > 1)
    BY <2>1 DEF Conflicting
  <2>5. IsFiniteSet(M)
    <3>1. M \in SUBSET SUBSET V
      BY DEF ByMove
    <3>2. IsFiniteSet(SUBSET V)
      BY <1>1, FS_SUBSET
    <3> QED
      BY <3>1, <3>2, FS_Subset
  <2> HIDE DEF M
  <2>6. Alike(G, V, C, x) = Alike(G, V, C, y)
    BY <2>3, <2>4, <2>5, OneOnly
  <2>7. x \in Alike(G, V, C, x)
    BY <2>1 DEF Alike
  <2> QED
    BY <2>6, <2>7 DEF Alike
<1> QED
  BY <1>2 DEF Single

\* Splitting one class loses no uniform strategy.
LEMMA DivideKeeps ==
    ASSUME SystemInv, NEW G, NEW V \in SUBSET Offered(G), NEW C \in Conflicting(G, V)
    PROVE  LET rest == {x \in V : x[1] \notin C}
           IN /\ \A m \in ByMove(G, V, C) : rest \cup m \in SUBSET V
              /\ \A W : Single(G, W) /\ W \subseteq V => \E m \in ByMove(G, V, C) : W \subseteq rest \cup m
<1> DEFINE rest == {x \in V : x[1] \notin C}
<1>1. C \in Classes(G, V)
  BY DEF Conflicting
<1>2. \A m \in ByMove(G, V, C) : rest \cup m \in SUBSET V
  BY ByMoveIs DEF Alike
<1>3. ASSUME NEW W, Single(G, W), W \subseteq V
      PROVE  \E m \in ByMove(G, V, C) : W \subseteq rest \cup m
  <2>1. PICK x \in V : x[1] \in C /\ ((\E y \in W : y[1] \in C) => x \in W)
    <3>1. CASE \E y \in W : y[1] \in C
      BY <1>3, <3>1
    <3>2. CASE ~\E y \in W : y[1] \in C
      BY <1>1, <3>2, ClassesAre
    <3> QED
      BY <3>1, <3>2
  <2>2. Alike(G, V, C, x) \in ByMove(G, V, C)
    BY <2>1, ByMoveIs
  <2>3. ASSUME NEW y \in W, y[1] \in C PROVE y \in Alike(G, V, C, x)
    <3>1. x \in W /\ y \in V
      BY <1>3, <2>1, <2>3
    <3>2. Sight(G, y[1]) = Sight(G, x[1])
      BY <1>1, <2>1, <2>3, <3>1, ClassesAre
    <3>3. Own(G, y[2]) = Own(G, x[2])
      BY <1>3, <3>1, <3>2 DEF Single
    <3> QED
      BY <2>3, <3>1, <3>3 DEF Alike
  <2>4. W \subseteq rest \cup Alike(G, V, C, x)
    BY <1>3, <2>3
  <2> QED
    BY <2>2, <2>4
<1> QED
  BY <1>2, <1>3

-----------------------------------------------------------------------------
(* The evaluation, step by step.                                           *)

\* In FS: the moves of P all win, what is settled in S is enforced, and no
\* uniform strategy is lost that S does not have.
Improving(s, P, S) ==
    /\ \A w \in P : w \in SUBSET Offered(s.group) /\ Winning(s, w) = w
    /\ S \subseteq Enforced(s)
    /\ \A f \in UniformStrategies(s.group) :
          \/ Settled(s, Played(s.group, f)) \subseteq S
          \/ \E w \in P : Winning(s, Played(s.group, f)) \subseteq w

\* In the other two variants: P are uniform strategies, and enough of them.
Splitting(s, P) == (\A K \in P : Single(s.group, K)) /\ Covers(s, P)

SearchInv ==
    /\ SystemInv
    /\ pc \in {"idle", "start", "filter", "done"} /\ tool \in Tools
    /\ pc # "idle" => spec \in Specs
    /\ pc \in {"idle", "start"} => sat = {}
    /\ pc = "filter" => ~Full
    /\ pc = "filter" /\ tool = "FS" => Improving(Sought(spec), pending, sat)
    /\ pc = "filter" /\ tool \in {"SF", "FSF"} => Splitting(Sought(spec), pending)
    /\ StrategiesAreMeant

\* All this depends on the system, the tool and the formula alone.
LEMMA SearchKept ==
    ASSUME UNCHANGED <<trans, reach, justice, tool>>
    PROVE  /\ \A s, P, S : Improving(s, P, S)' <=> Improving(s, P, S)
           /\ \A s, P : Splitting(s, P)' <=> Splitting(s, P)
<1>1. \A s, P, S : Improving(s, P, S)' <=> Improving(s, P, S)
  BY DEF Improving, Offered, Settled, WinningForAll, Played, Enforced, UniformStrategies, Outcome, Seen, Full,
         Winning, CexSi, CegSi, CewSi, CeuSi, NfairGammaSi, PreSi
<1>2. \A s, P : Splitting(s, P)' <=> Splitting(s, P)
  BY DEF Splitting, Single, Covers, Offered, Played, UniformStrategies, Seen, Full,
         Winning, CexSi, CegSi, CewSi, CeuSi, NfairGammaSi, PreSi
<1> QED
  BY <1>1, <1>2

LEMMA MeantKept ==
    ASSUME UNCHANGED <<trans, reach, justice, tool, spec>>
    PROVE  Meant' = Meant
  BY DEF Meant, Enforced, UniformStrategies, Outcome, Seen, Full

LEMMA FormOf ==
    ASSUME NEW s \in Specs
    PROVE  /\ s.op \in Existential \cup Universal /\ s.group \in SUBSET Agents
           /\ s.a \in SUBSET State /\ s.b \in SUBSET State
           /\ Form(Sought(s)) /\ Sought(s).group = s.group
           /\ s.op \in Existential => Sought(s) = s /\ s.op \notin Universal
           /\ s.op \notin Existential => s.op \in Universal
<1>1. s \in [op : Existential \cup Universal, group : SUBSET Agents, a : SUBSET State, b : SUBSET State]
  BY StrategiesAssumption
<1>2. s.op \in Existential \cup Universal /\ s.group \in SUBSET Agents
      /\ s.a \in SUBSET State /\ s.b \in SUBSET State
  BY <1>1
<1>3. s.op \in Universal => s.op \notin Existential
  BY <1>2, SoughtIs
<1> QED
  BY <1>2, <1>3, SoughtIs DEF Form

LEMMA EnforcedIn == \A s : Enforced(s) \subseteq reach
  BY DEF Enforced

LEMMA MeantIs ==
    ASSUME spec \in Specs
    PROVE  Meant = IF spec.op \in Universal THEN reach \ Enforced(Sought(spec)) ELSE Enforced(Sought(spec))
<1>1. spec.op \in Existential => Sought(spec) = spec /\ spec.op \notin Universal
  BY FormOf
<1>2. spec.op \notin Existential => spec.op \in Universal
  BY FormOf
<1> QED
  BY <1>1, <1>2 DEF Meant

\* What is returned is meant when what was found is enforced.
LEMMA OppositeMeant ==
    ASSUME SystemInv, spec \in Specs
    PROVE  Opposite(Enforced(Sought(spec))) \cap reach = Meant
<1> DEFINE E == Enforced(Sought(spec))
<1>1. E \subseteq reach /\ reach \in SUBSET State
  BY EnforcedIn, SystemIs
<1>2. Meant = IF spec.op \in Universal THEN reach \ E ELSE E
  BY MeantIs
<1> HIDE DEF E
<1>3. Opposite(E) \cap reach = Meant
  BY <1>1, <1>2 DEF Opposite
<1> QED
  BY <1>3 DEF E

LEMMA FullMeant ==
    ASSUME SystemInv, Lively, Full, spec \in Specs
    PROVE  (IF tool = "FO" THEN SatFO(spec) ELSE SatATL(spec)) \cap reach = Meant
<1> DEFINE s == Sought(spec)
           W == WonBy(Heeded, s)
<1>1. Form(s) /\ s.op \in Existential /\ s.a \in SUBSET State /\ s.b \in SUBSET State
  BY FormOf DEF Form
<1>2. Enforced(s) = reach \cap W
  BY <1>1, FullWon
<1>3. /\ spec.op \in Existential => s = spec /\ spec.op \notin Universal
      /\ spec.op \notin Existential => spec.op \in Universal
      /\ spec.group \in SUBSET Agents /\ spec.a \in SUBSET State /\ spec.b \in SUBSET State
  BY FormOf
<1>4. Meant = IF spec.op \in Universal THEN reach \ Enforced(s) ELSE Enforced(s)
  BY MeantIs
<1>5. reach \in SUBSET State
  BY SystemIs
<1>6. CASE tool = "FO"
  <2>1. W = WonBy(justice, s)
    BY <1>6 DEF Heeded
  <2>2. SatFO(spec) = IF spec.op \in Universal THEN State \ W ELSE W
    <3>1. CASE spec.op \in Universal
      BY <1>3, <2>1, <3>1, FullDual
    <3>2. CASE spec.op \notin Universal
      <4>1. s = spec /\ spec.op \in Existential
        BY <1>3, <3>2
      <4>2. SatFO(s) = WonBy(justice, s)
        BY <1>1, FullIs
      <4> QED
        BY <2>1, <3>2, <4>1, <4>2
    <3> QED
      BY <3>1, <3>2
  <2> HIDE DEF W, s
  <2> QED
    BY <1>2, <1>4, <1>5, <1>6, <2>2
<1>7. CASE tool # "FO"
  <2>0. tool = "ATL"
    BY <1>7 DEF Full
  <2>1. EnforcedATL(s) = W
    BY <1>1, <2>0, AtlIs DEF Heeded
  <2>2. SatATL(spec) = IF spec.op \in Universal THEN State \ W ELSE W
    <3>1. CASE spec.op \in Universal
      BY <2>1, <3>1 DEF SatATL
    <3>2. CASE spec.op \notin Universal
      BY <1>3, <2>1, <3>2 DEF SatATL
    <3> QED
      BY <3>1, <3>2
  <2> HIDE DEF W, s
  <2> QED
    BY <1>2, <1>4, <1>5, <1>7, <2>2
<1> QED
  BY <1>6, <1>7

-----------------------------------------------------------------------------
(* Where the variants start from.                                          *)

LEMMA SplitStarts ==
    ASSUME SystemInv, ~Full, NEW s, Form(s)
    PROVE  Splitting(s, Split(s.group, Offered(s.group)))
<1> DEFINE G == s.group
           KK == Split(G, Offered(G))
<1>1. /\ \A K \in KK : Single(G, K)
      /\ \A W : Single(G, W) /\ W \subseteq Offered(G) => \E K \in KK : W \subseteq K
  BY SplitIs
<1>2. ASSUME NEW f \in UniformStrategies(G)
      PROVE  \E K \in KK : Winning(s, Played(G, f)) \subseteq K
  <2>1. Single(G, Played(G, f))
    BY PlayedSingle
  <2>2. Played(G, f) \in SUBSET Offered(G)
    BY <2>1 DEF Single
  <2>3. Winning(s, Played(G, f)) \subseteq Played(G, f)
    BY <2>2, WonInReach
  <2>4. PICK K \in KK : Played(G, f) \subseteq K
    BY <1>1, <2>1, <2>2
  <2> QED
    BY <2>3, <2>4
<1> HIDE DEF KK
<1>3. Splitting(s, KK)
  BY <1>1, <1>2 DEF Splitting, Covers
<1> QED
  BY <1>3 DEF KK

LEMMA FilteredStarts ==
    ASSUME SystemInv, ~Full, NEW s, Form(s)
    PROVE  LET winning == Filtered(s, StateInput)
           IN Splitting(s, IF winning = {} THEN {} ELSE Split(s.group, winning))
<1> DEFINE G == s.group
           V == Filtered(s, StateInput)
           KK == IF V = {} THEN {} ELSE Split(G, V)
<1>1. V \in SUBSET Offered(G)
  BY DEF Filtered, Offered
<1>2. /\ \A K \in Split(G, V) : Single(G, K)
      /\ \A W : Single(G, W) /\ W \subseteq V => \E K \in Split(G, V) : W \subseteq K
  BY <1>1, SplitIs
<1>3. ASSUME NEW f \in UniformStrategies(G)
      PROVE  Winning(s, Played(G, f)) = {} \/ \E K \in KK : Winning(s, Played(G, f)) \subseteq K
  <2>1. Played(G, f) \subseteq StateInput
    BY PlayedIs
  <2>2. StateInput \in SUBSET StateInput
    OBVIOUS
  <2>3. Single(G, Winning(s, Played(G, f))) /\ Winning(s, Played(G, f)) \subseteq V
    BY <2>1, <2>2, FilterKeeps
  <2> HIDE DEF V
  <2> QED
    BY <1>2, <2>3
<1> HIDE DEF V
<1>4. \A K \in KK : Single(G, K)
  BY <1>2
<1>5. Splitting(s, KK)
  BY <1>3, <1>4 DEF Splitting, Covers
<1> QED
  BY <1>5 DEF KK, V

LEMMA ImprovingStarts ==
    ASSUME SystemInv, ~Full, NEW s, Form(s)
    PROVE  Improving(s, {Filtered(s, Offered(s.group))}, {})
<1> DEFINE G == s.group
           V == Filtered(s, Offered(G))
<1>1. V \in SUBSET Offered(G) /\ Winning(s, V) = V
  BY FilteredIs
<1>2. \A f \in UniformStrategies(G) : Winning(s, Played(G, f)) \subseteq V
  <2> TAKE f \in UniformStrategies(G)
  <2>1. Played(G, f) \subseteq Offered(G)
    BY PlayedSingle DEF Single
  <2>2. Offered(G) \in SUBSET StateInput
    BY OfferedIs
  <2> QED
    BY <2>1, <2>2, FilterKeeps
<1> HIDE DEF V
<1>3. Improving(s, {V}, {})
  BY <1>1, <1>2 DEF Improving
<1> QED
  BY <1>3 DEF V

-----------------------------------------------------------------------------
(* What the variants find.                                                 *)

LEMMA SplitFinds ==
    ASSUME SystemInv, Lively, Mixed, ~Full, NEW s, Form(s), NEW P, Splitting(s, P)
    PROVE  /\ UNION {WinningForAll(s.group, StatesOf(Winning(s, K))) : K \in P} = Enforced(s)
           /\ UNION {WinningForAll(s.group, StatesOf(Filtered(s, K))) : K \in P} = Enforced(s)
<1>1. UNION {Settled(s, K) : K \in P} = Enforced(s)
  BY AllFound DEF Splitting
<1>2. \A K \in P : WinningForAll(s.group, StatesOf(Winning(s, K))) = Settled(s, K)
  BY DEF Settled
<1>3. \A K \in P : Filtered(s, K) = Winning(s, K)
  BY FilteredIs DEF Splitting, Single
<1>4. \A K \in P : WinningForAll(s.group, StatesOf(Filtered(s, K))) = Settled(s, K)
  BY <1>2, <1>3
<1> DEFINE A(K) == WinningForAll(s.group, StatesOf(Winning(s, K)))
           B(K) == WinningForAll(s.group, StatesOf(Filtered(s, K)))
<1>5. \A K \in P : A(K) = Settled(s, K) /\ B(K) = Settled(s, K)
  BY <1>2, <1>4
<1> HIDE DEF A, B
<1>6. UNION {A(K) : K \in P} = Enforced(s) /\ UNION {B(K) : K \in P} = Enforced(s)
  BY <1>1, <1>5
<1> QED
  BY <1>6 DEF A, B

\* Settling one strategy loses none.
LEMMA SettleImproves ==
    ASSUME SystemInv, Lively, Mixed, ~Full, NEW s, Form(s), NEW P, NEW S, Improving(s, P, S),
           NEW w \in P, Conflicting(s.group, w) = {}
    PROVE  Improving(s, P \ {w}, S \cup WinningForAll(s.group, StatesOf(w)))
<1> DEFINE G == s.group
           T == S \cup WinningForAll(G, StatesOf(w))
<1>1. w \in SUBSET Offered(G) /\ Winning(s, w) = w
  BY DEF Improving
<1>2. Settled(s, w) = WinningForAll(G, StatesOf(w))
  BY <1>1 DEF Settled
<1>3. Settled(s, w) \subseteq Enforced(s)
  BY <1>1, NoConflict, SingleSettled
<1>4. T = S \cup Settled(s, w)
  BY <1>2
<1> HIDE DEF T
<1>5. ASSUME NEW f \in UniformStrategies(G)
      PROVE  \/ Settled(s, Played(G, f)) \subseteq T
             \/ \E v \in P \ {w} : Winning(s, Played(G, f)) \subseteq v
  <2>1. CASE Settled(s, Played(G, f)) \subseteq S
    BY <1>4, <2>1
  <2>2. CASE \E v \in P : Winning(s, Played(G, f)) \subseteq v
    <3>1. PICK v \in P : Winning(s, Played(G, f)) \subseteq v
      BY <2>2
    <3>2. CASE v = w
      <4>1. Settled(s, Played(G, f)) \subseteq Settled(s, w)
        BY <1>1, <3>1, <3>2, WonSettled
      <4> QED
        BY <1>4, <4>1
    <3> QED
      BY <3>1, <3>2
  <2> QED
    BY <2>1, <2>2 DEF Improving
<1>6. \A v \in P \ {w} : v \in SUBSET Offered(G) /\ Winning(s, v) = v
  BY DEF Improving
<1>7. T \subseteq Enforced(s)
  BY <1>3, <1>4 DEF Improving
<1>8. Improving(s, P \ {w}, T)
  BY <1>5, <1>6, <1>7 DEF Improving
<1> QED
  BY <1>8 DEF T

\* Splitting one conflict and filtering each part loses none either.
LEMMA DivideImproves ==
    ASSUME SystemInv, ~Full, NEW s, Form(s), NEW P, NEW S, Improving(s, P, S),
           NEW w \in P, NEW C \in Conflicting(s.group, w)
    PROVE  LET rest == {x \in w : x[1] \notin C}
               parts == {rest \cup m : m \in ByMove(s.group, w, C)}
           IN Improving(s, (P \ {w}) \cup {Filtered(s, strat) : strat \in parts}, S)
<1> DEFINE G == s.group
           rest == {x \in w : x[1] \notin C}
           parts == {rest \cup m : m \in ByMove(G, w, C)}
           PP == (P \ {w}) \cup {Filtered(s, strat) : strat \in parts}
<1>1. w \in SUBSET Offered(G)
  BY DEF Improving
<1>2. /\ \A m \in ByMove(G, w, C) : rest \cup m \in SUBSET w
      /\ \A W : Single(G, W) /\ W \subseteq w => \E m \in ByMove(G, w, C) : W \subseteq rest \cup m
  BY <1>1, DivideKeeps
<1> HIDE DEF rest
<1>3. /\ \A K \in parts : K \in SUBSET w
      /\ \A W : Single(G, W) /\ W \subseteq w => \E K \in parts : W \subseteq K
  <2>1. \A K \in parts : \E m \in ByMove(G, w, C) : K = rest \cup m
    OBVIOUS
  <2>2. \A m \in ByMove(G, w, C) : rest \cup m \in parts
    OBVIOUS
  <2> HIDE DEF parts
  <2>3. \A W : Single(G, W) /\ W \subseteq w => \E K \in parts : W \subseteq K
    <3> TAKE W
    <3> HAVE Single(G, W) /\ W \subseteq w
    <3>1. PICK m \in ByMove(G, w, C) : W \subseteq rest \cup m
      BY <1>2
    <3>2. rest \cup m \in parts
      BY <2>2
    <3> DEFINE K == rest \cup m
    <3>3. K \in parts /\ W \subseteq K
      BY <3>1, <3>2
    <3> HIDE DEF K
    <3> QED
      BY <3>3
  <2> QED
    BY <1>2, <2>1, <2>3
<1> HIDE DEF parts
<1>4. \A K \in parts : K \in SUBSET Offered(G)
  BY <1>1, <1>3
<1>5. ASSUME NEW v \in PP PROVE v \in SUBSET Offered(G) /\ Winning(s, v) = v
  <2>1. CASE v \in P
    BY <2>1 DEF Improving
  <2>2. CASE \E K \in parts : v = Filtered(s, K)
    <3>1. PICK K \in parts : v = Filtered(s, K)
      BY <2>2
    <3>2. Filtered(s, K) \in SUBSET K /\ Winning(s, Filtered(s, K)) = Filtered(s, K)
      BY <1>4, FilteredIs
    <3> QED
      BY <1>4, <3>1, <3>2
  <2> QED
    BY <2>1, <2>2
<1>6. ASSUME NEW f \in UniformStrategies(G)
      PROVE  \/ Settled(s, Played(G, f)) \subseteq S
             \/ \E v \in PP : Winning(s, Played(G, f)) \subseteq v
  <2> DEFINE V == Winning(s, Played(G, f))
  <2>1. CASE Settled(s, Played(G, f)) \subseteq S
    BY <2>1
  <2>2. CASE \E v \in P : V \subseteq v
    <3>1. PICK v \in P : V \subseteq v
      BY <2>2
    <3>2. CASE v = w
      <4>1. Played(G, f) \in SUBSET Offered(G)
        BY PlayedSingle DEF Single
      <4>2. Played(G, f) \in SUBSET StateInput /\ V \subseteq Played(G, f)
        BY <4>1, WonInReach
      <4>3. Single(G, V)
        BY <4>2, FilterKeeps
      <4>4. PICK K \in parts : V \subseteq K
        BY <1>3, <3>1, <3>2, <4>3
      <4> HIDE DEF V
      <4>5. Winning(s, V) = V
        <5>1. Winning(s, Played(G, f)) \subseteq V
          BY DEF V
        <5>2. Winning(s, V) = Winning(s, Played(G, f))
          BY <4>2, <5>1, WinningAgain
        <5> QED
          BY <5>2 DEF V
      <4>6. Winning(s, V) \subseteq Winning(s, K)
        <5>1. K \in SUBSET StateInput
          BY <1>4, OfferedIs
        <5> QED
          BY <4>4, <5>1, WinningGrows
      <4>7. Filtered(s, K) = Winning(s, K) /\ Filtered(s, K) \in PP
        BY <1>4, FilteredIs
      <4>8. V \subseteq Filtered(s, K)
        BY <4>5, <4>6, <4>7
      <4> QED
        BY <4>7, <4>8 DEF V
    <3>3. CASE v # w
      BY <3>1, <3>3
    <3> QED
      BY <3>2, <3>3
  <2> QED
    BY <2>1, <2>2 DEF Improving
<1>7. S \subseteq Enforced(s)
  BY DEF Improving
<1> HIDE DEF PP
<1>8. Improving(s, PP, S)
  BY <1>5, <1>6, <1>7 DEF Improving
<1> QED
  BY <1>8 DEF PP, parts, rest

LEMMA Improved ==
    ASSUME SystemInv, ~Full, NEW s, Form(s), NEW S, Improving(s, {}, S)
    PROVE  S = Enforced(s)
<1>1. \A f \in UniformStrategies(s.group) : Settled(s, Played(s.group, f)) \subseteq S
  BY DEF Improving
<1>2. Enforced(s) = UNION {Settled(s, Played(s.group, f)) : f \in UniformStrategies(s.group)}
  BY EnforcedIs
<1>3. Enforced(s) \subseteq S
  BY <1>1, <1>2
<1> QED
  BY <1>3 DEF Improving

-----------------------------------------------------------------------------
(* The steps.                                                              *)

LEMMA SearchInit == Init => SearchInv
  BY DEF Init, SearchInv, SystemInv, StrategiesAreMeant, Tools

LEMMA SystemStep == SystemInv /\ UNCHANGED sysVars => SystemInv'
  BY DEF SystemInv, sysVars

LEMMA RequestStep == SearchInv /\ (\E v \in Tools, s \in Specs : Request(v, s)) => SearchInv'
  BY SystemStep DEF SearchInv, StrategiesAreMeant, Request

LEMMA TakenStep == SearchInv /\ Taken => SearchInv'
  BY SystemStep DEF SearchInv, StrategiesAreMeant, Taken, Tools

LEMMA FullStep == ASSUME Lively PROVE SearchInv /\ EvaluateFull => SearchInv'
<1> SUFFICES ASSUME SearchInv, EvaluateFull PROVE SearchInv'
  OBVIOUS
<1>1. SystemInv /\ SystemInv' /\ Full /\ spec \in Specs
  BY SystemStep DEF SearchInv, EvaluateFull, Full
<1>2. Meant' = Meant
  BY MeantKept DEF EvaluateFull, sysVars
<1>3. (IF tool = "FO" THEN SatFO(spec) ELSE SatATL(spec)) \cap reach = Meant
  BY <1>1, FullMeant
<1>4. sat' \cap reach = Meant
  BY <1>3 DEF EvaluateFull
<1>5. reach' = reach /\ pc' = "done" /\ tool' = tool /\ spec' = spec
  BY DEF EvaluateFull, sysVars
<1> QED
  BY <1>1, <1>2, <1>4, <1>5 DEF SearchInv, StrategiesAreMeant

LEMMA StartStep == SearchInv /\ (StartSF \/ StartFSF \/ StartFS) => SearchInv'
<1> SUFFICES ASSUME SearchInv, StartSF \/ StartFSF \/ StartFS PROVE SearchInv'
  OBVIOUS
<1> DEFINE s == Sought(spec)
<1>1. SystemInv /\ spec \in Specs /\ sat = {} /\ tool \in {"SF", "FSF", "FS"} /\ pc' = "filter"
      /\ UNCHANGED <<sysVars, tool, spec, sat>>
  BY DEF SearchInv, StartSF, StartFSF, StartFS, Start_
<1>2. SystemInv' /\ ~Full /\ UNCHANGED <<trans, reach, justice, tool>> /\ ~(Full)'
  BY <1>1, SystemStep DEF sysVars, Full
<1>3. Form(s) /\ s.group = spec.group
  BY <1>1, FormOf
<1>4. /\ \A u, P, S : Improving(u, P, S)' <=> Improving(u, P, S)
      /\ \A u, P : Splitting(u, P)' <=> Splitting(u, P)
  BY <1>2, SearchKept
<1>5. s' = s
  BY <1>1 DEF Sought
<1>6. Offered(spec.group) = Protocol(trans, reach, spec.group)
  BY DEF Offered
<1> HIDE DEF s
<1>7. tool = "SF" => Splitting(s, pending')
  <2> SUFFICES ASSUME tool = "SF" PROVE Splitting(s, pending')
    OBVIOUS
  <2>1. pending' = Split(s.group, Offered(s.group))
    BY <1>3, <1>6 DEF StartSF, StartFSF, StartFS, Start_
  <2> QED
    BY <1>1, <1>2, <1>3, <2>1, SplitStarts
<1>8. tool = "FSF" => Splitting(s, pending')
  <2> SUFFICES ASSUME tool = "FSF" PROVE Splitting(s, pending')
    OBVIOUS
  <2> DEFINE V == Filtered(s, StateInput)
  <2>1. pending' = IF V = {} THEN {} ELSE Split(s.group, V)
    BY <1>3 DEF StartSF, StartFSF, StartFS, Start_, s
  <2>2. Splitting(s, IF V = {} THEN {} ELSE Split(s.group, V))
    BY <1>1, <1>2, <1>3, FilteredStarts
  <2> QED
    BY <2>1, <2>2
<1>9. tool = "FS" => Improving(s, pending', sat')
  <2> SUFFICES ASSUME tool = "FS" PROVE Improving(s, pending', sat')
    OBVIOUS
  <2>1. pending' = {Filtered(s, Offered(s.group))} /\ sat' = {}
    BY <1>1, <1>3, <1>6 DEF StartSF, StartFSF, StartFS, Start_, s
  <2> QED
    BY <1>1, <1>2, <1>3, <2>1, ImprovingStarts
<1>10. (tool' = "FS" => Improving(s, pending, sat)') /\ (tool' \in {"SF", "FSF"} => Splitting(s, pending)')
  BY <1>1, <1>4, <1>5, <1>7, <1>8, <1>9
<1> QED
  BY <1>1, <1>2, <1>10 DEF SearchInv, StrategiesAreMeant, s

LEMMA SplitStep == ASSUME Lively, Mixed PROVE SearchInv /\ (EvaluateSF \/ EvaluateFSF) => SearchInv'
<1> SUFFICES ASSUME SearchInv, EvaluateSF \/ EvaluateFSF PROVE SearchInv'
  OBVIOUS
<1> DEFINE s == Sought(spec)
           Won(K) == StatesOf(Winning(s, K))
           Found(K) == IF spec.op \in Universal THEN State \ Won(K) ELSE Won(K)
<1>1. SystemInv /\ spec \in Specs /\ pc = "filter" /\ tool \in {"SF", "FSF"} /\ ~Full /\ Splitting(s, pending)
  BY DEF SearchInv, EvaluateSF, EvaluateFSF
<1>2. pc' = "done" /\ UNCHANGED <<sysVars, tool, spec>>
  BY DEF EvaluateSF, EvaluateFSF
<1>3. SystemInv' /\ Meant' = Meant
  BY <1>1, <1>2, SystemStep, MeantKept DEF sysVars
<1>4. Form(s) /\ s.group = spec.group /\ (spec.op \in Existential => spec.op \notin Universal)
  BY <1>1, FormOf
<1>5. /\ UNION {WinningForAll(spec.group, StatesOf(Winning(s, K))) : K \in pending} = Enforced(s)
      /\ UNION {WinningForAll(spec.group, StatesOf(Filtered(s, K))) : K \in pending} = Enforced(s)
  BY <1>1, <1>4, SplitFinds
<1>6. Opposite(Enforced(s)) \cap reach = Meant
  BY <1>1, OppositeMeant
<1>7. tool = "SF" /\ spec.op \in Existential => sat' \cap reach = Meant
  <2> SUFFICES ASSUME tool = "SF", spec.op \in Existential PROVE sat' \cap reach = Meant
    OBVIOUS
  <2>1. sat' = UNION {WinningForAll(spec.group, Found(K)) : K \in pending}
    BY DEF EvaluateSF, EvaluateFSF
  <2>2. \A K : Found(K) = Won(K)
    BY <1>4
  <2> HIDE DEF Found
  <2>3. sat' = UNION {WinningForAll(spec.group, Won(K)) : K \in pending}
    BY <2>1, <2>2
  <2>4. sat' = Enforced(s)
    BY <1>5, <2>3
  <2>5. Opposite(Enforced(s)) = Enforced(s)
    BY <1>4 DEF Opposite
  <2> QED
    BY <1>6, <2>4, <2>5
<1>8. tool = "FSF" => sat' \cap reach = Meant
  <2> SUFFICES ASSUME tool = "FSF" PROVE sat' \cap reach = Meant
    OBVIOUS
  <2>1. sat' = Opposite(UNION {WinningForAll(spec.group, StatesOf(Filtered(s, K))) : K \in pending})
    BY DEF EvaluateSF, EvaluateFSF
  <2> QED
    BY <1>5, <1>6, <2>1
<1>9. reach' = reach /\ tool' = tool /\ spec' = spec
  BY <1>2 DEF sysVars
<1>10. StrategiesAreMeant'
  BY <1>1, <1>3, <1>7, <1>8, <1>9 DEF StrategiesAreMeant
<1>11. tool' \in Tools
  BY <1>9 DEF SearchInv
<1> QED
  BY <1>1, <1>2, <1>3, <1>9, <1>10, <1>11 DEF SearchInv

LEMMA ImproveStep == ASSUME Lively, Mixed PROVE SearchInv /\ EvaluateFS => SearchInv'
<1> SUFFICES ASSUME SearchInv, EvaluateFS PROVE SearchInv'
  OBVIOUS
<1> DEFINE s == Sought(spec)
<1>1. /\ SystemInv /\ spec \in Specs /\ pc = "filter" /\ tool = "FS" /\ ~Full
      /\ Improving(s, pending, sat) /\ UNCHANGED <<sysVars, pc, tool, spec>>
  BY DEF SearchInv, EvaluateFS
<1>2. SystemInv' /\ UNCHANGED <<trans, reach, justice, tool>> /\ ~(Full)'
  BY <1>1, SystemStep DEF sysVars, Full
<1>3. Form(s) /\ s.group = spec.group
  BY <1>1, FormOf
<1>4. \A u, P, S : Improving(u, P, S)' <=> Improving(u, P, S)
  BY <1>2, SearchKept
<1>5. s' = s
  BY <1>1 DEF Sought
<1>6. PICK w \in pending : Settle(w) \/ Divide(w)
  BY DEF EvaluateFS
<1>7. CASE Settle(w)
  <2>1. Conflicting(s.group, w) = {} /\ pending' = pending \ {w}
        /\ sat' = sat \cup WinningForAll(s.group, StatesOf(w))
    BY <1>3, <1>7 DEF Settle
  <2> HIDE DEF s
  <2>2. Improving(s, pending \ {w}, sat \cup WinningForAll(s.group, StatesOf(w)))
    BY <1>1, <1>3, <2>1, SettleImproves
  <2> QED
    BY <1>1, <1>2, <1>4, <1>5, <2>1, <2>2 DEF SearchInv, StrategiesAreMeant, s
<1>8. CASE Divide(w)
  <2>1. PICK C \in Conflicting(s.group, w) :
            LET rest == {x \in w : x[1] \notin C}
                parts == {rest \cup m : m \in ByMove(s.group, w, C)}
            IN pending' = (pending \ {w}) \cup {Filtered(s, strat) : strat \in parts} /\ sat' = sat
    BY <1>3, <1>8 DEF Divide
  <2> HIDE DEF s
  <2>2. LET rest == {x \in w : x[1] \notin C}
            parts == {rest \cup m : m \in ByMove(s.group, w, C)}
        IN Improving(s, (pending \ {w}) \cup {Filtered(s, strat) : strat \in parts}, sat)
    BY <1>1, <1>3, DivideImproves
  <2>3. Improving(s, pending', sat')
    BY <2>1, <2>2
  <2> QED
    BY <1>1, <1>2, <1>4, <1>5, <2>3 DEF SearchInv, StrategiesAreMeant, s
<1> QED
  BY <1>6, <1>7, <1>8

LEMMA ReturnStep == SearchInv /\ ReturnFS => SearchInv'
<1> SUFFICES ASSUME SearchInv, ReturnFS PROVE SearchInv'
  OBVIOUS
<1> DEFINE s == Sought(spec)
<1>1. /\ SystemInv /\ spec \in Specs /\ tool = "FS" /\ ~Full /\ Improving(s, {}, sat)
      /\ pc' = "done" /\ sat' = Opposite(sat) /\ UNCHANGED <<sysVars, tool, spec>>
  BY DEF SearchInv, ReturnFS
<1>2. SystemInv' /\ Meant' = Meant
  BY <1>1, SystemStep, MeantKept DEF sysVars
<1>3. sat = Enforced(s)
  BY <1>1, FormOf, Improved
<1>4. sat' \cap reach = Meant
  BY <1>1, <1>3, OppositeMeant
<1>5. reach' = reach
  BY <1>1 DEF sysVars
<1> QED
  BY <1>1, <1>2, <1>4, <1>5 DEF SearchInv, StrategiesAreMeant, Tools

LEMMA StutterStep == SearchInv /\ UNCHANGED vars => SearchInv'
<1> SUFFICES ASSUME SearchInv, UNCHANGED vars PROVE SearchInv'
  OBVIOUS
<1>1. UNCHANGED <<trans, reach, justice, tool, spec, pc, pending, sat>> /\ UNCHANGED sysVars
  BY DEF vars, sysVars
<1>2. SystemInv'
  BY <1>1, SystemStep DEF SearchInv
<1>3. /\ \A u, P, S : Improving(u, P, S)' <=> Improving(u, P, S)
      /\ \A u, P : Splitting(u, P)' <=> Splitting(u, P)
  BY <1>1, SearchKept
<1>4. Sought(spec)' = Sought(spec) /\ Full' = Full /\ Meant' = Meant
  BY <1>1, MeantKept DEF Sought, Full
<1> QED
  BY <1>1, <1>2, <1>3, <1>4 DEF SearchInv, StrategiesAreMeant

\* Every variant of every tool returns what is meant, for every system whose
\* states all have a successor and whose agents act independently: a fixpoint on
\* states or pairs is what one strategy ensures, on all fair paths of its
\* outcome; filtering and splitting the moves, in any order, loses no uniform
\* strategy (atlkPO/eval.py:301-858, atlkFO/eval.py:344-528, atl/eval.py:108-154).
THEOREM StrategiesCorrect == ASSUME Lively, Mixed PROVE Spec => []StrategiesAreMeant
<1>1. Init => SearchInv
  BY SearchInit
<1>2. SearchInv /\ [Next]_vars => SearchInv'
  BY RequestStep, FullStep, StartStep, SplitStep, ImproveStep, ReturnStep, TakenStep, StutterStep DEF Next
<1>3. SearchInv => StrategiesAreMeant
  BY DEF SearchInv
<1> QED
  BY <1>1, <1>2, <1>3, PTL DEF Spec

=============================================================================
