---------------------------- MODULE ImageProofs ------------------------------
(***************************************************************************)
(* Proofs about the constant level that the components share: the set      *)
(* algebra of FsmImages and the paths of CtlSemantics.                     *)
(*                                                                         *)
(* The loops of the code are recursive functions here.  The theorems of    *)
(* the libraries about induction and recursion take an operator as a       *)
(* parameter; the lemmas of the first section are the forms of them that   *)
(* take sets and functions instead, and are enough for these loops.        *)
(***************************************************************************)
EXTENDS CtlSemantics, Fixpoints, FiniteSetTheorems, SequenceTheorems, WellFoundedInduction, TLAPS

\* A set of naturals that is not empty has a least element.
LEMMA LeastOf ==
    ASSUME NEW T \in SUBSET Nat, T # {}
    PROVE  \E n \in T : \A k \in T : n <= k
<1> DEFINE R == OpToRel(<, Nat)
<1>1. IsWellFoundedOn(R, Nat)
  BY NatLessThanWellFounded
<1>2. \A k, n \in Nat : k < n => <<k, n>> \in R
  BY DEF OpToRel
<1> HIDE DEF R
<1>3. PICK n \in T : \A k \in T : ~(<<k, n>> \in R)
  BY <1>1, WFMin
<1>4. \A k \in T : ~(k < n)
  BY <1>2, <1>3
<1> QED
  BY <1>3, <1>4

\* A property of naturals that each inherits from the ones before it.
LEMMA Induction ==
    ASSUME NEW S \in SUBSET Nat,
           \A n \in Nat : (\A k \in Nat : k < n => k \in S) => n \in S
    PROVE  S = Nat
<1> SUFFICES ASSUME Nat \ S # {} PROVE FALSE
  OBVIOUS
<1>1. PICK n \in Nat \ S : \A k \in Nat \ S : n <= k
  BY LeastOf
<1>2. \A k \in Nat : k < n => k \in S
  BY <1>1
<1> QED
  BY <1>1, <1>2

\* Among the elements of a set, one of least measure.
LEMMA LeastMeasure ==
    ASSUME NEW D, NEW m \in [D -> Nat], NEW B \in SUBSET D, B # {}
    PROVE  \E d \in B : \A e \in B : m[d] <= m[e]
<1> DEFINE T == {m[d] : d \in B}
<1>1. T \in SUBSET Nat /\ T # {}
  OBVIOUS
<1>2. PICK n \in T : \A k \in T : n <= k
  BY <1>1, LeastOf
<1> QED
  BY <1>2

-----------------------------------------------------------------------------
(* A loop: from d, round after round, until a value of stop is reached,    *)
(* each round making the measure m smaller.                                *)

\* The values the loop goes through from d.
Orbit(D, stop, nx, d) ==
    {e \in D : \A C \in SUBSET D : d \in C /\ (\A x \in C \ stop : nx[x] \in C) => e \in C}

\* A round changes nothing to what the loop ends with.
LEMMA OrbitStep ==
    ASSUME NEW D, NEW stop \in SUBSET D, NEW nx \in [D -> D], NEW d \in D \ stop
    PROVE  Orbit(D, stop, nx, d) \cap stop = Orbit(D, stop, nx, nx[d]) \cap stop
<1>1. ASSUME NEW e \in Orbit(D, stop, nx, d) \cap stop
      PROVE  e \in Orbit(D, stop, nx, nx[d])
  <2> SUFFICES ASSUME NEW C \in SUBSET D, nx[d] \in C, \A x \in C \ stop : nx[x] \in C
               PROVE  e \in C
    BY <1>1 DEF Orbit
  <2>1. d \in C \cup {d} /\ \A x \in (C \cup {d}) \ stop : nx[x] \in C \cup {d}
    OBVIOUS
  <2>2. e \in C \cup {d}
    BY <1>1, <2>1 DEF Orbit
  <2> QED
    BY <2>2
<1>2. ASSUME NEW e \in Orbit(D, stop, nx, nx[d])
      PROVE  e \in Orbit(D, stop, nx, d)
  BY <1>2 DEF Orbit
<1> QED
  BY <1>1, <1>2

\* L is the loop as a recursive function, which ends with a value of out.
IsLoop(D, stop, nx, out, L) == L = [d \in D |-> IF d \in stop THEN out[d] ELSE L[nx[d]]]

\* Such a loop defines a function, even if it does not end from everywhere.
LEMMA LoopExists ==
    ASSUME NEW D, NEW stop \in SUBSET D, NEW nx \in [D -> D], NEW out
    PROVE  \E L : IsLoop(D, stop, nx, out, L)
<1> DEFINE End(d) == CHOOSE e : e \in Orbit(D, stop, nx, d) \cap stop
           L == [d \in D |-> out[End(d)]]
<1>1. ASSUME NEW d \in stop PROVE End(d) = d
  <2>1. Orbit(D, stop, nx, d) = {d}
    <3>1. d \in {d} /\ \A x \in {d} \ stop : nx[x] \in {d}
      OBVIOUS
    <3> QED
      BY <3>1 DEF Orbit
  <2> QED
    BY <2>1
<1>2. ASSUME NEW d \in D \ stop PROVE End(d) = End(nx[d])
  BY OrbitStep
<1>3. ASSUME NEW d \in D PROVE L[d] = IF d \in stop THEN out[d] ELSE L[nx[d]]
  <2> HIDE DEF End
  <2>1. CASE d \in stop
    BY <2>1, <1>1
  <2>2. CASE d \notin stop
    BY <2>2, <1>2
  <2> QED
    BY <2>1, <2>2
<1> HIDE DEF End
<1>4. L = [d \in D |-> IF d \in stop THEN out[d] ELSE L[nx[d]]]
  BY <1>3
<1> QED
  BY <1>4 DEF IsLoop

\* Whatever such a function is, it returns what an iteration ends with, from
\* where the measure m makes it end: every set the rounds do not leave has it.
LEMMA LoopResultFrom ==
    ASSUME NEW D, NEW stop \in SUBSET D, NEW nx \in [D -> D],
           NEW I \in SUBSET D, \A x \in I \ stop : nx[x] \in I,
           NEW m \in [I -> Nat], \A x \in I \ stop : m[nx[x]] < m[x],
           NEW out, NEW L, IsLoop(D, stop, nx, out, L),
           NEW d \in I
    PROVE  \E e \in stop :
              /\ L[d] = out[e]
              /\ \A C \in SUBSET D : d \in C /\ (\A x \in C \ stop : nx[x] \in C) => e \in C
<1> USE DEF IsLoop
<1> DEFINE Good(x) == \E e \in Orbit(D, stop, nx, x) \cap stop : L[x] = out[e]
           Bad == {x \in I : ~Good(x)}
<1>1. Bad = {}
  <2> SUFFICES ASSUME Bad # {} PROVE FALSE
    OBVIOUS
  <2>1. PICK x \in Bad : \A y \in Bad : m[x] <= m[y]
    <3>1. Bad \in SUBSET I
      OBVIOUS
    <3> HIDE DEF Bad
    <3> QED
      BY <3>1, LeastMeasure
  <2>2. CASE x \in stop
    <3>1. x \in Orbit(D, stop, nx, x)
      BY DEF Orbit
    <3> QED
      BY <2>2, <3>1
  <2>3. CASE x \notin stop
    <3>1. nx[x] \in I /\ m[nx[x]] < m[x] /\ m[nx[x]] \in Nat /\ m[x] \in Nat
      BY <2>3
    <3>2. Good(nx[x])
      <4> HIDE DEF Good
      <4> QED
        BY <2>1, <3>1
    <3>3. L[x] = L[nx[x]]
      BY <2>3
    <3> QED
      BY <2>3, <3>2, <3>3, OrbitStep
  <2> QED
    BY <2>2, <2>3
<1>2. Good(d)
  BY <1>1
<1> QED
  BY <1>2 DEF Orbit

LEMMA LoopResult ==
    ASSUME NEW D, NEW stop \in SUBSET D, NEW nx \in [D -> D], NEW m \in [D -> Nat],
           \A x \in D \ stop : m[nx[x]] < m[x],
           NEW out, NEW L, IsLoop(D, stop, nx, out, L),
           NEW d \in D
    PROVE  \E e \in stop :
              /\ L[d] = out[e]
              /\ \A C \in SUBSET D : d \in C /\ (\A x \in C \ stop : nx[x] \in C) => e \in C
<1>1. D \in SUBSET D /\ \A x \in D \ stop : nx[x] \in D
  OBVIOUS
<1> QED
  BY <1>1, LoopResultFrom

-----------------------------------------------------------------------------
(* pynusmv.utils.fixpoint.                                                 *)

\* Of two nested subsets of a finite set, the smaller has fewer elements, and
\* leaves out more.
LEMMA Nested ==
    ASSUME NEW X, IsFiniteSet(X), NEW S \in SUBSET X, NEW T \in SUBSET S
    PROVE  /\ IsFiniteSet(S) /\ Cardinality(S) \in Nat /\ Cardinality(X \ S) \in Nat
           /\ Cardinality(T) <= Cardinality(S)
           /\ S # T => /\ Cardinality(T) < Cardinality(S)
                       /\ Cardinality(X \ S) < Cardinality(X \ T)
<1>1. IsFiniteSet(S) /\ IsFiniteSet(T) /\ IsFiniteSet(X \ S) /\ IsFiniteSet(X \ T)
  BY FS_Subset
<1>2. /\ Cardinality(S) \in Nat /\ Cardinality(T) \in Nat
      /\ Cardinality(X \ S) \in Nat /\ Cardinality(X \ T) \in Nat
  BY <1>1, FS_CardinalityType
<1>3. Cardinality(T) <= Cardinality(S) /\ (Cardinality(S) = Cardinality(T) => S = T)
  BY <1>1, FS_Subset
<1>4. X \ S \in SUBSET (X \ T)
  OBVIOUS
<1>5. /\ Cardinality(X \ S) <= Cardinality(X \ T)
      /\ Cardinality(X \ T) = Cardinality(X \ S) => X \ T = X \ S
  BY <1>1, <1>4, FS_Subset
<1>6. S # T => X \ T # X \ S
  OBVIOUS
<1> QED
  BY <1>1, <1>2, <1>3, <1>5, <1>6

\* L is left as it is by a round, and is what rounds make of the start: in every
\* set of sets that has the start and that rounds do not leave.
Comes(X, round, start, L) ==
    /\ L \in SUBSET X
    /\ round[L] = L
    /\ \A C \in SUBSET (SUBSET X) : start \in C /\ (\A S \in C : round[S] \in C) => L \in C

\* What the loop returns from a start that it only ever grows from, or only
\* ever shrinks from.
LEMMA FixpointLoop ==
    ASSUME NEW X, NEW round \in [SUBSET X -> SUBSET X], NEW start \in SUBSET X,
           NEW I \in SUBSET (SUBSET X), start \in I, \A S \in I : round[S] \in I,
           NEW m \in [I -> Nat], \A S \in I : round[S] # S => m[round[S]] < m[S]
    PROVE  Comes(X, round, start, Fixpoint(round, start))
<1> DEFINE D == SUBSET X
           Loop[old \in DOMAIN round] ==
              LET new == round[old] IN IF new = old THEN old ELSE Loop[new]
           stop == {S \in D : round[S] = S}
           out == [S \in D |-> S]
<1>1. Fixpoint(round, start) = Loop[start]
  BY DEF Fixpoint
<1>2. \A L : (L = [old \in DOMAIN round |->
                    LET new == round[old] IN IF new = old THEN old ELSE L[new]])
             <=> IsLoop(D, stop, round, out, L)
  BY DEF IsLoop
<1>3. IsLoop(D, stop, round, out, Loop)
  <2> DEFINE H(L) == L = [old \in DOMAIN round |->
                    LET new == round[old] IN IF new = old THEN old ELSE L[new]]
  <2>1. \E L : H(L)
    <3>1. stop \in SUBSET D
      OBVIOUS
    <3>2. \E L : IsLoop(D, stop, round, out, L)
      <4> HIDE DEF stop, out
      <4> QED
        BY <3>1, LoopExists
    <3> QED
      BY <1>2, <3>2
  <2>2. Loop = CHOOSE L : H(L)
    OBVIOUS
  <2>3. H(Loop)
    <3> HIDE DEF H, Loop
    <3> QED
      BY <2>1, <2>2, Zenon
  <2> HIDE DEF Loop
  <2> QED
    BY <1>2, <2>3
<1>4. stop \in SUBSET D /\ \A S \in I \ stop : round[S] \in I /\ m[round[S]] < m[S]
  OBVIOUS
<1>5. PICK e \in stop :
        /\ Loop[start] = out[e]
        /\ \A C \in SUBSET D : start \in C /\ (\A x \in C \ stop : round[x] \in C) => e \in C
  <2> HIDE DEF stop, out, Loop
  <2> QED
    BY <1>3, <1>4, LoopResultFrom
<1> HIDE DEF Loop
<1> QED
  BY <1>1, <1>5 DEF Comes

\* The least set that a round does not make grow, and the greatest that one
\* does not make shrink.
IsLeast(X, round, L) ==
    /\ L \in SUBSET X /\ round[L] = L
    /\ \A W \in SUBSET X : round[W] \subseteq W => L \subseteq W

IsGreatest(X, round, L) ==
    /\ L \in SUBSET X /\ round[L] = L
    /\ \A W \in SUBSET X : W \subseteq round[W] => W \subseteq L

\* From nothing, the loop ends with the least one.
LEMMA FixpointLeast ==
    ASSUME NEW X, IsFiniteSet(X), NEW round \in [SUBSET X -> SUBSET X],
           \A S, T \in SUBSET X : S \subseteq T => round[S] \subseteq round[T]
    PROVE  IsLeast(X, round, Fixpoint(round, {}))
<1> DEFINE I == {S \in SUBSET X : S \subseteq round[S]}
           m == [S \in I |-> Cardinality(X \ S)]
           L == Fixpoint(round, {})
<1>1. I \in SUBSET (SUBSET X) /\ {} \in I /\ \A S \in I : round[S] \in I
  OBVIOUS
<1>2. m \in [I -> Nat] /\ \A S \in I : round[S] # S => m[round[S]] < m[S]
  <2>1. \A S \in I : Cardinality(X \ S) \in Nat
    BY Nested
  <2>2. ASSUME NEW S \in I, round[S] # S PROVE m[round[S]] < m[S]
    <3>1. round[S] \in SUBSET X /\ S \in SUBSET round[S] /\ round[S] \in I
      OBVIOUS
    <3>2. Cardinality(X \ round[S]) < Cardinality(X \ S)
      BY <2>2, <3>1, Nested
    <3> QED
      BY <3>1, <3>2
  <2> QED
    BY <2>1, <2>2
<1> HIDE DEF I, m
<1>3. Comes(X, round, {}, L)
  BY <1>1, <1>2, FixpointLoop
<1> HIDE DEF L
<1>4. ASSUME NEW W \in SUBSET X, round[W] \subseteq W PROVE L \subseteq W
  <2> DEFINE C == {S \in SUBSET X : S \subseteq W}
  <2>1. {} \in C /\ \A S \in C : round[S] \in C
    BY <1>4
  <2> QED
    BY <1>3, <2>1 DEF Comes
<1> QED
  BY <1>3, <1>4 DEF Comes, L, IsLeast

\* From everything, with the greatest.
LEMMA FixpointGreatest ==
    ASSUME NEW X, IsFiniteSet(X), NEW round \in [SUBSET X -> SUBSET X],
           \A S, T \in SUBSET X : S \subseteq T => round[S] \subseteq round[T]
    PROVE  IsGreatest(X, round, Fixpoint(round, X))
<1> DEFINE I == {S \in SUBSET X : round[S] \subseteq S}
           m == [S \in I |-> Cardinality(S)]
           L == Fixpoint(round, X)
<1>1. I \in SUBSET (SUBSET X) /\ X \in I /\ \A S \in I : round[S] \in I
  OBVIOUS
<1>2. m \in [I -> Nat] /\ \A S \in I : round[S] # S => m[round[S]] < m[S]
  <2>1. \A S \in I : Cardinality(S) \in Nat
    BY Nested
  <2>2. ASSUME NEW S \in I, round[S] # S PROVE m[round[S]] < m[S]
    <3>1. S \in SUBSET X /\ round[S] \in SUBSET S /\ round[S] \in I
      OBVIOUS
    <3>2. Cardinality(round[S]) < Cardinality(S)
      BY <2>2, <3>1, Nested
    <3> QED
      BY <3>1, <3>2
  <2> QED
    BY <2>1, <2>2
<1> HIDE DEF I, m
<1>3. Comes(X, round, X, L)
  BY <1>1, <1>2, FixpointLoop
<1> HIDE DEF L
<1>4. ASSUME NEW W \in SUBSET X, W \subseteq round[W] PROVE W \subseteq L
  <2> DEFINE C == {S \in SUBSET X : W \subseteq S}
  <2>1. X \in C /\ \A S \in C : round[S] \in C
    BY <1>4
  <2> QED
    BY <1>3, <2>1 DEF Comes
<1> QED
  BY <1>3, <1>4 DEF Comes, L, IsGreatest

-----------------------------------------------------------------------------
(* The loops of FsmImages.                                                 *)

LEMMA PairsFinite == IsFiniteSet(StateInput)
BY FsmAssumption, FS_Product DEF StateInput

\* The states of a set of pairs are their first halves.
LEMMA StatesAre == ASSUME NEW S \in SUBSET StateInput PROVE StatesOf(S) = {x[1] : x \in S}
<1>1. ASSUME NEW x \in S PROVE x[1] \in State /\ x[2] \in Input /\ x = <<x[1], x[2]>>
  BY DEF StateInput
<1>2. \A s, i : <<s, i>>[1] = s
  OBVIOUS
<1> QED
  BY <1>1, <1>2 DEF StatesOf

\* How many pairs a set leaves out.
Missing == [S \in SUBSET StateInput |-> Cardinality(StateInput \ S)]

LEMMA MissingLess ==
    ASSUME NEW S \in SUBSET StateInput, NEW T \in SUBSET StateInput, S \subseteq T
    PROVE  /\ Missing[S] \in Nat
           /\ Missing[T] <= Missing[S]
           /\ S # T => Missing[T] < Missing[S]
<1>1. IsFiniteSet(StateInput \ S) /\ IsFiniteSet(StateInput \ T)
  BY PairsFinite, FS_Subset
<1>2. Cardinality(StateInput \ S) \in Nat /\ Cardinality(StateInput \ T) \in Nat
  BY <1>1, FS_CardinalityType
<1>3. StateInput \ T \in SUBSET (StateInput \ S)
  OBVIOUS
<1>4. /\ Cardinality(StateInput \ T) <= Cardinality(StateInput \ S)
      /\ Cardinality(StateInput \ S) = Cardinality(StateInput \ T) => StateInput \ S = StateInput \ T
  BY <1>1, <1>3, FS_Subset
<1>5. Missing[S] = Cardinality(StateInput \ S) /\ Missing[T] = Cardinality(StateInput \ T)
  BY DEF Missing
<1> QED
  BY <1>2, <1>4, <1>5

\* Images of pairs are pairs, and follow inclusions.
LEMMA ExPairs ==
    ASSUME NEW t, NEW R, NEW S \in SUBSET StateInput, NEW T \in SUBSET StateInput
    PROVE  /\ EX(t, R, S) \in SUBSET StateInput
           /\ S \subseteq T => EX(t, R, S) \subseteq EX(t, R, T)
           /\ EX(t, R, S \cup T) = EX(t, R, S) \cup EX(t, R, T)
           /\ EX(t, R, {}) = {}
BY FsmAssumption DEF EX, Within, WeakBackwardImage, StatesOf, StateInput

\* EU computes a set that contains g, is closed under the steps back through
\* f, and lies in every such set.
LEMMA EuIsLeast ==
    ASSUME NEW t, NEW R, NEW f \in SUBSET StateInput, NEW g \in SUBSET StateInput
    PROVE  LET U == EU(t, R, f, g)
           IN /\ U \in SUBSET StateInput
              /\ Within(R, g) \subseteq U
              /\ f \cap EX(t, R, U) \subseteq U
              /\ \A W \in SUBSET StateInput :
                    Within(R, g) \subseteq W /\ f \cap EX(t, R, W) \subseteq W => U \subseteq W
<1> DEFINE P == SUBSET StateInput
           D == [y : P, new : P]
           More(l) == l.y \cup (f \cap EX(t, R, l.new))
           Loop[l \in [y : SUBSET StateInput, new : SUBSET StateInput]] ==
            IF l.new = {} THEN l.y
            ELSE LET more == l.y \cup (f \cap EX(t, R, l.new))
                 IN Loop[[y |-> more, new |-> more \ l.y]]
           nx == [l \in D |-> [y |-> More(l), new |-> More(l) \ l.y]]
           stop == {l \in D : l.new = {}}
           out == [l \in D |-> l.y]
           m == [l \in D |-> 2 * Missing[l.y] + (IF l.new = {} THEN 0 ELSE 1)]
           start == [y |-> Within(R, g), new |-> Within(R, g)]
<1>1. EU(t, R, f, g) = Loop[start]
  BY DEF EU
<1>2. \A l \in D : More(l) \in P
  BY ExPairs
<1>3. nx \in [D -> D] /\ stop \in SUBSET D
  <2> HIDE DEF P, More
  <2>1. \A l \in D : [y |-> More(l), new |-> More(l) \ l.y] \in D
    BY <1>2 DEF P
  <2> QED
    BY <2>1
<1>4. m \in [D -> Nat] /\ \A l \in D \ stop : m[nx[l]] < m[l]
  <2>1. ASSUME NEW l \in D PROVE 2 * Missing[l.y] + (IF l.new = {} THEN 0 ELSE 1) \in Nat
    BY MissingLess
  <2>2. ASSUME NEW l \in D \ stop PROVE m[nx[l]] < m[l]
    <3>1. More(l) \in P /\ l.y \in P /\ l.y \subseteq More(l)
      BY <1>2
    <3>2. /\ Missing[l.y] \in Nat /\ Missing[More(l)] \in Nat
          /\ Missing[More(l)] <= Missing[l.y]
          /\ l.y # More(l) => Missing[More(l)] < Missing[l.y]
      BY <3>1, MissingLess
    <3>3. m[l] = 2 * Missing[l.y] + 1
      OBVIOUS
    <3>4. m[nx[l]] = 2 * Missing[More(l)] + (IF More(l) \ l.y = {} THEN 0 ELSE 1)
      <4> HIDE DEF More, P
      <4>1. nx[l] \in D /\ nx[l].y = More(l) /\ nx[l].new = More(l) \ l.y
        BY <1>3
      <4> QED
        BY <4>1
    <3>5. More(l) \ l.y # {} => l.y # More(l)
      OBVIOUS
    <3> HIDE DEF More, m
    <3> QED
      BY <3>2, <3>3, <3>4, <3>5
  <2> QED
    BY <2>1, <2>2
<1>5. \A L : (L = [l \in [y : SUBSET StateInput, new : SUBSET StateInput] |->
            IF l.new = {} THEN l.y
            ELSE LET more == l.y \cup (f \cap EX(t, R, l.new))
                 IN L[[y |-> more, new |-> more \ l.y]]])
          <=> IsLoop(D, stop, nx, out, L)
  BY DEF IsLoop
<1>6. \E L : IsLoop(D, stop, nx, out, L)
  <2> HIDE DEF D, nx, stop, m, out
  <2> QED
    BY <1>3, <1>4, LoopExists
<1>7. IsLoop(D, stop, nx, out, Loop)
  <2> DEFINE H(L) == L = [l \in [y : SUBSET StateInput, new : SUBSET StateInput] |->
            IF l.new = {} THEN l.y
            ELSE LET more == l.y \cup (f \cap EX(t, R, l.new))
                 IN L[[y |-> more, new |-> more \ l.y]]]
  <2>1. \E L : H(L)
    BY <1>5, <1>6
  <2>2. Loop = CHOOSE L : H(L)
    OBVIOUS
  <2>3. H(Loop)
    <3> HIDE DEF H, Loop
    <3> QED
      BY <2>1, <2>2, Zenon
  <2> HIDE DEF Loop
  <2> QED
    BY <1>5, <2>3
<1>8. start \in D
  BY DEF Within
<1>9. \E e \in stop :
              /\ Loop[start] = out[e]
              /\ \A C \in SUBSET D : start \in C /\ (\A x \in C \ stop : nx[x] \in C) => e \in C
  <2> HIDE DEF D, nx, stop, m, out, Loop, start
  <2> QED
    BY <1>3, <1>4, <1>7, <1>8, LoopResult
<1>10. PICK e \in stop :
              /\ Loop[start] = out[e]
              /\ \A C \in SUBSET D : start \in C /\ (\A x \in C \ stop : nx[x] \in C) => e \in C
  BY <1>9
<1>11. e \in D /\ e.new = {} /\ EU(t, R, f, g) = e.y
  BY <1>1, <1>10
<1>12. \A l \in D : nx[l] \in D /\ nx[l].y = More(l) /\ nx[l].new = More(l) \ l.y
  <2> HIDE DEF More, P
  <2> QED
    BY <1>3
<1> HIDE DEF Loop, stop, out, m, nx
<1>13. Within(R, g) \subseteq e.y /\ f \cap EX(t, R, e.y) \subseteq e.y
  <2> DEFINE C == {l \in D : /\ Within(R, g) \subseteq l.y /\ l.new \subseteq l.y
                             /\ f \cap EX(t, R, l.y \ l.new) \subseteq l.y}
  <2>1. start \in C
    <3>1. Within(R, g) \ Within(R, g) = {}
      OBVIOUS
    <3> QED
      BY <1>8, <3>1, ExPairs
  <2>2. ASSUME NEW l \in C PROVE nx[l] \in C
    <3>1. l.y \in P /\ l.new \in P /\ More(l) \in P /\ l.y \ l.new \in P
      BY <1>2
    <3>2. EX(t, R, (l.y \ l.new) \cup l.new) = EX(t, R, l.y \ l.new) \cup EX(t, R, l.new)
      BY <3>1, ExPairs
    <3>3. (l.y \ l.new) \cup l.new = l.y
      OBVIOUS
    <3>4. f \cap EX(t, R, l.y) \subseteq More(l)
      BY <3>2, <3>3
    <3>5. More(l) \ (More(l) \ l.y) = l.y
      OBVIOUS
    <3>6. nx[l] \in D /\ nx[l].y = More(l) /\ nx[l].new = More(l) \ l.y
      BY <1>12
    <3>7. Within(R, g) \subseteq More(l) /\ More(l) \ l.y \subseteq More(l)
      OBVIOUS
    <3> HIDE DEF More
    <3> QED
      BY <3>4, <3>5, <3>6, <3>7
  <2>3. e \in C
    BY <1>10, <2>1, <2>2
  <2>4. e.y \ e.new = e.y
    BY <1>11
  <2> QED
    BY <2>3, <2>4
<1>14. ASSUME NEW W \in P, Within(R, g) \subseteq W, f \cap EX(t, R, W) \subseteq W
       PROVE  e.y \subseteq W
  <2> DEFINE C == {l \in D : l.new \subseteq W /\ l.y \subseteq W}
  <2>1. start \in C
    BY <1>8, <1>14
  <2>2. ASSUME NEW l \in C PROVE nx[l] \in C
    <3>1. EX(t, R, l.new) \subseteq EX(t, R, W)
      BY ExPairs
    <3>2. More(l) \subseteq W
      BY <1>14, <3>1
    <3>3. nx[l] \in D /\ nx[l].y = More(l) /\ nx[l].new = More(l) \ l.y
      BY <1>12
    <3> HIDE DEF More
    <3> QED
      BY <3>2, <3>3
  <2>3. e \in C
    BY <1>10, <2>1, <2>2
  <2> QED
    BY <2>3
<1> QED
  BY <1>11, <1>13, <1>14

\* One round of the outer loop, inside some pairs.
StepRound(t, R, subspace, si) == si \cap FairStep(t, R, si, subspace) \cap subspace

IsStepLoop(t, R, subspace, L) == L = [si \in SUBSET StateInput |->
    LET next == si \cap FairStep(t, R, si, subspace) \cap subspace
    IN IF next = si THEN si ELSE L[next]]

\* What it returns is left as it is by a round, and contains every set of pairs
\* that rounds from a set that has it cannot leave out.
LastRound(t, R, subspace, F) ==
    /\ F \in SUBSET StateInput
    /\ StepRound(t, R, subspace, F) = F
    /\ \A W \in SUBSET StateInput :
          (\A si \in SUBSET StateInput : W \subseteq si => W \subseteq StepRound(t, R, subspace, si))
              => W \subseteq F

LEMMA StepLoop ==
    ASSUME NEW t, NEW R, NEW subspace
    PROVE  /\ \E L : IsStepLoop(t, R, subspace, L)
           /\ \A L : IsStepLoop(t, R, subspace, L) => LastRound(t, R, subspace, L[StateInput])
<1> DEFINE D == SUBSET StateInput
           nx == [si \in D |-> StepRound(t, R, subspace, si)]
           stop == {si \in D : nx[si] = si}
           out == [si \in D |-> si]
           m == [si \in D |-> Cardinality(si)]
<1>2. nx \in [D -> D] /\ stop \in SUBSET D
  BY DEF StepRound
<1>3. m \in [D -> Nat] /\ \A si \in D \ stop : m[nx[si]] < m[si]
  <2>1. ASSUME NEW si \in D
        PROVE  /\ IsFiniteSet(si) /\ Cardinality(si) \in Nat
               /\ nx[si] \in SUBSET si
    BY PairsFinite, FS_Subset, FS_CardinalityType DEF StepRound
  <2>2. ASSUME NEW si \in D \ stop PROVE m[nx[si]] < m[si]
    <3>1. nx[si] \in SUBSET si /\ nx[si] # si
      BY <2>1
    <3>2. Cardinality(nx[si]) <= Cardinality(si) /\ Cardinality(si) # Cardinality(nx[si])
      BY <2>1, <3>1, FS_Subset
    <3>3. Cardinality(nx[si]) \in Nat /\ Cardinality(si) \in Nat /\ nx[si] \in D
      BY <1>2, <2>1
    <3>4. m[nx[si]] = Cardinality(nx[si]) /\ m[si] = Cardinality(si)
      BY <3>3
    <3> HIDE DEF nx, m
    <3> QED
      BY <3>2, <3>3, <3>4
  <2> QED
    BY <2>1, <2>2
<1>4. \A L : IsStepLoop(t, R, subspace, L) <=> IsLoop(D, stop, nx, out, L)
  BY DEF IsLoop, IsStepLoop, StepRound
<1>5. \E L : IsStepLoop(t, R, subspace, L)
  <2>1. \E L : IsLoop(D, stop, nx, out, L)
    <3> HIDE DEF D, nx, stop, m, out
    <3> QED
      BY <1>2, <1>3, LoopExists
  <2> QED
    BY <1>4, <2>1
<1>6. ASSUME NEW L, IsStepLoop(t, R, subspace, L)
      PROVE  LastRound(t, R, subspace, L[StateInput])
  <2>1. \E e \in stop :
           /\ L[StateInput] = out[e]
           /\ \A C \in SUBSET D : StateInput \in C /\ (\A x \in C \ stop : nx[x] \in C) => e \in C
    <3>1. StateInput \in D /\ IsLoop(D, stop, nx, out, L)
      BY <1>4, <1>6
    <3> HIDE DEF D, nx, stop, m, out
    <3> QED
      BY <1>2, <1>3, <3>1, LoopResult
  <2>2. PICK e \in stop :
           /\ L[StateInput] = out[e]
           /\ \A C \in SUBSET D : StateInput \in C /\ (\A x \in C \ stop : nx[x] \in C) => e \in C
    BY <2>1
  <2>3. e \in D /\ L[StateInput] = e /\ StepRound(t, R, subspace, e) = e
    BY <2>2
  <2>4. ASSUME NEW W \in D, \A si \in D : W \subseteq si => W \subseteq StepRound(t, R, subspace, si)
        PROVE  W \subseteq e
    <3> DEFINE C == {si \in D : W \subseteq si}
    <3>1. StateInput \in C /\ \A x \in C : nx[x] \in C
      BY <1>2, <2>4
    <3>2. e \in C
      BY <2>2, <3>1
    <3> QED
      BY <3>2
  <2> QED
    BY <2>3, <2>4 DEF LastRound
<1> QED
  BY <1>5, <1>6

\* One round of the fair pairs keeps to pairs.
FairRound(t, R, si) == StepRound(t, R, StatesInputsConstraints(t, R), si)

\* The fair pairs are left as they are by a round, and contain every set of
\* pairs that rounds from a set that has it cannot leave out.
LEMMA FairIsGreatest ==
    ASSUME NEW t, NEW R
    PROVE  LET F == FairStatesInputs(t, R)
           IN /\ F \in SUBSET StateInput
              /\ FairRound(t, R, F) = F
              /\ \A W \in SUBSET StateInput :
                    (\A si \in SUBSET StateInput : W \subseteq si => W \subseteq FairRound(t, R, si))
                        => W \subseteq F
<1> DEFINE subspace == StatesInputsConstraints(t, R)
           L == CHOOSE L : IsStepLoop(t, R, subspace, L)
<1>1. FairStatesInputs(t, R) = L[StateInput]
  BY Zenon DEF FairStatesInputs, IsStepLoop
<1>2. IsStepLoop(t, R, subspace, L)
  <2> HIDE DEF subspace
  <2> QED
    BY StepLoop, Zenon
<1>3. LastRound(t, R, subspace, L[StateInput])
  <2> HIDE DEF subspace, L
  <2> QED
    BY <1>2, StepLoop
<1> HIDE DEF L
<1> QED
  BY <1>1, <1>3 DEF FairRound, LastRound

-----------------------------------------------------------------------------
(* Ways from pair to pair.                                                 *)

LEMMA BeyondIn == ASSUME NEW t, NEW C, NEW x PROVE Beyond(t, C, x) \in SUBSET C
BY DEF Beyond

\* What is closed under the steps inside C and contains the first of them
\* contains all that lies beyond x.
LEMMA BeyondLeast ==
    ASSUME NEW t, NEW C, NEW x, NEW D,
           \A u \in C \cap D, z \in C : Leads(t, u, z) => z \in D,
           \A z \in C : Leads(t, x, z) => z \in D
    PROVE  Beyond(t, C, x) \subseteq D
<1>1. C \cap D \in SUBSET C
      /\ \A z \in C : (\E u \in (C \cap D) \cup {x} : Leads(t, u, z)) => z \in C \cap D
  OBVIOUS
<1> QED
  BY <1>1 DEF Beyond

LEMMA BeyondStep ==
    ASSUME NEW t, NEW C, NEW x, NEW z \in C,
           Leads(t, x, z) \/ \E y \in Beyond(t, C, x) : Leads(t, y, z)
    PROVE  z \in Beyond(t, C, x)
<1> SUFFICES ASSUME NEW D \in SUBSET C,
                    \A v \in C : (\E u \in D \cup {x} : Leads(t, u, v)) => v \in D
             PROVE  z \in D
  BY DEF Beyond
<1>1. Beyond(t, C, x) \subseteq D
  BY DEF Beyond
<1> QED
  BY <1>1

\* Ways can be put one after the other.
LEMMA BeyondTransitive ==
    ASSUME NEW t, NEW C, NEW x, NEW y \in Beyond(t, C, x)
    PROVE  Beyond(t, C, y) \subseteq Beyond(t, C, x)
<1>1. \A z \in C : Leads(t, y, z) => z \in Beyond(t, C, x)
  BY BeyondStep
<1>2. \A u \in C \cap Beyond(t, C, x), z \in C : Leads(t, u, z) => z \in Beyond(t, C, x)
  BY BeyondStep
<1> QED
  BY <1>1, <1>2, BeyondLeast

\* A way begins with a step.
LEMMA BeyondFirst ==
    ASSUME NEW t, NEW C, NEW x, NEW y \in Beyond(t, C, x)
    PROVE  \E z \in C : Leads(t, x, z) /\ (y = z \/ y \in Beyond(t, C, z))
<1> DEFINE D == {v \in C : \E z \in C : Leads(t, x, z) /\ (v = z \/ v \in Beyond(t, C, z))}
<1>1. ASSUME NEW u \in C \cap D, NEW v \in C, Leads(t, u, v) PROVE v \in D
  <2>1. PICK z \in C : Leads(t, x, z) /\ (u = z \/ u \in Beyond(t, C, z))
    OBVIOUS
  <2>2. v \in Beyond(t, C, z)
    BY <1>1, <2>1, BeyondStep
  <2> QED
    BY <2>1, <2>2
<1>2. \A z \in C : Leads(t, x, z) => z \in D
  OBVIOUS
<1> HIDE DEF D
<1>3. Beyond(t, C, x) \subseteq D
  BY <1>1, <1>2, BeyondLeast
<1> QED
  BY <1>3 DEF D

\* A way through fewer pairs is a way.
LEMMA BeyondGrows ==
    ASSUME NEW t, NEW B, NEW C, B \subseteq C, NEW x
    PROVE  Beyond(t, B, x) \subseteq Beyond(t, C, x)
<1>1. \A u \in B \cap Beyond(t, C, x), z \in B : Leads(t, u, z) => z \in Beyond(t, C, x)
  BY BeyondStep
<1>2. \A z \in B : Leads(t, x, z) => z \in Beyond(t, C, x)
  BY BeyondStep
<1> QED
  BY <1>1, <1>2, BeyondLeast

\* The pairs that are mutually reachable with y, inside C, are mutually
\* reachable without leaving them.
LEMMA RoundTrips ==
    ASSUME NEW t, NEW C, NEW y \in C, y \in Beyond(t, C, y)
    PROVE  LET K == {z \in Beyond(t, C, y) : y \in Beyond(t, C, z)}
           IN y \in K /\ K \subseteq C /\ \A x \in K : Beyond(t, K, x) = K
<1> DEFINE K == {z \in Beyond(t, C, y) : y \in Beyond(t, C, z)}
<1>1. y \in K /\ K \subseteq C
  BY BeyondIn
<1>2. ASSUME NEW x \in K, NEW z \in K PROVE z \in Beyond(t, K, x)
  <2>1. ASSUME NEW v \in C, v \in Beyond(t, C, x), y \in Beyond(t, C, v) PROVE v \in K
    <3>1. x \in Beyond(t, C, y)
      OBVIOUS
    <3>2. v \in Beyond(t, C, y)
      BY <2>1, <3>1, BeyondTransitive
    <3> QED
      BY <2>1, <3>2
  <2> DEFINE E == {v \in Beyond(t, C, x) : y \in Beyond(t, C, v) => v \in Beyond(t, K, x)}
  <2>2. \A v \in C : Leads(t, x, v) => v \in E
    <3> SUFFICES ASSUME NEW v \in C, Leads(t, x, v), y \in Beyond(t, C, v)
                 PROVE  v \in Beyond(t, C, x) /\ v \in Beyond(t, K, x)
      BY BeyondStep
    <3>1. v \in Beyond(t, C, x)
      BY BeyondStep
    <3>2. v \in K
      BY <2>1, <3>1
    <3> QED
      BY <3>1, <3>2, BeyondStep
  <2>3. ASSUME NEW u \in C \cap E, NEW v \in C, Leads(t, u, v) PROVE v \in E
    <3>1. v \in Beyond(t, C, x)
      BY <2>3, BeyondStep
    <3> SUFFICES ASSUME y \in Beyond(t, C, v) PROVE v \in Beyond(t, K, x)
      BY <3>1
    <3>2. v \in K
      BY <2>1, <3>1
    <3>3. v \in Beyond(t, C, u)
      BY <2>3, BeyondStep
    <3>4. y \in Beyond(t, C, u)
      BY <3>3, BeyondTransitive
    <3>5. u \in Beyond(t, K, x)
      BY <3>4
    <3> QED
      BY <2>3, <3>2, <3>5, BeyondStep
  <2> HIDE DEF E
  <2>4. Beyond(t, C, x) \subseteq E
    BY <2>2, <2>3, BeyondLeast
  <2>5. y \in Beyond(t, C, x) /\ z \in Beyond(t, C, y) /\ y \in Beyond(t, C, z)
    OBVIOUS
  <2>6. z \in Beyond(t, C, x)
    BY <2>5, BeyondTransitive
  <2> QED
    BY <2>4, <2>5, <2>6 DEF E
<1>3. \A x \in K : Beyond(t, K, x) = K
  BY <1>2, BeyondIn
<1> QED
  BY <1>1, <1>3

-----------------------------------------------------------------------------
(* Ways that go on for ever, through the pairs of M, and meet every        *)
(* constraint of J for ever.                                               *)

RoundPairs(t, J, M) ==
    LET rounds == UNION {C \in SUBSET M : Round(t, J, C)}
    IN {x \in M : x \in rounds \/ Beyond(t, M, x) \cap rounds # {}}

LEMMA RoundSets ==
    ASSUME NEW t, NEW J, NEW M
    PROVE  /\ RoundPairs(t, J, M) \in SUBSET M
           /\ \A C \in SUBSET M : Round(t, J, C) => C \subseteq RoundPairs(t, J, M)
           /\ \A x \in M : Beyond(t, M, x) \cap RoundPairs(t, J, M) # {} => x \in RoundPairs(t, J, M)
           /\ \A x \in RoundPairs(t, J, M) : \E C \in SUBSET M :
                  Round(t, J, C) /\ (x \in C \/ Beyond(t, M, x) \cap C # {})
<1> DEFINE rounds == UNION {C \in SUBSET M : Round(t, J, C)}
<1>1. RoundPairs(t, J, M) = {x \in M : x \in rounds \/ Beyond(t, M, x) \cap rounds # {}}
  BY DEF RoundPairs
<1>2. ASSUME NEW x \in M, NEW y \in Beyond(t, M, x), y \in RoundPairs(t, J, M)
      PROVE  x \in RoundPairs(t, J, M)
  BY <1>1, <1>2, BeyondTransitive
<1> QED
  BY <1>1, <1>2

\* With more pairs to go through, more of them are such pairs.
LEMMA RoundGrows ==
    ASSUME NEW t, NEW J, NEW M, NEW N, M \subseteq N
    PROVE  RoundPairs(t, J, M) \subseteq RoundPairs(t, J, N)
<1> SUFFICES ASSUME NEW x \in RoundPairs(t, J, M) PROVE x \in RoundPairs(t, J, N)
  OBVIOUS
<1>1. PICK C \in SUBSET M : Round(t, J, C) /\ (x \in C \/ Beyond(t, M, x) \cap C # {})
  BY RoundSets
<1>2. x \in N /\ C \in SUBSET N /\ C \subseteq RoundPairs(t, J, N)
  BY <1>1, RoundSets
<1>3. Beyond(t, M, x) \subseteq Beyond(t, N, x)
  BY BeyondGrows
<1> QED
  BY <1>1, <1>2, <1>3, RoundSets

\* A step back from such a pair is one.
LEMMA RoundBack ==
    ASSUME NEW t, NEW J, NEW M, NEW x \in M, NEW y \in RoundPairs(t, J, M), Leads(t, x, y)
    PROVE  x \in RoundPairs(t, J, M)
BY RoundSets, BeyondStep

\* There is always a next step.
LEMMA RoundGoesOn ==
    ASSUME NEW t, NEW J, NEW M, NEW x \in RoundPairs(t, J, M)
    PROVE  \E y \in RoundPairs(t, J, M) : Leads(t, x, y)
<1>1. PICK C \in SUBSET M : Round(t, J, C) /\ (x \in C \/ Beyond(t, M, x) \cap C # {})
  BY RoundSets
<1>2. CASE x \in C
  <2>1. x \in Beyond(t, C, x)
    BY <1>1, <1>2 DEF Round
  <2>2. PICK y \in C : Leads(t, x, y)
    BY <2>1, BeyondFirst
  <2> QED
    BY <1>1, <2>2, RoundSets
<1>3. CASE x \notin C
  <2>1. PICK c \in Beyond(t, M, x) : c \in C
    BY <1>1, <1>3
  <2>2. PICK y \in M : Leads(t, x, y) /\ (c = y \/ c \in Beyond(t, M, y))
    BY BeyondFirst
  <2>3. c \in RoundPairs(t, J, M)
    BY <1>1, <2>1, RoundSets
  <2>4. y \in RoundPairs(t, J, M)
    BY <2>2, <2>3, RoundSets
  <2> QED
    BY <2>2, <2>4
<1> QED
  BY <1>2, <1>3

\* From each of them there is a way to every constraint: a set that has those
\* that meet it, and what leads to the others of the set, has all.
LEMMA RoundMeets ==
    ASSUME NEW t, NEW J, NEW M, NEW p \in J, NEW U,
           p \cap RoundPairs(t, J, M) \subseteq U,
           \A u, z \in RoundPairs(t, J, M) : Leads(t, u, z) /\ z \in U => u \in U
    PROVE  RoundPairs(t, J, M) \subseteq U
<1>1. ASSUME NEW C \in SUBSET M, Round(t, J, C), NEW x \in C PROVE x \in U
  <2> SUFFICES ASSUME x \notin U PROVE FALSE
    OBVIOUS
  <2> DEFINE D == C \ U
  <2>1. C \subseteq RoundPairs(t, J, M)
    BY <1>1, RoundSets
  <2>2. \A z \in C : Leads(t, x, z) => z \in D
    BY <2>1
  <2>3. \A u \in C \cap D, z \in C : Leads(t, u, z) => z \in D
    BY <2>1
  <2> HIDE DEF D
  <2>4. Beyond(t, C, x) \subseteq D
    BY <2>2, <2>3, BeyondLeast
  <2>5. C = Beyond(t, C, x) /\ p \cap C # {}
    BY <1>1 DEF Round
  <2> QED
    BY <2>1, <2>4, <2>5 DEF D
<1> SUFFICES ASSUME NEW x \in RoundPairs(t, J, M), x \notin U PROVE FALSE
  OBVIOUS
<1>2. PICK C \in SUBSET M : Round(t, J, C) /\ (x \in C \/ Beyond(t, M, x) \cap C # {})
  BY RoundSets
<1>3. x \notin C /\ C \subseteq RoundPairs(t, J, M)
  BY <1>1, <1>2, RoundSets
<1> DEFINE D == {z \in M : z \in RoundPairs(t, J, M) => z \notin U}
<1>4. \A z \in M : Leads(t, x, z) => z \in D
  OBVIOUS
<1>5. \A u \in M \cap D, z \in M : Leads(t, u, z) => z \in D
  BY RoundBack
<1> HIDE DEF D
<1>6. Beyond(t, M, x) \subseteq D
  BY <1>4, <1>5, BeyondLeast
<1> QED
  BY <1>1, <1>2, <1>3, <1>6 DEF D

\* Conversely: if every pair of a finite set has others of the set ahead, and
\* every constraint ahead, then it leads to a round.
LEMMA RoundAhead ==
    ASSUME NEW t, NEW J, NEW M, NEW G \in SUBSET M, IsFiniteSet(G),
           \A x \in G : \E y \in G \cap Beyond(t, M, x) :
               \A p \in J : p \cap ({y} \cup (G \cap Beyond(t, M, y))) # {}
    PROVE  G \subseteq RoundPairs(t, J, M)
<1> DEFINE Ahead(x) == G \cap Beyond(t, M, x)
<1>1. ASSUME NEW x \in G, NEW y \in Ahead(x) PROVE y \in G /\ Ahead(y) \subseteq Ahead(x)
  BY BeyondTransitive
<1>2. \A x : IsFiniteSet(Ahead(x)) /\ Cardinality(Ahead(x)) \in Nat
  <2> TAKE x
  <2>1. Ahead(x) \in SUBSET G
    OBVIOUS
  <2> HIDE DEF Ahead
  <2>2. IsFiniteSet(Ahead(x))
    BY <2>1, FS_Subset
  <2> QED
    BY <2>2, FS_CardinalityType
<1> SUFFICES ASSUME NEW x \in G PROVE x \in RoundPairs(t, J, M)
  OBVIOUS
\* Going on, the pairs ahead become fewer until all of them come back.
<1>3. \E z \in {x} \cup Ahead(x) : \A y \in Ahead(z) : Ahead(y) = Ahead(z)
  <2> DEFINE S == {x} \cup Ahead(x)
             m == [z \in G |-> Cardinality(Ahead(z))]
  <2>1. m \in [G -> Nat] /\ S \in SUBSET G /\ S # {}
    <3> HIDE DEF Ahead
    <3> QED
      BY <1>1, <1>2
  <2>2. PICK z \in S : \A y \in S : m[z] <= m[y]
    <3> HIDE DEF m, S
    <3> QED
      BY <2>1, LeastMeasure
  <2>3. z \in G /\ Ahead(z) \subseteq S
    BY <1>1, <2>1
  <2>4. ASSUME NEW y \in Ahead(z) PROVE Ahead(y) = Ahead(z)
    <3>1. y \in G /\ Ahead(y) \subseteq Ahead(z) /\ y \in S
      BY <1>1, <2>3
    <3>2. Cardinality(Ahead(z)) <= Cardinality(Ahead(y))
      BY <2>2, <2>3, <3>1
    <3> HIDE DEF Ahead
    <3>3. /\ IsFiniteSet(Ahead(z)) /\ Ahead(y) \in SUBSET Ahead(z)
          /\ Cardinality(Ahead(y)) \in Nat /\ Cardinality(Ahead(z)) \in Nat
      BY <1>2, <3>1
    <3>4. /\ Cardinality(Ahead(y)) <= Cardinality(Ahead(z))
          /\ Cardinality(Ahead(z)) = Cardinality(Ahead(y)) => Ahead(z) = Ahead(y)
      BY <3>3, FS_Subset
    <3> QED
      BY <3>2, <3>3, <3>4
  <2> QED
    BY <2>2, <2>4
<1>4. PICK z \in {x} \cup Ahead(x) : \A y \in Ahead(z) : Ahead(y) = Ahead(z)
  BY <1>3
<1>5. z \in G
  BY <1>1, <1>4
<1>6. PICK y \in Ahead(z) : y \in G
  BY <1>1, <1>5
<1>7. Ahead(y) = Ahead(z) /\ y \in Ahead(y)
  BY <1>4, <1>6
<1> DEFINE K == {u \in Beyond(t, M, y) : y \in Beyond(t, M, u)}
<1>8. y \in M /\ y \in Beyond(t, M, y)
  BY <1>6, <1>7
<1>9. y \in K /\ K \subseteq M /\ \A u \in K : Beyond(t, K, u) = K
  <2> HIDE DEF K
  <2> QED
    BY <1>8, RoundTrips DEF K
<1>10. ASSUME NEW p \in J PROVE p \cap K # {}
  <2>1. PICK v \in Ahead(y) : p \cap ({v} \cup Ahead(v)) # {}
    BY <1>6
  <2>2. PICK u \in Ahead(y) : u \in p
    BY <1>1, <1>6, <2>1
  <2>3. y \in Ahead(u)
    BY <1>4, <1>7, <2>2
  <2> QED
    BY <2>2, <2>3
<1> HIDE DEF K
<1>11. K \in SUBSET M /\ Round(t, J, K)
  BY <1>9, <1>10 DEF Round
<1>12. y \in RoundPairs(t, J, M) /\ y \in Beyond(t, M, x)
  BY <1>1, <1>4, <1>5, <1>6, <1>9, <1>11, RoundSets
<1> QED
  BY <1>12, RoundSets

-----------------------------------------------------------------------------
(* The computation of Emerson and Lei.                                     *)

LEMMA FairAreRounds == \A t : FairPairs(t) = RoundPairs(t, Justice, Legal)
BY DEF FairPairs, RoundPairs, FairCycle, Round

LEMMA LegalPairs ==
    /\ Legal \in SUBSET StateInput
    /\ \A x \in Legal : x = <<x[1], x[2]>> /\ x[1] \in Invar /\ x[2] \in InvarInput
    /\ \A t : FairPairs(t) \in SUBSET Legal
BY FsmAssumption, FairAreRounds, RoundSets DEF Legal, StateInput

\* What a step back from a pair is, inside R.
LEMMA ExMeans ==
    ASSUME NEW t, NEW R, NEW S \in SUBSET StateInput, NEW x
    PROVE  x \in EX(t, R, S) <=>
              x \in Legal /\ x[1] \in R /\ \E y \in S : y[1] \in Invar /\ Leads(t, x, y)
<1>1. \A q : q \in StatesOf(S) \cap Invar <=> q \in Invar /\ \E y \in S : y[1] = q
  <2>1. \A y \in S : y = <<y[1], y[2]>> /\ y[1] \in State /\ y[2] \in Input
    BY DEF StateInput
  <2> QED
    BY <2>1 DEF StatesOf
<1>2. x \in WeakBackwardImage(t, StatesOf(S)) <=>
        x \in Legal /\ \E q \in StatesOf(S) \cap Invar : <<x[1], x[2], q>> \in t
  BY DEF WeakBackwardImage, Legal
<1>3. (\E q \in StatesOf(S) \cap Invar : <<x[1], x[2], q>> \in t)
        <=> \E y \in S : y[1] \in Invar /\ Leads(t, x, y)
  BY <1>1 DEF Leads
<1>4. x \in Legal => (x \in R \X Input <=> x[1] \in R)
  BY FsmAssumption DEF Legal
<1> QED
  BY <1>2, <1>3, <1>4 DEF EX, Within

\* A step from a legal pair of R to a legal pair: into R, and allowed.
LEMMA StepInside ==
    ASSUME NEW t, NEW R, ForwardImage(t, R) \subseteq R,
           NEW u \in Legal, u[1] \in R, NEW z \in Legal, Leads(t, u, z)
    PROVE  z[1] \in R /\ u \in StatesInputsConstraints(t, R)
<1>1. z[1] \in ForwardImage(t, R)
  BY LegalPairs DEF ForwardImage, Leads
<1>2. <<u[1], u[2], z[1]>> \in t \cap (R \X Input \X State)
  BY LegalPairs, FsmAssumption DEF Leads
<1> DEFINE e == <<u[1], u[2], z[1]>>
<1>3. e[1] = u[1] /\ e[2] = u[2] /\ u = <<u[1], u[2]>>
  BY LegalPairs
<1> HIDE DEF e
<1> QED
  BY <1>1, <1>2, <1>3 DEF StatesInputsConstraints, e

\* A round keeps the fair pairs of R: each has a step to another, from which
\* the search for every constraint succeeds.
LEMMA FairStays ==
    ASSUME NEW t, NEW R \in SUBSET State, ForwardImage(t, R) \subseteq R,
           NEW si \in SUBSET StateInput, Within(R, FairPairs(t)) \subseteq si
    PROVE  Within(R, FairPairs(t)) \subseteq FairRound(t, R, si)
<1> DEFINE f == StatesInputsConstraints(t, R)
           U(p) == EU(t, R, f, si \cap p)
           G == {x \in si : \A p \in Justice : x \in EU(t, R, f, si \cap p)}
<1>1. f \in SUBSET StateInput /\ \A x \in Legal : x \in Within(R, {x}) <=> x[1] \in R
  BY LegalPairs, FsmAssumption DEF StatesInputsConstraints, StateInput, Within
<1>2. \A x \in FairPairs(t) : x \in Legal /\ (x \in Within(R, FairPairs(t)) <=> x[1] \in R)
  BY <1>1, LegalPairs DEF Within
<1>3. ASSUME NEW p \in Justice, NEW x \in FairPairs(t), x[1] \in R PROVE x \in U(p)
  <2>1. si \cap p \in SUBSET StateInput
    OBVIOUS
  <2>2. /\ U(p) \in SUBSET StateInput /\ Within(R, si \cap p) \subseteq U(p)
        /\ f \cap EX(t, R, U(p)) \subseteq U(p)
    <3> HIDE DEF f
    <3> QED
      BY <1>1, <2>1, EuIsLeast
  <2> HIDE DEF U, f
  <2> DEFINE V == U(p) \cup {z \in Legal : z[1] \notin R}
  <2>3. p \cap FairPairs(t) \subseteq V
    BY <1>2, <2>2 DEF Within
  <2>4. ASSUME NEW u \in FairPairs(t), NEW z \in FairPairs(t), Leads(t, u, z), z \in V
        PROVE  u \in V
    <3> SUFFICES ASSUME u[1] \in R PROVE u \in U(p)
      BY <1>2
    <3>1. z[1] \in R /\ u \in f
      BY <1>2, <2>4, StepInside DEF f
    <3>2. z \in U(p) /\ z[1] \in Invar
      BY <1>2, <2>4, <3>1, LegalPairs
    <3>3. u \in EX(t, R, U(p))
      BY <1>2, <2>2, <2>4, <3>2, ExMeans
    <3> QED
      BY <2>2, <3>1, <3>3
  <2> HIDE DEF V
  <2>5. FairPairs(t) \subseteq V
    BY <2>3, <2>4, FairAreRounds, RoundMeets
  <2> QED
    BY <1>3, <2>5 DEF V
<1> SUFFICES ASSUME NEW x \in Within(R, FairPairs(t)) PROVE x \in FairRound(t, R, si)
  OBVIOUS
<1>4. x \in FairPairs(t) /\ x \in Legal /\ x[1] \in R /\ x \in si
  BY <1>2 DEF Within
<1>5. PICK y \in FairPairs(t) : Leads(t, x, y)
  BY <1>4, FairAreRounds, RoundGoesOn
<1>6. y \in Legal /\ y[1] \in R /\ x \in f
  BY <1>2, <1>4, <1>5, StepInside
<1>7. y \in G
  BY <1>2, <1>3, <1>6
<1>8. x \in EX(t, R, G)
  <2>1. G \in SUBSET StateInput
    OBVIOUS
  <2> HIDE DEF G
  <2> QED
    BY <1>4, <1>5, <1>6, <1>7, <2>1, ExMeans, LegalPairs
<1> QED
  BY <1>4, <1>6, <1>8 DEF FairRound, StepRound, FairStep

\* What EU finds has a way to what it looks for.
LEMMA EuReaches ==
    ASSUME NEW t, NEW R, NEW f \in SUBSET StateInput, NEW g \in SUBSET Legal,
           NEW z \in EU(t, R, f, g)
    PROVE  z \in Legal /\ (z \in g \/ Beyond(t, Legal, z) \cap g # {})
<1> DEFINE W == {u \in Legal : u \in g \/ Beyond(t, Legal, u) \cap g # {}}
<1>1. W \in SUBSET StateInput /\ g \in SUBSET StateInput
  BY LegalPairs
<1>2. Within(R, g) \subseteq W
  BY DEF Within
<1>3. ASSUME NEW u \in EX(t, R, W) PROVE u \in W
  <2>1. PICK y \in W : Leads(t, u, y)
    <3> HIDE DEF W
    <3> QED
      BY <1>1, ExMeans
  <2>2. u \in Legal
    <3> HIDE DEF W
    <3> QED
      BY <1>1, ExMeans
  <2>3. y \in Beyond(t, Legal, u)
    BY <2>1, BeyondStep
  <2>4. Beyond(t, Legal, y) \subseteq Beyond(t, Legal, u)
    BY <2>3, BeyondTransitive
  <2> QED
    BY <2>1, <2>2, <2>3, <2>4
<1> HIDE DEF W
<1>4. EU(t, R, f, g) \subseteq W
  BY <1>1, <1>2, <1>3, EuIsLeast
<1> QED
  BY <1>4 DEF W

\* The computation keeps nothing else: what a round leaves as it is is fair.
LEMMA NothingElseStays ==
    ASSUME NEW t, NEW R \in SUBSET State,
           NEW F \in SUBSET StateInput, FairRound(t, R, F) = F
    PROVE  F \subseteq Within(R, FairPairs(t))
<1> DEFINE f == StatesInputsConstraints(t, R)
           G == {x \in F : \A p \in Justice : x \in EU(t, R, f, F \cap p)}
           Ahead(x) == F \cap Beyond(t, Legal, x)
<1>1. F \subseteq EX(t, R, G)
  BY DEF FairRound, StepRound, FairStep
<1>2. G \in SUBSET StateInput /\ f \in SUBSET StateInput
  BY DEF StatesInputsConstraints, StateInput
<1>3. ASSUME NEW x \in F
      PROVE  x \in Legal /\ x[1] \in R /\ \E y \in G : y[1] \in Invar /\ Leads(t, x, y)
  <2>1. x \in EX(t, R, G)
    BY <1>1
  <2> HIDE DEF G
  <2> QED
    BY <1>2, <2>1, ExMeans
\* From every pair there is a way to one that meets every constraint.
<1>4. ASSUME NEW x \in F
      PROVE  \E y \in F \cap Beyond(t, Legal, x) :
                \A p \in Justice : p \cap ({y} \cup (F \cap Beyond(t, Legal, y))) # {}
  <2>1. PICK y \in G : Leads(t, x, y)
    BY <1>3
  <2>2. y \in F /\ y \in Legal
    BY <1>3
  <2>3. y \in Beyond(t, Legal, x)
    BY <2>1, <2>2, BeyondStep
  <2>4. ASSUME NEW p \in Justice PROVE p \cap ({y} \cup (F \cap Beyond(t, Legal, y))) # {}
    <3>1. y \in EU(t, R, f, F \cap p) /\ F \cap p \in SUBSET Legal
      BY <1>3, <2>1
    <3>2. y \in F \cap p \/ Beyond(t, Legal, y) \cap (F \cap p) # {}
      <4> HIDE DEF f
      <4> QED
        BY <1>2, <3>1, EuReaches
    <3> QED
      BY <3>2
  <2> QED
    BY <2>2, <2>3, <2>4
<1>5. F \in SUBSET Legal /\ IsFiniteSet(F)
  BY <1>3, PairsFinite, FS_Subset
<1>6. F \subseteq FairPairs(t)
  BY <1>4, <1>5, RoundAhead, FairAreRounds
<1> QED
  BY <1>3, <1>6, LegalPairs, FsmAssumption DEF Within

\* The nested fixpoints compute the fair pairs, whatever the relation; when R
\* is a set that no step leaves, those of them whose state is in R.
THEOREM FairPairsComputed ==
    ASSUME NEW t, NEW R \in SUBSET State, ForwardImage(t, R) \subseteq R
    PROVE  FairStatesInputs(t, R) = Within(R, FairPairs(t))
<1> DEFINE F == FairStatesInputs(t, R)
           W == Within(R, FairPairs(t))
<1>1. /\ F \in SUBSET StateInput
      /\ FairRound(t, R, F) = F
      /\ \A V \in SUBSET StateInput :
            (\A si \in SUBSET StateInput : V \subseteq si => V \subseteq FairRound(t, R, si))
                => V \subseteq F
  BY FairIsGreatest
<1>2. W \in SUBSET StateInput
  BY LegalPairs DEF Within
<1>3. \A si \in SUBSET StateInput : W \subseteq si => W \subseteq FairRound(t, R, si)
  BY FairStays
<1> HIDE DEF F, W
<1>4. W \subseteq F
  BY <1>1, <1>2, <1>3
<1>5. F \subseteq W
  BY <1>1, NothingElseStays DEF W
<1> QED
  BY <1>4, <1>5 DEF F, W

\* The reachable states are closed under the image.
LEMMA ReachClosed ==
    ASSUME NEW t
    PROVE  Reach(t) \in SUBSET State /\ Start \subseteq Reach(t) /\ ForwardImage(t, Reach(t)) \subseteq Reach(t)
<1>1. Reach(t) \in SUBSET State
  BY DEF Reach
<1>2. Start \subseteq Reach(t)
  BY FsmAssumption DEF Reach, Closed, Start
<1>3. ASSUME NEW S \in SUBSET State, Closed(t, S) PROVE ForwardImage(t, Reach(t)) \subseteq S
  <2>1. Reach(t) \subseteq S
    BY <1>3 DEF Reach
  <2>2. ForwardImage(t, Reach(t)) \subseteq ForwardImage(t, S)
    BY <2>1 DEF ForwardImage
  <2> QED
    BY <1>3, <2>2 DEF Closed
<1>4. ForwardImage(t, Reach(t)) \subseteq State
  BY FsmAssumption DEF ForwardImage
<1>5. ForwardImage(t, Reach(t)) \subseteq Reach(t)
  BY <1>3, <1>4 DEF Reach
<1> QED
  BY <1>1, <1>2, <1>5

-----------------------------------------------------------------------------
(* Finite paths.                                                           *)

\* The recursive definition of Paths, as a set of sequences.
PathsOf(t, s, n) ==
    {w \in Seq(State) : /\ Len(w) \in 1..(n + 1)
                        /\ w[1] = s
                        /\ \A k \in 1..(Len(w) - 1) : w[k + 1] \in Successors(t, w[k])}

LEMMA SuccessorsIn == \A t, p : Successors(t, p) \in SUBSET Invar /\ Successors(t, p) \in SUBSET State
BY FsmAssumption DEF Successors

\* The reachable states are legal, and no step leaves them.
LEMMA ReachLegal ==
    ASSUME NEW t
    PROVE  Reach(t) \in SUBSET Invar /\ \A s \in Reach(t) : Successors(t, s) \subseteq Reach(t)
<1>1. Closed(t, Invar) /\ Invar \in SUBSET State
  BY FsmAssumption DEF Closed, Start, ForwardImage
<1>2. Reach(t) \subseteq Invar
  BY <1>1 DEF Reach
<1>3. \A s \in Reach(t) : Successors(t, s) \subseteq ForwardImage(t, Reach(t))
  BY <1>2 DEF Successors, ForwardImage
<1> QED
  BY <1>2, <1>3, ReachClosed

LEMMA PathsStart == ASSUME NEW t, NEW s \in State PROVE PathsOf(t, s, 0) = {<<s>>}
<1>1. <<s>> \in PathsOf(t, s, 0)
  BY DEF PathsOf
<1>2. ASSUME NEW w \in PathsOf(t, s, 0) PROVE w = <<s>>
  <2>1. w \in Seq(State) /\ Len(w) = 1 /\ w[1] = s
    BY DEF PathsOf
  <2>2. <<s>> \in Seq(State) /\ Len(<<s>>) = 1 /\ <<s>>[1] = s
    OBVIOUS
  <2>3. \A k \in 1..Len(w) : w[k] = <<s>>[k]
    BY <2>1, <2>2
  <2> QED
    BY <2>1, <2>2, <2>3, SeqEqual
<1> QED
  BY <1>1, <1>2

\* A path of one step more is one extended at its end.
Extended(t, w) == {Append(w, q) : q \in Successors(t, w[Len(w)])}

LEMMA PathsLonger ==
    ASSUME NEW t, NEW s \in State, NEW n \in Nat
    PROVE  PathsOf(t, s, n + 1) =
              PathsOf(t, s, n) \cup UNION {Extended(t, w) : w \in PathsOf(t, s, n)}
<1>1. PathsOf(t, s, n) \subseteq PathsOf(t, s, n + 1)
  BY DEF PathsOf
<1>2. ASSUME NEW w \in PathsOf(t, s, n), NEW q \in Successors(t, w[Len(w)])
      PROVE  Append(w, q) \in PathsOf(t, s, n + 1)
  <2>1. w \in Seq(State) /\ Len(w) \in 1..(n + 1) /\ w[1] = s /\ q \in State
    BY SuccessorsIn DEF PathsOf
  <2>2. /\ Append(w, q) \in Seq(State) /\ Len(Append(w, q)) = Len(w) + 1
        /\ \A k \in 1..Len(w) : Append(w, q)[k] = w[k]
        /\ Append(w, q)[Len(w) + 1] = q
    BY <2>1, AppendProperties
  <2>3. \A k \in 1..(Len(w) - 1) : w[k + 1] \in Successors(t, w[k])
    BY DEF PathsOf
  <2>4. ASSUME NEW k \in 1..Len(w) PROVE Append(w, q)[k + 1] \in Successors(t, Append(w, q)[k])
    <3>1. CASE k = Len(w)
      BY <2>1, <2>2, <3>1
    <3>2. CASE k # Len(w)
      <4>1. k \in 1..(Len(w) - 1) /\ k + 1 \in 1..Len(w)
        BY <2>1, <3>2
      <4> QED
        BY <2>2, <2>3, <4>1
    <3> QED
      BY <3>1, <3>2
  <2>5. /\ Len(Append(w, q)) - 1 = Len(w)
        /\ Append(w, q)[1] = s
    BY <2>1, <2>2
  <2>6. Len(Append(w, q)) \in 1..(n + 1 + 1)
    BY <2>1, <2>2
  <2> DEFINE v == Append(w, q)
  <2>7. \A k \in 1..(Len(v) - 1) : v[k + 1] \in Successors(t, v[k])
    BY <2>4, <2>5
  <2> HIDE DEF v
  <2> QED
    BY <2>2, <2>5, <2>6, <2>7 DEF PathsOf, v
<1>3. ASSUME NEW v \in PathsOf(t, s, n + 1), v \notin PathsOf(t, s, n)
      PROVE  \E w \in PathsOf(t, s, n) : v \in Extended(t, w)
  <2>1. /\ v \in Seq(State) /\ Len(v) \in 1..(n + 2) /\ v[1] = s
        /\ \A k \in 1..(Len(v) - 1) : v[k + 1] \in Successors(t, v[k])
    BY DEF PathsOf
  <2>2. Len(v) = n + 2
    BY <1>3, <2>1 DEF PathsOf
  <2>3. PICK w \in Seq(State), q \in State : v = Append(w, q)
    <3>1. v # <<>>
      BY <2>2, EmptySeq
    <3> QED
      BY <2>1, <3>1, SequenceEmptyOrAppend
  <2>4. /\ Len(w) = n + 1
        /\ \A k \in 1..Len(w) : v[k] = w[k]
        /\ v[Len(w) + 1] = q
    BY <2>2, <2>3, AppendProperties
  <2>5. \A k \in 1..(Len(w) - 1) : w[k + 1] \in Successors(t, w[k])
    <3> SUFFICES ASSUME NEW k \in 1..(Len(w) - 1) PROVE w[k + 1] \in Successors(t, w[k])
      OBVIOUS
    <3>1. k \in 1..(Len(v) - 1) /\ k \in 1..Len(w) /\ k + 1 \in 1..Len(w)
      BY <2>2, <2>4
    <3> QED
      BY <2>1, <2>4, <3>1
  <2>6. w \in PathsOf(t, s, n)
    BY <2>1, <2>3, <2>4, <2>5 DEF PathsOf
  <2>7. q \in Successors(t, w[Len(w)])
    <3>1. Len(w) \in 1..(Len(v) - 1) /\ Len(w) \in 1..Len(w)
      BY <2>2, <2>4
    <3> QED
      BY <2>1, <2>4, <3>1
  <2> QED
    BY <2>3, <2>6, <2>7 DEF Extended
<1>4. ASSUME NEW w \in PathsOf(t, s, n) PROVE Extended(t, w) \subseteq PathsOf(t, s, n + 1)
  BY <1>2 DEF Extended
<1> QED
  BY <1>1, <1>3, <1>4

LEMMA PathsAre ==
    ASSUME NEW t, NEW s \in State, NEW n \in Nat
    PROVE  Paths(t, s, n) = PathsOf(t, s, n)
<1> DEFINE Longer(w) == {Append(w, q) : q \in Successors(t, w[Len(w)])}
           From[k \in 0..n] ==
              IF k = 0 THEN {<<s>>} ELSE From[k - 1] \cup UNION {Longer(w) : w \in From[k - 1]}
           H(f) == f = [k \in 0..n |->
              IF k = 0 THEN {<<s>>} ELSE f[k - 1] \cup UNION {Longer(w) : w \in f[k - 1]}]
           P == [k \in 0..n |-> PathsOf(t, s, k)]
<1>1. Paths(t, s, n) = From[n]
  BY DEF Paths
<1> HIDE DEF Longer
<1>1a. \A w : Longer(w) = Extended(t, w)
  BY DEF Longer, Extended
<1>2. ASSUME NEW k \in 0..n
      PROVE  PathsOf(t, s, k) =
                IF k = 0 THEN {<<s>>}
                ELSE PathsOf(t, s, k - 1) \cup UNION {Longer(w) : w \in PathsOf(t, s, k - 1)}
  <2>1. CASE k = 0
    BY <2>1, PathsStart
  <2>2. CASE k # 0
    <3>1. PICK m \in Nat : m = k - 1
      BY <2>2
    <3>2. k = m + 1 /\ k - 1 = m
      BY <3>1
    <3>3. PathsOf(t, s, m + 1) = PathsOf(t, s, m) \cup UNION {Extended(t, w) : w \in PathsOf(t, s, m)}
      BY PathsLonger
    <3> QED
      BY <1>1a, <2>2, <3>2, <3>3
  <2> QED
    BY <2>1, <2>2
<1>3. H(P)
  <2>1. ASSUME NEW k \in 0..n
        PROVE  P[k] = IF k = 0 THEN {<<s>>} ELSE P[k - 1] \cup UNION {Longer(w) : w \in P[k - 1]}
    <3>1. k # 0 => k - 1 \in 0..n
      OBVIOUS
    <3> QED
      BY <1>2, <3>1
  <2>2. P = [k \in 0..n |-> P[k]]
    OBVIOUS
  <2> HIDE DEF P
  <2> QED
    BY <2>1, <2>2
<1>4. From = CHOOSE f : H(f)
  OBVIOUS
<1>5. H(From)
  <2> HIDE DEF H, From, P
  <2> QED
    BY <1>3, <1>4, Zenon
<1>6. \A k \in 0..n : From[k] = PathsOf(t, s, k)
  <2> DEFINE S == {k \in Nat : k \in 0..n => From[k] = PathsOf(t, s, k)}
  <2> HIDE DEF From
  <2>1. ASSUME NEW k \in Nat, \A j \in Nat : j < k => j \in S PROVE k \in S
    <3> SUFFICES ASSUME k \in 0..n PROVE From[k] = PathsOf(t, s, k)
      OBVIOUS
    <3>1. From[k] = IF k = 0 THEN {<<s>>}
                    ELSE From[k - 1] \cup UNION {Longer(w) : w \in From[k - 1]}
      BY <1>5
    <3>2. k # 0 => From[k - 1] = PathsOf(t, s, k - 1)
      <4>1. k # 0 => k - 1 \in Nat /\ k - 1 < k /\ k - 1 \in 0..n
        OBVIOUS
      <4> QED
        BY <2>1, <4>1
    <3> QED
      BY <1>2, <3>1, <3>2
  <2> HIDE DEF S
  <2>2. S = Nat
    <3>1. S \in SUBSET Nat
      BY DEF S
    <3> QED
      BY <2>1, <3>1, Induction
  <2> QED
    BY <2>2 DEF S
<1> HIDE DEF From
<1> QED
  BY <1>1, <1>6

\* What follows the first step of a path is a path.
LEMMA PathAfter ==
    ASSUME NEW t, NEW s \in State, NEW m \in Nat, NEW w \in PathsOf(t, s, m), Len(w) # 1
    PROVE  /\ w[2] \in Successors(t, s)
           /\ Tail(w) \in PathsOf(t, w[2], m - 1)
           /\ Len(w) \in Nat /\ Len(w) >= 2
           /\ Len(Tail(w)) = Len(w) - 1
           /\ \A k \in 1..(Len(w) - 1) : Tail(w)[k] = w[k + 1]
<1>1. /\ w \in Seq(State) /\ Len(w) \in 1..(m + 1) /\ w[1] = s
      /\ \A k \in 1..(Len(w) - 1) : w[k + 1] \in Successors(t, w[k])
  BY DEF PathsOf
<1>2. Len(w) >= 2 /\ 1 \in 1..(Len(w) - 1) /\ w # <<>>
  <2>1. Len(w) >= 2 /\ 1 \in 1..(Len(w) - 1)
    <3>1. \A l \in 1..(m + 1) : l # 1 => l >= 2 /\ 1 \in 1..(l - 1)
      OBVIOUS
    <3> QED
      BY <1>1, <3>1
  <2>2. Len(w) # 0
    BY <2>1
  <2>3. w # <<>>
    BY <2>2, EmptySeq
  <2> QED
    BY <2>1, <2>3
<1>3. /\ Tail(w) \in Seq(State)
      /\ Len(Tail(w)) = Len(w) - 1
      /\ \A k \in 1..(Len(w) - 1) : Tail(w)[k] = w[k + 1]
  BY <1>1, <1>2, HeadTailProperties
<1>4. ASSUME NEW k \in 1..(Len(Tail(w)) - 1) PROVE Tail(w)[k + 1] \in Successors(t, Tail(w)[k])
  <2>1. k \in 1..(Len(w) - 1) /\ k + 1 \in 1..(Len(w) - 1)
    BY <1>1, <1>3
  <2> QED
    BY <1>1, <1>3, <2>1
<1>5. Len(Tail(w)) \in 1..(m - 1 + 1) /\ Tail(w)[1] = w[2]
  BY <1>1, <1>2, <1>3
<1>6. w[2] \in Successors(t, s)
  BY <1>1, <1>2
<1> DEFINE v == Tail(w)
<1>7. v \in Seq(State) /\ Len(v) \in 1..(m - 1 + 1) /\ v[1] = w[2]
  BY <1>3, <1>5
<1>8. \A k \in 1..(Len(v) - 1) : v[k + 1] \in Successors(t, v[k])
  BY <1>4
<1> HIDE DEF v
<1>9. v \in PathsOf(t, w[2], m - 1)
  BY <1>7, <1>8 DEF PathsOf
<1> QED
  BY <1>1, <1>2, <1>3, <1>6, <1>9 DEF v

\* A step before a path makes one.
LEMMA PathBefore ==
    ASSUME NEW t, NEW s \in State, NEW n \in Nat,
           NEW q \in Successors(t, s), NEW w \in PathsOf(t, q, n)
    PROVE  \E v \in PathsOf(t, s, n + 1) :
              /\ Len(w) \in Nat /\ Len(w) >= 1 /\ Len(v) = Len(w) + 1
              /\ \A k \in 1..Len(w) : v[k + 1] = w[k]
<1> DEFINE v == <<s>> \o w
<1>1. /\ w \in Seq(State) /\ Len(w) \in 1..(n + 1) /\ w[1] = q
      /\ \A k \in 1..(Len(w) - 1) : w[k + 1] \in Successors(t, w[k])
  BY DEF PathsOf
<1>2. /\ v \in Seq(State) /\ Len(v) = Len(w) + 1 /\ v[1] = s
      /\ \A k \in 1..Len(w) : v[k + 1] = w[k]
  <2>1. <<s>> \in Seq(State) /\ Len(<<s>>) = 1 /\ <<s>>[1] = s
    OBVIOUS
  <2>2. /\ v \in Seq(State) /\ Len(v) = 1 + Len(w)
        /\ \A k \in 1..(1 + Len(w)) : v[k] = IF k <= 1 THEN <<s>>[k] ELSE w[k - 1]
    BY <1>1, <2>1, ConcatProperties
  <2>3. \A k \in 1..Len(w) : k + 1 \in 1..(1 + Len(w)) /\ ~(k + 1 <= 1) /\ (k + 1) - 1 = k
    BY <1>1
  <2> HIDE DEF v
  <2>4. \A k \in 1..Len(w) : v[k + 1] = w[k]
    BY <1>1, <2>2, <2>3
  <2>5. 1 \in 1..(1 + Len(w)) /\ Len(v) = Len(w) + 1
    BY <1>1, <2>2
  <2> QED
    BY <2>1, <2>2, <2>4, <2>5
<1> HIDE DEF v
<1>3. ASSUME NEW k \in 1..(Len(v) - 1) PROVE v[k + 1] \in Successors(t, v[k])
  <2>1. CASE k = 1
    BY <1>1, <1>2, <2>1
  <2>2. CASE k # 1
    <3>1. PICK j \in 1..(Len(w) - 1) : k = j + 1
      BY <1>1, <1>2, <2>2
    <3>2. j \in 1..Len(w) /\ j + 1 \in 1..Len(w)
      BY <1>1
    <3>3. v[k + 1] = w[j + 1] /\ v[k] = w[j]
      BY <1>2, <3>1, <3>2
    <3> QED
      BY <1>1, <3>3
  <2> QED
    BY <2>1, <2>2
<1>4. v \in PathsOf(t, s, n + 1)
  <2>1. Len(v) \in 1..(n + 1 + 1)
    BY <1>1, <1>2
  <2> QED
    BY <1>2, <1>3, <2>1 DEF PathsOf
<1> QED
  BY <1>1, <1>2, <1>4

\* The states that a path of at most n steps, through a, leads from to a state
\* of b where runs end.
UntilIn(t, F, a, b, n) ==
    {s \in State : \E w \in PathsOf(t, s, n) :
        w[Len(w)] \in F \cap b /\ Holding(a, w, 1, Len(w) - 1)}

\* The states of a with a step into S.
StepsBack(t, a, S) == {s \in State \cap a : Successors(t, s) \cap S # {}}

LEMMA UntilInStart == \A t, F, a, b : UntilIn(t, F, a, b, 0) = State \cap F \cap b
<1> SUFFICES ASSUME NEW t, NEW F, NEW a, NEW b PROVE UntilIn(t, F, a, b, 0) = State \cap F \cap b
  OBVIOUS
<1>1. ASSUME NEW s \in State PROVE s \in UntilIn(t, F, a, b, 0) <=> s \in F \cap b
  <2>1. PathsOf(t, s, 0) = {<<s>>}
    BY PathsStart
  <2>2. Len(<<s>>) = 1 /\ <<s>>[1] = s /\ Holding(a, <<s>>, 1, 1 - 1)
    BY DEF Holding
  <2> QED
    BY <2>1, <2>2 DEF UntilIn
<1> QED
  BY <1>1 DEF UntilIn

LEMMA UntilInNext ==
    ASSUME NEW t, NEW F, NEW a, NEW b, NEW m \in Nat, m # 0
    PROVE  UntilIn(t, F, a, b, m) =
              (State \cap F \cap b) \cup StepsBack(t, a, UntilIn(t, F, a, b, m - 1))
<1>0. PICK n \in Nat : n = m - 1 /\ m = n + 1
  <2>1. m - 1 \in Nat /\ m = (m - 1) + 1
    OBVIOUS
  <2> QED
    BY <2>1
<1> SUFFICES UntilIn(t, F, a, b, n + 1) =
             (State \cap F \cap b) \cup StepsBack(t, a, UntilIn(t, F, a, b, n))
  BY <1>0
<1>1. ASSUME NEW s \in UntilIn(t, F, a, b, n + 1), s \notin F \cap b
      PROVE  s \in StepsBack(t, a, UntilIn(t, F, a, b, n))
  <2>1. PICK w \in PathsOf(t, s, n + 1) : w[Len(w)] \in F \cap b /\ Holding(a, w, 1, Len(w) - 1)
    BY DEF UntilIn
  <2>2. s \in State /\ w[1] = s
    BY DEF UntilIn, PathsOf
  <2>3. Len(w) # 1 /\ n + 1 \in Nat
    BY <1>1, <2>1, <2>2
  <2>4. /\ w[2] \in Successors(t, s) /\ Tail(w) \in PathsOf(t, w[2], n)
        /\ Len(w) \in Nat /\ Len(w) >= 2
        /\ Len(Tail(w)) = Len(w) - 1
        /\ \A k \in 1..(Len(w) - 1) : Tail(w)[k] = w[k + 1]
    <3>1. (n + 1) - 1 = n
      OBVIOUS
    <3> QED
      BY <2>2, <2>3, <3>1, PathAfter
  <2>5. s \in a /\ \A k \in 1..(Len(w) - 1) : w[k] \in a
    BY <2>1, <2>2, <2>4 DEF Holding
  <2>6. Tail(w)[Len(Tail(w))] \in F \cap b
    BY <2>1, <2>4
  <2>7. Holding(a, Tail(w), 1, Len(Tail(w)) - 1)
    <3> SUFFICES ASSUME NEW k \in 1..(Len(Tail(w)) - 1) PROVE Tail(w)[k] \in a
      BY DEF Holding
    <3>1. k \in 1..(Len(w) - 1) /\ k + 1 \in 1..(Len(w) - 1)
      BY <2>4
    <3> QED
      BY <2>4, <2>5, <3>1
  <2>8. w[2] \in UntilIn(t, F, a, b, n)
    BY <2>4, <2>6, <2>7, SuccessorsIn DEF UntilIn
  <2> QED
    BY <2>2, <2>4, <2>5, <2>8 DEF StepsBack
<1>2. ASSUME NEW s \in State \cap F \cap b PROVE s \in UntilIn(t, F, a, b, n + 1)
  <2>1. <<s>> \in PathsOf(t, s, 0)
    BY PathsStart
  <2>2. <<s>> \in PathsOf(t, s, n + 1)
    BY <2>1 DEF PathsOf
  <2>3. Len(<<s>>) = 1 /\ <<s>>[1] = s /\ Holding(a, <<s>>, 1, 1 - 1)
    BY DEF Holding
  <2> QED
    BY <2>2, <2>3 DEF UntilIn
<1>3. ASSUME NEW s \in StepsBack(t, a, UntilIn(t, F, a, b, n))
      PROVE  s \in UntilIn(t, F, a, b, n + 1)
  <2>1. s \in State /\ s \in a
    BY DEF StepsBack
  <2>2. PICK q \in Successors(t, s) : q \in UntilIn(t, F, a, b, n)
    BY DEF StepsBack
  <2>3. PICK w \in PathsOf(t, q, n) : w[Len(w)] \in F \cap b /\ Holding(a, w, 1, Len(w) - 1)
    BY <2>2 DEF UntilIn
  <2>4. PICK v \in PathsOf(t, s, n + 1) :
              /\ Len(w) \in Nat /\ Len(w) >= 1 /\ Len(v) = Len(w) + 1
              /\ \A k \in 1..Len(w) : v[k + 1] = w[k]
    BY <2>1, PathBefore
  <2>5. v[1] = s
    BY DEF PathsOf
  <2>6. v[Len(v)] \in F \cap b
    BY <2>3, <2>4
  <2>7. Holding(a, v, 1, Len(v) - 1)
    <3> SUFFICES ASSUME NEW k \in 1..(Len(v) - 1), k # 1 PROVE v[k] \in a
      BY <2>1, <2>5 DEF Holding
    <3>1. PICK j \in 1..(Len(w) - 1) : k = j + 1
      BY <2>4
    <3>2. v[k] = w[j]
      BY <2>4, <3>1
    <3> QED
      BY <2>3, <3>2 DEF Holding
  <2> QED
    BY <2>1, <2>6, <2>7 DEF UntilIn
<1>4. UntilIn(t, F, a, b, n + 1) \in SUBSET State
  BY DEF UntilIn
<1> QED
  BY <1>1, <1>2, <1>3, <1>4

\* A set that grows round after round stops growing, at the latest, when it has
\* been given as many rounds as there are elements.
LEMMA Saturates ==
    ASSUME NEW X, IsFiniteSet(X), NEW N \in [Nat -> SUBSET X],
           NEW G \in [SUBSET X -> SUBSET X],
           \A k \in Nat : N[k + 1] = G[N[k]] /\ N[k] \subseteq N[k + 1]
    PROVE  N[Cardinality(X) + 1] = N[Cardinality(X)]
<1> DEFINE c == Cardinality(X)
<1>1. c \in Nat /\ \A k \in Nat : Cardinality(N[k]) \in Nat /\ Cardinality(N[k]) <= c
  BY FS_Subset, FS_CardinalityType
<1> HIDE DEF c
<1> SUFFICES ASSUME N[c + 1] # N[c] PROVE FALSE
  BY DEF c
\* A round that adds nothing is the last that does.
<1>2. ASSUME NEW k \in Nat, k <= c PROVE N[k + 1] # N[k]
  <2> SUFFICES ASSUME N[k + 1] = N[k] PROVE FALSE
    OBVIOUS
  <2> DEFINE S == {j \in Nat : j >= k => N[j + 1] = N[j]}
  <2>1. ASSUME NEW j \in Nat, \A l \in Nat : l < j => l \in S PROVE j \in S
    <3> SUFFICES ASSUME j > k PROVE N[j + 1] = N[j]
      OBVIOUS
    <3>1. PICK l \in Nat : j = l + 1
      <4>1. j - 1 \in Nat /\ j = (j - 1) + 1
        OBVIOUS
      <4> QED
        BY <4>1
    <3>2. N[l + 1] = N[l]
      BY <2>1, <3>1
    <3> QED
      BY <3>1, <3>2
  <2>2. S \in SUBSET Nat
    OBVIOUS
  <2> HIDE DEF S
  <2>3. S = Nat
    BY <2>1, <2>2, Induction
  <2> QED
    BY <1>1, <1>2, <2>3 DEF S
<1> DEFINE T == {k \in Nat : k <= c + 1 => Cardinality(N[k]) >= k}
<1>3. ASSUME NEW k \in Nat, \A l \in Nat : l < k => l \in T PROVE k \in T
  <2> SUFFICES ASSUME k <= c + 1, k # 0 PROVE Cardinality(N[k]) >= k
    BY <1>1
  <2>1. PICK l \in Nat : k = l + 1
    <3>1. k - 1 \in Nat /\ k = (k - 1) + 1
      OBVIOUS
    <3> QED
      BY <3>1
  <2>2. Cardinality(N[l]) >= l /\ N[k] # N[l] /\ N[l] \subseteq N[k]
    BY <1>1, <1>2, <1>3, <2>1
  <2>3. Cardinality(N[l]) < Cardinality(N[k])
    <3>1. N[k] \in SUBSET X /\ N[l] \in SUBSET N[k]
      BY <2>2
    <3> QED
      BY <2>2, <3>1, Nested
  <2> QED
    BY <1>1, <2>1, <2>2, <2>3
<1>4. T \in SUBSET Nat
  OBVIOUS
<1> HIDE DEF T
<1>5. T = Nat
  BY <1>3, <1>4, Induction
<1>6. c + 1 \in Nat /\ c + 1 <= c + 1
  BY <1>1
<1>7. Cardinality(N[c + 1]) >= c + 1
  BY <1>5, <1>6 DEF T
<1> QED
  BY <1>1, <1>6, <1>7

\* The states that satisfy E[a U b], on paths that end in F.
Untils(t, F, a, b) == {s \in State : Until(t, F, s, a, b)}

LEMMA UntilsIn ==
    ASSUME NEW t, NEW F, NEW a, NEW b
    PROVE  Untils(t, F, a, b) = UntilIn(t, F, a, b, Cardinality(State))
<1>1. Cardinality(State) \in Nat
  BY FsmAssumption, FS_CardinalityType
<1>2. \A s \in State : Paths(t, s, Cardinality(State)) = PathsOf(t, s, Cardinality(State))
  BY <1>1, PathsAre
<1> QED
  BY <1>2 DEF Untils, Until, UntilIn, Runs

\* E[a U b] is b where paths end, or a and a next state with E[a U b]: paths of as
\* many steps as there are states are long enough.
LEMMA UntilUnfolds ==
    ASSUME NEW t, NEW F, NEW a, NEW b
    PROVE  Untils(t, F, a, b) = (State \cap F \cap b) \cup StepsBack(t, a, Untils(t, F, a, b))
<1> DEFINE N == [k \in Nat |-> UntilIn(t, F, a, b, k)]
           G == [S \in SUBSET State |-> (State \cap F \cap b) \cup StepsBack(t, a, S)]
           c == Cardinality(State)
<1>1. N \in [Nat -> SUBSET State] /\ G \in [SUBSET State -> SUBSET State]
  BY DEF UntilIn, StepsBack
<1>2. \A k \in Nat : N[k + 1] = G[N[k]]
  <2> SUFFICES ASSUME NEW k \in Nat PROVE N[k + 1] = G[N[k]]
    OBVIOUS
  <2>1. UntilIn(t, F, a, b, k + 1) = (State \cap F \cap b) \cup StepsBack(t, a, UntilIn(t, F, a, b, k))
    <3>1. k + 1 \in Nat /\ k + 1 # 0 /\ (k + 1) - 1 = k
      OBVIOUS
    <3> QED
      BY <3>1, UntilInNext
  <2>2. UntilIn(t, F, a, b, k) \in SUBSET State
    BY DEF UntilIn
  <2>3. k + 1 \in Nat
    OBVIOUS
  <2> QED
    BY <2>1, <2>2, <2>3
<1>3. \A k \in Nat : N[k] \subseteq N[k + 1]
  <2> SUFFICES ASSUME NEW k \in Nat, NEW s \in UntilIn(t, F, a, b, k)
               PROVE  s \in UntilIn(t, F, a, b, k + 1)
    OBVIOUS
  <2>1. PathsOf(t, s, k) \subseteq PathsOf(t, s, k + 1)
    BY DEF PathsOf
  <2> QED
    BY <2>1 DEF UntilIn
<1>4. IsFiniteSet(State) /\ c \in Nat
  BY FsmAssumption, FS_CardinalityType
<1> HIDE DEF N, G
<1>5. N[c + 1] = N[c]
  BY <1>1, <1>2, <1>3, <1>4, Saturates
<1>6. N[c] = G[N[c]]
  BY <1>2, <1>4, <1>5
<1>7. N[c] = Untils(t, F, a, b)
  BY <1>4, UntilsIn DEF N
<1>8. N[c] \in SUBSET State
  BY <1>1, <1>4
<1> QED
  BY <1>6, <1>7, <1>8 DEF G

\* It is the least such set, also where only the states of I, which no step
\* leaves, are looked at.
LEMMA UntilLeast ==
    ASSUME NEW t, NEW F, NEW a, NEW b, NEW I, NEW V,
           \A s \in I : Successors(t, s) \subseteq I,
           I \cap State \cap F \cap b \subseteq V,
           \A s \in I \cap State \cap a : Successors(t, s) \cap V # {} => s \in V
    PROVE  I \cap Untils(t, F, a, b) \subseteq V
<1> DEFINE S == {n \in Nat : I \cap UntilIn(t, F, a, b, n) \subseteq V}
<1>1. ASSUME NEW n \in Nat, \A k \in Nat : k < n => k \in S PROVE n \in S
  <2>1. CASE n = 0
    BY <2>1, UntilInStart
  <2>2. CASE n # 0
    <3>1. PICK m \in Nat : n = m + 1
      <4>1. n - 1 \in Nat /\ n = (n - 1) + 1
        BY <2>2
      <4> QED
        BY <4>1
    <3>2. I \cap UntilIn(t, F, a, b, m) \subseteq V
      BY <1>1, <3>1
    <3>3. UntilIn(t, F, a, b, n) = (State \cap F \cap b) \cup StepsBack(t, a, UntilIn(t, F, a, b, m))
      BY <3>1, UntilInNext
    <3>4. ASSUME NEW s \in I, s \in StepsBack(t, a, UntilIn(t, F, a, b, m)) PROVE s \in V
      <4>1. s \in State \cap a /\ Successors(t, s) \cap UntilIn(t, F, a, b, m) # {}
        BY <3>4 DEF StepsBack
      <4>2. PICK q \in Successors(t, s) : q \in UntilIn(t, F, a, b, m)
        BY <4>1
      <4>3. q \in V
        BY <3>2, <4>2
      <4> QED
        BY <4>1, <4>2, <4>3
    <3> QED
      BY <3>3, <3>4
  <2> QED
    BY <2>1, <2>2
<1>2. S \in SUBSET Nat
  OBVIOUS
<1> HIDE DEF S
<1>3. S = Nat
  BY <1>1, <1>2, Induction
<1>4. Cardinality(State) \in S
  BY <1>3, FsmAssumption, FS_CardinalityType
<1> QED
  BY <1>4, UntilsIn DEF S

\* What holds of a position, and of the one before each, holds from the start.
LEMMA Backwards ==
    ASSUME NEW k \in Nat, NEW S, k \in S, \A j \in 1..(k - 1) : j + 1 \in S => j \in S
    PROVE  1..k \subseteq S
<1> SUFFICES ASSUME (1..k) \ S # {} PROVE FALSE
  OBVIOUS
<1> DEFINE T == {d \in 0..k : d < k /\ k - d \notin S}
<1>1. T \in SUBSET Nat /\ T # {}
  <2>1. PICK j \in 1..k : j \notin S
    OBVIOUS
  <2>2. k - j \in T
    BY <2>1
  <2>3. T \in SUBSET Nat
    OBVIOUS
  <2> HIDE DEF T
  <2> QED
    BY <2>2, <2>3
<1> HIDE DEF T
<1>2. PICK d \in T : \A e \in T : d <= e
  BY <1>1, LeastOf
<1>3. d \in 0..k /\ d < k /\ k - d \notin S /\ d # 0
  BY DEF T
<1>4. d - 1 \in 0..k /\ d - 1 < k /\ d - 1 \notin T /\ k - (d - 1) = (k - d) + 1
  BY <1>1, <1>2, <1>3
<1>5. (k - d) + 1 \in S
  BY <1>4 DEF T
<1> QED
  BY <1>3, <1>5

\* Where no step leaves I, and whatever leads to F is in F, a path from I that
\* ends in F is in F all along.
LEMMA PathInside ==
    ASSUME NEW t, NEW F, NEW I \in SUBSET State,
           \A p \in I : Successors(t, p) \subseteq I,
           \A p \in I : Successors(t, p) \cap F # {} => p \in F,
           NEW s \in I, NEW n \in Nat, NEW w \in PathsOf(t, s, n), w[Len(w)] \in F
    PROVE  \A k \in 1..Len(w) : w[k] \in I /\ w[k] \in F
<1>1. /\ Len(w) \in Nat /\ Len(w) >= 1 /\ w[1] = s
      /\ \A k \in 1..(Len(w) - 1) : w[k + 1] \in Successors(t, w[k])
  BY DEF PathsOf
<1>2. \A k \in 1..Len(w) : w[k] \in I
  <2> DEFINE T == {k \in Nat : k + 1 \in 1..Len(w) => w[k + 1] \in I}
  <2>1. ASSUME NEW k \in Nat, \A j \in Nat : j < k => j \in T PROVE k \in T
    <3> SUFFICES ASSUME k + 1 \in 1..Len(w), k # 0 PROVE w[k + 1] \in I
      BY <1>1
    <3>1. /\ k - 1 \in Nat /\ k - 1 < k /\ (k - 1) + 1 = k
          /\ k \in 1..Len(w) /\ k \in 1..(Len(w) - 1)
      BY <1>1
    <3>2. w[k] \in I
      BY <2>1, <3>1
    <3> QED
      BY <1>1, <3>1, <3>2
  <2>2. T \in SUBSET Nat
    OBVIOUS
  <2> HIDE DEF T
  <2>3. T = Nat
    BY <2>1, <2>2, Induction
  <2>4. ASSUME NEW k \in 1..Len(w) PROVE w[k] \in I
    <3>1. k - 1 \in Nat /\ (k - 1) + 1 = k
      BY <1>1
    <3> QED
      BY <2>3, <3>1 DEF T
  <2> QED
    BY <2>4
<1>3. \A k \in 1..Len(w) : w[k] \in F
  <2> DEFINE S == {k \in 1..Len(w) : w[k] \in F}
  <2>1. Len(w) \in S
    BY <1>1
  <2>2. ASSUME NEW j \in 1..(Len(w) - 1), j + 1 \in S PROVE j \in S
    <3>1. j \in 1..Len(w) /\ w[j] \in I /\ w[j + 1] \in F \cap Successors(t, w[j])
      BY <1>1, <1>2, <2>2
    <3> QED
      BY <3>1
  <2> HIDE DEF S
  <2>3. 1..Len(w) \subseteq S
    BY <1>1, <2>1, <2>2, Backwards
  <2> QED
    BY <2>3 DEF S
<1> QED
  BY <1>2, <1>3

\* On the states of I, which no step leaves and where whatever leads to F is in
\* F: a holds on every path as long as b has not come, exactly when no path
\* outside b leads out of both.
LEMMA UnlessIs ==
    ASSUME NEW t, NEW F, NEW a, NEW b, NEW I \in SUBSET State,
           \A p \in I : Successors(t, p) \subseteq I,
           \A p \in I : Successors(t, p) \cap F # {} => p \in F,
           NEW s \in I
    PROVE  Unless(t, F, s, a, b) <=> s \notin Untils(t, F, State \ b, State \ (a \cup b))
<1> DEFINE c == Cardinality(State)
           U == Untils(t, F, State \ b, State \ (a \cup b))
<1>1. c \in Nat /\ Paths(t, s, c) = PathsOf(t, s, c)
  BY FsmAssumption, FS_CardinalityType, PathsAre
<1>2. ASSUME s \in U PROVE ~Unless(t, F, s, a, b)
  <2>1. PICK w \in Runs(t, F, s, c) :
           w[Len(w)] \in State \ (a \cup b) /\ Holding(State \ b, w, 1, Len(w) - 1)
    BY <1>2 DEF Untils, Until
  <2>2. Len(w) \in Nat /\ Len(w) >= 1
    BY <1>1 DEF Runs, PathsOf
  <2>3. Holding(State \ b, w, 1, Len(w)) /\ ~Holding(a, w, 1, Len(w))
    <3>1. \A k \in 1..Len(w) : k \in 1..(Len(w) - 1) \/ k = Len(w)
      BY <2>2
    <3>2. Len(w) \in 1..Len(w)
      BY <2>2
    <3> QED
      BY <2>1, <3>1, <3>2 DEF Holding
  <2> QED
    BY <2>1, <2>3 DEF Unless
<1>3. ASSUME ~Unless(t, F, s, a, b) PROVE s \in U
  <2>1. PICK w \in Runs(t, F, s, c) : Holding(State \ b, w, 1, Len(w)) /\ ~Holding(a, w, 1, Len(w))
    BY <1>3 DEF Unless
  <2>2. /\ w \in Seq(State) /\ Len(w) \in Nat /\ Len(w) >= 1 /\ w[1] = s /\ w[Len(w)] \in F
        /\ \A k \in 1..(Len(w) - 1) : w[k + 1] \in Successors(t, w[k])
    BY <1>1 DEF Runs, PathsOf
  <2>3. \A k \in 1..Len(w) : w[k] \in I /\ w[k] \in F
    BY <1>1, <2>1, PathInside DEF Runs
  <2>5. PICK k \in 1..Len(w) : w[k] \notin a
    BY <2>1 DEF Holding
  <2>6. /\ k \in Nat /\ k >= 1
        /\ \A j \in 1..k : j \in 1..Len(w) /\ w[j] \in State \ b
        /\ \A j \in 1..(k - 1) : j \in 1..(Len(w) - 1) /\ j \in 1..k
    BY <2>1, <2>2, <2>3 DEF Holding
  <2> DEFINE S == {j \in 1..k : w[j] \in U}
  <2> HIDE DEF U
  <2>7. k \in S
    BY <2>3, <2>5, <2>6, UntilUnfolds DEF U
  <2>8. ASSUME NEW j \in 1..(k - 1), j + 1 \in S PROVE j \in S
    <3>1. w[j] \in State \ b /\ j \in 1..k /\ w[j + 1] \in Successors(t, w[j]) \cap U
      BY <2>2, <2>6, <2>8
    <3> QED
      BY <3>1, UntilUnfolds DEF U, StepsBack
  <2> HIDE DEF S
  <2>9. 1..k \subseteq S
    BY <2>6, <2>7, <2>8, Backwards
  <2>10. 1 \in 1..k
    BY <2>6
  <2> QED
    BY <2>2, <2>9, <2>10 DEF S
<1> QED
  BY <1>2, <1>3

-----------------------------------------------------------------------------
(* Infinite paths.                                                         *)

LEMMA MovesAre ==
    ASSUME NEW t, NEW S
    PROVE  /\ Moves(t, S) \in SUBSET StateInput
           /\ Moves(t, S) \in SUBSET Legal
           /\ \A x \in Moves(t, S) : x[1] \in S \cap Invar /\ x[2] \in InvarInput /\ x = <<x[1], x[2]>>
           /\ \A p \in S \cap Invar, i \in InvarInput, q \in S \cap Invar :
                 <<p, i, q>> \in t => <<p, i>> \in Moves(t, S)
           /\ IsFiniteSet(Moves(t, S))
<1>1. ASSUME NEW x \in Moves(t, S)
      PROVE  x \in Legal /\ x[1] \in S \cap Invar /\ x[2] \in InvarInput /\ x = <<x[1], x[2]>>
  <2>1. PICK e \in t \cap ((S \cap Invar) \X InvarInput \X (S \cap Invar)) : x = <<e[1], e[2]>>
    BY DEF Moves
  <2>2. e[1] \in S \cap Invar /\ e[2] \in InvarInput
    BY <2>1
  <2> QED
    BY <2>1, <2>2 DEF Legal
<1>2. Moves(t, S) \in SUBSET Legal /\ Moves(t, S) \in SUBSET StateInput
  BY <1>1, LegalPairs
<1>3. IsFiniteSet(Moves(t, S))
  BY <1>2, PairsFinite, FS_Subset
<1>4. ASSUME NEW p \in S \cap Invar, NEW i \in InvarInput, NEW q \in S \cap Invar, <<p, i, q>> \in t
      PROVE  <<p, i>> \in Moves(t, S)
  <2> DEFINE e == <<p, i, q>>
  <2>1. e \in t \cap ((S \cap Invar) \X InvarInput \X (S \cap Invar)) /\ e[1] = p /\ e[2] = i
    BY <1>4
  <2> HIDE DEF e
  <2> QED
    BY <2>1 DEF Moves
<1> QED
  BY <1>1, <1>2, <1>3, <1>4

LEMMA ForeverIs ==
    \A t, J, S : Forever(t, J, S) = {x[1] : x \in RoundPairs(t, J, Moves(t, S))}
BY DEF Forever, RoundPairs

LEMMA ForeverUnfolds ==
    ASSUME NEW t, NEW J, NEW S
    PROVE  /\ Forever(t, J, S) \in SUBSET State
           /\ \A p \in Forever(t, J, S) :
                 p \in S \cap Invar /\ Successors(t, p) \cap Forever(t, J, S) # {}
           /\ \A p \in S \cap Invar : Successors(t, p) \cap Forever(t, J, S) # {} => p \in Forever(t, J, S)
<1> DEFINE M == Moves(t, S)
<1>1. ASSUME NEW p \in Forever(t, J, S)
      PROVE  p \in S \cap Invar /\ p \in State /\ Successors(t, p) \cap Forever(t, J, S) # {}
  <2>1. PICK x \in RoundPairs(t, J, M) : p = x[1]
    BY ForeverIs
  <2>2. x \in M /\ p \in S \cap Invar /\ x[2] \in InvarInput
    BY <2>1, RoundSets, MovesAre
  <2>3. PICK y \in RoundPairs(t, J, M) : Leads(t, x, y)
    BY RoundGoesOn
  <2>4. y[1] \in Invar /\ y[1] \in Forever(t, J, S)
    BY <2>3, RoundSets, MovesAre, ForeverIs
  <2>5. y[1] \in Successors(t, p)
    BY <2>1, <2>2, <2>3, <2>4 DEF Leads, Successors
  <2> QED
    BY <2>2, <2>4, <2>5, FsmAssumption
<1>2. ASSUME NEW p \in S \cap Invar, NEW q \in Successors(t, p), q \in Forever(t, J, S)
      PROVE  p \in Forever(t, J, S)
  <2>1. PICK y \in RoundPairs(t, J, M) : q = y[1]
    BY <1>2, ForeverIs
  <2>2. PICK i \in InvarInput : <<p, i, q>> \in t
    BY DEF Successors
  <2>3. q \in S \cap Invar
    BY <2>1, RoundSets, MovesAre
  <2> DEFINE x == <<p, i>>
  <2>4. x \in M
    BY <2>2, <2>3, MovesAre
  <2>5. Leads(t, x, y) /\ x[1] = p
    BY <2>1, <2>2 DEF Leads
  <2> HIDE DEF x
  <2>6. x \in RoundPairs(t, J, M)
    BY <2>4, <2>5, RoundBack
  <2> QED
    BY <2>5, <2>6, ForeverIs
<1> QED
  BY <1>1, <1>2

\* Without constraints, a set of states each with a step into the set is enough.
LEMMA ForeverGreatest ==
    ASSUME NEW t, NEW S, NEW Z, Z \subseteq S \cap Invar,
           \A p \in Z : Successors(t, p) \cap Z # {}
    PROVE  Z \subseteq Forever(t, {}, S)
<1> DEFINE M == Moves(t, S)
           G == {x \in M : x[1] \in Z /\ \E q \in Z : <<x[1], x[2], q>> \in t}
<1>1. ASSUME NEW p \in Z PROVE \E x \in G : x[1] = p
  <2>1. PICK q \in Z, i \in InvarInput : q \in Invar /\ <<p, i, q>> \in t
    BY DEF Successors
  <2>2. <<p, i>> \in M
    BY <2>1, MovesAre
  <2>3. <<p, i>>[1] = p /\ <<p, i>>[2] = i
    OBVIOUS
  <2> QED
    BY <2>1, <2>2, <2>3
<1>2. ASSUME NEW x \in G PROVE \E y \in G \cap Beyond(t, M, x) : TRUE
  <2>1. PICK q \in Z : <<x[1], x[2], q>> \in t
    OBVIOUS
  <2>2. PICK y \in G : y[1] = q
    BY <1>1
  <2>3. y \in M /\ Leads(t, x, y)
    BY <2>1, <2>2 DEF Leads
  <2>4. y \in Beyond(t, M, x)
    BY <2>3, BeyondStep
  <2> QED
    BY <2>2, <2>4
<1>3. G \in SUBSET M /\ IsFiniteSet(G)
  BY MovesAre, FS_Subset
<1> HIDE DEF G
<1>4. G \subseteq RoundPairs(t, {}, M)
  BY <1>2, <1>3, RoundAhead
<1> QED
  BY <1>1, <1>4, ForeverIs

-----------------------------------------------------------------------------
(* Runs of a given length, from states of F that always have a step to      *)
(* another, while no step leaves I and whatever leads to F is in F.         *)

Lasting(t, F, I) ==
    /\ I \in SUBSET State /\ F \in SUBSET I
    /\ \A p \in I : Successors(t, p) \subseteq I
    /\ \A p \in I : Successors(t, p) \cap F # {} => p \in F
    /\ \A p \in F : Successors(t, p) \cap F # {}

\* v is what comes after the first element of w, up to n.
Follows(w, v, n) == \A k \in 1..n : w[k + 1] = v[k]

LEMMA RunsOfAre ==
    ASSUME NEW t, NEW F, NEW s \in State, NEW n \in Nat
    PROVE  RunsOf(t, F, s, n) = {w \in PathsOf(t, s, n) : Len(w) = n + 1 /\ w[Len(w)] \in F}
BY PathsAre DEF RunsOf, Runs

\* The rest of a run is a run, from a state of F.
LEMMA RunAfter ==
    ASSUME NEW t, NEW F, NEW I, Lasting(t, F, I),
           NEW s \in F, NEW n \in Nat, n # 0, NEW w \in RunsOf(t, F, s, n)
    PROVE  \E q \in Successors(t, s) \cap F : \E v \in RunsOf(t, F, q, n - 1) :
               w[1] = s /\ Follows(w, v, n)
<1>1. s \in State /\ s \in I /\ F \in SUBSET State
  BY DEF Lasting
<1>8. w \in PathsOf(t, s, n) /\ w[Len(w)] \in F
  BY <1>1, RunsOfAre
<1>9. Len(w) = n + 1
  BY <1>1, RunsOfAre
<1>2. w[1] = s /\ Len(w) # 1
  BY <1>8, <1>9 DEF PathsOf
<1>3. /\ w[2] \in Successors(t, s) /\ Tail(w) \in PathsOf(t, w[2], n - 1)
      /\ Len(Tail(w)) = n /\ \A k \in 1..n : Tail(w)[k] = w[k + 1]
  <2>1. /\ w[2] \in Successors(t, s) /\ Tail(w) \in PathsOf(t, w[2], n - 1)
        /\ Len(Tail(w)) = Len(w) - 1 /\ \A k \in 1..(Len(w) - 1) : Tail(w)[k] = w[k + 1]
    BY <1>1, <1>2, <1>8, PathAfter
  <2> QED
    BY <1>9, <2>1
<1>4. 2 \in 1..Len(w)
  BY <1>9
<1>5. w[2] \in F
  <2>1. \A k \in 1..Len(w) : w[k] \in I /\ w[k] \in F
    BY <1>1, <1>8, PathInside DEF Lasting
  <2> QED
    BY <1>4, <2>1
<1>6. n - 1 \in Nat /\ n \in 1..n /\ (n - 1) + 1 = n
  OBVIOUS
<1>7. Tail(w) \in RunsOf(t, F, w[2], n - 1)
  <2>1. Len(Tail(w)) = (n - 1) + 1 /\ Tail(w)[Len(Tail(w))] \in F
    BY <1>3, <1>6, <1>8, <1>9
  <2>2. w[2] \in State /\ n - 1 \in Nat
    BY <1>1, <1>5, <1>6
  <2>3. RunsOf(t, F, w[2], n - 1)
          = {v \in PathsOf(t, w[2], n - 1) : Len(v) = (n - 1) + 1 /\ v[Len(v)] \in F}
    BY <2>2, RunsOfAre
  <2> QED
    BY <1>3, <2>1, <2>3
<1> QED
  BY <1>2, <1>3, <1>5, <1>7 DEF Follows

\* A step before a run makes one.
LEMMA RunBefore ==
    ASSUME NEW t, NEW F, NEW s \in State, NEW n \in Nat, n # 0,
           NEW q \in Successors(t, s), NEW w \in RunsOf(t, F, q, n - 1)
    PROVE  \E v \in RunsOf(t, F, s, n) : v[1] = s /\ Follows(v, w, n)
<1>1. n - 1 \in Nat /\ (n - 1) + 1 = n /\ q \in State
  BY SuccessorsIn
<1>2. w \in PathsOf(t, q, n - 1) /\ Len(w) = n /\ w[n] \in F
  <2>1. w \in PathsOf(t, q, n - 1) /\ Len(w) = (n - 1) + 1 /\ w[Len(w)] \in F
    BY <1>1, RunsOfAre
  <2>2. Len(w) \in Nat
    BY <2>1 DEF PathsOf
  <2> QED
    BY <2>1, <2>2
<1>3. PICK m \in Nat : m = n - 1 /\ m + 1 = n
  BY <1>1
<1>4. PICK v \in PathsOf(t, s, m + 1) : Len(v) = Len(w) + 1 /\ \A k \in 1..Len(w) : v[k + 1] = w[k]
  BY <1>2, <1>3, PathBefore
<1>5. v[Len(v)] \in F /\ Len(v) = n + 1 /\ v \in PathsOf(t, s, n)
  BY <1>2, <1>3, <1>4
<1>6. v[1] = s
  BY DEF PathsOf
<1> QED
  BY <1>2, <1>4, <1>5, <1>6, RunsOfAre DEF Follows

LEMMA RunNone ==
    ASSUME NEW t, NEW F, NEW s \in State, s \in F
    PROVE  RunsOf(t, F, s, 0) = {<<s>>}
<1>1. <<s>>[Len(<<s>>)] = s /\ Len(<<s>>) = 0 + 1 /\ 0 \in Nat
  OBVIOUS
<1>2. \A w \in PathsOf(t, s, 0) : w = <<s>>
  BY PathsStart
<1>3. <<s>> \in PathsOf(t, s, 0)
  BY PathsStart
<1>4. ASSUME NEW n \in Nat
      PROVE  RunsOf(t, F, s, n) = {w \in PathsOf(t, s, n) : Len(w) = n + 1 /\ w[Len(w)] \in F}
  BY RunsOfAre
<1> QED
  BY <1>1, <1>2, <1>3, <1>4

\* From a state of F, runs have any length.
LEMMA RunsExist ==
    ASSUME NEW t, NEW F, NEW I, Lasting(t, F, I)
    PROVE  \A n \in Nat : \A s \in F : RunsOf(t, F, s, n) # {}
<1> DEFINE T == {n \in Nat : \A s \in F : RunsOf(t, F, s, n) # {}}
<1>1. ASSUME NEW n \in Nat, \A k \in Nat : k < n => k \in T, NEW s \in F
      PROVE  RunsOf(t, F, s, n) # {}
  <2>1. s \in State /\ F \in SUBSET State
    BY DEF Lasting
  <2>2. CASE n = 0
    <3>1. RunsOf(t, F, s, 0) = {<<s>>}
      BY <2>1, RunNone
    <3> QED
      BY <2>2, <3>1
  <2>3. CASE n # 0
    <3>1. PICK q \in Successors(t, s) : q \in F
      BY DEF Lasting
    <3>2. n - 1 \in Nat /\ n - 1 < n
      BY <2>3
    <3>3. PICK w : w \in RunsOf(t, F, q, n - 1)
      BY <1>1, <3>1, <3>2
    <3> QED
      BY <2>1, <2>3, <3>3, RunBefore
  <2> QED
    BY <2>2, <2>3
<1>2. \A n \in Nat : (\A k \in Nat : k < n => k \in T) => n \in T
  BY <1>1
<1>3. T \in SUBSET Nat
  OBVIOUS
<1> HIDE DEF T
<1>4. T = Nat
  BY <1>2, <1>3, Induction
<1> QED
  BY <1>4 DEF T

\* The states of F with a run of n steps that meets b after lo steps or more,
\* through a; those whose runs all do; those with one that is in a from lo on.
MeetingSome(t, F, a, b, lo, n) == {s \in F : \E w \in RunsOf(t, F, s, n) : Meets(w, a, b, lo, n)}
MeetingAll(t, F, a, b, lo, n) == {s \in F : \A w \in RunsOf(t, F, s, n) : Meets(w, a, b, lo, n)}
Staying(t, F, a, lo, n) == {s \in F : \E w \in RunsOf(t, F, s, n) : Holding(a, w, lo + 1, n + 1)}

\* The states of F with a step into S, and those with none out of S.
Before(t, F, S) == {s \in F : Successors(t, s) \cap F \cap S # {}}
BeforeAll(t, F, S) == {s \in F : Successors(t, s) \cap F \subseteq S}

\* What a sequence meets, in terms of what comes after its first element.
After(a, b, lo, n, w, v) ==
    /\ lo # 0 => (Meets(w, a, b, lo, n) <=> w[1] \in a /\ Meets(v, a, b, lo - 1, n - 1))
    /\ lo # 0 => (Holding(a, w, lo + 1, n + 1) <=> Holding(a, v, (lo - 1) + 1, (n - 1) + 1))
    /\ Meets(w, a, b, 0, n) <=> w[1] \in b \/ (w[1] \in a /\ Meets(v, a, b, 0, n - 1))
    /\ Holding(a, w, 0 + 1, n + 1) <=> w[1] \in a /\ Holding(a, v, 0 + 1, (n - 1) + 1)

LEMMA MeetsAfter ==
    ASSUME NEW n \in Nat, n # 0, NEW lo \in 0..n, NEW a, NEW b,
           NEW w, NEW v, Follows(w, v, n)
    PROVE  After(a, b, lo, n, w, v)
<1> USE DEF Follows
<1>1. ASSUME NEW l \in 0..n, NEW k \in l..n, k # 0, w[k + 1] \in b, Holding(a, w, 1, k)
      PROVE  w[1] \in a /\ \A x \in Nat : x <= k - 1 => Meets(v, a, b, x, n - 1)
  <2>1. w[1] \in a /\ \A j \in 1..(k - 1) : v[j] \in a
    <3>1. 1 \in 1..k /\ \A j \in 1..(k - 1) : j + 1 \in 1..k /\ j \in 1..n
      BY <1>1
    <3> QED
      BY <1>1, <3>1 DEF Holding
  <2>2. k \in 1..n /\ v[k] \in b /\ (k - 1) + 1 = k
    BY <1>1
  <2>3. ASSUME NEW x \in Nat, x <= k - 1 PROVE Meets(v, a, b, x, n - 1)
    <3>1. k - 1 \in x..(n - 1) /\ v[(k - 1) + 1] \in b /\ Holding(a, v, 1, k - 1)
      BY <2>1, <2>2, <2>3 DEF Holding
    <3> QED
      BY <3>1 DEF Meets
  <2> QED
    BY <2>1, <2>3
<1>2. ASSUME w[1] \in a, NEW x \in Nat, x <= n - 1, Meets(v, a, b, x, n - 1)
      PROVE  \A l \in 0..(x + 1) : Meets(w, a, b, l, n)
  <2>1. PICK k \in x..(n - 1) : v[k + 1] \in b /\ Holding(a, v, 1, k)
    BY <1>2 DEF Meets
  <2>2. k + 1 \in 1..n /\ w[(k + 1) + 1] \in b
    BY <2>1, <1>2
  <2>3. Holding(a, w, 1, k + 1)
    <3> SUFFICES ASSUME NEW j \in 1..(k + 1), j # 1 PROVE w[j] \in a
      BY <1>2 DEF Holding
    <3>1. j - 1 \in 1..k /\ j - 1 \in 1..n /\ (j - 1) + 1 = j
      BY <1>2
    <3> QED
      BY <2>1, <3>1 DEF Holding
  <2>4. ASSUME NEW l \in 0..(x + 1) PROVE k + 1 \in l..n
    BY <1>2
  <2> QED
    BY <2>2, <2>3, <2>4 DEF Meets
<1>3. lo # 0 => (Meets(w, a, b, lo, n) <=> w[1] \in a /\ Meets(v, a, b, lo - 1, n - 1))
  <2>1. ASSUME lo # 0, Meets(w, a, b, lo, n) PROVE w[1] \in a /\ Meets(v, a, b, lo - 1, n - 1)
    <3>1. PICK k \in lo..n : w[k + 1] \in b /\ Holding(a, w, 1, k)
      BY <2>1 DEF Meets
    <3>2. k # 0 /\ lo - 1 \in Nat /\ lo - 1 <= k - 1
      BY <2>1
    <3> QED
      BY <1>1, <3>1, <3>2
  <2>2. ASSUME lo # 0, w[1] \in a, Meets(v, a, b, lo - 1, n - 1) PROVE Meets(w, a, b, lo, n)
    <3>1. lo - 1 \in Nat /\ lo - 1 <= n - 1 /\ lo \in 0..((lo - 1) + 1)
      BY <2>2
    <3> QED
      BY <1>2, <2>2, <3>1
  <2> QED
    BY <2>1, <2>2
<1>4. Meets(w, a, b, 0, n) <=> w[1] \in b \/ (w[1] \in a /\ Meets(v, a, b, 0, n - 1))
  <2>1. ASSUME Meets(w, a, b, 0, n), w[1] \notin b PROVE w[1] \in a /\ Meets(v, a, b, 0, n - 1)
    <3>1. PICK k \in 0..n : w[k + 1] \in b /\ Holding(a, w, 1, k)
      BY <2>1 DEF Meets
    <3>2. k # 0 /\ 0 \in 0..n /\ 0 <= k - 1
      <4>1. k # 0
        BY <2>1, <3>1
      <4> QED
        BY <4>1
    <3> QED
      BY <1>1, <3>1, <3>2
  <2>2. ASSUME w[1] \in b PROVE Meets(w, a, b, 0, n)
    <3>1. 0 \in 0..n /\ w[0 + 1] \in b /\ Holding(a, w, 1, 0)
      BY <2>2 DEF Holding
    <3> QED
      BY <3>1 DEF Meets
  <2>3. ASSUME w[1] \in a, Meets(v, a, b, 0, n - 1) PROVE Meets(w, a, b, 0, n)
    <3>1. 0 <= n - 1 /\ 0 \in 0..(0 + 1)
      OBVIOUS
    <3> QED
      BY <1>2, <2>3, <3>1
  <2> QED
    BY <2>1, <2>2, <2>3
<1>5. lo # 0 => (Holding(a, w, lo + 1, n + 1) <=> Holding(a, v, (lo - 1) + 1, (n - 1) + 1))
  <2> SUFFICES ASSUME lo # 0
               PROVE  (\A k \in (lo + 1)..(n + 1) : w[k] \in a)
                        <=> (\A k \in lo..n : v[k] \in a)
    BY DEF Holding
  <2>1. \A k \in (lo + 1)..(n + 1) : k - 1 \in lo..n /\ k - 1 \in 1..n /\ (k - 1) + 1 = k
    OBVIOUS
  <2>2. \A k \in lo..n : k \in 1..n /\ k + 1 \in (lo + 1)..(n + 1)
    OBVIOUS
  <2>3. \A k \in (lo + 1)..(n + 1) : w[k] = v[k - 1]
    BY <2>1
  <2> QED
    BY <2>1, <2>2, <2>3
<1>6. Holding(a, w, 0 + 1, n + 1) <=> w[1] \in a /\ Holding(a, v, 0 + 1, (n - 1) + 1)
  <2> SUFFICES (\A k \in 1..(n + 1) : w[k] \in a)
                  <=> w[1] \in a /\ (\A k \in 1..n : v[k] \in a)
    BY DEF Holding
  <2>1. 1 \in 1..(n + 1) /\ \A k \in 1..n : k + 1 \in 1..(n + 1)
    OBVIOUS
  <2>2. ASSUME w[1] \in a, \A k \in 1..n : v[k] \in a, NEW k \in 1..(n + 1), k # 1
        PROVE  w[k] \in a
    <3>1. k - 1 \in 1..n /\ (k - 1) + 1 = k
      BY <2>2
    <3> QED
      BY <2>2, <3>1
  <2> QED
    BY <2>1, <2>2
<1> QED
  BY <1>3, <1>4, <1>5, <1>6 DEF After

\* Runs, by their first step.
LEMMA RunsSplit ==
    ASSUME NEW t, NEW F, NEW I, Lasting(t, F, I), NEW s \in F, NEW n \in Nat, n # 0
    PROVE  /\ \A w \in RunsOf(t, F, s, n) : \E q \in Successors(t, s) \cap F :
                  \E v \in RunsOf(t, F, q, n - 1) : w[1] = s /\ Follows(w, v, n)
           /\ \A q \in Successors(t, s) \cap F : \A v \in RunsOf(t, F, q, n - 1) :
                  \E w \in RunsOf(t, F, s, n) : w[1] = s /\ Follows(w, v, n)
           /\ \A q \in Successors(t, s) \cap F : RunsOf(t, F, q, n - 1) # {}
           /\ s \in State
<1>1. s \in State
  BY DEF Lasting
<1>2. ASSUME NEW w \in RunsOf(t, F, s, n)
      PROVE  \E q \in Successors(t, s) \cap F :
                \E v \in RunsOf(t, F, q, n - 1) : w[1] = s /\ Follows(w, v, n)
  BY RunAfter
<1>3. n - 1 \in Nat
  OBVIOUS
<1>4. \A q \in Successors(t, s) \cap F : RunsOf(t, F, q, n - 1) # {}
  BY <1>3, RunsExist
<1> QED
  BY <1>1, <1>2, <1>4, RunBefore

\* What the sets above come down to, one step earlier.
MeetingSomeStep(t, F, a, b, lo, n) ==
    /\ lo # 0 => MeetingSome(t, F, a, b, lo, n)
                   = a \cap Before(t, F, MeetingSome(t, F, a, b, lo - 1, n - 1))
    /\ MeetingSome(t, F, a, b, 0, n)
         = (F \cap b) \cup (a \cap Before(t, F, MeetingSome(t, F, a, b, 0, n - 1)))

MeetingAllStep(t, F, a, b, lo, n) ==
    /\ lo # 0 => MeetingAll(t, F, a, b, lo, n)
                   = a \cap BeforeAll(t, F, MeetingAll(t, F, a, b, lo - 1, n - 1))
    /\ MeetingAll(t, F, a, b, 0, n)
         = (F \cap b) \cup (a \cap BeforeAll(t, F, MeetingAll(t, F, a, b, 0, n - 1)))

StayingStep(t, F, a, lo, n) ==
    /\ lo # 0 => Staying(t, F, a, lo, n) = Before(t, F, Staying(t, F, a, lo - 1, n - 1))
    /\ Staying(t, F, a, 0, n) = a \cap Before(t, F, Staying(t, F, a, 0, n - 1))

LEMMA MeetingSteps ==
    ASSUME NEW t, NEW F, NEW I, Lasting(t, F, I), NEW a, NEW b,
           NEW n \in Nat, n # 0, NEW lo \in 0..n
    PROVE  MeetingSomeStep(t, F, a, b, lo, n)
<1>1. ASSUME NEW s \in F, NEW w \in RunsOf(t, F, s, n)
      PROVE  \E q \in Successors(t, s) \cap F : \E v \in RunsOf(t, F, q, n - 1) :
                /\ lo # 0 => (Meets(w, a, b, lo, n) <=> s \in a /\ Meets(v, a, b, lo - 1, n - 1))
                /\ Meets(w, a, b, 0, n) <=> s \in b \/ (s \in a /\ Meets(v, a, b, 0, n - 1))
  <2>1. PICK q \in Successors(t, s) \cap F :
                \E v \in RunsOf(t, F, q, n - 1) : w[1] = s /\ Follows(w, v, n)
    BY RunsSplit
  <2>2. PICK v \in RunsOf(t, F, q, n - 1) : w[1] = s /\ Follows(w, v, n)
    BY <2>1
  <2>3. After(a, b, lo, n, w, v)
    BY <2>2, MeetsAfter
  <2> QED
    BY <2>2, <2>3 DEF After
<1>2. ASSUME NEW s \in F, NEW q \in Successors(t, s) \cap F, NEW v \in RunsOf(t, F, q, n - 1)
      PROVE  \E w \in RunsOf(t, F, s, n) :
                /\ lo # 0 => (Meets(w, a, b, lo, n) <=> s \in a /\ Meets(v, a, b, lo - 1, n - 1))
                /\ Meets(w, a, b, 0, n) <=> s \in b \/ (s \in a /\ Meets(v, a, b, 0, n - 1))
  <2>1. PICK w \in RunsOf(t, F, s, n) : w[1] = s /\ Follows(w, v, n)
    BY RunsSplit
  <2>2. After(a, b, lo, n, w, v)
    BY <2>1, MeetsAfter
  <2> QED
    BY <2>1, <2>2 DEF After
<1>3. ASSUME lo # 0
      PROVE  MeetingSome(t, F, a, b, lo, n)
               = a \cap Before(t, F, MeetingSome(t, F, a, b, lo - 1, n - 1))
  BY <1>1, <1>2, <1>3 DEF MeetingSome, Before
<1>4. ASSUME NEW s \in F
      PROVE  s \in MeetingSome(t, F, a, b, 0, n)
               <=> s \in b \/ s \in a \cap Before(t, F, MeetingSome(t, F, a, b, 0, n - 1))
  <2>1. PICK w : w \in RunsOf(t, F, s, n)
    BY RunsExist
  <2>2. s \in b => Meets(w, a, b, 0, n)
    BY <1>1, <2>1
  <2> QED
    BY <1>1, <1>2, <2>1, <2>2 DEF MeetingSome, Before
<1>5. MeetingSome(t, F, a, b, 0, n) \subseteq F /\ \A S : Before(t, F, S) \subseteq F
  BY DEF MeetingSome, Before
<1> QED
  BY <1>3, <1>4, <1>5 DEF MeetingSomeStep

LEMMA MeetingAllSteps ==
    ASSUME NEW t, NEW F, NEW I, Lasting(t, F, I), NEW a, NEW b,
           NEW n \in Nat, n # 0, NEW lo \in 0..n
    PROVE  MeetingAllStep(t, F, a, b, lo, n)
<1>1. ASSUME NEW s \in F, NEW w \in RunsOf(t, F, s, n)
      PROVE  \E q \in Successors(t, s) \cap F : \E v \in RunsOf(t, F, q, n - 1) :
                /\ lo # 0 => (Meets(w, a, b, lo, n) <=> s \in a /\ Meets(v, a, b, lo - 1, n - 1))
                /\ Meets(w, a, b, 0, n) <=> s \in b \/ (s \in a /\ Meets(v, a, b, 0, n - 1))
  <2>1. PICK q \in Successors(t, s) \cap F :
                \E v \in RunsOf(t, F, q, n - 1) : w[1] = s /\ Follows(w, v, n)
    BY RunsSplit
  <2>2. PICK v \in RunsOf(t, F, q, n - 1) : w[1] = s /\ Follows(w, v, n)
    BY <2>1
  <2>3. After(a, b, lo, n, w, v)
    BY <2>2, MeetsAfter
  <2> QED
    BY <2>2, <2>3 DEF After
<1>2. ASSUME NEW s \in F, NEW q \in Successors(t, s) \cap F, NEW v \in RunsOf(t, F, q, n - 1)
      PROVE  \E w \in RunsOf(t, F, s, n) :
                /\ lo # 0 => (Meets(w, a, b, lo, n) <=> s \in a /\ Meets(v, a, b, lo - 1, n - 1))
                /\ Meets(w, a, b, 0, n) <=> s \in b \/ (s \in a /\ Meets(v, a, b, 0, n - 1))
  <2>1. PICK w \in RunsOf(t, F, s, n) : w[1] = s /\ Follows(w, v, n)
    BY RunsSplit
  <2>2. After(a, b, lo, n, w, v)
    BY <2>1, MeetsAfter
  <2> QED
    BY <2>1, <2>2 DEF After
<1>6. ASSUME NEW s \in F PROVE RunsOf(t, F, s, n) # {}
  BY RunsExist
<1>3. ASSUME lo # 0, NEW s \in F
      PROVE  s \in MeetingAll(t, F, a, b, lo, n)
               <=> s \in a \cap BeforeAll(t, F, MeetingAll(t, F, a, b, lo - 1, n - 1))
  BY <1>1, <1>2, <1>3, <1>6 DEF MeetingAll, BeforeAll
<1>4. ASSUME NEW s \in F
      PROVE  s \in MeetingAll(t, F, a, b, 0, n)
               <=> s \in b \/ s \in a \cap BeforeAll(t, F, MeetingAll(t, F, a, b, 0, n - 1))
  BY <1>1, <1>2, <1>6 DEF MeetingAll, BeforeAll
<1>5. MeetingAll(t, F, a, b, 0, n) \subseteq F /\ \A S : BeforeAll(t, F, S) \subseteq F
  BY DEF MeetingAll, BeforeAll
<1>7. MeetingAll(t, F, a, b, lo, n) \subseteq F
  BY DEF MeetingAll
<1> QED
  BY <1>3, <1>4, <1>5, <1>7 DEF MeetingAllStep

LEMMA StayingSteps ==
    ASSUME NEW t, NEW F, NEW I, Lasting(t, F, I), NEW a,
           NEW n \in Nat, n # 0, NEW lo \in 0..n
    PROVE  StayingStep(t, F, a, lo, n)
<1>1. ASSUME NEW s \in F, NEW w \in RunsOf(t, F, s, n)
      PROVE  \E q \in Successors(t, s) \cap F : \E v \in RunsOf(t, F, q, n - 1) :
                /\ lo # 0 => (Holding(a, w, lo + 1, n + 1) <=> Holding(a, v, (lo - 1) + 1, (n - 1) + 1))
                /\ Holding(a, w, 0 + 1, n + 1) <=> s \in a /\ Holding(a, v, 0 + 1, (n - 1) + 1)
  <2>1. PICK q \in Successors(t, s) \cap F :
                \E v \in RunsOf(t, F, q, n - 1) : w[1] = s /\ Follows(w, v, n)
    BY RunsSplit
  <2>2. PICK v \in RunsOf(t, F, q, n - 1) : w[1] = s /\ Follows(w, v, n)
    BY <2>1
  <2>3. After(a, a, lo, n, w, v)
    BY <2>2, MeetsAfter
  <2> QED
    BY <2>2, <2>3 DEF After
<1>2. ASSUME NEW s \in F, NEW q \in Successors(t, s) \cap F, NEW v \in RunsOf(t, F, q, n - 1)
      PROVE  \E w \in RunsOf(t, F, s, n) :
                /\ lo # 0 => (Holding(a, w, lo + 1, n + 1) <=> Holding(a, v, (lo - 1) + 1, (n - 1) + 1))
                /\ Holding(a, w, 0 + 1, n + 1) <=> s \in a /\ Holding(a, v, 0 + 1, (n - 1) + 1)
  <2>1. PICK w \in RunsOf(t, F, s, n) : w[1] = s /\ Follows(w, v, n)
    BY RunsSplit
  <2>2. After(a, a, lo, n, w, v)
    BY <2>1, MeetsAfter
  <2> QED
    BY <2>1, <2>2 DEF After
<1>3. ASSUME lo # 0
      PROVE  Staying(t, F, a, lo, n) = Before(t, F, Staying(t, F, a, lo - 1, n - 1))
  BY <1>1, <1>2, <1>3 DEF Staying, Before
<1>4. Staying(t, F, a, 0, n) = a \cap Before(t, F, Staying(t, F, a, 0, n - 1))
  BY <1>1, <1>2 DEF Staying, Before
<1> QED
  BY <1>3, <1>4 DEF StayingStep

\* Runs of no step.
LEMMA MeetingStart ==
    ASSUME NEW t, NEW F, F \in SUBSET State, NEW a, NEW b
    PROVE  /\ MeetingSome(t, F, a, b, 0, 0) = F \cap b
           /\ MeetingAll(t, F, a, b, 0, 0) = F \cap b
           /\ Staying(t, F, b, 0, 0) = F \cap b
<1>1. ASSUME NEW s \in F
      PROVE  /\ (\E w \in RunsOf(t, F, s, 0) : Meets(w, a, b, 0, 0)) <=> s \in b
             /\ (\A w \in RunsOf(t, F, s, 0) : Meets(w, a, b, 0, 0)) <=> s \in b
             /\ (\E w \in RunsOf(t, F, s, 0) : Holding(b, w, 0 + 1, 0 + 1)) <=> s \in b
  <2>1. RunsOf(t, F, s, 0) = {<<s>>}
    BY RunNone
  <2>2. 0..0 = {0} /\ 1..0 = {} /\ (0 + 1)..(0 + 1) = {1} /\ <<s>>[0 + 1] = s
    OBVIOUS
  <2>3. \A w \in RunsOf(t, F, s, 0) : Meets(w, a, b, 0, 0) <=> s \in b
    BY <2>1, <2>2 DEF Meets, Holding
  <2>4. \A w \in RunsOf(t, F, s, 0) : Holding(b, w, 0 + 1, 0 + 1) <=> s \in b
    BY <2>1, <2>2 DEF Holding
  <2>5. RunsOf(t, F, s, 0) # {}
    BY <2>1
  <2> QED
    BY <2>3, <2>4, <2>5, ZenonT(30)
<1>2. MeetingSome(t, F, a, b, 0, 0) = F \cap b
  BY <1>1, Zenon DEF MeetingSome
<1>3. MeetingAll(t, F, a, b, 0, 0) = F \cap b
  BY <1>1, Zenon DEF MeetingAll
<1>4. Staying(t, F, b, 0, 0) = F \cap b
  BY <1>1, Zenon DEF Staying
<1> QED
  BY <1>2, <1>3, <1>4

\* Sets that are each S and what a monotone G makes of the one before only grow;
\* so each is the one before and what G makes of it.
Upward(X, A, G) ==
    /\ A \in [Nat -> SUBSET X] /\ G \in [SUBSET X -> SUBSET X]
    /\ \A P, Q \in SUBSET X : P \subseteq Q => G[P] \subseteq G[Q]
    /\ \A n \in Nat \ {0} : A[n] = A[0] \cup G[A[n - 1]]

LEMMA Accumulates ==
    ASSUME NEW X, NEW A, NEW G, Upward(X, A, G)
    PROVE  \A n \in Nat \ {0} : A[n] = A[n - 1] \cup G[A[n - 1]]
<1> DEFINE T == {n \in Nat : n # 0 => A[n - 1] \subseteq A[n]}
<1>0. /\ A \in [Nat -> SUBSET X] /\ G \in [SUBSET X -> SUBSET X]
      /\ \A P, Q \in SUBSET X : P \subseteq Q => G[P] \subseteq G[Q]
      /\ \A n \in Nat \ {0} : A[n] = A[0] \cup G[A[n - 1]]
  BY DEF Upward
<1>1. ASSUME NEW n \in Nat, \A k \in Nat : k < n => k \in T, n # 0 PROVE A[n - 1] \subseteq A[n]
  <2>1. n - 1 \in Nat /\ n - 1 < n /\ A[n] = A[0] \cup G[A[n - 1]]
    BY <1>0, <1>1
  <2>2. CASE n - 1 = 0
    BY <1>0, <2>1, <2>2
  <2>3. CASE n - 1 # 0
    <3>1. (n - 1) - 1 \in Nat /\ A[(n - 1) - 1] \subseteq A[n - 1]
      BY <1>1, <2>1, <2>3
    <3>2. A[n - 1] = A[0] \cup G[A[(n - 1) - 1]]
      BY <1>0, <2>1, <2>3
    <3>3. G[A[(n - 1) - 1]] \subseteq G[A[n - 1]]
      BY <1>0, <2>1, <3>1
    <3> QED
      BY <2>1, <3>2, <3>3
  <2> QED
    BY <2>2, <2>3
<1>2. \A n \in Nat : (\A k \in Nat : k < n => k \in T) => n \in T
  BY <1>1
<1>3. T \in SUBSET Nat
  OBVIOUS
<1> HIDE DEF T
<1>4. T = Nat
  BY <1>2, <1>3, Induction
<1>5. ASSUME NEW n \in Nat \ {0} PROVE A[n] = A[n - 1] \cup G[A[n - 1]]
  <2>3. n \in T
    BY <1>4
  <2>1. n - 1 \in Nat /\ A[n] = A[0] \cup G[A[n - 1]] /\ A[n - 1] \subseteq A[n]
    BY <1>0, <2>3 DEF T
  <2>2. A[0] \subseteq A[n - 1]
    BY <1>0, <2>1
  <2> QED
    BY <2>1, <2>2
<1> QED
  BY <1>5

\* The same, downwards.
Downward(X, A, G) ==
    /\ A \in [Nat -> SUBSET X] /\ G \in [SUBSET X -> SUBSET X]
    /\ \A P, Q \in SUBSET X : P \subseteq Q => G[P] \subseteq G[Q]
    /\ \A n \in Nat \ {0} : A[n] = A[0] \cap G[A[n - 1]]

LEMMA Restricts ==
    ASSUME NEW X, NEW A, NEW G, Downward(X, A, G)
    PROVE  \A n \in Nat \ {0} : A[n] = A[n - 1] \cap G[A[n - 1]]
<1> DEFINE T == {n \in Nat : n # 0 => A[n] \subseteq A[n - 1]}
<1>0. /\ A \in [Nat -> SUBSET X] /\ G \in [SUBSET X -> SUBSET X]
      /\ \A P, Q \in SUBSET X : P \subseteq Q => G[P] \subseteq G[Q]
      /\ \A n \in Nat \ {0} : A[n] = A[0] \cap G[A[n - 1]]
  BY DEF Downward
<1>1. ASSUME NEW n \in Nat, \A k \in Nat : k < n => k \in T, n # 0 PROVE A[n] \subseteq A[n - 1]
  <2>1. n - 1 \in Nat /\ n - 1 < n /\ A[n] = A[0] \cap G[A[n - 1]]
    BY <1>0, <1>1
  <2>2. CASE n - 1 = 0
    BY <1>0, <2>1, <2>2
  <2>3. CASE n - 1 # 0
    <3>1. (n - 1) - 1 \in Nat /\ A[n - 1] \subseteq A[(n - 1) - 1]
      BY <1>1, <2>1, <2>3
    <3>2. A[n - 1] = A[0] \cap G[A[(n - 1) - 1]]
      BY <1>0, <2>1, <2>3
    <3>3. G[A[n - 1]] \subseteq G[A[(n - 1) - 1]]
      BY <1>0, <2>1, <3>1
    <3> QED
      BY <2>1, <3>2, <3>3
  <2> QED
    BY <2>2, <2>3
<1>2. \A n \in Nat : (\A k \in Nat : k < n => k \in T) => n \in T
  BY <1>1
<1>3. T \in SUBSET Nat
  OBVIOUS
<1> HIDE DEF T
<1>4. T = Nat
  BY <1>2, <1>3, Induction
<1>5. ASSUME NEW n \in Nat \ {0} PROVE A[n] = A[n - 1] \cap G[A[n - 1]]
  <2>3. n \in T
    BY <1>4
  <2>1. n - 1 \in Nat /\ A[n] = A[0] \cap G[A[n - 1]] /\ A[n] \subseteq A[n - 1]
    BY <1>0, <2>3 DEF T
  <2>2. A[n - 1] \subseteq A[0]
    BY <1>0, <2>1
  <2> QED
    BY <2>1, <2>2
<1> QED
  BY <1>5

\* A round that changes nothing is the last one that matters.
LEMMA Settles ==
    ASSUME NEW A, NEW G, \A n \in Nat \ {0} : A[n] = G[A[n - 1]],
           NEW k \in Nat \ {0}, A[k] = A[k - 1]
    PROVE  \A m \in Nat : m >= k => A[m] = A[k]
<1> DEFINE T == {m \in Nat : m >= k => A[m] = A[k]}
<1>1. ASSUME NEW m \in Nat, \A j \in Nat : j < m => j \in T, m >= k PROVE A[m] = A[k]
  <2> SUFFICES ASSUME m # k PROVE A[m] = A[k]
    OBVIOUS
  <2>1. m - 1 \in Nat /\ m - 1 < m /\ m - 1 >= k /\ m \in Nat \ {0}
    BY <1>1
  <2>2. A[m - 1] = A[k]
    BY <1>1, <2>1
  <2> QED
    BY <2>1, <2>2
<1>2. \A m \in Nat : (\A j \in Nat : j < m => j \in T) => m \in T
  BY <1>1
<1>3. T \in SUBSET Nat
  OBVIOUS
<1> HIDE DEF T
<1>4. T = Nat
  BY <1>2, <1>3, Induction
<1> QED
  BY <1>4 DEF T

-----------------------------------------------------------------------------
(* Where paths lead to.                                                    *)

\* The states of F that a path of at most n steps leads to from a state of F
\* and a.
Arrived(t, F, a, n) ==
    {q \in F : \E s \in F \cap a : \E w \in PathsOf(t, s, n) : w[Len(w)] = q}

\* The states of F a step leads to from S.
StepsOn(t, F, S) == {q \in F : \E p \in S : q \in Successors(t, p)}

LEMMA ArrivedStart ==
    ASSUME NEW t, NEW F \in SUBSET State, NEW a
    PROVE  Arrived(t, F, a, 0) = F \cap a
<1>1. \A s \in F : PathsOf(t, s, 0) = {<<s>>}
  BY PathsStart
<1>2. \A s \in F : <<s>>[Len(<<s>>)] = s
  OBVIOUS
<1> QED
  BY <1>1, <1>2, ZenonT(60) DEF Arrived

ArrivedStep(t, F, a, n) ==
    Arrived(t, F, a, n) = Arrived(t, F, a, n - 1) \cup StepsOn(t, F, Arrived(t, F, a, n - 1))

LEMMA ArrivedNext ==
    ASSUME NEW t, NEW F, NEW I, Lasting(t, F, I), NEW a, NEW n \in Nat, n # 0
    PROVE  ArrivedStep(t, F, a, n)
<1>1. I \in SUBSET State /\ F \in SUBSET I /\ n - 1 \in Nat
  BY DEF Lasting
<1>2. ASSUME NEW s \in F
      PROVE  PathsOf(t, s, n) =
               PathsOf(t, s, n - 1) \cup UNION {Extended(t, w) : w \in PathsOf(t, s, n - 1)}
  <2>1. \A k \in Nat : PathsOf(t, s, k + 1) =
               PathsOf(t, s, k) \cup UNION {Extended(t, w) : w \in PathsOf(t, s, k)}
    BY <1>1, PathsLonger
  <2>2. (n - 1) + 1 = n
    OBVIOUS
  <2> QED
    BY <1>1, <2>1, <2>2
<1>3. ASSUME NEW s \in F, NEW w \in PathsOf(t, s, n - 1), NEW q \in Successors(t, w[Len(w)])
      PROVE  Append(w, q)[Len(Append(w, q))] = q
  <2>1. w \in Seq(State)
    BY DEF PathsOf
  <2> QED
    BY <2>1
<1>4. ASSUME NEW q \in Arrived(t, F, a, n), q \notin Arrived(t, F, a, n - 1)
      PROVE  q \in StepsOn(t, F, Arrived(t, F, a, n - 1))
  <2>1. PICK s \in F \cap a : \E w \in PathsOf(t, s, n) : w[Len(w)] = q
    BY DEF Arrived
  <2>2. PICK w \in PathsOf(t, s, n) : w[Len(w)] = q
    BY <2>1
  <2>3. q \in F /\ w \notin PathsOf(t, s, n - 1)
    BY <1>4, <2>2 DEF Arrived
  <2>4. PICK v \in PathsOf(t, s, n - 1) : w \in Extended(t, v)
    BY <1>2, <2>3
  <2>5. q \in Successors(t, v[Len(v)])
    BY <1>3, <2>2, <2>4 DEF Extended
  <2>6. v[Len(v)] \in I
    <3>1. v \in Seq(State) /\ Len(v) \in Nat /\ Len(v) # 0 /\ v[1] = s
          /\ \A k \in 1..(Len(v) - 1) : v[k + 1] \in Successors(t, v[k])
      BY DEF PathsOf
    <3> DEFINE T == {k \in Nat : k \in 1..Len(v) => v[k] \in I}
    <3>2. ASSUME NEW k \in Nat, \A j \in Nat : j < k => j \in T, k \in 1..Len(v) PROVE v[k] \in I
      <4>1. CASE k = 1
        BY <1>1, <3>1, <4>1
      <4>2. CASE k # 1
        <5>1. k - 1 \in 1..(Len(v) - 1) /\ k - 1 \in 1..Len(v) /\ (k - 1) + 1 = k /\ k - 1 < k
              /\ k - 1 \in Nat
          BY <3>1, <3>2, <4>2
        <5>2. v[k - 1] \in I /\ v[(k - 1) + 1] \in Successors(t, v[k - 1])
          BY <3>1, <3>2, <5>1
        <5> QED
          BY <5>1, <5>2 DEF Lasting
      <4> QED
        BY <4>1, <4>2
    <3>3. \A k \in Nat : (\A j \in Nat : j < k => j \in T) => k \in T
      BY <3>2
    <3>4. T \in SUBSET Nat
      OBVIOUS
    <3> HIDE DEF T
    <3>5. T = Nat
      BY <3>3, <3>4, Induction
    <3>6. Len(v) \in T /\ Len(v) \in 1..Len(v)
      BY <3>1, <3>5
    <3> QED
      BY <3>6 DEF T
  <2>7. v[Len(v)] \in F
    BY <2>3, <2>5, <2>6 DEF Lasting
  <2>8. v[Len(v)] \in Arrived(t, F, a, n - 1)
    BY <2>7 DEF Arrived
  <2> QED
    BY <2>3, <2>5, <2>8 DEF StepsOn
<1>5. Arrived(t, F, a, n - 1) \subseteq Arrived(t, F, a, n)
  BY <1>2 DEF Arrived
<1>6. ASSUME NEW q \in StepsOn(t, F, Arrived(t, F, a, n - 1)) PROVE q \in Arrived(t, F, a, n)
  <2>1. PICK p \in Arrived(t, F, a, n - 1) : q \in Successors(t, p)
    BY DEF StepsOn
  <2>2. PICK s \in F \cap a : \E w \in PathsOf(t, s, n - 1) : w[Len(w)] = p
    BY DEF Arrived
  <2>3. PICK w \in PathsOf(t, s, n - 1) : w[Len(w)] = p
    BY <2>2
  <2>4. Append(w, q) \in PathsOf(t, s, n)
    <3>1. Append(w, q) \in Extended(t, w)
      BY <2>1, <2>3 DEF Extended
    <3>2. s \in F
      OBVIOUS
    <3> QED
      BY <1>2, <3>1, <3>2
  <2>5. Append(w, q)[Len(Append(w, q))] = q
    BY <1>3, <2>1, <2>3
  <2> QED
    BY <2>4, <2>5 DEF Arrived, StepsOn
<1> QED
  BY <1>4, <1>5, <1>6 DEF ArrivedStep

\* As many steps as there are states lead everywhere.
LEMMA ArrivedAll ==
    ASSUME NEW t, NEW F, NEW I, Lasting(t, F, I), NEW a
    PROVE  \A m \in Nat : m >= Cardinality(State) =>
               Arrived(t, F, a, m) = Arrived(t, F, a, Cardinality(State))
<1>1. F \in SUBSET State /\ Cardinality(State) \in Nat /\ IsFiniteSet(State)
  BY FsmAssumption, FS_CardinalityType DEF Lasting
<1> DEFINE c == Cardinality(State)
           A == [n \in Nat |-> Arrived(t, F, a, n)]
           G == [S \in SUBSET State |-> (S \cup StepsOn(t, F, S)) \cap State]
<1>2. ASSUME NEW n \in Nat \ {0} PROVE A[n] = G[A[n - 1]] /\ A[n - 1] \subseteq A[n]
  <2>1. n \in Nat /\ n - 1 \in Nat /\ n # 0
    OBVIOUS
  <2>2. ArrivedStep(t, F, a, n)
    BY <2>1, ArrivedNext
  <2>3. Arrived(t, F, a, n) \in SUBSET State /\ Arrived(t, F, a, n - 1) \in SUBSET State
    BY <1>1 DEF Arrived
  <2> QED
    BY <2>1, <2>2, <2>3 DEF ArrivedStep
<1>3. A \in [Nat -> SUBSET State] /\ G \in [SUBSET State -> SUBSET State]
  BY <1>1 DEF Arrived
<1> HIDE DEF A, G
<1>4. ASSUME NEW k \in Nat PROVE A[k + 1] = G[A[k]] /\ A[k] \subseteq A[k + 1]
  <2>1. k + 1 \in Nat \ {0} /\ (k + 1) - 1 = k
    OBVIOUS
  <2>2. A[k + 1] = G[A[(k + 1) - 1]] /\ A[(k + 1) - 1] \subseteq A[k + 1]
    BY <1>2, <2>1
  <2> QED
    BY <2>1, <2>2
<1>5. A[c + 1] = A[c]
  BY <1>1, <1>3, <1>4, Saturates
<1>6. c + 1 \in Nat \ {0} /\ (c + 1) - 1 = c /\ c \in Nat
  BY <1>1
<1> HIDE DEF c
<1>7. ASSUME NEW m \in Nat, m >= c PROVE A[m] = A[c]
  <2>1. CASE m = c
    BY <2>1
  <2>2. CASE m # c
    <3> DEFINE d == c + 1
    <3>1. d \in Nat \ {0} /\ d - 1 = c /\ A[d] = A[d - 1] /\ m >= d
      BY <1>5, <1>6, <1>7, <2>2
    <3> HIDE DEF d
    <3>2. A[m] = A[d]
      BY <1>2, <3>1, Settles
    <3> QED
      BY <3>1, <3>2
  <2> QED
    BY <2>1, <2>2
<1>8. ASSUME NEW m \in Nat, m >= c PROVE Arrived(t, F, a, m) = Arrived(t, F, a, c)
  BY <1>6, <1>7, <1>8 DEF A
<1> QED
  BY <1>8 DEF c

=============================================================================
