---------------------------- MODULE ExplainProofs ----------------------------
(***************************************************************************)
(* Proofs about the search for a path that explains a formula, whatever    *)
(* the formulas, the relation and the choices of states and inputs:        *)
(*   - the path returned is one of the FSM, from the state it was asked    *)
(*     for (PathCorrect);                                                  *)
(*   - the search for a fair loop never gets stuck (LoopCorrect) and gives *)
(*     a loop up only where there is none (GiveUpCorrect);                 *)
(*   - the searches for an until are shortest ones (ShortestCorrect);      *)
(*   - an assertion fails only on a state that is not fair, which only     *)
(*     the client can have asked about (AssertionCorrect).                    *)
(*                                                                         *)
(* While a search runs, the path has three parts: single states joined by  *)
(* transitions up to some position, then sets of states each linked to the *)
(* one before, then, once the search turns back, single states again.      *)
(* Inv says so; the other invariants add to it what the search has seen.   *)
(***************************************************************************)
EXTENDS Explain, ImageProofs

\* A legal transition.
Allowed(t, x, j, y) == <<x, j, y>> \in t /\ x \in Invar /\ j \in InvarInput /\ y \in Invar

Alone(S) == \E x \in State : S = {x}

\* One state, one transition, one state.
Joined(t, s, k, u) == \E x, y \in State, j \in Input :
    s = {x} /\ k = {j} /\ u = {y} /\ Allowed(t, x, j, y)

\* Every state of u comes from a state of s.
Linked(t, s, k, u) == \A y \in u : \E x \in s, j \in k : Allowed(t, x, j, y)

\* The sets of a path.
Sets(ss, is) == /\ ss \in Seq(SUBSET State) /\ is \in Seq(SUBSET Input)
                /\ Len(ss) >= 1 /\ Len(ss) = Len(is) + 1

\* Up to n, a path from s0.
Prefix(t, s0, ss, is, n) ==
    /\ Sets(ss, is) /\ n \in 1..Len(ss)
    /\ ss[1] = {s0} /\ Alone(ss[n])
    /\ \A m \in 1..(n - 1) : Joined(t, ss[m], is[m], ss[m + 1])

\* From n to l, sets linked through F, and through G from b on.
Chain(t, ss, is, n, l, F, G, b) ==
    \A m \in n..(l - 1) : Linked(t, ss[m] \cap (IF m < b THEN F ELSE G), is[m], ss[m + 1])

\* From n on, a path.
Settled(t, ss, is, n) ==
    /\ n \in 1..Len(ss)
    /\ Alone(ss[n])
    /\ \A m \in n..(Len(ss) - 1) : Joined(t, ss[m], is[m], ss[m + 1])

-----------------------------------------------------------------------------
(* What extending, cutting and instantiating a path does to its parts.     *)

LEMMA SetsLength ==
    ASSUME NEW ss, NEW is, Sets(ss, is)
    PROVE  /\ ss \in Seq(SUBSET State) /\ is \in Seq(SUBSET Input)
           /\ Len(ss) \in Nat /\ Len(is) \in Nat /\ Len(ss) >= 1 /\ Len(ss) = Len(is) + 1
  BY DEF Sets

\* The same path up to n.
Same(ss, ss2, n) == \A m \in 1..n : ss2[m] = ss[m]

\* n sets more.
Grows(ss, is, ss2, is2, n) ==
    /\ Sets(ss2, is2) /\ Len(ss2) = Len(ss) + n
    /\ \A m \in 1..Len(ss) : ss2[m] = ss[m]
    /\ \A m \in 1..Len(is) : is2[m] = is[m]

LEMMA PrefixGrows ==
    ASSUME NEW t, NEW s0, NEW ss, NEW is, NEW ss2, NEW is2, NEW n, NEW k \in Nat,
           Prefix(t, s0, ss, is, n), Grows(ss, is, ss2, is2, k)
    PROVE  Prefix(t, s0, ss2, is2, n)
<1>1. /\ Sets(ss, is) /\ n \in 1..Len(ss) /\ Sets(ss2, is2) /\ Len(ss2) = Len(ss) + k
      /\ Len(is) \in Nat /\ Len(ss) = Len(is) + 1
      /\ \A m \in 1..Len(ss) : ss2[m] = ss[m]
      /\ \A m \in 1..Len(is) : is2[m] = is[m]
      /\ ss[1] = {s0} /\ Alone(ss[n])
      /\ \A m \in 1..(n - 1) : Joined(t, ss[m], is[m], ss[m + 1])
  BY SetsLength DEF Prefix, Grows
<1>2. n \in 1..Len(ss2) /\ ss2[1] = {s0} /\ Alone(ss2[n])
  BY <1>1
<1>3. ASSUME NEW m \in 1..(n - 1)
      PROVE  Joined(t, ss2[m], is2[m], ss2[m + 1])
  <2>1. m \in 1..Len(ss) /\ m \in 1..Len(is) /\ m + 1 \in 1..Len(ss)
    BY <1>1
  <2>2. ss2[m] = ss[m] /\ is2[m] = is[m] /\ ss2[m + 1] = ss[m + 1]
    BY <1>1, <2>1
  <2> QED
    BY <1>1, <2>2
<1> QED
  BY <1>1, <1>2, <1>3 DEF Prefix

LEMMA ChainGrows ==
    ASSUME NEW t, NEW ss, NEW is, NEW ss2, NEW is2, NEW n \in Nat \ {0}, NEW k \in Nat,
           NEW F, NEW G, NEW b,
           Sets(ss, is), Chain(t, ss, is, n, Len(ss), F, G, b), Grows(ss, is, ss2, is2, k),
           Chain(t, ss2, is2, Len(ss), Len(ss2), F, G, b)
    PROVE  Chain(t, ss2, is2, n, Len(ss2), F, G, b)
<1>1. /\ Len(is) \in Nat /\ Len(ss) = Len(is) + 1 /\ Len(ss2) = Len(ss) + k
      /\ \A m \in 1..Len(ss) : ss2[m] = ss[m]
      /\ \A m \in 1..Len(is) : is2[m] = is[m]
  BY SetsLength DEF Grows
<1>2. ASSUME NEW m \in n..(Len(ss2) - 1)
      PROVE  Linked(t, ss2[m] \cap (IF m < b THEN F ELSE G), is2[m], ss2[m + 1])
  <2>1. CASE m < Len(ss)
    <3>1. m \in 1..Len(ss) /\ m \in 1..Len(is) /\ m + 1 \in 1..Len(ss) /\ m \in n..(Len(ss) - 1)
      BY <1>1, <2>1
    <3>2. ss2[m] = ss[m] /\ is2[m] = is[m] /\ ss2[m + 1] = ss[m + 1]
      BY <1>1, <3>1
    <3> QED
      BY <3>1, <3>2 DEF Chain
  <2>2. CASE ~(m < Len(ss))
    <3>1. m \in Len(ss)..(Len(ss2) - 1)
      BY <1>1, <2>2
    <3> QED
      BY <3>1 DEF Chain
  <2> QED
    BY <2>1, <2>2
<1> QED
  BY <1>2 DEF Chain

\* The beginning of a path, cut behind it or inside it.
LEMMA PrefixCut ==
    ASSUME NEW t, NEW s0, NEW ss, NEW is, NEW n, Prefix(t, s0, ss, is, n),
           NEW k \in 1..Len(ss)
    PROVE  /\ Len(SubSeq(ss, 1, k)) = k
           /\ Same(ss, SubSeq(ss, 1, k), k)
           /\ n <= k => Prefix(t, s0, SubSeq(ss, 1, k), SubSeq(is, 1, k - 1), n)
           /\ k <= n => Prefix(t, s0, SubSeq(ss, 1, k), SubSeq(is, 1, k - 1), k)
<1> DEFINE a == SubSeq(ss, 1, k)
           c == SubSeq(is, 1, k - 1)
<1>1. /\ Sets(ss, is) /\ n \in 1..Len(ss) /\ ss[1] = {s0} /\ Alone(ss[n])
      /\ ss \in Seq(SUBSET State) /\ is \in Seq(SUBSET Input)
      /\ Len(ss) \in Nat /\ Len(is) \in Nat /\ Len(ss) = Len(is) + 1
      /\ \A m \in 1..(n - 1) : Joined(t, ss[m], is[m], ss[m + 1])
  BY SetsLength DEF Prefix
<1>2. a \in Seq(SUBSET State) /\ Len(a) = k /\ \A m \in 1..k : a[m] = ss[m]
  BY <1>1
<1>3. c \in Seq(SUBSET Input) /\ Len(c) = k - 1 /\ \A m \in 1..(k - 1) : c[m] = is[m]
  BY <1>1
<1>4. Sets(a, c)
  BY <1>2, <1>3 DEF Sets
<1> HIDE DEF a, c
<1>5. ASSUME NEW l \in 1..k, l <= n, Alone(ss[l])
      PROVE  Prefix(t, s0, a, c, l)
  <2>1. ASSUME NEW m \in 1..(l - 1)
        PROVE  Joined(t, a[m], c[m], a[m + 1])
    <3>1. m \in 1..k /\ m + 1 \in 1..k /\ m \in 1..(k - 1) /\ m \in 1..(n - 1)
      BY <1>1, <1>5, <2>1
    <3>2. a[m] = ss[m] /\ a[m + 1] = ss[m + 1] /\ c[m] = is[m]
      BY <1>2, <1>3, <3>1
    <3> QED
      BY <1>1, <3>1, <3>2
  <2> QED
    BY <1>1, <1>2, <1>4, <1>5, <2>1 DEF Prefix
<1>6. ASSUME k <= n
      PROVE  Alone(ss[k])
  <2>1. CASE k = n
    BY <1>1, <2>1
  <2>2. CASE k # n
    <3>1. k \in 1..(n - 1)
      BY <1>1, <1>6, <2>2
    <3> QED
      BY <1>1, <3>1 DEF Joined, Alone
  <2> QED
    BY <2>1, <2>2
<1>7. n <= k => Prefix(t, s0, a, c, n)
  BY <1>1, <1>5
<1>8. k <= n => Prefix(t, s0, a, c, k)
  BY <1>5, <1>6
<1> QED
  BY <1>2, <1>7, <1>8 DEF a, c, Same

\* The set at n becomes one state of it, joined by one input.
Alters(ss, is, ss2, is2, n) ==
    /\ Sets(ss2, is2) /\ Len(ss2) = Len(ss)
    /\ \A m \in 1..Len(ss) : m # n => ss2[m] = ss[m]
    /\ \A m \in 1..Len(is) : m # n => is2[m] = is[m]
    /\ Alone(ss2[n]) /\ ss2[n] \subseteq ss[n]

LEMMA PrefixAlters ==
    ASSUME NEW t, NEW s0, NEW ss, NEW is, NEW ss2, NEW is2, NEW lo, NEW n \in Nat,
           Prefix(t, s0, ss, is, lo), Alters(ss, is, ss2, is2, n), lo <= n
    PROVE  /\ Prefix(t, s0, ss2, is2, lo)
           /\ Same(ss, ss2, lo)
<1>1. /\ Sets(ss, is) /\ lo \in 1..Len(ss) /\ Sets(ss2, is2) /\ Len(ss2) = Len(ss)
      /\ Len(ss) \in Nat /\ Len(is) \in Nat /\ Len(ss) = Len(is) + 1
      /\ \A m \in 1..Len(ss) : m # n => ss2[m] = ss[m]
      /\ \A m \in 1..Len(is) : m # n => is2[m] = is[m]
      /\ Alone(ss2[n]) /\ ss2[n] \subseteq ss[n]
      /\ ss[1] = {s0} /\ Alone(ss[lo])
      /\ \A m \in 1..(lo - 1) : Joined(t, ss[m], is[m], ss[m + 1])
  BY SetsLength DEF Prefix, Alters
<1>2. lo = n => ss2[lo] = ss[lo]
  BY <1>1 DEF Alone
<1>3. \A m \in 1..lo : ss2[m] = ss[m]
  BY <1>1, <1>2
<1>4. ss2[1] = {s0} /\ Alone(ss2[lo])
  BY <1>1, <1>3
<1>5. ASSUME NEW m \in 1..(lo - 1)
      PROVE  Joined(t, ss2[m], is2[m], ss2[m + 1])
  <2>1. m \in 1..lo /\ m \in 1..Len(is) /\ m + 1 \in 1..lo /\ m # n
    BY <1>1
  <2>2. ss2[m] = ss[m] /\ is2[m] = is[m] /\ ss2[m + 1] = ss[m + 1]
    BY <1>1, <1>3, <2>1
  <2> QED
    BY <1>1, <2>2
<1> QED
  BY <1>1, <1>3, <1>4, <1>5 DEF Prefix, Same

LEMMA ChainAlters ==
    ASSUME NEW t, NEW ss, NEW is, NEW ss2, NEW is2, NEW lo \in Nat \ {0}, NEW n \in 1..Len(ss),
           NEW F, NEW G, NEW b, Sets(ss, is),
           Chain(t, ss, is, lo, n, F, G, b), Alters(ss, is, ss2, is2, n)
    PROVE  Chain(t, ss2, is2, lo, n, F, G, b)
<1>1. /\ Len(ss) \in Nat /\ Len(is) \in Nat /\ Len(ss) = Len(is) + 1
      /\ \A m \in 1..Len(ss) : m # n => ss2[m] = ss[m]
      /\ \A m \in 1..Len(is) : m # n => is2[m] = is[m]
      /\ ss2[n] \subseteq ss[n]
  BY SetsLength DEF Alters
<1>2. ASSUME NEW m \in lo..(n - 1)
      PROVE  Linked(t, ss2[m] \cap (IF m < b THEN F ELSE G), is2[m], ss2[m + 1])
  <2>1. /\ m \in 1..Len(ss) /\ m \in 1..Len(is) /\ m + 1 \in 1..Len(ss) /\ m # n
        /\ m + 1 = n \/ m + 1 # n
    BY <1>1
  <2>2. ss2[m] = ss[m] /\ is2[m] = is[m] /\ ss2[m + 1] \subseteq ss[m + 1]
    BY <1>1, <2>1
  <2>3. Linked(t, ss[m] \cap (IF m < b THEN F ELSE G), is[m], ss[m + 1])
    BY DEF Chain
  <2> QED
    BY <2>2, <2>3 DEF Linked
<1> QED
  BY <1>2 DEF Chain

\* Turning back by one step.
LEMMA TurnsBack ==
    ASSUME NEW t, NEW s0, NEW ss, NEW is, NEW ss2, NEW is2, NEW lo, NEW n \in Nat, NEW hi,
           hi = n + 1, NEW F, NEW G, NEW b,
           Prefix(t, s0, ss, is, lo), lo < hi, Chain(t, ss, is, lo, hi, F, G, b),
           Settled(t, ss, is, hi), Alters(ss, is, ss2, is2, n),
           Joined(t, ss2[n], is2[n], ss[hi])
    PROVE  /\ Prefix(t, s0, ss2, is2, lo)
           /\ Same(ss, ss2, lo)
           /\ Chain(t, ss2, is2, lo, n, F, G, b)
           /\ Settled(t, ss2, is2, n)
           /\ ss2[Len(ss2)] = ss[Len(ss)]
<1>1. /\ Sets(ss, is) /\ lo \in 1..Len(ss) /\ hi \in 1..Len(ss)
      /\ Len(ss) \in Nat /\ Len(is) \in Nat /\ Len(ss) = Len(is) + 1
      /\ lo \in Nat \ {0} /\ lo <= n /\ n \in 1..Len(ss)
      /\ \A m \in hi..(Len(ss) - 1) : Joined(t, ss[m], is[m], ss[m + 1])
  BY SetsLength DEF Prefix, Settled
<1>2. /\ Len(ss2) = Len(ss)
      /\ \A m \in 1..Len(ss) : m # n => ss2[m] = ss[m]
      /\ \A m \in 1..Len(is) : m # n => is2[m] = is[m]
      /\ Alone(ss2[n])
  BY DEF Alters
<1>3. Prefix(t, s0, ss2, is2, lo) /\ Same(ss, ss2, lo)
  <2>1. lo <= n
    BY <1>1
  <2>2. Prefix(t, s0, ss2, is2, lo)
    BY <2>1, PrefixAlters
  <2>3. Same(ss, ss2, lo)
    BY <2>1, PrefixAlters
  <2> QED
    BY <2>2, <2>3
<1>4. Chain(t, ss, is, lo, n, F, G, b)
  <2>1. \A m \in lo..(n - 1) : m \in lo..(hi - 1)
    BY <1>1
  <2> QED
    BY <2>1 DEF Chain
<1>5. Chain(t, ss2, is2, lo, n, F, G, b)
  BY <1>1, <1>4, ChainAlters
<1>6. ASSUME NEW m \in (n)..(Len(ss2) - 1)
      PROVE  Joined(t, ss2[m], is2[m], ss2[m + 1])
  <2>1. CASE m = n
    <3>1. m + 1 = hi /\ ss2[hi] = ss[hi]
      BY <1>1, <1>2, <2>1
    <3> QED
      BY <2>1, <3>1
  <2>2. CASE m # n
    <3>1. /\ m \in hi..(Len(ss) - 1) /\ m \in 1..Len(ss) /\ m \in 1..Len(is)
          /\ m + 1 \in 1..Len(ss) /\ m + 1 # n
      BY <1>1, <1>2, <2>2
    <3>2. ss2[m] = ss[m] /\ is2[m] = is[m] /\ ss2[m + 1] = ss[m + 1]
      BY <1>2, <2>2, <3>1
    <3> QED
      BY <1>1, <3>1, <3>2
  <2> QED
    BY <2>1, <2>2
<1>7. Settled(t, ss2, is2, n)
  BY <1>1, <1>2, <1>6 DEF Settled
<1>8. ss2[Len(ss2)] = ss[Len(ss)]
  BY <1>1, <1>2
<1> QED
  BY <1>3, <1>5, <1>7, <1>8

\* Back where the single states end, the whole path is one.
LEMMA WholePath ==
    ASSUME NEW t, NEW s0, NEW ss, NEW is, NEW n,
           Prefix(t, s0, ss, is, n), Settled(t, ss, is, n)
    PROVE  Prefix(t, s0, ss, is, Len(ss))
<1>1. /\ Sets(ss, is) /\ n \in 1..Len(ss) /\ ss[1] = {s0} /\ Alone(ss[n])
      /\ Len(ss) \in Nat /\ Len(ss) >= 1
      /\ \A m \in 1..(n - 1) : Joined(t, ss[m], is[m], ss[m + 1])
      /\ \A m \in n..(Len(ss) - 1) : Joined(t, ss[m], is[m], ss[m + 1])
  BY SetsLength DEF Prefix, Settled
<1>2. \A m \in 1..(Len(ss) - 1) : Joined(t, ss[m], is[m], ss[m + 1])
  BY <1>1
<1>3. Alone(ss[Len(ss)])
  <2>1. CASE n = Len(ss)
    BY <1>1, <2>1
  <2>2. CASE n # Len(ss)
    <3>1. Len(ss) - 1 \in n..(Len(ss) - 1) /\ (Len(ss) - 1) + 1 = Len(ss)
      BY <1>1, <2>2
    <3>2. \E k \in n..(Len(ss) - 1) : k + 1 = Len(ss) /\ Joined(t, ss[k], is[k], ss[k + 1])
      BY <1>1, <3>1
    <3> QED
      BY <3>2 DEF Joined, Alone
  <2> QED
    BY <2>1, <2>2
<1> QED
  BY <1>1, <1>2, <1>3 DEF Prefix

\* A path goes on by one step.
LEMMA OneMore ==
    ASSUME NEW t, NEW s0, NEW ss, NEW is, NEW ss2, NEW is2,
           Prefix(t, s0, ss, is, Len(ss)), Grows(ss, is, ss2, is2, 1),
           Joined(t, ss2[Len(ss)], is2[Len(ss)], ss2[Len(ss) + 1])
    PROVE  Prefix(t, s0, ss2, is2, Len(ss2))
<1>1. Prefix(t, s0, ss2, is2, Len(ss))
  BY PrefixGrows
<1>2. /\ Len(ss) \in Nat \ {0} /\ Len(ss2) = Len(ss) + 1
  BY SetsLength DEF Prefix, Grows
<1>3. Alone(ss2[Len(ss)])
  BY <1>1 DEF Prefix
<1>4. \A m \in Len(ss)..(Len(ss2) - 1) : m = Len(ss)
  BY <1>2
<1>5. Settled(t, ss2, is2, Len(ss))
  BY <1>2, <1>3, <1>4 DEF Settled
<1> QED
  BY <1>1, <1>5, WholePath

-----------------------------------------------------------------------------
(* What the searches do to a path.                                         *)

LEMMA PickOne ==
    ASSUME NEW S, S # {}, NEW s \in Pick(S)
    PROVE  s \subseteq S /\ \E x \in S : s = {x}
  BY DEF Pick

LEMMA PickState ==
    ASSUME NEW S \in SUBSET State, S # {}, NEW s \in Pick(S)
    PROVE  s \subseteq S /\ Alone(s) /\ s \in SUBSET State
  BY PickOne DEF Alone

\* Every state of S comes from one of P.
Reached(t, P, S) == \A y \in S : \E x \in P, j \in InvarInput : Allowed(t, x, j, y)

LEMMA ForwardReached ==
    ASSUME NEW P, NEW S, S \subseteq ForwardImage(trans, P)
    PROVE  Reached(trans, P, S) /\ S \in SUBSET State
  BY FsmAssumption DEF Reached, ForwardImage, Allowed

LEMMA ReachedLinks ==
    ASSUME NEW s, NEW X, NEW S, Reached(trans, s \cap X, S)
    PROVE  Linked(trans, s \cap X, Between(s, S), S)
  BY DEF Reached, Linked, Between, Allowed

\* n times S, each with the inputs that lead there.
Fills(ss, is, ss2, is2, S, n) ==
    /\ Grows(ss, is, ss2, is2, n)
    /\ \A m \in Len(ss)..(Len(ss2) - 1) : ss2[m + 1] = S /\ is2[m] = Between(ss2[m], S)

LEMMA BetweenIn == \A P, Q : Between(P, Q) \in SUBSET Input
  BY FsmAssumption DEF Between

\* w is u behind s.
Behind(A, s, u, w) == /\ w \in Seq(A) /\ Len(w) = Len(s) + Len(u)
                      /\ \A m \in 1..Len(s) : w[m] = s[m]
                      /\ \A k \in 1..Len(u) : w[Len(s) + k] = u[k]

LEMMA Concats ==
    ASSUME NEW A, NEW s \in Seq(A), NEW u \in Seq(A)
    PROVE  Behind(A, s, u, s \o u)
<1> DEFINE w == s \o u
<1>1. /\ w \in Seq(A) /\ Len(w) = Len(s) + Len(u) /\ Len(s) \in Nat /\ Len(u) \in Nat
      /\ \A m \in 1..(Len(s) + Len(u)) : w[m] = IF m <= Len(s) THEN s[m] ELSE u[m - Len(s)]
  BY ConcatProperties
<1> HIDE DEF w
<1>2. \A m \in 1..Len(s) : w[m] = s[m]
  BY <1>1
<1>3. ASSUME NEW k \in 1..Len(u) PROVE w[Len(s) + k] = u[k]
  <2>1. Len(s) + k \in 1..(Len(s) + Len(u)) /\ ~(Len(s) + k <= Len(s)) /\ (Len(s) + k) - Len(s) = k
    BY <1>1
  <2> QED
    BY <1>1, <2>1
<1>4. Behind(A, s, u, w)
  BY <1>1, <1>2, <1>3 DEF Behind
<1> QED
  BY <1>4 DEF w

LEMMA Extends ==
    ASSUME Sets(states, inputs), NEW S \in SUBSET State, NEW n \in Nat, ExtendBy(S, n)
    PROVE  Fills(states, inputs, states', inputs', S, n)
<1> DEFINE more == [k \in 1..n |-> S]
           ways == [k \in 1..n |-> Between(IF k = 1 THEN Last ELSE S, S)]
<1>1. /\ states \in Seq(SUBSET State) /\ inputs \in Seq(SUBSET Input)
      /\ Len(states) \in Nat /\ Len(inputs) \in Nat /\ Len(states) >= 1
      /\ Len(states) = Len(inputs) + 1
  BY SetsLength
<1>2. states' = states \o more /\ inputs' = inputs \o ways
  BY DEF ExtendBy
<1>3. more \in Seq(SUBSET State) /\ Len(more) = n /\ \A k \in 1..n : more[k] = S
  OBVIOUS
<1>4. ways \in Seq(SUBSET Input) /\ Len(ways) = n
  BY BetweenIn
<1>5. \A k \in 1..n : ways[k] = Between(IF k = 1 THEN Last ELSE S, S)
  OBVIOUS
<1> HIDE DEF more, ways
<1>6. /\ states' \in Seq(SUBSET State) /\ Len(states') = Len(states) + n
      /\ \A m \in 1..Len(states) : states'[m] = states[m]
      /\ \A k \in 1..n : states'[Len(states) + k] = S
  <2>1. Behind(SUBSET State, states, more, states')
    BY <1>1, <1>2, <1>3, Concats
  <2> QED
    BY <1>3, <2>1 DEF Behind
<1>7. /\ inputs' \in Seq(SUBSET Input) /\ Len(inputs') = Len(inputs) + n
      /\ \A m \in 1..Len(inputs) : inputs'[m] = inputs[m]
      /\ \A k \in 1..n : inputs'[Len(inputs) + k] = ways[k]
  <2>1. Behind(SUBSET Input, inputs, ways, inputs')
    BY <1>1, <1>2, <1>4, Concats
  <2> QED
    BY <1>4, <2>1 DEF Behind
<1>8. Grows(states, inputs, states', inputs', n)
  BY <1>1, <1>6, <1>7 DEF Grows, Sets
<1>9. ASSUME NEW m \in Len(states)..(Len(states') - 1)
      PROVE  states'[m + 1] = S /\ inputs'[m] = Between(states'[m], S)
  <2>1. PICK k \in 1..n : m + 1 = Len(states) + k /\ m = Len(inputs) + k
    <3>1. (m + 1) - Len(states) \in 1..n
      BY <1>1, <1>6
    <3>2. m + 1 = Len(states) + ((m + 1) - Len(states)) /\ m = Len(inputs) + ((m + 1) - Len(states))
      BY <1>1
    <3> QED
      BY <3>1, <3>2
  <2>2. states'[m + 1] = S /\ inputs'[m] = Between(IF k = 1 THEN Last ELSE S, S)
    BY <1>5, <1>6, <1>7, <2>1
  <2>3. states'[m] = IF k = 1 THEN Last ELSE S
    <3>1. CASE k = 1
      BY <1>1, <1>6, <2>1, <3>1 DEF Last, Length
    <3>2. CASE k # 1
      <4>1. k - 1 \in 1..n /\ m = Len(states) + (k - 1)
        BY <1>1, <2>1, <3>2
      <4> QED
        BY <1>6, <3>2, <4>1
    <3> QED
      BY <3>1, <3>2
  <2> QED
    BY <2>2, <2>3
<1> QED
  BY <1>8, <1>9 DEF Fills

\* The sets added are linked to the last one, and to each other when they are
\* all the same.
LEMMA FillsLinks ==
    ASSUME NEW ss, NEW is, NEW ss2, NEW is2, NEW S, NEW n \in Nat, NEW lo \in Nat \ {0},
           NEW F, NEW G, NEW b \in Nat, b <= Len(ss),
           Sets(ss, is), Chain(trans, ss, is, lo, Len(ss), F, G, b),
           Fills(ss, is, ss2, is2, S, n), n = 1 \/ S = ss[Len(ss)],
           Reached(trans, ss[Len(ss)] \cap G, S)
    PROVE  Chain(trans, ss2, is2, lo, Len(ss2), F, G, b)
<1>1. Grows(ss, is, ss2, is2, n)
  BY DEF Fills
<1>2. /\ Len(ss) \in Nat /\ Len(ss) >= 1 /\ Len(ss2) = Len(ss) + n
      /\ ss2[Len(ss)] = ss[Len(ss)]
  BY <1>1, SetsLength DEF Grows
<1>3. ASSUME NEW m \in Len(ss)..(Len(ss2) - 1)
      PROVE  Linked(trans, ss2[m] \cap (IF m < b THEN F ELSE G), is2[m], ss2[m + 1])
  <2>1. ss2[m + 1] = S /\ is2[m] = Between(ss2[m], S) /\ ~(m < b)
    BY <1>2 DEF Fills
  <2>2. ss2[m] = ss[Len(ss)]
    <3>1. CASE m = Len(ss)
      BY <1>2, <3>1
    <3>2. CASE m # Len(ss)
      <4>1. m - 1 \in Len(ss)..(Len(ss2) - 1) /\ (m - 1) + 1 = m /\ n # 1
        BY <1>2, <3>2
      <4>2. \A k \in Len(ss)..(Len(ss2) - 1) : ss2[k + 1] = S
        BY DEF Fills
      <4>3. \E k \in Len(ss)..(Len(ss2) - 1) : k + 1 = m
        BY <4>1
      <4>4. ss2[m] = S
        BY <4>2, <4>3
      <4> QED
        BY <4>1, <4>4
    <3> QED
      BY <3>1, <3>2
  <2>3. Linked(trans, ss2[m] \cap G, Between(ss2[m], S), S)
    BY <2>2, ReachedLinks
  <2> QED
    BY <2>1, <2>3
<1>4. Chain(trans, ss2, is2, Len(ss), Len(ss2), F, G, b)
  BY <1>3 DEF Chain
<1> QED
  BY <1>1, <1>4, ChainGrows

\* A set of one state is settled at the end of a path.
LEMMA LastSettled ==
    ASSUME NEW t, NEW ss, NEW is, Sets(ss, is), Alone(ss[Len(ss)])
    PROVE  Settled(t, ss, is, Len(ss))
<1>1. Len(ss) \in Nat /\ Len(ss) >= 1
  BY SetsLength
<1> QED
  BY <1>1 DEF Settled

\* Extend, of one set.
LEMMA ExtendsOne ==
    ASSUME Sets(states, inputs), NEW S \in SUBSET State, Extend(S)
    PROVE  /\ Fills(states, inputs, states', inputs', S, 1)
           /\ Length' = Length + 1 /\ states'[Length + 1] = S
<1>1. Fills(states, inputs, states', inputs', S, 1)
  BY Extends DEF Extend
<1>2. Len(states') = Len(states) + 1 /\ Len(states) \in Nat
  BY <1>1, SetsLength DEF Fills, Grows
<1>3. \A m \in Len(states)..(Len(states') - 1) : states'[m + 1] = S
  BY <1>1 DEF Fills
<1>4. states'[Len(states) + 1] = S
  BY <1>2, <1>3
<1> QED
  BY <1>1, <1>2, <1>4 DEF Length

\* One state more, and one input.
LEMMA AppendsOne ==
    ASSUME NEW s \in SUBSET State, NEW k \in SUBSET Input, Sets(states, inputs),
           states' = Append(states, s), inputs' = Append(inputs, k)
    PROVE  /\ Grows(states, inputs, states', inputs', 1)
           /\ Length' = Length + 1
           /\ states'[Length] = Last /\ inputs'[Length] = k /\ states'[Length + 1] = s
<1>1. /\ states \in Seq(SUBSET State) /\ inputs \in Seq(SUBSET Input)
      /\ Len(states) \in Nat /\ Len(inputs) \in Nat /\ Len(states) >= 1
      /\ Len(states) = Len(inputs) + 1
  BY SetsLength
<1>2. /\ states' \in Seq(SUBSET State) /\ Len(states') = Len(states) + 1
      /\ \A m \in 1..Len(states) : states'[m] = states[m]
      /\ states'[Len(states) + 1] = s
  BY <1>1
<1>3. /\ inputs' \in Seq(SUBSET Input) /\ Len(inputs') = Len(inputs) + 1
      /\ \A m \in 1..Len(inputs) : inputs'[m] = inputs[m]
      /\ inputs'[Len(inputs) + 1] = k
  BY <1>1
<1>4. Grows(states, inputs, states', inputs', 1)
  BY <1>1, <1>2, <1>3 DEF Grows, Sets
<1>5. Length \in 1..Len(states) /\ Length = Len(inputs) + 1
  BY <1>1 DEF Length
<1> QED
  BY <1>2, <1>3, <1>4, <1>5 DEF Length, Last

LEMMA ExtendsWithOne ==
    ASSUME NEW S, S # {}, S \subseteq ForwardImage(trans, Last),
           Prefix(trans, given, states, inputs, Length), ExtendWithOne(S)
    PROVE  /\ Prefix(trans, given, states', inputs', Length')
           /\ Grows(states, inputs, states', inputs', 1)
           /\ Length' = Length + 1 /\ Last' \subseteq S
<1>1. Sets(states, inputs) /\ Alone(Last) /\ Len(states) \in Nat
  BY SetsLength DEF Prefix, Length, Last
<1>2. PICK s \in Pick(S) : \E k \in Pick(Between(Last, s)) :
          states' = Append(states, s) /\ inputs' = Append(inputs, k)
  BY DEF ExtendWithOne
<1>3. PICK k \in Pick(Between(Last, s)) :
          states' = Append(states, s) /\ inputs' = Append(inputs, k)
  BY <1>2
<1>4. PICK y \in S : s = {y}
  BY PickOne
<1>5. PICK x \in State : Last = {x}
  BY <1>1 DEF Alone
<1>6. y \in Invar /\ y \in State /\ \E j \in InvarInput : <<x, j, y>> \in trans /\ x \in Invar
  BY <1>4, <1>5, FsmAssumption DEF ForwardImage
<1>7. Between(Last, s) # {}
  BY <1>4, <1>5, <1>6 DEF Between
<1>8. PICK j \in Between(Last, s) : k = {j}
  BY <1>7, PickOne
<1>9. j \in Input /\ Allowed(trans, x, j, y)
  BY <1>4, <1>5, <1>8, FsmAssumption DEF Between, Allowed
<1>10. s \in SUBSET State /\ k \in SUBSET Input
  BY <1>4, <1>6, <1>8, <1>9
<1>11. /\ Grows(states, inputs, states', inputs', 1)
       /\ Length' = Length + 1
       /\ states'[Length] = Last /\ inputs'[Length] = k /\ states'[Length + 1] = s
  BY <1>1, <1>3, <1>10, AppendsOne
<1>12. Joined(trans, states'[Length], inputs'[Length], states'[Length + 1])
  BY <1>4, <1>5, <1>6, <1>8, <1>9, <1>11 DEF Joined
<1>13. Prefix(trans, given, states', inputs', Length')
  BY <1>11, <1>12, OneMore DEF Length
<1> QED
  BY <1>4, <1>11, <1>13 DEF Last, Length

\* One state that leads to the one chosen after it, and one input.
LEMMA Instantiates ==
    ASSUME NEW n \in Nat \ {0}, NEW X, at = n + 1, at \in 1..Len(states), Sets(states, inputs),
           Alone(states[at]), Linked(trans, states[n] \cap X, inputs[n], states[at]),
           Instantiate(X)
    PROVE  /\ Alters(states, inputs, states', inputs', n)
           /\ Joined(trans, states'[n], inputs'[n], states[at])
<1>1. /\ states \in Seq(SUBSET State) /\ inputs \in Seq(SUBSET Input)
      /\ Len(states) \in Nat /\ Len(inputs) \in Nat /\ Len(states) = Len(inputs) + 1
  BY SetsLength
<1>2. at - 1 = n /\ n \in 1..Len(states) /\ n \in 1..Len(inputs)
  BY <1>1
<1> DEFINE from == BackwardBy(states[at], inputs[at - 1]) \cap states[at - 1] \cap X
<1>3. PICK s \in Pick(from) : \E k \in Pick(Between(s, states[at])) :
        states' = [states EXCEPT ![at - 1] = s] /\ inputs' = [inputs EXCEPT ![at - 1] = k]
  BY DEF Instantiate
<1>4. PICK k \in Pick(Between(s, states[at])) :
        states' = [states EXCEPT ![at - 1] = s] /\ inputs' = [inputs EXCEPT ![at - 1] = k]
  BY <1>3
<1>5. PICK y \in State : states[at] = {y}
  BY DEF Alone
<1>6. from # {}
  BY <1>2, <1>5 DEF Linked, Allowed, BackwardBy
<1> HIDE DEF from
<1>7. PICK x \in from : s = {x}
  BY <1>6, PickOne
<1> USE DEF from
<1>8. x \in Invar /\ x \in State /\ x \in states[n] /\ y \in Invar /\ \E j \in InvarInput : <<x, j, y>> \in trans
  BY <1>2, <1>5, FsmAssumption DEF BackwardBy
<1>9. Between(s, states[at]) # {}
  BY <1>5, <1>7, <1>8 DEF Between
<1>10. PICK j \in Between(s, states[at]) : k = {j}
  BY <1>9, PickOne
<1>11. j \in Input /\ Allowed(trans, x, j, y)
  BY <1>5, <1>7, <1>10, FsmAssumption DEF Between, Allowed
<1> HIDE DEF from
<1>12. s \in SUBSET State /\ k \in SUBSET Input /\ s \subseteq states[n] /\ Alone(s)
  BY <1>7, <1>8, <1>10, <1>11 DEF Alone
<1>13. /\ states' \in Seq(SUBSET State) /\ Len(states') = Len(states) /\ states'[n] = s
       /\ \A m \in 1..Len(states) : m # n => states'[m] = states[m]
  BY <1>1, <1>2, <1>4, <1>12
<1>14. /\ inputs' \in Seq(SUBSET Input) /\ Len(inputs') = Len(inputs) /\ inputs'[n] = k
       /\ \A m \in 1..Len(inputs) : m # n => inputs'[m] = inputs[m]
  BY <1>1, <1>2, <1>4, <1>12
<1>15. Sets(states', inputs')
  BY <1>1, <1>13, <1>14 DEF Sets
<1>16. Alters(states, inputs, states', inputs', n)
  BY <1>12, <1>13, <1>14, <1>15 DEF Alters
<1>17. Joined(trans, states'[n], inputs'[n], states[at])
  BY <1>5, <1>7, <1>8, <1>10, <1>11, <1>13, <1>14 DEF Joined
<1> QED
  BY <1>16, <1>17

\* One state of the last set takes its place.
LEMMA LastAlters ==
    ASSUME NEW S, S # {}, S \subseteq Last, NEW s \in Pick(S), Sets(states, inputs),
           states' = [states EXCEPT ![Length] = s], inputs' = inputs
    PROVE  /\ Alters(states, inputs, states', inputs', Length)
           /\ Length' = Length /\ Last' = s /\ Length \in 1..Len(states)
           /\ Settled(trans, states', inputs', Length)
<1>1. /\ states \in Seq(SUBSET State) /\ inputs \in Seq(SUBSET Input)
      /\ Len(states) \in Nat /\ Len(inputs) \in Nat /\ Len(states) >= 1
      /\ Len(states) = Len(inputs) + 1 /\ Length \in 1..Len(states)
  BY SetsLength DEF Length
<1>2. Last \in SUBSET State
  BY <1>1 DEF Last
<1>3. Alone(s) /\ s \subseteq Last /\ s \in SUBSET State
  BY <1>2, PickState
<1>4. /\ states' \in Seq(SUBSET State) /\ Len(states') = Len(states) /\ states'[Length] = s
      /\ \A m \in 1..Len(states) : m # Length => states'[m] = states[m]
  BY <1>1, <1>3
<1>5. Sets(states', inputs')
  BY <1>1, <1>4 DEF Sets
<1>6. Alters(states, inputs, states', inputs', Length)
  BY <1>1, <1>3, <1>4, <1>5 DEF Alters, Last
<1>7. Settled(trans, states', inputs', Length)
  BY <1>3, <1>4, <1>5, LastSettled DEF Length
<1> QED
  BY <1>1, <1>4, <1>6, <1>7 DEF Length, Last

\* A step of the bounded searches: sets linked through From, the last in Into.
LEMMA Advances ==
    ASSUME Sets(states, inputs), NEW From, NEW Into, NEW last \in Nat, i \in Nat, i < last,
           NEW lo \in Nat \ {0}, NEW F, NEW b \in Nat, b <= Length,
           Chain(trans, states, inputs, lo, Length, F, From, b),
           Advance(From, Into, last)
    PROVE  /\ Chain(trans, states', inputs', lo, Length', F, From, b)
           /\ \E n \in Nat : Grows(states, inputs, states', inputs', n)
           /\ Length <= Length' /\ i' \in Nat /\ i < i' /\ i' <= last
           /\ Last' # {} /\ Last' \subseteq Into
<1> DEFINE image == ForwardImage(trans, Last \cap From) \cap Into
           n == IF image = Last THEN last - i ELSE 1
<1>1. image # {} /\ ExtendBy(image, n) /\ i' = i + n
  BY DEF Advance
<1>2. n \in Nat /\ n >= 1 /\ i + n <= last /\ (n = 1 \/ image = Last)
  <2> HIDE DEF image
  <2>1. CASE image = Last
    BY <2>1
  <2>2. CASE image # Last
    BY <2>2
  <2> QED
    BY <2>1, <2>2
<1>3. Reached(trans, Last \cap From, image) /\ image \in SUBSET State
  BY ForwardReached
<1>4. image \subseteq Into
  OBVIOUS
<1> HIDE DEF image, n
<1>5. Fills(states, inputs, states', inputs', image, n)
  BY <1>1, <1>2, <1>3, Extends
<1>6. Grows(states, inputs, states', inputs', n)
  BY <1>5 DEF Fills
<1>7. Chain(trans, states', inputs', lo, Length', F, From, b)
  BY <1>2, <1>3, <1>5, FillsLinks DEF Last, Length
<1>8. Len(states) \in Nat /\ Len(states') = Len(states) + n
  BY <1>6, SetsLength DEF Grows
<1>9. \A m \in Len(states)..(Len(states') - 1) : states'[m + 1] = image
  BY <1>5 DEF Fills
<1>10. states'[Len(states')] = image
  <2>1. Len(states') - 1 \in Len(states)..(Len(states') - 1) /\ (Len(states') - 1) + 1 = Len(states')
    BY <1>2, <1>8
  <2>2. \E m \in Len(states)..(Len(states') - 1) : m + 1 = Len(states')
    BY <2>1
  <2> QED
    BY <1>9, <2>2
<1>11. Last' = image /\ Length <= Length'
  BY <1>2, <1>8, <1>10 DEF Last, Length
<1> QED
  BY <1>1, <1>2, <1>4, <1>6, <1>7, <1>11

-----------------------------------------------------------------------------
(* The invariant.                                                          *)

EuPcs == {"eu", "eu_loop", "eu_back"}
EbuPcs == {"ebu", "ebu_found", "ebu_back"}
EbgPcs == {"ebg", "ebg_hold", "ebg_back"}
EgPcs == {"eg", "round", "meet", "met", "returned", "closed", "reopened"}

\* eu_explain and ex_explain also work for eg_explain and for ebu_explain.
InEg == \/ pc \in EgPcs
        \/ pc \in EuPcs /\ then \in {"met", "returned"}
        \/ pc = "ex" /\ then \in {"closed", "reopened"}

InEbu == pc \in EbuPcs \/ (pc \in EuPcs /\ then = "ebu_found")

Searching == pc \in EuPcs \cup EbuPcs \cup EbgPcs \cup EgPcs \cup {"ex", "based"}
Running == Searching \/ pc \in {"recur", "return"}

\* Who has called.
ThenInv == /\ pc \in EuPcs => then \in {"based", "met", "returned", "ebu_found"}
           /\ pc = "ex" => then \in {"based", "closed", "reopened"}
           /\ pc \in {"ebu_found", "ebu_back"} => then = "ebu_found"
           /\ ok \in BOOLEAN

\* What is explained.
NodeInv ==
    /\ Running => node \in Node
    /\ pc = "ex" /\ then = "based" => Op(node) = "EX"
    /\ pc \in EuPcs /\ then = "based" => Op(node) = "EU"
    /\ InEg => Op(node) = "EG"
    /\ InEbu => Op(node) = "EBU"
    /\ pc \in EbgPcs => Op(node) = "EBG"
    /\ Running /\ caller = "explainXX" => node = asked /\ stack = <<>> /\ asked \in Witnessed

\* Where the path is single states joined by transitions.
Steady == pc \in {"recur", "based", "return", "ex"} \cup EgPcs \/ (pc = "eu" /\ then # "ebu_found")

Root == IF then = "ebu_found" THEN mark ELSE base

PathInv ==
    /\ {base, mark, at} \subseteq Nat
    /\ Searching => mark \in 1..Length
    /\ Steady => Prefix(trans, given, states, inputs, Length)
    /\ InEbu \/ pc \in EbgPcs => Prefix(trans, given, states, inputs, mark)
    /\ pc = "ebu" \/ (pc = "eu" /\ then = "ebu_found") =>
         Chain(trans, states, inputs, mark, Length, f, f, mark)
    /\ pc \in {"eu_loop", "eu_back"} =>
         /\ Prefix(trans, given, states, inputs, Root)
         /\ mark <= base /\ base \in 1..Length
    /\ pc = "eu_loop" =>
         /\ new \subseteq Last
         /\ Chain(trans, states, inputs, Root, Length, f, State, base)
    /\ pc = "eu_back" =>
         /\ at \in base..Length
         /\ Chain(trans, states, inputs, Root, at, f, State, base)
         /\ Settled(trans, states, inputs, at)
    /\ pc = "ebu_found" /\ ok =>
         /\ base \in mark..Length
         /\ Chain(trans, states, inputs, mark, base, f, State, base)
         /\ Settled(trans, states, inputs, base)
    /\ pc = "ebu_back" =>
         /\ at \in mark..base /\ base <= Length
         /\ Chain(trans, states, inputs, mark, at, f, State, base)
         /\ Settled(trans, states, inputs, at)
    /\ pc = "ebg" => Chain(trans, states, inputs, mark, Length, State, State, mark)
    /\ pc = "ebg_hold" =>
         /\ base \in mark..Length
         /\ Chain(trans, states, inputs, mark, Length, State, Accepting, base)
    /\ pc = "ebg_back" =>
         /\ base \in mark..Length /\ at \in mark..Length
         /\ Chain(trans, states, inputs, mark, at, State, Accepting, base)
         /\ Settled(trans, states, inputs, at)

\* The rounds of the bounded searches.
BoundInv == /\ i \in Nat
            /\ pc \in {"ebu", "ebg"} => i <= Inf
            /\ pc = "ebg_hold" => i >= Inf /\ (i > Inf => Last # {} /\ Last \subseteq Accepting)

\* Every pair has a step to another.
GoesOn(t, si) == \A x \in si : \E u \in StatesOf(si) : Allowed(t, x[1], x[2], u)

\* What is computed before any search.
FsmInv ==
    /\ reach \subseteq State
    /\ \A n \in Node : Op(n) = "EG" => sat[Syntax[n].car] \in DOMAIN egs
    /\ \A S \in DOMAIN egs : egs[S].si \subseteq StateInput /\ GoesOn(trans, egs[S].si)

\* The sets eg_explain works with.
HulkInv ==
    /\ pc = "eg" => g \in DOMAIN egs
    /\ InEg /\ pc # "eg" => hulk \subseteq StateInput /\ GoesOn(trans, hulk)
    /\ pc = "met" \/ (pc \in EuPcs /\ then = "met") => target \subseteq hulk
    /\ pc \in EuPcs /\ then = "met" => g = StatesOf(target)
    /\ pc = "eu_back" => Last \subseteq g
    /\ pc = "met" /\ ok => Last \subseteq StatesOf(target)

\* The state a loop starts from is one of the path, before the end of it once
\* the loop is closed.
Goes(ss, n, S) == \E m \in 1..n : ss[m] = S

Looping == \/ pc \in {"meet", "met", "returned"}
           \/ pc = "eu" /\ then \in {"met", "returned"}
           \/ pc = "ex" /\ then = "closed"

LoopInv ==
    /\ Looping => Goes(states, Length, starting)
    /\ pc \in {"eu_loop", "eu_back"} /\ then \in {"met", "returned"} => Goes(states, base, starting)
    /\ pc = "ex" /\ then = "closed" => g = starting
    /\ pc = "closed" /\ ok => Goes(states, Length - 1, Last)
    /\ pc \in {"based", "return"} /\ ok /\ caller = "explainXX" /\ Op(asked) = "EG"
         => Goes(states, Length - 1, Last)

\* The calls that wait: a search does not go behind where the path ended then,
\* and a path put aside is one.
Frames == [kind : {"or", "left", "right", "keep"}, node : Node, length : Nat \ {0}, fresh : BOOLEAN,
           left : {"Nil", "same", "other"}, states : Seq(SUBSET State), inputs : Seq(SUBSET Input)]

FrameOk(t, s0, fr) ==
    /\ fr.kind \in {"or", "left"} => Syntax[fr.node].cdr \in Node
    /\ fr.kind = "right" => /\ Prefix(t, s0, fr.states, fr.inputs, Len(fr.states))
                            /\ fr.length <= Len(fr.states)

Waiting(t, s0, st) ==
    /\ st \in Seq(Frames)
    /\ \A m \in 1..Len(st) : FrameOk(t, s0, st[m])
    /\ \A m \in 1..(Len(st) - 1) : st[m].length <= st[m + 1].length

Low == IF Searching THEN mark ELSE Length

StackInv ==
    /\ Waiting(trans, given, stack)
    /\ pc \in {"idle", "done"} => stack = <<>>
    /\ Running /\ stack # <<>> => Top.length <= Low

Inv == /\ FsmInv /\ ThenInv /\ NodeInv /\ PathInv /\ BoundInv /\ HulkInv /\ LoopInv /\ StackInv
       /\ AnswerIsPath

-----------------------------------------------------------------------------
(* Each part of the invariant is preserved by every step.                  *)

\* A step, for the functions called and for their clients.
LEMMA StepCases ==
    ASSUME [Next]_vars
    PROVE  \/ ExSearch \/ EuSearch \/ EgSearch \/ BoundedSearch \/ ExplainRecur \/ Answer
           \/ \E by \in DOMAIN Nodes : \E n \in Nodes[by] : \E s \in Subjects(by, n) : Request(by, n, s)
           \/ Taken \/ Restart \/ UNCHANGED vars
  BY DEF Next, Run

LEMMA ThenNext == ThenInv /\ [Next]_vars => ThenInv'
<1> SUFFICES ASSUME ThenInv, [Next]_vars PROVE ThenInv'
  OBVIOUS
<1> USE DEF ThenInv, EuPcs
<1>1. ASSUME ExSearch PROVE ThenInv'
  BY <1>1 DEF ExSearch, ExAbort, ExFail, Ended, ExExplain, vars, fsmVars, callVars,
     pathVars, euVars, egVars
<1>2. ASSUME EuSearch PROVE ThenInv'
  BY <1>2 DEF EuSearch, EuAtOnce, Ended, EuRefuse, EuCall, EuFound, EuIterate,
     EuFail, Forget, EuBack, EuDone, vars, fsmVars, callVars, pathVars, euVars, egVars
<1>3. ASSUME EgSearch PROVE ThenInv'
  BY <1>3 DEF EgSearch, EgRefuse, Ended, EgCall, StartRound, Meet, MetByStep,
     MetByState, Return, Close, Closed1, EgFree, Reopen, Reopened, vars, fsmVars,
     callVars, pathVars, euVars, egVars
<1>4. ASSUME BoundedSearch PROVE ThenInv'
  BY <1>4 DEF BoundedSearch, EbuAdvance, EbuStuck, BoundedFail, Ended, EbuSearch,
     EbuFound, EbuLate, EbuBack, EbgAdvance, EbgStuck, EbgSearch, EbgHold, EbgLost,
     EbgFound, EbgBack, BoundedDone, vars, fsmVars, callVars, pathVars, euVars, egVars
<1>5. ASSUME ExplainRecur PROVE ThenInv'
  <2>1. ASSUME ExplainNot \/ ExplainRewritten \/ ExplainAtom \/ ExplainOr \/
              ExplainAndRefuse \/ ExplainAnd PROVE ThenInv'
    BY <2>1 DEF ExplainNot, ExplainRewritten, ExplainAtom, Ended, ExplainOr,
       ExplainAndRefuse, ExplainAnd, vars, fsmVars, callVars, pathVars, euVars, egVars
  <2>2. ASSUME ExplainSearch PROVE ThenInv'
    BY <2>2 DEF ExplainSearch, Search, vars, fsmVars, callVars, pathVars, euVars,
       egVars
  <2>3. ASSUME Continue \/ EndBase \/ Keep \/ OrFound \/ OrRight PROVE ThenInv'
    BY <2>3 DEF Continue, EndSearch, EndBase, Keep, Returns, OrFound, OrRight,
       vars, fsmVars, callVars, pathVars, euVars, egVars
  <2>4. ASSUME AndRight PROVE ThenInv'
    BY <2>4 DEF AndRight, Returns, vars, fsmVars, callVars, pathVars, euVars,
       egVars
  <2>5. ASSUME AndJoin PROVE ThenInv'
    BY <2>5 DEF AndJoin, Returns, vars, fsmVars, callVars, pathVars, euVars, egVars
  <2> QED
    BY <1>5, <2>1, <2>2, <2>3, <2>4, <2>5 DEF ExplainRecur
<1>6. ASSUME Answer PROVE ThenInv'
  BY <1>6 DEF Answer
<1>7. ASSUME NEW by, NEW n, NEW s, Request(by, n, s) PROVE ThenInv'
  BY <1>7 DEF Request
<1>8. ASSUME Taken PROVE ThenInv'
  BY <1>8 DEF Taken
<1>9. ASSUME Restart PROVE ThenInv'
  BY <1>9 DEF Restart, EndSearch
<1>10. ASSUME UNCHANGED vars PROVE ThenInv'
  BY <1>10 DEF vars, euVars
<1> QED
  BY <1>1, <1>2, <1>3, <1>4, <1>5, <1>6, <1>7, <1>8, <1>9, <1>10, StepCases

LEMMA Pushes ==
    ASSUME NEW t, NEW s0, NEW st, Waiting(t, s0, st), NEW fr \in Frames, FrameOk(t, s0, fr),
           st # <<>> => st[Len(st)].length <= fr.length
    PROVE  LET more == Append(st, fr)
           IN Waiting(t, s0, more) /\ more[Len(more)] = fr /\ more # <<>>
<1> DEFINE more == Append(st, fr)
<1>1. /\ st \in Seq(Frames) /\ Len(st) \in Nat
      /\ \A m \in 1..Len(st) : FrameOk(t, s0, st[m])
      /\ \A m \in 1..(Len(st) - 1) : st[m].length <= st[m + 1].length
  BY DEF Waiting
<1> HIDE DEF Frames
<1>2. /\ more \in Seq(Frames) /\ Len(more) = Len(st) + 1
      /\ \A m \in 1..Len(st) : more[m] = st[m]
      /\ more[Len(st) + 1] = fr
  BY <1>1
<1> HIDE DEF more
<1>3. \A m \in 1..Len(more) : FrameOk(t, s0, more[m])
  BY <1>1, <1>2
<1>4. ASSUME NEW m \in 1..(Len(more) - 1) PROVE more[m].length <= more[m + 1].length
  <2>1. CASE m = Len(st)
    BY <1>1, <1>2, <2>1
  <2>2. CASE m # Len(st)
    <3>1. m \in 1..Len(st) /\ m + 1 \in 1..Len(st) /\ m \in 1..(Len(st) - 1)
      BY <1>1, <1>2, <2>2
    <3> QED
      BY <1>1, <1>2, <3>1
  <2> QED
    BY <2>1, <2>2
<1>5. Waiting(t, s0, more)
  BY <1>2, <1>3, <1>4 DEF Waiting
<1>6. more[Len(more)] = fr /\ more # <<>>
  BY <1>1, <1>2
<1> QED
  BY <1>5, <1>6 DEF more

LEMMA Pops ==
    ASSUME NEW t, NEW s0, NEW st, Waiting(t, s0, st), st # <<>>
    PROVE  LET top == st[Len(st)]
               rest == SubSeq(st, 1, Len(st) - 1)
           IN /\ top \in Frames /\ FrameOk(t, s0, top)
              /\ Waiting(t, s0, rest)
              /\ rest # <<>> => rest[Len(rest)].length <= top.length
<1> DEFINE top == st[Len(st)]
           rest == SubSeq(st, 1, Len(st) - 1)
<1>1. /\ st \in Seq(Frames)
      /\ \A m \in 1..Len(st) : FrameOk(t, s0, st[m])
      /\ \A m \in 1..(Len(st) - 1) : st[m].length <= st[m + 1].length
  BY DEF Waiting
<1> HIDE DEF Frames
<1>2. Len(st) \in Nat /\ Len(st) >= 1
  BY <1>1
<1>3. top \in Frames /\ FrameOk(t, s0, top)
  BY <1>1, <1>2
<1>4. PICK n \in 0..Len(st) : n = Len(st) - 1
  <2>1. Len(st) - 1 \in 0..Len(st)
    BY <1>2
  <2> QED
    BY <2>1
<1>5. rest = SubSeq(st, 1, n)
  BY <1>4
<1>6. /\ SubSeq(st, 1, n) \in Seq(Frames) /\ Len(SubSeq(st, 1, n)) = n
      /\ \A m \in 1..n : SubSeq(st, 1, n)[m] = st[m]
  BY <1>1, <1>2, <1>4
<1> HIDE DEF rest
<1>7. rest \in Seq(Frames) /\ Len(rest) = n /\ \A m \in 1..n : rest[m] = st[m]
  BY <1>5, <1>6
<1>8. \A m \in 1..Len(rest) : FrameOk(t, s0, rest[m])
  BY <1>1, <1>4, <1>7
<1>9. ASSUME NEW m \in 1..(Len(rest) - 1) PROVE rest[m].length <= rest[m + 1].length
  <2>1. m \in 1..n /\ m + 1 \in 1..n /\ m \in 1..(Len(st) - 1)
    BY <1>4, <1>7
  <2> QED
    BY <1>1, <1>7, <2>1
<1>10. Waiting(t, s0, rest)
  BY <1>7, <1>8, <1>9 DEF Waiting
<1>11. ASSUME rest # <<>> PROVE rest[Len(rest)].length <= top.length
  <2>1. n \in 1..(Len(st) - 1) /\ n + 1 = Len(st) /\ n \in 1..n
    BY <1>2, <1>4, <1>7, <1>11
  <2>2. st[n].length <= st[n + 1].length
    BY <1>1, <2>1
  <2> QED
    BY <1>7, <2>1, <2>2
<1> QED
  BY <1>3, <1>10, <1>11 DEF rest

\* A frame that is marked is the same but for the mark.
Alike(fr, gr) ==
    /\ gr.kind = fr.kind /\ gr.node = fr.node /\ gr.length = fr.length
    /\ gr.states = fr.states /\ gr.inputs = fr.inputs

LEMMA MarkedIs ==
    ASSUME NEW st \in Seq(Frames)
    PROVE  /\ Marked(st) \in Seq(Frames) /\ Len(Marked(st)) = Len(st)
           /\ \A m \in 1..Len(st) : Alike(st[m], Marked(st)[m])
<1> DEFINE fresh(fr) == [fr EXCEPT !.fresh = TRUE]
<1>1. ASSUME NEW fr \in Frames PROVE fresh(fr) \in Frames /\ Alike(fr, fresh(fr))
  BY DEF Frames, Alike
<1>2. ASSUME NEW fr \in Frames PROVE Alike(fr, fr)
  BY DEF Alike
<1>3. Len(st) \in Nat /\ DOMAIN st = 1..Len(st) /\ \A m \in 1..Len(st) : st[m] \in Frames
  OBVIOUS
<1>4. ASSUME NEW m \in 1..Len(st) PROVE Marked(st)[m] \in {st[m], fresh(st[m])}
  BY <1>3 DEF Marked
<1> HIDE DEF fresh
<1>5. ASSUME NEW m \in 1..Len(st) PROVE Marked(st)[m] \in Frames /\ Alike(st[m], Marked(st)[m])
  BY <1>1, <1>2, <1>3, <1>4
<1>6. DOMAIN Marked(st) = 1..Len(st) /\ Marked(st) = [m \in 1..Len(st) |-> Marked(st)[m]]
  BY <1>3 DEF Marked
<1> QED
  BY <1>3, <1>5, <1>6

LEMMA MarkedWaits ==
    ASSUME NEW t, NEW s0, NEW st, Waiting(t, s0, st)
    PROVE  /\ Waiting(t, s0, Marked(st)) /\ Len(Marked(st)) = Len(st)
           /\ st # <<>> => Marked(st)[Len(st)].length = st[Len(st)].length
<1>1. /\ st \in Seq(Frames) /\ Len(st) \in Nat
      /\ \A m \in 1..Len(st) : FrameOk(t, s0, st[m])
      /\ \A m \in 1..(Len(st) - 1) : st[m].length <= st[m + 1].length
  BY DEF Waiting
<1>2. /\ Marked(st) \in Seq(Frames) /\ Len(Marked(st)) = Len(st)
      /\ \A m \in 1..Len(st) : Alike(st[m], Marked(st)[m])
  BY <1>1, MarkedIs
<1> HIDE DEF Marked, Frames
<1>3. \A m \in 1..Len(st) : FrameOk(t, s0, Marked(st)[m])
  BY <1>1, <1>2 DEF FrameOk, Alike
<1>4. ASSUME NEW m \in 1..(Len(st) - 1) PROVE Marked(st)[m].length <= Marked(st)[m + 1].length
  <2>1. m \in 1..Len(st) /\ m + 1 \in 1..Len(st)
    BY <1>1
  <2> QED
    BY <1>1, <1>2, <2>1 DEF Alike
<1>5. st # <<>> => Len(st) \in 1..Len(st)
  BY <1>1
<1> QED
  BY <1>2, <1>3, <1>4, <1>5 DEF Waiting, Alike

\* The call that waits for an answer.
LEMMA TopIs ==
    ASSUME StackInv, stack # <<>>
    PROVE  /\ Top \in Frames /\ FrameOk(trans, given, Top)
           /\ Running => Top.length <= Low
           /\ Waiting(trans, given, Pop)
           /\ Pop # <<>> => Pop[Len(Pop)].length <= Top.length
  BY Pops DEF StackInv, Top, Pop

\* What is explained.
LEMMA NodeNext == ThenInv /\ StackInv /\ NodeInv /\ [Next]_vars => NodeInv'
<1> SUFFICES ASSUME ThenInv, StackInv, NodeInv, [Next]_vars PROVE NodeInv'
  OBVIOUS
<1> USE DEF NodeInv, ThenInv, EuPcs, EbuPcs, EbgPcs, EgPcs, InEg, InEbu, Searching, Running
<1>1. ASSUME ExSearch PROVE NodeInv'
  BY <1>1 DEF ExSearch, ExAbort, ExFail, Ended, ExExplain, vars, fsmVars, callVars, pathVars,
     euVars, egVars
<1>2. ASSUME EuSearch PROVE NodeInv'
  BY <1>2 DEF EuSearch, EuAtOnce, Ended, EuRefuse, EuCall, EuFound, EuIterate, EuFail,
     Forget, EuBack, EuDone, vars, fsmVars, callVars, pathVars, euVars, egVars
<1>3. ASSUME EgSearch PROVE NodeInv'
  <2>1. ASSUME EgRefuse PROVE NodeInv'
    BY <2>1 DEF EgRefuse, Ended, vars, fsmVars, callVars, pathVars, euVars, egVars
  <2>2. ASSUME EgCall PROVE NodeInv'
    BY <2>2 DEF EgCall, vars, fsmVars, callVars, pathVars, euVars, egVars
  <2>3. ASSUME StartRound PROVE NodeInv'
    BY <2>3 DEF StartRound, vars, fsmVars, callVars, pathVars, euVars, egVars
  <2>4. ASSUME (\E p \in Justice : Meet(p)) PROVE NodeInv'
    BY <2>4 DEF Meet, vars, fsmVars, callVars, pathVars, euVars, egVars
  <2>5. ASSUME MetByStep PROVE NodeInv'
    BY <2>5 DEF MetByStep, vars, fsmVars, callVars, pathVars, euVars, egVars
  <2>6. ASSUME MetByState PROVE NodeInv'
    BY <2>6 DEF MetByState, vars, fsmVars, callVars, pathVars, euVars, egVars
  <2>7. ASSUME Return PROVE NodeInv'
    BY <2>7 DEF Return, vars, fsmVars, callVars, pathVars, euVars, egVars
  <2>8. ASSUME Close PROVE NodeInv'
    BY <2>8 DEF Close, vars, fsmVars, callVars, pathVars, euVars, egVars
  <2>9. ASSUME Closed1 PROVE NodeInv'
    BY <2>9 DEF Closed1, Ended, EgFree, vars, fsmVars, callVars, pathVars, euVars,
       egVars
  <2>10. ASSUME Reopen PROVE NodeInv'
    BY <2>10 DEF Reopen, vars, fsmVars, callVars, pathVars, euVars, egVars
  <2>11. ASSUME Reopened PROVE NodeInv'
    BY <2>11 DEF Reopened, vars, fsmVars, callVars, pathVars, euVars, egVars
  <2> QED
    BY <1>3, <2>1, <2>2, <2>3, <2>4, <2>5, <2>6, <2>7, <2>8, <2>9, <2>10, <2>11 DEF EgSearch
<1>4. ASSUME BoundedSearch PROVE NodeInv'
  <2>1. ASSUME EbuAdvance \/ EbuStuck \/ EbuSearch \/ EbuFound \/ EbuLate \/ EbuBack PROVE NodeInv'
    BY <2>1 DEF EbuAdvance, EbuStuck, BoundedFail, Ended, EbuSearch, EbuFound,
       EbuLate, EbuBack, vars, fsmVars, callVars, pathVars, euVars, egVars
  <2>2. ASSUME EbgAdvance \/ EbgStuck \/ EbgSearch \/ EbgHold \/ EbgLost \/ EbgFound \/
              EbgBack \/ BoundedDone PROVE NodeInv'
    BY <2>2 DEF EbgAdvance, EbgStuck, BoundedFail, Ended, EbgSearch, EbgHold,
       EbgLost, EbgFound, EbgBack, BoundedDone, vars, fsmVars, callVars, pathVars,
       euVars, egVars
  <2> QED
    BY <1>4, <2>1, <2>2 DEF BoundedSearch
<1>5. ASSUME ExplainRecur PROVE NodeInv'
  <2>1. /\ Op(node) # "ATOM" => Syntax[node].car \in Node
        /\ Op(node) \in {"AND", "OR", "EU", "EBU"} => Syntax[node].cdr \in Node
        /\ Op(node) \in Rewritings => Rewritten[node] \in Node
        /\ caller = "explainXX" => Op(node) \in {"EX", "EU", "EG"}
    BY <1>5, FormulaAssumption DEF ExplainRecur, Rewritten, ExplainNot, ExplainRewritten, ExplainAtom, ExplainOr, ExplainAndRefuse, ExplainAnd,
       ExplainSearch, Continue, EndBase, Keep, OrFound, OrRight, AndRight, AndJoin, Returns
  <2>2. ASSUME ExplainNot \/ ExplainAtom \/ ExplainOr \/ ExplainAndRefuse \/ ExplainAnd
        PROVE  NodeInv'
    BY <2>1, <2>2 DEF ExplainNot, ExplainAtom, Ended, ExplainOr, ExplainAndRefuse, ExplainAnd,
       vars, fsmVars, callVars, pathVars, euVars, egVars
  <2>3. ASSUME ExplainRewritten PROVE NodeInv'
    BY <2>1, <2>3 DEF ExplainRewritten, Rewritings, vars, fsmVars, callVars, pathVars, euVars, egVars
  <2>4. ASSUME ExplainSearch PROVE NodeInv'
    BY <2>4 DEF ExplainSearch, Search, vars, fsmVars, callVars, pathVars, euVars, egVars
  <2>5. ASSUME Continue PROVE NodeInv'
    <3>1. Continued(node) \in Node
      BY <2>1, <2>5 DEF Continue, Continued
    <3> QED
      BY <2>5, <3>1 DEF Continue, EndSearch, Recursive, vars, fsmVars, callVars, pathVars, euVars, egVars
  <2>6. ASSUME EndBase \/ Keep \/ OrFound PROVE NodeInv'
    BY <2>6 DEF EndSearch, EndBase, Keep, Returns, OrFound, vars, fsmVars, callVars, pathVars, euVars, egVars
  <2>7. ASSUME OrRight PROVE NodeInv'
    <3>1. Syntax[Top.node].cdr \in Node /\ stack # <<>>
      BY <2>7, TopIs DEF OrRight, Returns, FrameOk
    <3> QED
      BY <2>7, <3>1 DEF OrRight, Returns, vars, fsmVars, callVars, pathVars, euVars, egVars
  <2>8. ASSUME AndRight PROVE NodeInv'
    <3>1. Syntax[Top.node].cdr \in Node /\ stack # <<>>
      BY <2>8, TopIs DEF AndRight, Returns, FrameOk
    <3>2. node' = Syntax[Top.node].cdr /\ pc' = "recur" /\ caller' = caller /\ pc = "return"
      BY <2>8 DEF AndRight, Returns, callVars
    <3> QED
      BY <3>1, <3>2
  <2>9. ASSUME AndJoin PROVE NodeInv'
    BY <2>9 DEF AndJoin, Returns, vars, fsmVars, callVars, pathVars, euVars, egVars
  <2> QED
    BY <1>5, <2>2, <2>3, <2>4, <2>5, <2>6, <2>7, <2>8, <2>9 DEF ExplainRecur
<1>6. ASSUME Answer PROVE NodeInv'
  BY <1>6 DEF Answer, vars, fsmVars, callVars, pathVars, euVars, egVars
<1>7. ASSUME NEW by \in DOMAIN Nodes, NEW n \in Nodes[by], NEW s \in Subjects(by, n), Request(by, n, s)
      PROVE  NodeInv'
  BY <1>7, ExplainAssumption DEF Nodes, StackInv, Request, vars, fsmVars, callVars, pathVars, euVars, egVars
<1>8. ASSUME Taken PROVE NodeInv'
  BY <1>8 DEF Taken, vars, fsmVars, callVars, pathVars, euVars, egVars
<1>9. ASSUME Restart PROVE NodeInv'
  BY <1>9 DEF Restart, EndSearch, vars, fsmVars, callVars, pathVars, euVars, egVars
<1>10. ASSUME UNCHANGED vars PROVE NodeInv'
  BY <1>10 DEF vars, fsmVars, callVars, pathVars, euVars, egVars
<1> QED
  BY <1>1, <1>2, <1>3, <1>4, <1>5, <1>6, <1>7, <1>8, <1>9, <1>10, StepCases

\* A search leaves the calls that wait alone, and does not go behind mark.
LEMMA SearchSteps ==
    ASSUME ThenInv, PathInv, ExSearch \/ EuSearch \/ EgSearch \/ BoundedSearch
    PROVE  /\ Searching /\ mark' \in Nat /\ mark <= mark'
           /\ pc' = "aborted" \/ Searching'
           /\ stack' = stack /\ trans' = trans /\ given' = given
<1> USE DEF ThenInv, EuPcs, EbuPcs, EbgPcs, EgPcs, Searching
<1>1. mark \in Nat /\ (Searching => mark <= Length)
  BY DEF PathInv
<1>2. CASE ExSearch
  BY <1>1, <1>2 DEF ExSearch, ExAbort, ExFail, Ended, ExExplain, vars, fsmVars, callVars
<1>3. CASE EuSearch
  BY <1>1, <1>3 DEF EuSearch, EuAtOnce, Ended, EuRefuse, EuCall, EuFound, EuIterate,
     EuFail, Forget, EuBack, EuDone, fsmVars, callVars
<1>4. CASE EgSearch
  <2>1. Steady => Length \in Nat
    BY SetsLength DEF PathInv, Prefix
  <2>2. CASE EgRefuse \/ EgCall \/ StartRound \/ (\E p \in Justice : Meet(p))
    BY <1>1, <2>2 DEF EgRefuse, Ended, EgCall, StartRound, Meet, fsmVars, callVars
  <2>3. CASE MetByStep \/ MetByState \/ Close \/ Closed1 \/ Reopen \/ Reopened
    BY <1>1, <2>3 DEF MetByStep, MetByState, Close, Closed1, Ended, Reopen, Reopened, fsmVars,
       callVars
  <2>4. CASE Return
    BY <1>1, <2>1, <2>4 DEF Return, Steady, fsmVars, callVars
  <2> QED
    BY <1>4, <2>2, <2>3, <2>4 DEF EgSearch
<1>5. CASE BoundedSearch
  BY <1>1, <1>5 DEF BoundedSearch, EbuAdvance, EbuStuck, BoundedFail, Ended, EbuSearch, EbuFound,
     EbuLate, EbuBack, EbgAdvance, EbgStuck, EbgSearch, EbgHold, EbgLost, EbgFound, EbgBack,
     BoundedDone, fsmVars, callVars
<1> QED
  BY <1>2, <1>3, <1>4, <1>5

\* The calls that wait still do.
LEMMA StackKept ==
    ASSUME StackInv, stack' = stack, trans' = trans, given' = given,
           pc' \in {"idle", "done"} => stack = <<>>, Low \in Nat, Low' \in Nat,
           Running' => Running /\ Low <= Low'
    PROVE  StackInv'
<1>1. stack # <<>> => Top.length \in Nat
  BY TopIs DEF Frames
<1> QED
  BY <1>1 DEF StackInv, Top

\* A call of explain_recur waits for another.
LEMMA StackPushed ==
    ASSUME StackInv, Running, Low \in Nat, trans' = trans, given' = given,
           pc' = "recur", NEW fr \in Frames, FrameOk(trans, given, fr),
           stack' = Append(stack, fr), Low <= fr.length, fr.length <= Low'
    PROVE  StackInv'
<1>1. fr.length \in Nat /\ (stack # <<>> => Top.length \in Nat)
  BY TopIs DEF Frames
<1>2. stack # <<>> => stack[Len(stack)].length <= fr.length
  BY <1>1 DEF StackInv, Top
<1>3. Waiting(trans, given, stack') /\ stack'[Len(stack')] = fr
  BY <1>2, Pushes DEF StackInv
<1> QED
  BY <1>3 DEF StackInv, Top

\* The call that waited for an answer has it.
LEMMA StackPopped ==
    ASSUME StackInv, stack # <<>>, pc = "return", trans' = trans, given' = given,
           pc' \in {"recur", "return"}, stack' \in {Pop, Marked(Pop)}, Length' \in Nat,
           Top.length <= Length'
    PROVE  StackInv'
<1>0. /\ Top.length \in Nat
      /\ Waiting(trans, given, Pop)
      /\ Pop # <<>> => Pop[Len(Pop)].length <= Top.length
  BY TopIs DEF Frames
<1>a. /\ Waiting(trans, given, Marked(Pop)) /\ Len(Marked(Pop)) = Len(Pop)
      /\ Pop # <<>> => Marked(Pop)[Len(Pop)].length = Pop[Len(Pop)].length
  BY <1>0, MarkedWaits
<1>b. Len(Pop) \in Nat /\ (Len(Pop) = 0 <=> Pop = <<>>)
  BY <1>0 DEF Waiting
<1> HIDE DEF Marked
<1>c. Marked(Pop) # <<>> => Pop # <<>>
  <2> HIDE DEF Pop
  <2> QED
    BY <1>a, <1>b DEF Waiting
<1>1. /\ Top.length \in Nat
      /\ Waiting(trans, given, stack')
      /\ stack' # <<>> => stack'[Len(stack')].length <= Top.length
  BY <1>0, <1>a, <1>c
<1>2. Waiting(trans', given', stack') /\ Low' = Length'
  BY <1>1 DEF Low, Searching, EuPcs, EbuPcs, EbgPcs, EgPcs
<1>3. stack' # <<>> => stack'[Len(stack')] \in Frames
  BY <1>1 DEF Waiting
<1> QED
  BY <1>1, <1>2, <1>3 DEF StackInv, Top, Frames

\* Outside a search the path is a path; it is never shorter than where the
\* search has started.
LEMMA LowIs ==
    ASSUME PathInv, Running
    PROVE  /\ Low \in Nat /\ Low <= Length
           /\ Steady => /\ Prefix(trans, given, states, inputs, Length)
                        /\ Length \in Nat \ {0}
                        /\ states \in Seq(SUBSET State) /\ inputs \in Seq(SUBSET Input)
<1>1. Steady => /\ Prefix(trans, given, states, inputs, Length)
                /\ Length \in Nat \ {0}
                /\ states \in Seq(SUBSET State) /\ inputs \in Seq(SUBSET Input)
  BY SetsLength DEF PathInv, Prefix
<1>2. ~Searching => Steady
  BY DEF Running, Steady
<1> QED
  BY <1>1, <1>2 DEF PathInv, Low

\* The frame of a call is one that may wait.
LEMMA FrameWaits ==
    ASSUME NodeInv, PathInv, Running, Steady,
           NEW kind \in {"or", "left", "keep"},
           kind \in {"or", "left"} => Op(node) \in {"OR", "AND"}
    PROVE  /\ Frame(kind) \in Frames /\ FrameOk(trans, given, Frame(kind))
           /\ Frame(kind).length = Length
<1>1. node \in Node /\ Length \in Nat \ {0}
  BY LowIs DEF NodeInv
<1>2. kind \in {"or", "left"} => Syntax[node].cdr \in Node
  BY <1>1, FormulaAssumption
<1> QED
  BY <1>1, <1>2 DEF Frame, Frames, FrameOk

LEMMA NothingWaits == \A t, s0 : Waiting(t, s0, <<>>)
  BY DEF Waiting

\* The frame of the left conjunct becomes that of the right one.
SetAside(aside) == aside = [Top EXCEPT !.kind = "right", !.left = Came(Top), !.fresh = FALSE,
                                       !.states = states, !.inputs = inputs]

LEMMA AsideIs ==
    ASSUME NEW aside, SetAside(aside), Top \in Frames, ok \in BOOLEAN,
           states \in Seq(SUBSET State), inputs \in Seq(SUBSET Input)
    PROVE  /\ aside \in Frames /\ aside.length = Top.length /\ aside.kind = "right"
           /\ aside.states = states /\ aside.inputs = inputs
<1>1. DOMAIN aside = DOMAIN Top
  BY DEF SetAside
<1>2. /\ aside.kind = "right" /\ aside.left = Came(Top) /\ aside.fresh = FALSE /\ aside.states = states
      /\ aside.inputs = inputs /\ aside.node = Top.node /\ aside.length = Top.length
  BY DEF SetAside, Frames
<1>3. aside = [kind |-> aside.kind, node |-> aside.node, length |-> aside.length,
               fresh |-> aside.fresh, left |-> aside.left, states |-> aside.states, inputs |-> aside.inputs]
  BY DEF SetAside, Frames
<1>4. Came(Top) \in {"Nil", "same", "other"}
  BY DEF Came
<1> QED
  BY <1>2, <1>3, <1>4 DEF Frames

LEMMA StackNext == ThenInv /\ NodeInv /\ PathInv /\ StackInv /\ [Next]_vars => StackInv'
<1> SUFFICES ASSUME ThenInv, NodeInv, PathInv, StackInv, [Next]_vars PROVE StackInv'
  OBVIOUS
<1>a. Running => Low \in Nat /\ Low <= Length
  BY LowIs
<1>1. ASSUME ExSearch \/ EuSearch \/ EgSearch \/ BoundedSearch PROVE StackInv'
  <2>1. /\ Searching /\ mark' \in Nat /\ mark <= mark'
        /\ pc' = "aborted" \/ Searching'
        /\ stack' = stack /\ trans' = trans /\ given' = given
    BY <1>1, SearchSteps
  <2>2. mark \in Nat
    BY DEF PathInv
  <2>3. CASE Searching'
    <3>1. Low = mark /\ Low' = mark' /\ Running
      BY <2>1, <2>3 DEF Low, Running
    <3>2. pc' \notin {"idle", "done"}
      BY <2>3 DEF Searching, EuPcs, EbuPcs, EbgPcs, EgPcs
    <3> QED
      BY <2>1, <2>2, <3>1, <3>2, StackKept
  <2>4. CASE pc' = "aborted"
    BY <2>1, <2>4 DEF StackInv, Running, Searching, EuPcs, EbuPcs, EbgPcs, EgPcs
  <2> QED
    BY <2>1, <2>3, <2>4
<1>2. ASSUME ExplainNot \/ ExplainRewritten \/ ExplainAtom \/ ExplainAndRefuse \/ OrFound \/ Keep \/
             ExplainOr \/ ExplainAnd \/ ExplainSearch \/ Continue \/ EndBase \/ OrRight \/ AndRight \/ AndJoin
      PROVE  /\ pc \in {"recur", "based", "return"} /\ Running /\ Steady
             /\ Length \in Nat \ {0} /\ mark \in Nat
             /\ pc # "based" => Low = Length
             /\ pc = "based" => Low = mark /\ mark <= Length
  <2>1. pc \in {"recur", "based", "return"}
    BY <1>2 DEF ExplainNot, ExplainRewritten, ExplainAtom, ExplainAndRefuse, OrFound, Keep, ExplainOr, ExplainAnd,
       ExplainSearch, Continue, EndBase, OrRight, AndRight, AndJoin, Returns
  <2>2. Running /\ Steady
    BY <2>1 DEF Running, Searching, Steady
  <2> QED
    BY <2>1, <2>2, LowIs DEF Low, Searching, EuPcs, EbuPcs, EbgPcs, EgPcs, PathInv
<1> USE DEF Running, Searching, EuPcs, EbuPcs, EbgPcs, EgPcs
<1>3. ASSUME ExplainNot \/ ExplainRewritten \/ ExplainAtom \/ ExplainAndRefuse PROVE StackInv'
  <2>1. /\ pc = "recur" /\ pc' \in {"recur", "return"} /\ Length' = Length
        /\ stack' = stack /\ trans' = trans /\ given' = given
    BY <1>3 DEF ExplainNot, ExplainRewritten, ExplainAtom, ExplainAndRefuse, Ended, Length, fsmVars, callVars, pathVars
  <2>2. Low' = Length /\ Low = Length /\ Length \in Nat
    BY <1>2, <1>3, <2>1 DEF Low
  <2> QED
    BY <2>1, <2>2, StackKept
<1>4. ASSUME ExplainSearch \/ EndBase PROVE StackInv'
  <2>1. /\ pc \in {"recur", "based"} /\ Length' = Length
        /\ stack' = stack /\ trans' = trans /\ given' = given
        /\ Searching' => mark' = Length
        /\ pc' \notin {"idle", "done"}
    <3>1. CASE ExplainSearch
      <4>1. pc' \in {"ex", "eu", "eg", "ebu", "ebg"}
        BY <3>1 DEF ExplainSearch, Search
      <4> QED
        BY <3>1, <4>1 DEF ExplainSearch, Length, fsmVars, callVars, pathVars
    <3>2. CASE EndBase
      BY <3>2 DEF EndBase, EndSearch, Length, fsmVars, callVars, pathVars
    <3> QED
      BY <1>4, <3>1, <3>2
  <2>2. Low' = Length /\ Low \in Nat /\ Low <= Length /\ Length \in Nat /\ Running
    BY <1>2, <1>4, <2>1 DEF Low
  <2> QED
    BY <2>1, <2>2, StackKept
<1>5. ASSUME ExplainOr \/ ExplainAnd \/ Continue PROVE StackInv'
  <2>1. PICK kind \in {"or", "left", "keep"} :
          /\ kind \in {"or", "left"} => Op(node) \in {"OR", "AND"}
          /\ stack' = Append(stack, Frame(kind))
          /\ trans' = trans /\ given' = given /\ pc' = "recur" /\ Length' = Length
    BY <1>5 DEF ExplainOr, ExplainAnd, Continue, Length, fsmVars, callVars, pathVars
  <2>2. Low' = Length /\ Low \in Nat /\ Low <= Length /\ Length \in Nat /\ Running /\ Steady
    BY <1>2, <1>5, <2>1 DEF Low
  <2>3. /\ Frame(kind) \in Frames /\ FrameOk(trans, given, Frame(kind))
        /\ Frame(kind).length = Length
    BY <2>1, <2>2, FrameWaits
  <2> HIDE DEF Running
  <2> QED
    BY <2>1, <2>2, <2>3, StackPushed
<1>6. ASSUME Keep \/ OrFound \/ OrRight PROVE StackInv'
  <2>1. /\ pc = "return" /\ stack # <<>> /\ trans' = trans /\ given' = given
        /\ pc' \in {"recur", "return"} /\ stack' = Pop /\ Length' = Length
    BY <1>6 DEF Keep, OrFound, OrRight, Returns, Length, fsmVars, callVars, pathVars
  <2>2. Length \in Nat /\ Top.length <= Length
    BY <1>2, <1>6, <2>1, TopIs
  <2> QED
    BY <2>1, <2>2, StackPopped
<1>7. ASSUME AndRight PROVE StackInv'
  <2> DEFINE fr == [Top EXCEPT !.kind = "right", !.left = Came(Top), !.fresh = FALSE,
                            !.states = states, !.inputs = inputs]
  <2>1. /\ pc = "return" /\ stack # <<>> /\ trans' = trans /\ given' = given
        /\ pc' = "recur" /\ stack' = Append(Pop, fr) /\ Cut(Top.length)
    BY <1>7 DEF AndRight, Returns, fsmVars, callVars
  <2>2. /\ Top \in Frames /\ Waiting(trans, given, Pop)
        /\ Pop # <<>> => Pop[Len(Pop)].length <= Top.length
        /\ Top.length <= Length
    BY <1>2, <1>7, <2>1, TopIs
  <2>3. /\ Prefix(trans, given, states, inputs, Length)
        /\ states \in Seq(SUBSET State) /\ inputs \in Seq(SUBSET Input)
    BY <1>2, <1>7, LowIs
  <2>4. /\ fr \in Frames /\ FrameOk(trans, given, fr) /\ fr.length = Top.length
    <3>0. SetAside(fr)
      BY DEF SetAside
    <3> HIDE DEF fr
    <3>1. fr \in Frames /\ fr.length = Top.length /\ fr.kind = "right"
          /\ fr.states = states /\ fr.inputs = inputs
      BY <2>2, <2>3, <3>0, AsideIs DEF ThenInv
    <3> QED
      BY <2>2, <2>3, <3>1 DEF FrameOk, Length
  <2> HIDE DEF fr
  <2>5. Waiting(trans, given, stack') /\ stack'[Len(stack')] = fr
    BY <2>1, <2>2, <2>4, Pushes
  <2>6. Len(SubSeq(states, 1, Top.length)) = Top.length
    BY <2>2, <2>3, PrefixCut DEF Frames
  <2>7. Low' = Top.length
    BY <2>1, <2>6 DEF Low, Cut, Length
  <2> QED
    BY <2>1, <2>2, <2>4, <2>5, <2>7 DEF StackInv, Top, Frames
<1>8. ASSUME AndJoin PROVE StackInv'
  <2>1. /\ pc = "return" /\ stack # <<>> /\ trans' = trans /\ given' = given
        /\ pc' \in {"recur", "return"} /\ stack' \in {Pop, Marked(Pop)}
        /\ Top.kind = "right"
        /\ states' \in {states, Top.states}
    BY <1>8 DEF AndJoin, Returns, fsmVars, callVars, pathVars
  <2>2. Length \in Nat /\ Top.length <= Length /\ FrameOk(trans, given, Top)
    BY <1>2, <1>8, <2>1, TopIs
  <2>3. Top.length <= Len(Top.states) /\ Len(Top.states) \in Nat
    BY <2>1, <2>2, SetsLength DEF FrameOk, Prefix
  <2> QED
    BY <2>1, <2>2, <2>3, StackPopped DEF Length
<1>9. ASSUME Answer PROVE StackInv'
  BY <1>9 DEF Answer, StackInv, fsmVars, callVars
<1>10. ASSUME NEW by \in DOMAIN Nodes, NEW n \in Nodes[by], NEW s \in Subjects(by, n), Request(by, n, s)
      PROVE  StackInv'
  BY <1>10, NothingWaits DEF StackInv, Request, vars, fsmVars, callVars, pathVars, euVars, egVars
<1>11. ASSUME Taken PROVE StackInv'
  BY <1>11, NothingWaits DEF StackInv, Taken, vars, fsmVars, callVars, pathVars, euVars, egVars
<1>12. ASSUME Restart PROVE StackInv'
  BY <1>12, NothingWaits DEF StackInv, Restart, EndSearch, vars, fsmVars, callVars, pathVars, euVars, egVars
<1>13. ASSUME UNCHANGED vars PROVE StackInv'
  BY <1>13 DEF StackInv, Top, Low, Length, vars, fsmVars, callVars, pathVars, euVars, egVars
<1> HIDE DEF Running, Searching, EuPcs, EbuPcs, EbgPcs, EgPcs
<1>14. CASE ExplainRecur
  BY <1>3, <1>4, <1>5, <1>6, <1>7, <1>8, <1>14 DEF ExplainRecur
<1> QED
  BY <1>1, <1>9, <1>10, <1>11, <1>12, <1>13, <1>14, StepCases

-----------------------------------------------------------------------------
(* The sets eg_explain works with.                                         *)

\* Every pair of eg_si goes on to a state of another.
LEMMA EgSiGoesOn ==
    ASSUME NEW t, NEW R, NEW si
    PROVE  EgSi(t, R, si) \subseteq StateInput /\ GoesOn(t, EgSi(t, R, si))
<1> DEFINE subspace == Within(R, si \cap StatesInputsConstraints(t, R))
           L == CHOOSE L : IsStepLoop(t, R, subspace, L)
           F == EgSi(t, R, si)
<1>1. F = L[StateInput]
  BY Zenon DEF EgSi, IsStepLoop
<1>2. IsStepLoop(t, R, subspace, L)
  <2> HIDE DEF subspace
  <2> QED
    BY StepLoop, Zenon
<1>3. LastRound(t, R, subspace, L[StateInput])
  <2> HIDE DEF subspace, L
  <2> QED
    BY <1>2, StepLoop
<1>4. F \in SUBSET StateInput /\ F \subseteq FairStep(t, R, F, subspace)
  <2> HIDE DEF subspace, L
  <2> QED
    BY <1>1, <1>3 DEF LastRound, StepRound
<1> DEFINE Met == {x \in F : \A p \in Justice : x \in EU(t, R, subspace, F \cap p)}
<1>5. F \subseteq EX(t, R, Met) /\ Met \in SUBSET StateInput /\ Met \subseteq F
  BY <1>4 DEF FairStep
<1>6. ASSUME NEW x \in F PROVE \E u \in StatesOf(F) : Allowed(t, x[1], x[2], u)
  <2> HIDE DEF Met, F
  <2>1. x \in Legal /\ \E y \in Met : y[1] \in Invar /\ Leads(t, x, y)
    BY <1>5, <1>6, ExMeans
  <2>2. PICK y \in Met : y[1] \in Invar /\ Leads(t, x, y)
    BY <2>1
  <2>3. y \in F /\ y \in StateInput /\ F \in SUBSET StateInput
    BY <1>4, <1>5
  <2>4. y[1] \in StatesOf(F)
    BY <2>3, StatesAre
  <2> QED
    BY <2>1, <2>2, <2>4 DEF Allowed, Legal, Leads
<1> QED
  BY <1>4, <1>6 DEF GoesOn

-----------------------------------------------------------------------------
(* What each search makes of the path.                                     *)

\* The numbers of the invariant are naturals.
LEMMA Numbers ==
    ASSUME PathInv
    PROVE  /\ base \in Nat /\ mark \in Nat /\ at \in Nat
           /\ Searching => mark \in 1..Length /\ mark <= Length
           /\ Steady => Length \in Nat \ {0}
BY SetsLength DEF PathInv, Prefix

LEMMA ExExplainPath ==
    ASSUME ThenInv, PathInv, ExExplain
    PROVE  /\ PathInv'
           /\ Grows(states, inputs, states', inputs', 1)
           /\ Length' = Length + 1 /\ Last' \subseteq g /\ Last' \subseteq fair
<1>1. Steady /\ Searching /\ Prefix(trans, given, states, inputs, Length)
  BY DEF ExExplain, Steady, Searching, PathInv
<1>2. /\ ExtendWithOne(Target) /\ Target # {}
      /\ Target \subseteq ForwardImage(trans, Last) /\ Target \subseteq g /\ Target \subseteq fair
  BY DEF ExExplain, Target
<1>3. /\ Prefix(trans, given, states', inputs', Length')
      /\ Grows(states, inputs, states', inputs', 1)
      /\ Length' = Length + 1 /\ Last' \subseteq Target
  BY <1>1, <1>2, ExtendsWithOne
<1>4. pc' \in {"based", "closed", "reopened"}
  BY DEF ExExplain, Ended, ThenInv
<1>5. base' = base /\ at' = at /\ mark' = mark /\ then' = then /\ trans' = trans /\ given' = given
  BY DEF ExExplain, euVars, fsmVars, callVars
<1>6. mark \in 1..Length' /\ base \in Nat /\ mark \in Nat /\ at \in Nat
  BY <1>1, <1>3, Numbers
<1>7. PathInv'
  BY <1>3, <1>4, <1>5, <1>6 DEF PathInv, Searching, Steady, InEbu, EuPcs, EbuPcs, EbgPcs, EgPcs
<1> QED
  BY <1>2, <1>3, <1>7

LEMMA EuAtOncePath ==
    ASSUME ThenInv, PathInv, EuAtOnce
    PROVE  /\ PathInv'
           /\ Alters(states, inputs, states', inputs', Length)
           /\ Length' = Length /\ Length \in Nat \ {0} /\ Last' \subseteq g /\ Last' \subseteq fair
           /\ then # "ebu_found" => Last' = Last
<1>1. /\ Searching /\ mark \in 1..Length /\ base \in Nat /\ mark \in Nat /\ at \in Nat
      /\ pc = "eu" /\ then \in {"based", "met", "returned", "ebu_found"}
      /\ pc' = then /\ ok' = TRUE /\ base' = Length
      /\ at' = at /\ mark' = mark /\ then' = then /\ trans' = trans /\ given' = given /\ f' = f
  BY Numbers DEF EuAtOnce, Ended, Searching, EuPcs, ThenInv, fsmVars, callVars
<1>3. Prefix(trans, given, states, inputs, IF then = "ebu_found" THEN mark ELSE Length)
  BY <1>1 DEF PathInv, Steady, InEbu, EuPcs
<1>4. Sets(states, inputs) /\ Length \in Nat \ {0}
  <2>1. Sets(states, inputs)
    BY <1>3 DEF Prefix
  <2> QED
    BY <2>1, SetsLength DEF Length
<1>5. PICK s \in Pick(Last \cap Accepting) : states' = [states EXCEPT ![Length] = s]
  BY DEF EuAtOnce
<1>6. Last \cap Accepting # {} /\ inputs' = inputs
  BY DEF EuAtOnce
<1>7. /\ Alters(states, inputs, states', inputs', Length)
      /\ Length' = Length /\ Last' = s /\ Length \in 1..Len(states)
      /\ Settled(trans, states', inputs', Length)
      /\ s \subseteq Last \cap Accepting /\ Alone(s)
  <2>1. Last \cap Accepting \subseteq Last
    OBVIOUS
  <2>2. s \subseteq Last \cap Accepting
    BY <1>6, PickOne
  <2>3. /\ Alters(states, inputs, states', inputs', Length)
        /\ Length' = Length /\ Last' = s /\ Length \in 1..Len(states)
        /\ Settled(trans, states', inputs', Length)
    BY <1>4, <1>5, <1>6, <2>1, LastAlters
  <2>4. Last \in SUBSET State
    BY <1>4, <2>3, SetsLength DEF Last
  <2> QED
    BY <1>6, <2>2, <2>3, <2>4, PickState
<1>8. CASE then # "ebu_found"
  <2>1. Prefix(trans, given, states, inputs, Length)
    BY <1>3, <1>8
  <2>2. Prefix(trans, given, states', inputs', Length)
    BY <1>7, <2>1, PrefixAlters
  <2>3. Last' = Last
    BY <1>7, <2>1 DEF Prefix, Alone, Last
  <2>4. PathInv'
    BY <1>1, <1>4, <1>7, <1>8, <2>2 DEF PathInv, Searching, Steady, InEbu, EuPcs, EbuPcs, EbgPcs, EgPcs
  <2> QED
    BY <1>4, <1>7, <2>3, <2>4 DEF Accepting
<1>9. CASE then = "ebu_found"
  <2>1. Prefix(trans, given, states, inputs, mark) /\ mark <= Length
    BY <1>1, <1>3, <1>9
  <2>2. Prefix(trans, given, states', inputs', mark)
    BY <1>4, <1>7, <2>1, PrefixAlters
  <2>3. Chain(trans, states, inputs, mark, Length, f, f, mark)
    BY <1>1, <1>9 DEF PathInv
  <2>4. Chain(trans, states, inputs, mark, Length, f, State, Length)
    BY <1>1, <1>4, <2>3 DEF Chain
  <2>5. Chain(trans, states', inputs', mark, Length, f, State, Length)
    BY <1>1, <1>4, <1>7, <2>4, ChainAlters
  <2>6. PathInv'
    BY <1>1, <1>4, <1>7, <1>9, <2>2, <2>5 DEF PathInv, Searching, Steady, InEbu, EuPcs, EbuPcs, EbgPcs, EgPcs
  <2> QED
    BY <1>4, <1>7, <1>9, <2>6 DEF Accepting
<1> QED
  BY <1>8, <1>9

\* eu_explain looks forwards from the root of the search.
LEMMA EuLoopIs ==
    ASSUME ThenInv, PathInv, pc \in {"eu_loop", "eu_back"}
    PROVE  /\ Prefix(trans, given, states, inputs, Root) /\ Sets(states, inputs)
           /\ Root \in Nat \ {0} /\ Root <= base
           /\ base \in 1..Length /\ mark \in 1..Length /\ mark <= base
           /\ Length \in Nat \ {0} /\ at \in Nat
           /\ then \in {"based", "met", "returned", "ebu_found"}
<1>1. Prefix(trans, given, states, inputs, Root)
  BY DEF PathInv
<1>2. Sets(states, inputs)
  BY <1>1 DEF Prefix
<1>3. /\ base \in 1..Length /\ mark \in 1..Length /\ mark <= base /\ at \in Nat
      /\ then \in {"based", "met", "returned", "ebu_found"}
  BY DEF PathInv, Searching, EuPcs, ThenInv
<1> QED
  BY <1>1, <1>2, <1>3, SetsLength DEF Root, Length

LEMMA EuFoundPath ==
    ASSUME ThenInv, PathInv, EuFound
    PROVE  /\ PathInv'
           /\ Grows(states, inputs, states', inputs', 1) /\ Length \in Nat
           /\ Length' = Length + 1 /\ Last' \subseteq g /\ Last' \subseteq fair
<1>1. /\ pc = "eu_loop" /\ Image \cap Accepting # {}
      /\ at' = Length + 1 /\ pc' = "eu_back"
      /\ base' = base /\ mark' = mark /\ then' = then /\ trans' = trans /\ given' = given /\ f' = f
  BY DEF EuFound, fsmVars, callVars
<1>2. PICK s \in Pick(Image \cap Accepting) : Extend(s)
  BY DEF EuFound
<1>3. /\ Prefix(trans, given, states, inputs, Root) /\ Sets(states, inputs)
      /\ Root \in Nat \ {0} /\ Root <= base
      /\ base \in 1..Length /\ mark \in 1..Length /\ mark <= base
      /\ Length \in Nat \ {0}
  BY <1>1, EuLoopIs
<1>4. s \subseteq Image \cap Accepting /\ Alone(s) /\ s \in SUBSET State
  <2>1. Image \cap Accepting \in SUBSET State
    BY FsmAssumption DEF Image, ForwardImage
  <2> QED
    BY <1>1, <1>2, <2>1, PickState
<1>5. /\ Fills(states, inputs, states', inputs', s, 1)
      /\ Length' = Length + 1 /\ states'[Length + 1] = s
  BY <1>2, <1>3, <1>4, ExtendsOne
<1>6. Reached(trans, Last \cap State, s)
  <2>1. new \subseteq Last /\ Last \subseteq State
    BY <1>1, <1>3, SetsLength DEF PathInv, Last, Length
  <2>2. s \subseteq ForwardImage(trans, Last \cap State)
    BY <1>4, <2>1 DEF Image, ForwardImage
  <2> QED
    BY <2>2, ForwardReached
<1>7. Chain(trans, states', inputs', Root, Length', f, State, base)
  <2>1. Chain(trans, states, inputs, Root, Length, f, State, base)
    BY <1>1 DEF PathInv
  <2>2. base \in Nat /\ base <= Len(states)
    BY <1>3 DEF Length
  <2> QED
    BY <1>3, <1>5, <1>6, <2>1, <2>2, FillsLinks DEF Last, Length
<1>8. Prefix(trans, given, states', inputs', Root)
  BY <1>3, <1>5, PrefixGrows DEF Fills
<1>9. Settled(trans, states', inputs', Length')
  <2>1. Sets(states', inputs') /\ Alone(states'[Len(states')])
    BY <1>4, <1>5 DEF Fills, Grows, Length
  <2> QED
    BY <2>1, LastSettled DEF Length
<1>10. PathInv'
  BY <1>1, <1>3, <1>5, <1>7, <1>8, <1>9
  DEF PathInv, Root, Searching, Steady, InEbu, EuPcs, EbuPcs, EbgPcs, EgPcs
<1> QED
  BY <1>3, <1>4, <1>5, <1>10 DEF Last, Accepting, Fills

LEMMA EuIteratePath ==
    ASSUME ThenInv, PathInv, EuIterate
    PROVE  /\ PathInv'
           /\ Grows(states, inputs, states', inputs', 1) /\ Length \in Nat
           /\ Length' = Length + 1
<1>1. /\ pc = "eu_loop" /\ Extend(new') /\ new' = (Image \cap f) \ Z /\ new' # {}
      /\ at' = at /\ pc' = pc
      /\ base' = base /\ mark' = mark /\ then' = then /\ trans' = trans /\ given' = given /\ f' = f
  BY DEF EuIterate, fsmVars, callVars
<1>2. /\ Prefix(trans, given, states, inputs, Root) /\ Sets(states, inputs)
      /\ Root \in Nat \ {0} /\ Root <= base
      /\ base \in 1..Length /\ mark \in 1..Length /\ mark <= base
      /\ Length \in Nat \ {0} /\ at \in Nat
  BY <1>1, EuLoopIs
<1>3. new' \in SUBSET State /\ new' \subseteq Image
  BY <1>1, FsmAssumption DEF Image, ForwardImage
<1>4. /\ Fills(states, inputs, states', inputs', new', 1)
      /\ Length' = Length + 1 /\ states'[Length + 1] = new'
  BY <1>1, <1>2, <1>3, ExtendsOne
<1>5. Reached(trans, Last \cap State, new')
  <2>1. new \subseteq Last /\ Last \subseteq State
    BY <1>1, <1>2, SetsLength DEF PathInv, Last, Length
  <2>2. new' \subseteq ForwardImage(trans, Last \cap State)
    BY <1>3, <2>1 DEF Image, ForwardImage
  <2> QED
    BY <2>2, ForwardReached
<1>6. Chain(trans, states', inputs', Root, Length', f, State, base)
  <2>1. Chain(trans, states, inputs, Root, Length, f, State, base)
    BY <1>1 DEF PathInv
  <2>2. base \in Nat /\ base <= Len(states)
    BY <1>2 DEF Length
  <2> QED
    BY <1>2, <1>4, <1>5, <2>1, <2>2, FillsLinks DEF Last, Length
<1>7. Prefix(trans, given, states', inputs', Root)
  BY <1>2, <1>4, PrefixGrows DEF Fills
<1>8. new' \subseteq Last'
  BY <1>4 DEF Last
<1>9. PathInv'
  BY <1>1, <1>2, <1>4, <1>6, <1>7, <1>8
  DEF PathInv, Root, Searching, Steady, InEbu, EuPcs, EbuPcs, EbgPcs, EgPcs
<1> QED
  BY <1>2, <1>4, <1>9 DEF Fills

\* A path is cut where it was one.
LEMMA Cuts ==
    ASSUME NEW n, NEW k \in Nat, Prefix(trans, given, states, inputs, n), k \in 1..Len(states), Cut(k)
    PROVE  /\ Length' = k /\ Same(states, states', k)
           /\ n <= k => Prefix(trans, given, states', inputs', n)
           /\ k <= n => Prefix(trans, given, states', inputs', k)
<1>1. states' = SubSeq(states, 1, k) /\ inputs' = SubSeq(inputs, 1, k - 1)
  BY DEF Cut
<1>2. /\ Len(SubSeq(states, 1, k)) = k
      /\ Same(states, SubSeq(states, 1, k), k)
      /\ n <= k => Prefix(trans, given, SubSeq(states, 1, k), SubSeq(inputs, 1, k - 1), n)
      /\ k <= n => Prefix(trans, given, SubSeq(states, 1, k), SubSeq(inputs, 1, k - 1), k)
  BY PrefixCut
<1> QED
  BY <1>1, <1>2 DEF Length

LEMMA EuFailPath ==
    ASSUME ThenInv, PathInv, EuFail
    PROVE  /\ PathInv'
           /\ Length' = base /\ Same(states, states', base)
<1>1. /\ pc = "eu_loop" /\ Cut(base) /\ ok' = FALSE /\ at' = at /\ pc' = then
      /\ base' = base /\ mark' = mark /\ then' = then /\ trans' = trans /\ given' = given /\ f' = f
  BY DEF EuFail, Forget, Ended, fsmVars, callVars
<1>2. /\ Prefix(trans, given, states, inputs, Root)
      /\ Root \in Nat \ {0} /\ Root <= base
      /\ base \in 1..Length /\ mark \in 1..Length /\ mark <= base
      /\ Length \in Nat \ {0} /\ at \in Nat
      /\ then \in {"based", "met", "returned", "ebu_found"}
  BY <1>1, EuLoopIs
<1>3. base \in Nat /\ mark \in Nat \ {0} /\ base \in 1..Len(states)
  BY <1>2 DEF Length
<1>4. /\ Length' = base /\ Same(states, states', base)
      /\ Root <= base => Prefix(trans, given, states', inputs', Root)
  BY <1>1, <1>2, <1>3, Cuts
<1>5. PathInv'
  BY <1>1, <1>2, <1>3, <1>4
  DEF PathInv, Root, Searching, Steady, InEbu, EuPcs, EbuPcs, EbgPcs, EgPcs
<1> QED
  BY <1>4, <1>5

LEMMA EuBackPath ==
    ASSUME ThenInv, PathInv, EuBack
    PROVE  /\ PathInv'
           /\ Length' = Length /\ Same(states, states', Root) /\ Last' = Last
           /\ \E n \in Nat : Alters(states, inputs, states', inputs', n)
<1>1. /\ pc = "eu_back" /\ at > base /\ Instantiate(State) /\ at' = at - 1 /\ pc' = pc
      /\ base' = base /\ mark' = mark /\ then' = then /\ trans' = trans /\ given' = given /\ f' = f
  BY DEF EuBack, fsmVars, callVars
<1>2. /\ Prefix(trans, given, states, inputs, Root) /\ Sets(states, inputs)
      /\ Root \in Nat \ {0} /\ Root <= base
      /\ base \in 1..Length /\ mark \in 1..Length /\ mark <= base
      /\ Length \in Nat \ {0}
  BY <1>1, EuLoopIs
<1>3. /\ at \in base..Length
      /\ Chain(trans, states, inputs, Root, at, f, State, base)
      /\ Settled(trans, states, inputs, at)
  BY <1>1 DEF PathInv
<1> DEFINE n == at - 1
<1>4. /\ n \in Nat \ {0} /\ at = n + 1 /\ at \in 1..Len(states) /\ n \in base..Length
      /\ Root <= n /\ Root < at /\ base <= n
  BY <1>1, <1>2, <1>3 DEF Length
<1> HIDE DEF n
<1>5. Linked(trans, states[n] \cap State, inputs[n], states[at]) /\ Alone(states[at])
  <2>1. n \in Root..(at - 1)
    BY <1>2, <1>4
  <2>2. ~(n < base)
    BY <1>2, <1>4
  <2>3. Linked(trans, states[n] \cap (IF n < base THEN f ELSE State), inputs[n], states[n + 1])
    BY <1>3, <2>1 DEF Chain
  <2> QED
    BY <1>3, <1>4, <2>2, <2>3 DEF Settled
<1>6. /\ Alters(states, inputs, states', inputs', n)
      /\ Joined(trans, states'[n], inputs'[n], states[at])
  BY <1>1, <1>2, <1>4, <1>5, Instantiates
<1>7. /\ Prefix(trans, given, states', inputs', Root)
      /\ Chain(trans, states', inputs', Root, n, f, State, base)
      /\ Settled(trans, states', inputs', n)
      /\ states'[Len(states')] = states[Len(states)]
      /\ Same(states, states', Root)
  BY <1>2, <1>3, <1>4, <1>6, TurnsBack, ZenonT(60)
<1>8. Length' = Length /\ Last' = Last
  BY <1>6, <1>7 DEF Alters, Length, Last
<1>9. at' = n
  BY <1>1 DEF n
<1>10. PathInv'
  BY <1>1, <1>2, <1>4, <1>7, <1>8, <1>9
  DEF PathInv, Root, Searching, Steady, InEbu, EuPcs, EbuPcs, EbgPcs, EgPcs
<1> QED
  BY <1>1, <1>4, <1>6, <1>7, <1>8, <1>10

LEMMA MetByStepPath ==
    ASSUME PathInv, HulkInv, MetByStep
    PROVE  /\ PathInv'
           /\ Grows(states, inputs, states', inputs', 1) /\ Length \in Nat
           /\ Length' = Length + 1
<1>1. /\ pc = "met" /\ ok /\ pc' = "meet" /\ at' = at
      /\ base' = base /\ mark' = mark /\ then' = then /\ trans' = trans /\ given' = given /\ f' = f
  BY DEF MetByStep, fsmVars, callVars, euVars
<1>2. PICK k \in Pick({x[2] : x \in (Last \X Input) \cap target}) :
      \E s \in Pick(ForwardBy(Last, k) \cap StatesOf(hulk)) :
        /\ states' = Append(states, s)
        /\ inputs' = Append(inputs, k)
  BY DEF MetByStep
<1>3. PICK s \in Pick(ForwardBy(Last, k) \cap StatesOf(hulk)) :
        /\ states' = Append(states, s)
        /\ inputs' = Append(inputs, k)
  BY <1>2
<1>4. /\ Prefix(trans, given, states, inputs, Length) /\ Sets(states, inputs)
      /\ mark \in 1..Length /\ Length \in Nat \ {0} /\ base \in Nat /\ mark \in Nat /\ at \in Nat
  BY <1>1, Numbers DEF PathInv, Steady, Searching, EgPcs, Prefix
<1>5. PICK x \in State : Last = {x}
  BY <1>4 DEF Prefix, Alone, Last
<1>6. target \subseteq hulk /\ hulk \subseteq StateInput /\ GoesOn(trans, hulk) /\ x \in StatesOf(target)
  BY <1>1, <1>5 DEF HulkInv, InEg, EgPcs
<1>7. PICK j \in Input : k = {j} /\ <<x, j>> \in hulk
  <2> DEFINE S == {y[2] : y \in (Last \X Input) \cap target}
  <2>1. \A j \in S : j \in Input /\ <<x, j>> \in target
    <3> SUFFICES ASSUME NEW y \in (Last \X Input) \cap target PROVE y[2] \in Input /\ <<x, y[2]>> \in target
      OBVIOUS
    <3>1. y = <<y[1], y[2]>> /\ y[1] = x /\ y[2] \in Input
      BY <1>5
    <3> QED
      BY <3>1
  <2>2. S # {}
    <3>1. PICK j \in Input : <<x, j>> \in target
      BY <1>6 DEF StatesOf
    <3>2. <<x, j>> \in (Last \X Input) \cap target /\ <<x, j>>[2] = j
      BY <1>5, <3>1
    <3> QED
      BY <3>2
  <2>3. \E j \in S : k = {j}
    <3>1. k \in Pick(S)
      OBVIOUS
    <3> HIDE DEF S
    <3> QED
      BY <2>2, <3>1, PickOne
  <2> HIDE DEF S
  <2> QED
    BY <1>6, <2>1, <2>3
<1>8. PICK u \in StatesOf(hulk) : Allowed(trans, x, j, u)
  <2>1. <<x, j>>[1] = x /\ <<x, j>>[2] = j
    OBVIOUS
  <2> QED
    BY <1>6, <1>7, <2>1 DEF GoesOn
<1>9. ForwardBy(Last, k) \cap StatesOf(hulk) # {}
  BY <1>5, <1>7, <1>8 DEF ForwardBy, Allowed
<1>10. PICK v \in ForwardBy(Last, k) \cap StatesOf(hulk) : s = {v}
  BY <1>3, <1>9, PickOne
<1>11. Joined(trans, Last, k, s)
  <2>1. Allowed(trans, x, j, v) /\ v \in State
    BY <1>5, <1>7, <1>10, FsmAssumption DEF ForwardBy, Allowed
  <2> QED
    BY <1>5, <1>7, <1>10, <2>1 DEF Joined
<1>12. /\ Grows(states, inputs, states', inputs', 1)
       /\ Length' = Length + 1
       /\ states'[Length] = Last /\ inputs'[Length] = k /\ states'[Length + 1] = s
  <2>1. s \in SUBSET State /\ k \in SUBSET Input
    BY <1>7, <1>11 DEF Joined
  <2> QED
    BY <1>3, <1>4, <2>1, AppendsOne
<1>13. Prefix(trans, given, states', inputs', Length')
  BY <1>4, <1>11, <1>12, OneMore DEF Length
<1>14. PathInv'
  BY <1>1, <1>4, <1>12, <1>13 DEF PathInv, Searching, Steady, InEbu, EuPcs, EbuPcs, EbgPcs, EgPcs
<1> QED
  BY <1>4, <1>12, <1>14

LEMMA ReopenPath ==
    ASSUME PathInv, Reopen
    PROVE  PathInv'
<1>1. /\ pc \in {"returned", "closed"} /\ Cut(mark) /\ pc' = "ex" /\ then' = "reopened" /\ at' = at
      /\ base' = base /\ mark' = mark /\ trans' = trans /\ given' = given
  BY DEF Reopen, fsmVars, callVars
<1>2. /\ Prefix(trans, given, states, inputs, Length)
      /\ mark \in 1..Length /\ Length \in Nat \ {0} /\ base \in Nat /\ mark \in Nat \ {0} /\ at \in Nat
  BY <1>1, Numbers DEF PathInv, Steady, Searching, EgPcs
<1>3. mark \in 1..Len(states) /\ mark <= Length
  BY <1>2 DEF Length
<1>4. Length' = mark /\ Prefix(trans, given, states', inputs', mark)
  BY <1>1, <1>2, <1>3, Cuts
<1> QED
  BY <1>1, <1>2, <1>4 DEF PathInv, Searching, Steady, InEbu, EuPcs, EbuPcs, EbgPcs, EgPcs

\* ebg_explain is asked for a path that is longer than its lower bound.
StrictBounds == \A n \in Node : Op(n) = "EBG" => Syntax[n].inf < Syntax[n].sup

LEMMA BoundsAre ==
    ASSUME NodeInv, InEbu \/ pc \in EbgPcs
    PROVE  /\ Inf \in Nat /\ Sup \in Nat
           /\ StrictBounds /\ pc \in EbgPcs => Inf < Sup
<1>1. node \in Node /\ (pc \in EbgPcs => Op(node) = "EBG")
  BY DEF NodeInv, Running, Searching, InEbu
<1> QED
  BY <1>1, ExplainAssumption DEF Inf, Sup, StrictBounds

\* Where a bounded search is.
LEMMA BoundedIs ==
    ASSUME PathInv, InEbu \/ pc \in EbgPcs
    PROVE  /\ Prefix(trans, given, states, inputs, mark) /\ Sets(states, inputs)
           /\ mark \in 1..Length /\ mark \in Nat \ {0} /\ mark <= Length
           /\ Length \in Nat \ {0} /\ base \in Nat /\ at \in Nat
<1>1. Searching /\ Prefix(trans, given, states, inputs, mark)
  BY DEF PathInv, Searching, InEbu
<1>2. Sets(states, inputs)
  BY <1>1 DEF Prefix
<1>3. Length \in Nat \ {0}
  BY <1>2, SetsLength DEF Length
<1> QED
  BY <1>1, <1>2, <1>3, Numbers

LEMMA AdvancePath ==
    ASSUME NodeInv, PathInv, BoundInv, EbuAdvance \/ EbgAdvance \/ EbgHold
    PROVE  /\ PathInv' /\ BoundInv'
           /\ \E n \in Nat : Grows(states, inputs, states', inputs', n)
<1>1. InEbu \/ pc \in EbgPcs
  BY DEF EbuAdvance, EbgAdvance, EbgHold, InEbu, EbuPcs, EbgPcs
<1>2. /\ Prefix(trans, given, states, inputs, mark) /\ Sets(states, inputs)
      /\ mark \in 1..Length /\ mark \in Nat \ {0} /\ mark <= Length
      /\ Length \in Nat \ {0} /\ base \in Nat /\ at \in Nat
      /\ Inf \in Nat /\ Sup \in Nat /\ i \in Nat
  BY <1>1, BoundedIs, BoundsAre DEF BoundInv
<1>3. /\ pc' = pc /\ UNCHANGED <<trans, given, f, g, fair, base, at, mark, then, node>>
      /\ Accepting' = Accepting /\ Inf' = Inf /\ Sup' = Sup
  BY DEF EbuAdvance, EbgAdvance, EbgHold, fsmVars, callVars, euVars, Accepting, Inf, Sup
<1>4. CASE EbuAdvance
  <2>1. /\ pc = "ebu" /\ i < Inf /\ Advance(f, State, Inf)
        /\ Chain(trans, states, inputs, mark, Length, f, f, mark)
    BY <1>4 DEF EbuAdvance, PathInv
  <2>2. /\ Chain(trans, states', inputs', mark, Length', f, f, mark)
        /\ \E n \in Nat : Grows(states, inputs, states', inputs', n)
        /\ Length <= Length' /\ i' \in Nat /\ i < i' /\ i' <= Inf
    BY <1>2, <2>1, Advances
  <2>3. Prefix(trans, given, states', inputs', mark)
    BY <1>2, <2>2, PrefixGrows
  <2>4. Length' \in Nat
    BY <2>3, SetsLength DEF Prefix, Length
  <2> QED
    BY <1>2, <1>3, <2>1, <2>2, <2>3, <2>4
    DEF PathInv, BoundInv, Searching, Steady, InEbu, EuPcs, EbuPcs, EbgPcs, EgPcs
<1>5. CASE EbgAdvance
  <2>1. /\ pc = "ebg" /\ i < Inf /\ Advance(State, State, Inf)
        /\ Chain(trans, states, inputs, mark, Length, State, State, mark)
    BY <1>5 DEF EbgAdvance, PathInv
  <2>2. /\ Chain(trans, states', inputs', mark, Length', State, State, mark)
        /\ \E n \in Nat : Grows(states, inputs, states', inputs', n)
        /\ Length <= Length' /\ i' \in Nat /\ i < i' /\ i' <= Inf
    BY <1>2, <2>1, Advances
  <2>3. Prefix(trans, given, states', inputs', mark)
    BY <1>2, <2>2, PrefixGrows
  <2>4. Length' \in Nat
    BY <2>3, SetsLength DEF Prefix, Length
  <2> QED
    BY <1>2, <1>3, <2>1, <2>2, <2>3, <2>4
    DEF PathInv, BoundInv, Searching, Steady, InEbu, EuPcs, EbuPcs, EbgPcs, EgPcs
<1>6. CASE EbgHold
  <2>1. /\ pc = "ebg_hold" /\ i < Sup /\ Advance(Accepting, Accepting, Sup) /\ i >= Inf
        /\ Chain(trans, states, inputs, mark, Length, State, Accepting, base)
        /\ base \in mark..Length /\ base <= Length
    BY <1>6 DEF EbgHold, PathInv, BoundInv
  <2>2. /\ Chain(trans, states', inputs', mark, Length', State, Accepting, base)
        /\ \E n \in Nat : Grows(states, inputs, states', inputs', n)
        /\ Length <= Length' /\ i' \in Nat /\ i < i' /\ i' <= Sup
        /\ Last' # {} /\ Last' \subseteq Accepting
    BY <1>2, <2>1, Advances
  <2>3. Prefix(trans, given, states', inputs', mark)
    BY <1>2, <2>2, PrefixGrows
  <2>4. Length' \in Nat
    BY <2>3, SetsLength DEF Prefix, Length
  <2> QED
    BY <1>2, <1>3, <2>1, <2>2, <2>3, <2>4
    DEF PathInv, BoundInv, Searching, Steady, InEbu, EuPcs, EbuPcs, EbgPcs, EgPcs
<1> QED
  BY <1>4, <1>5, <1>6

LEMMA BoundedFailPath ==
    ASSUME PathInv, InEbu \/ pc \in EbgPcs, BoundedFail
    PROVE  PathInv'
<1>1. /\ Cut(mark) /\ pc' = "based" /\ UNCHANGED <<trans, given, base, at, mark>>
  BY DEF BoundedFail, Ended, fsmVars, callVars, euVars
<1>2. /\ Prefix(trans, given, states, inputs, mark)
      /\ mark \in 1..Len(states) /\ mark \in Nat \ {0} /\ mark <= mark /\ base \in Nat /\ at \in Nat
  BY BoundedIs DEF Length
<1>3. Length' = mark /\ Prefix(trans, given, states', inputs', mark)
  BY <1>1, <1>2, Cuts
<1> QED
  BY <1>1, <1>2, <1>3 DEF PathInv, Searching, Steady, InEbu, EuPcs, EbuPcs, EbgPcs, EgPcs

LEMMA EbgFoundPath ==
    ASSUME StrictBounds, NodeInv, PathInv, BoundInv, EbgFound
    PROVE  PathInv' /\ Same(states, states', mark) /\ Last' \subseteq Accepting
<1>1. /\ pc = "ebg_hold" /\ i = Sup /\ at' = Length /\ pc' = "ebg_back" /\ inputs' = inputs
      /\ UNCHANGED <<trans, given, f, g, fair, base, mark, then>> /\ Accepting' = Accepting
  BY DEF EbgFound, fsmVars, callVars, Accepting
<1>2. PICK s \in Pick(Accepting \cap Last) : states' = [states EXCEPT ![Length] = s]
  BY DEF EbgFound
<1>3. pc \in EbgPcs
  BY <1>1 DEF EbgPcs
<1>4. /\ Prefix(trans, given, states, inputs, mark) /\ Sets(states, inputs)
      /\ mark \in 1..Length /\ mark \in Nat \ {0} /\ mark <= Length
      /\ Length \in Nat \ {0} /\ base \in Nat /\ base \in mark..Length
      /\ Inf \in Nat /\ Sup \in Nat /\ Inf < Sup
      /\ Chain(trans, states, inputs, mark, Length, State, Accepting, base)
  BY <1>1, <1>3, BoundedIs, BoundsAre DEF PathInv
<1>5. Last # {} /\ Last \subseteq Accepting
  BY <1>1, <1>4 DEF BoundInv
<1>6. Last \in SUBSET State /\ Accepting \cap Last = Last
  BY <1>4, <1>5, SetsLength DEF Last, Length
<1>7. s \subseteq Last /\ Alone(s)
  BY <1>5, <1>6, PickState
<1>8. /\ Alters(states, inputs, states', inputs', Length)
      /\ Length' = Length /\ Last' = s /\ Length \in 1..Len(states)
      /\ Settled(trans, states', inputs', Length)
  BY <1>1, <1>2, <1>4, <1>5, <1>6, LastAlters
<1>9. Prefix(trans, given, states', inputs', mark) /\ Same(states, states', mark)
  BY <1>4, <1>8, PrefixAlters
<1>10. Chain(trans, states', inputs', mark, Length, State, Accepting, base)
  BY <1>4, <1>8, ChainAlters
<1>11. Last' \subseteq Accepting
  BY <1>5, <1>7, <1>8
<1>12. PathInv'
  BY <1>1, <1>4, <1>8, <1>9, <1>10
  DEF PathInv, Searching, Steady, InEbu, EuPcs, EbuPcs, EbgPcs, EgPcs
<1> QED
  BY <1>9, <1>11, <1>12

LEMMA BoundedBackPath ==
    ASSUME PathInv, EbuBack \/ EbgBack
    PROVE  PathInv' /\ Same(states, states', mark) /\ Last' = Last
<1>1. /\ pc \in {"ebu_back", "ebg_back"} /\ at > mark /\ at' = at - 1 /\ pc' = pc
      /\ UNCHANGED <<trans, given, f, g, fair, base, mark, then>> /\ Accepting' = Accepting
  BY DEF EbuBack, EbgBack, fsmVars, callVars, Accepting
<1> DEFINE n == at - 1
           F == IF pc = "ebu_back" THEN f ELSE State
           G == IF pc = "ebu_back" THEN State ELSE Accepting
           X == IF n < base THEN F ELSE G
<1>2. InEbu \/ pc \in EbgPcs
  BY <1>1 DEF InEbu, EbuPcs, EbgPcs
<1>3. /\ Prefix(trans, given, states, inputs, mark) /\ Sets(states, inputs)
      /\ mark \in 1..Length /\ mark \in Nat \ {0} /\ mark <= Length
      /\ Length \in Nat \ {0} /\ base \in Nat /\ at \in Nat
  BY <1>2, BoundedIs
<1>4. /\ at \in mark..Length /\ base \in mark..Length
      /\ Chain(trans, states, inputs, mark, at, F, G, base)
      /\ Settled(trans, states, inputs, at)
      /\ pc = "ebu_back" => at <= base
  BY <1>1, <1>3 DEF PathInv
<1>5. /\ n \in Nat \ {0} /\ at = n + 1 /\ at \in 1..Len(states)
      /\ mark <= n /\ mark < at /\ n <= Length
  BY <1>1, <1>3, <1>4 DEF Length
<1>6. Instantiate(X)
  BY <1>1, <1>3, <1>4, <1>5 DEF EbuBack, EbgBack
<1>7. at' = n
  BY <1>1
<1> HIDE DEF n
<1>8. Linked(trans, states[n] \cap X, inputs[n], states[at]) /\ Alone(states[at])
  <2> HIDE DEF F, G
  <2>0. n \in mark..(at - 1)
    BY <1>3, <1>5
  <2>1. Linked(trans, states[n] \cap X, inputs[n], states[n + 1])
    BY <1>4, <2>0 DEF Chain
  <2> QED
    BY <1>4, <1>5, <2>1 DEF Settled
<1> HIDE DEF F, G, X
<1>9. /\ Alters(states, inputs, states', inputs', n)
      /\ Joined(trans, states'[n], inputs'[n], states[at])
  BY <1>3, <1>5, <1>6, <1>8, Instantiates
<1>10. /\ Prefix(trans, given, states', inputs', mark)
       /\ Chain(trans, states', inputs', mark, n, F, G, base)
       /\ Settled(trans, states', inputs', n)
       /\ Same(states, states', mark) /\ states'[Len(states')] = states[Len(states)]
  <2>1. n \in Nat /\ at = n + 1 /\ mark < at /\ Prefix(trans, given, states, inputs, mark)
    BY <1>3, <1>5
  <2> QED
    BY <1>4, <1>9, <2>1, TurnsBack
<1>11. Length' = Length /\ Last' = Last
  BY <1>9, <1>10 DEF Alters, Length, Last
<1>12. PathInv'
  BY <1>1, <1>3, <1>4, <1>5, <1>7, <1>10, <1>11
  DEF PathInv, Searching, Steady, InEbu, EuPcs, EbuPcs, EbgPcs, EgPcs, F, G
<1> QED
  BY <1>10, <1>11, <1>12

-----------------------------------------------------------------------------
(* The path, through every step.                                           *)

\* Where the path is one and stays as it is.
LEMMA SteadyKept ==
    ASSUME PathInv, Steady, UNCHANGED <<trans, given, states, inputs>>,
           pc' \notin EuPcs \ {"eu"}, ~(InEbu \/ pc \in EbgPcs)',
           {base', mark', at'} \subseteq Nat, Searching' => mark' \in 1..Length
    PROVE  PathInv'
<1>1. Prefix(trans, given, states, inputs, Length)
  BY DEF PathInv
<1>2. Prefix(trans', given', states', inputs', Length') /\ Length' = Length
  BY <1>1 DEF Length
<1> QED
  BY <1>2 DEF PathInv, InEbu, EuPcs, EbuPcs, EbgPcs

\* What follows a chain may be linked through another set.
LEMMA ChainTurns ==
    ASSUME NEW lo \in Nat, NEW l \in Nat, NEW F, NEW G, NEW b,
           Chain(trans, states, inputs, lo, l, F, F, b)
    PROVE  Chain(trans, states, inputs, lo, l, F, G, l)
<1> SUFFICES ASSUME NEW m \in lo..(l - 1)
             PROVE  Linked(trans, states[m] \cap (IF m < l THEN F ELSE G), inputs[m], states[m + 1])
  BY DEF Chain
<1>1. m < l
  OBVIOUS
<1>2. Linked(trans, states[m] \cap (IF m < b THEN F ELSE F), inputs[m], states[m + 1])
  BY DEF Chain
<1> QED
  BY <1>1, <1>2

LEMMA EuPath == ThenInv /\ PathInv /\ EuSearch => PathInv'
<1> SUFFICES ASSUME ThenInv, PathInv, EuSearch PROVE PathInv'
  OBVIOUS
<1>1. CASE EuRefuse
  <2>1. /\ pc = "eu" /\ then \in {"based", "met", "returned", "ebu_found"} /\ pc' = then /\ ok' = FALSE
        /\ UNCHANGED <<trans, given, states, inputs, base, mark, at, then, f, g>> /\ Length' = Length
    BY <1>1 DEF EuRefuse, Ended, ThenInv, EuPcs, fsmVars, callVars, pathVars, euVars, Length
  <2>2. then # "ebu_found" => Prefix(trans, given, states, inputs, Length)
    BY <2>1 DEF PathInv, Steady
  <2>3. then = "ebu_found" => Prefix(trans, given, states, inputs, mark)
    BY <2>1 DEF PathInv, InEbu, EuPcs
  <2> QED
    BY <2>1, <2>2, <2>3, Numbers DEF PathInv, Searching, Steady, InEbu, EuPcs, EbuPcs, EbgPcs, EgPcs
<1>2. CASE EuCall
  <2>1. /\ pc = "eu" /\ then \in {"based", "met", "returned", "ebu_found"} /\ pc' = "eu_loop"
        /\ base' = Length /\ new' \subseteq Last
        /\ UNCHANGED <<trans, given, states, inputs, mark, at, then, f, g>> /\ Length' = Length
    BY <1>2 DEF EuCall, ThenInv, EuPcs, fsmVars, callVars, pathVars, Length
  <2>2. mark \in 1..Length /\ mark \in Nat /\ at \in Nat
    BY <2>1, Numbers DEF Searching, EuPcs
  <2>3. Prefix(trans, given, states, inputs, IF then = "ebu_found" THEN mark ELSE Length)
    BY <2>1 DEF PathInv, Steady, InEbu, EuPcs
  <2>4. Length \in Nat \ {0}
    <3>1. Sets(states, inputs)
      BY <2>3 DEF Prefix
    <3> QED
      BY <3>1, SetsLength DEF Length
  <2>5. Chain(trans, states, inputs, IF then = "ebu_found" THEN mark ELSE Length, Length, f, State, Length)
    <3>1. CASE then = "ebu_found"
      <4>1. Chain(trans, states, inputs, mark, Length, f, f, mark)
        BY <2>1, <3>1 DEF PathInv
      <4> QED
        BY <2>2, <2>4, <3>1, <4>1, ChainTurns
    <3>2. CASE then # "ebu_found"
      BY <2>4, <3>2 DEF Chain
    <3> QED
      BY <3>1, <3>2
  <2>6. Last' = Last
    BY <2>1 DEF Last
  <2> QED
    BY <2>1, <2>2, <2>3, <2>4, <2>5, <2>6
    DEF PathInv, Root, Searching, Steady, InEbu, EuPcs, EbuPcs, EbgPcs, EgPcs
<1>3. CASE EuDone
  <2>1. /\ pc = "eu_back" /\ at = base /\ pc' = then
        /\ UNCHANGED <<trans, given, states, inputs, base, mark, at, then, f, g>> /\ Length' = Length
    BY <1>3 DEF EuDone, Ended, fsmVars, callVars, pathVars, euVars, Length
  <2>2. /\ Prefix(trans, given, states, inputs, Root)
        /\ base \in 1..Length /\ mark \in 1..Length /\ mark <= base
        /\ Length \in Nat \ {0} /\ at \in Nat
        /\ then \in {"based", "met", "returned", "ebu_found"}
    BY <2>1, EuLoopIs
  <2>3. /\ Chain(trans, states, inputs, Root, base, f, State, base)
        /\ Settled(trans, states, inputs, base)
    BY <2>1 DEF PathInv
  <2>4. then # "ebu_found" => Prefix(trans, given, states, inputs, Length)
    BY <2>2, <2>3, WholePath DEF Root, Length
  <2> QED
    BY <2>1, <2>2, <2>3, <2>4
    DEF PathInv, Root, Searching, Steady, InEbu, EuPcs, EbuPcs, EbgPcs, EgPcs
<1> QED
  BY <1>1, <1>2, <1>3, EuAtOncePath, EuFoundPath, EuIteratePath, EuFailPath, EuBackPath DEF EuSearch

LEMMA EgPath == PathInv /\ HulkInv /\ EgSearch => PathInv'
<1> SUFFICES ASSUME PathInv, HulkInv, EgSearch PROVE PathInv'
  OBVIOUS
<1>1. CASE EgRefuse \/ EgCall \/ StartRound \/ (\E p \in Justice : Meet(p)) \/ MetByState \/ Return
             \/ Close \/ Closed1 \/ Reopened
  <2>1. /\ pc \in EgPcs /\ UNCHANGED <<trans, given, states, inputs, base, at>>
        /\ \/ pc' \in {"based", "ex"} \cup EgPcs
           \/ pc' = "eu" /\ then' \in {"met", "returned"}
        /\ mark' \in {mark, Length} /\ Length' = Length
    <3>1. CASE EgRefuse \/ EgCall \/ StartRound \/ (\E p \in Justice : Meet(p))
      BY <3>1 DEF EgRefuse, Ended, EgCall, StartRound, Meet, EgPcs, Length, fsmVars, callVars, pathVars, euVars
    <3>2. CASE MetByState \/ Return \/ Close \/ Closed1 \/ Reopened
      BY <3>2 DEF MetByState, Return, Close, Closed1, Ended, Reopened, EgPcs, Length, fsmVars, callVars, pathVars, euVars
    <3> QED
      BY <1>1, <3>1, <3>2
  <2>2. Steady /\ Searching /\ pc' \notin EuPcs \ {"eu"} /\ ~(InEbu \/ pc \in EbgPcs)'
    BY <2>1 DEF Steady, Searching, InEbu, EuPcs, EbuPcs, EbgPcs, EgPcs
  <2>3. mark \in Nat /\ mark \in 1..Length /\ Length \in Nat \ {0} /\ {base, at} \subseteq Nat
    BY <2>2, Numbers
  <2> QED
    BY <2>1, <2>2, <2>3, SteadyKept
<1> QED
  BY <1>1, MetByStepPath, ReopenPath DEF EgSearch

LEMMA BoundedPath == StrictBounds /\ NodeInv /\ PathInv /\ BoundInv /\ BoundedSearch => PathInv'
<1> SUFFICES ASSUME StrictBounds, NodeInv, PathInv, BoundInv, BoundedSearch PROVE PathInv'
  OBVIOUS
<1>1. CASE EbuStuck \/ EbuLate \/ EbgStuck \/ EbgLost
  BY <1>1, BoundedFailPath DEF EbuStuck, EbuLate, EbgStuck, EbgLost, InEbu, EbuPcs, EbgPcs
<1>2. CASE EbuSearch \/ EbuFound \/ EbgSearch \/ BoundedDone
  <2>1. /\ InEbu \/ pc \in EbgPcs
        /\ UNCHANGED <<trans, given, states, inputs, mark, f, g, fair>> /\ Length' = Length
        /\ Accepting' = Accepting
    BY <1>2 DEF EbuSearch, EbuFound, EbgSearch, BoundedDone, InEbu, EbuPcs, EbgPcs, Length,
                Accepting, fsmVars, callVars, pathVars, euVars
  <2>2. /\ Prefix(trans, given, states, inputs, mark)
        /\ mark \in 1..Length /\ mark \in Nat \ {0} /\ mark <= Length
        /\ Length \in Nat \ {0} /\ base \in Nat /\ at \in Nat
    BY <2>1, BoundedIs
  <2>3. CASE EbuSearch
    <3>1. pc = "ebu" /\ pc' = "eu" /\ then' = "ebu_found" /\ base' = base /\ at' = at
      BY <2>3 DEF EbuSearch
    <3> QED
      BY <2>1, <2>2, <3>1 DEF PathInv, Root, Searching, Steady, InEbu, EuPcs, EbuPcs, EbgPcs, EgPcs
  <2>4. CASE EbuFound
    <3>1. pc = "ebu_found" /\ ok /\ pc' = "ebu_back" /\ base' = base /\ at' = base
      BY <2>4 DEF EbuFound
    <3> QED
      BY <2>1, <2>2, <3>1 DEF PathInv, Root, Searching, Steady, InEbu, EuPcs, EbuPcs, EbgPcs, EgPcs
  <2>5. CASE EbgSearch
    <3>1. pc = "ebg" /\ pc' = "ebg_hold" /\ base' = Length /\ at' = at
      BY <2>5 DEF EbgSearch
    <3>2. Chain(trans, states, inputs, mark, Length, State, Accepting, Length)
      BY <2>2, <3>1, ChainTurns DEF PathInv
    <3> QED
      BY <2>1, <2>2, <3>1, <3>2 DEF PathInv, Root, Searching, Steady, InEbu, EuPcs, EbuPcs, EbgPcs, EgPcs
  <2>6. CASE BoundedDone
    <3>1. pc \in {"ebu_back", "ebg_back"} /\ at = mark /\ pc' = "based" /\ base' = base /\ at' = at
      BY <2>6 DEF BoundedDone, Ended, euVars
    <3>2. Settled(trans, states, inputs, mark)
      BY <3>1 DEF PathInv
    <3>3. Prefix(trans, given, states, inputs, Length)
      BY <2>2, <3>2, WholePath DEF Length
    <3> QED
      BY <2>1, <2>2, <3>1, <3>3 DEF PathInv, Root, Searching, Steady, InEbu, EuPcs, EbuPcs, EbgPcs, EgPcs
  <2> QED
    BY <1>2, <2>3, <2>4, <2>5, <2>6
<1> QED
  BY <1>1, <1>2, AdvancePath, EbgFoundPath, BoundedBackPath DEF BoundedSearch

LEMMA SearchEnded == EndSearch => {base', mark', at'} \subseteq Nat /\ i' \in Nat
<1>1. EndSearch => base' = 0 /\ mark' = 0 /\ at' = 0 /\ i' = 0
  BY Zenon DEF EndSearch
<1> QED
  BY <1>1

LEMMA RecurPath == NodeInv /\ StackInv /\ PathInv /\ ExplainRecur => PathInv'
<1> SUFFICES ASSUME NodeInv, StackInv, PathInv, ExplainRecur PROVE PathInv'
  OBVIOUS
<1>1. /\ pc \in {"recur", "based", "return"} /\ Steady /\ Running
      /\ Prefix(trans, given, states, inputs, Length) /\ Length \in Nat \ {0}
      /\ base \in Nat /\ mark \in Nat /\ at \in Nat
  <2>1. pc \in {"recur", "based", "return"}
    BY DEF ExplainRecur, ExplainNot, ExplainRewritten, ExplainAtom, ExplainOr, ExplainAndRefuse, ExplainAnd,
       ExplainSearch, Continue, EndBase, Keep, OrFound, OrRight, AndRight, AndJoin, Returns
  <2> QED
    BY <2>1, Numbers DEF Steady, Running, Searching, PathInv
<1>2. CASE ExplainNot \/ ExplainRewritten \/ ExplainAtom \/ ExplainOr \/ ExplainAndRefuse \/ ExplainAnd
           \/ Continue \/ EndBase \/ Keep \/ OrFound \/ OrRight
  <2>1. /\ UNCHANGED <<trans, given, states, inputs>> /\ pc' \in {"recur", "return"}
        /\ {base', mark', at'} \subseteq Nat
    <3>1. CASE ExplainNot \/ ExplainRewritten \/ ExplainAtom \/ ExplainOr \/ ExplainAndRefuse \/ ExplainAnd
      BY <1>1, <3>1 DEF ExplainNot, ExplainRewritten, ExplainAtom, Ended, ExplainOr, ExplainAndRefuse, ExplainAnd,
         fsmVars, callVars, pathVars, euVars
    <3>2. CASE Keep \/ OrFound \/ OrRight
      BY <1>1, <3>2 DEF Keep, OrFound, OrRight, Returns, fsmVars, callVars, pathVars, euVars
    <3>3. CASE Continue \/ EndBase
      <4>1. /\ UNCHANGED <<trans, given, states, inputs>> /\ pc' \in {"recur", "return"}
            /\ EndSearch
        BY <3>3 DEF Continue, EndBase, fsmVars, callVars, pathVars
      <4> QED
        BY <4>1, SearchEnded
    <3> QED
      BY <1>2, <3>1, <3>2, <3>3
  <2>2. pc' \notin EuPcs \ {"eu"} /\ ~(InEbu \/ pc \in EbgPcs)' /\ ~Searching'
    BY <2>1 DEF InEbu, Searching, EuPcs, EbuPcs, EbgPcs, EgPcs
  <2> QED
    BY <1>1, <2>1, <2>2, SteadyKept
<1>3. CASE ExplainSearch
  <2>1. pc' \in {"ex", "eu", "eg", "ebu", "ebg"}
    BY <1>3 DEF ExplainSearch, Search
  <2>2. /\ UNCHANGED <<trans, given, states, inputs, base, at>> /\ mark' = Length /\ then' = "based"
        /\ Length' = Length
    BY <1>3 DEF ExplainSearch, fsmVars, callVars, pathVars, Length
  <2>3. \A F : Chain(trans, states, inputs, Length, Length, F, F, Length)
    BY <1>1 DEF Chain
  <2> QED
    BY <1>1, <2>1, <2>2, <2>3
    DEF PathInv, Searching, Steady, InEbu, EuPcs, EbuPcs, EbgPcs, EgPcs
<1>4. CASE AndRight
  <2>1. /\ pc = "return" /\ pc' = "recur" /\ stack # <<>> /\ Cut(Top.length)
        /\ UNCHANGED <<trans, given, base, mark, at>>
    BY <1>4 DEF AndRight, Returns, fsmVars, callVars, euVars
  <2>2. Top.length \in Nat \ {0} /\ Top.length <= Length
    BY <1>1, <2>1, TopIs DEF Frames, Low, Searching, EuPcs, EbuPcs, EbgPcs, EgPcs
  <2>3. Top.length \in 1..Len(states) /\ Top.length <= Length
    BY <1>1, <2>2 DEF Length
  <2>4. Length' = Top.length /\ Prefix(trans, given, states', inputs', Top.length)
    BY <1>1, <2>1, <2>2, <2>3, Cuts
  <2> QED
    BY <1>1, <2>1, <2>4
    DEF PathInv, Searching, Steady, InEbu, EuPcs, EbuPcs, EbgPcs, EgPcs
<1>5. CASE AndJoin
  <2>1. /\ pc = "return" /\ pc' = "return" /\ stack # <<>> /\ Top.kind = "right"
        /\ \/ states' = states /\ inputs' = inputs
           \/ states' = Top.states /\ inputs' = Top.inputs
        /\ UNCHANGED <<trans, given, base, mark, at>>
    BY <1>5 DEF AndJoin, Returns, fsmVars, callVars, pathVars, euVars
  <2>2. Prefix(trans, given, Top.states, Top.inputs, Len(Top.states))
    BY <2>1, TopIs DEF FrameOk
  <2>3. Prefix(trans, given, states', inputs', Length')
    BY <1>1, <2>1, <2>2 DEF Length
  <2> QED
    BY <1>1, <2>1, <2>3
    DEF PathInv, Searching, Steady, InEbu, EuPcs, EbuPcs, EbgPcs, EgPcs
<1> QED
  BY <1>2, <1>3, <1>4, <1>5 DEF ExplainRecur

LEMMA PathNext ==
    StrictBounds /\ FsmInv /\ ThenInv /\ NodeInv /\ PathInv /\ BoundInv /\ HulkInv /\ StackInv /\ [Next]_vars
      => PathInv'
<1> SUFFICES ASSUME StrictBounds, FsmInv, ThenInv, NodeInv, PathInv, BoundInv, HulkInv, StackInv, [Next]_vars
             PROVE  PathInv'
  OBVIOUS
<1>1. ASSUME ExSearch PROVE PathInv'
  <2>1. CASE ExAbort \/ ExFail
    <3>1. /\ pc = "ex" /\ pc' \in {"aborted", "based", "closed", "reopened"}
          /\ UNCHANGED <<trans, given, states, inputs, base, mark, at>> /\ Length' = Length
      BY <2>1 DEF ExAbort, ExFail, Ended, ThenInv, fsmVars, callVars, pathVars, euVars, Length
    <3>2. Steady /\ Searching /\ pc' \notin EuPcs \ {"eu"} /\ ~(InEbu \/ pc \in EbgPcs)'
      BY <3>1 DEF Steady, Searching, InEbu, EuPcs, EbuPcs, EbgPcs, EgPcs
    <3>3. mark \in Nat /\ mark \in 1..Length /\ {base, at} \subseteq Nat
      BY <3>2, Numbers
    <3> QED
      BY <3>1, <3>2, <3>3, SteadyKept
  <2> QED
    BY <1>1, <2>1, ExExplainPath DEF ExSearch
<1>2. ASSUME Answer \/ Taken \/ Restart PROVE PathInv'
  <2>1. /\ pc' \in {"done", "idle"} /\ {base', mark', at'} \subseteq Nat
    <3>1. {base, mark, at} \subseteq Nat
      BY DEF PathInv
    <3>2. CASE Answer
      BY <3>1, <3>2 DEF Answer, euVars
    <3>3. CASE Taken
      BY <3>1, <3>3 DEF Taken, euVars
    <3>4. CASE Restart
      BY <3>4, SearchEnded DEF Restart
    <3> QED
      BY <1>2, <3>2, <3>3, <3>4
  <2> QED
    BY <2>1 DEF PathInv, Searching, Steady, InEbu, EuPcs, EbuPcs, EbgPcs, EgPcs
<1>3. ASSUME NEW by \in DOMAIN Nodes, NEW n \in Nodes[by], NEW s \in Subjects(by, n), Request(by, n, s)
      PROVE  PathInv'
  <2>1. /\ pc' = "recur" /\ states' = <<{s}>> /\ inputs' = <<>> /\ given' = s
        /\ UNCHANGED <<trans, base, mark, at>>
    BY <1>3 DEF Request, fsmVars, euVars
  <2>2. s \in State
    BY FsmAssumption DEF Subjects, Start, FsmInv
  <2>3. Prefix(trans', s, states', inputs', 1) /\ Length' = 1
    BY <2>1, <2>2 DEF Prefix, Sets, Alone, Length
  <2> QED
    BY <2>1, <2>3, Numbers DEF PathInv, Searching, Steady, InEbu, EuPcs, EbuPcs, EbgPcs, EgPcs
<1>4. ASSUME UNCHANGED vars PROVE PathInv'
  BY <1>4 DEF PathInv, Searching, Steady, InEbu, Root, Last, Length, Accepting,
     vars, fsmVars, callVars, pathVars, euVars, egVars
<1> QED
  BY <1>1, <1>2, <1>3, <1>4, EuPath, EgPath, BoundedPath, RecurPath, StepCases

\* Nothing changes the FSM.
LEMMA FsmNext == FsmInv /\ [Next]_vars => FsmInv'
<1> SUFFICES ASSUME FsmInv, [Next]_vars PROVE FsmInv'
  OBVIOUS
<1>1. UNCHANGED fsmVars
  <2>1. ASSUME ExSearch \/ EuSearch PROVE UNCHANGED fsmVars
    BY <2>1 DEF ExSearch, ExAbort, ExFail, ExExplain, EuSearch, EuAtOnce, EuRefuse, EuCall, EuFound,
       EuIterate, EuFail, EuBack, EuDone
  <2>2. ASSUME EgSearch \/ BoundedSearch PROVE UNCHANGED fsmVars
    BY <2>2 DEF EgSearch, EgRefuse, EgCall, StartRound, Meet, MetByStep, MetByState, Return, Close, Closed1,
       Reopen, Reopened, BoundedSearch, EbuAdvance, EbuStuck, BoundedFail, EbuSearch, EbuFound, EbuLate,
       EbuBack, EbgAdvance, EbgStuck, EbgSearch, EbgHold, EbgLost, EbgFound, EbgBack, BoundedDone
  <2>3. ASSUME ExplainRecur \/ Answer PROVE UNCHANGED fsmVars
    BY <2>3 DEF ExplainRecur, ExplainNot, ExplainRewritten, ExplainAtom, ExplainOr, ExplainAndRefuse,
       ExplainAnd, ExplainSearch, Continue, EndBase, Keep, OrFound, OrRight, AndRight, AndJoin, Answer
  <2>4. ASSUME NEW by \in DOMAIN Nodes, NEW n \in Nodes[by], NEW s \in Subjects(by, n), Request(by, n, s)
        PROVE  UNCHANGED fsmVars
    BY <2>4 DEF Request
  <2>5. ASSUME Taken \/ Restart \/ UNCHANGED vars PROVE UNCHANGED fsmVars
    BY <2>5 DEF Taken, Restart, vars
  <2> QED
    BY <2>1, <2>2, <2>3, <2>4, <2>5, StepCases
<1>2. UNCHANGED <<trans, reach, sat, egs>>
  BY <1>1 DEF fsmVars
<1> QED
  BY <1>2 DEF FsmInv

\* The bounded searches.
LEMMA BoundNext == ThenInv /\ NodeInv /\ PathInv /\ BoundInv /\ NodeInv' /\ [Next]_vars => BoundInv'
<1> SUFFICES ASSUME ThenInv, NodeInv, PathInv, BoundInv, NodeInv', [Next]_vars PROVE BoundInv'
  OBVIOUS
<1>a. i \in Nat
  BY DEF BoundInv
<1>b. i' \in Nat /\ pc' \notin {"ebu", "ebg", "ebg_hold"} => BoundInv'
  BY DEF BoundInv
<1>1. ASSUME ExSearch \/ EuSearch PROVE BoundInv'
  <2>1. CASE ExSearch
    BY <2>1, <1>a, <1>b DEF ExSearch, ExAbort, ExFail, Ended, ExExplain, ThenInv
  <2>2. CASE EuSearch
    BY <2>2, <1>a, <1>b DEF EuSearch, EuAtOnce, Ended, EuRefuse, EuCall, EuFound, EuIterate,
       EuFail, Forget, EuBack, EuDone, ThenInv, EuPcs
  <2> QED
    BY <1>1, <2>1, <2>2
<1>2. ASSUME EgSearch PROVE BoundInv'
  BY <1>2, <1>a, <1>b DEF EgSearch, EgRefuse, Ended, EgCall, StartRound, Meet, MetByStep, MetByState,
     Return, Close, Closed1, Reopen, Reopened
<1>3. ASSUME BoundedSearch PROVE BoundInv'
  <2>1. CASE EbuStuck \/ EbuLate \/ EbgStuck \/ EbgLost
    BY <2>1, <1>a, <1>b DEF EbuStuck, EbuLate, EbgStuck, EbgLost, BoundedFail, Ended
  <2>2. CASE EbuSearch \/ EbuFound \/ EbuBack \/ EbgFound \/ EbgBack \/ BoundedDone
    BY <2>2, <1>a, <1>b DEF EbuSearch, EbuFound, EbuBack, EbgFound, EbgBack, BoundedDone, Ended
  <2>3. CASE EbgSearch
    BY <2>3, <1>a DEF EbgSearch, BoundInv, Inf
  <2> QED
    BY <1>3, <2>1, <2>2, <2>3, AdvancePath DEF BoundedSearch
<1>4. ASSUME ExplainRecur PROVE BoundInv'
  <2>1. CASE ExplainNot \/ ExplainRewritten \/ ExplainAtom \/ ExplainOr \/ ExplainAndRefuse \/ ExplainAnd
             \/ Keep \/ OrFound \/ OrRight
    BY <2>1, <1>a, <1>b DEF ExplainNot, ExplainRewritten, ExplainAtom, Ended, ExplainOr, ExplainAndRefuse,
       ExplainAnd, Keep, OrFound, OrRight, Returns
  <2>2. CASE Continue \/ EndBase
    <3>1. EndSearch /\ pc' \in {"recur", "return"}
      BY <2>2 DEF Continue, EndBase
    <3> QED
      BY <3>1, <1>b, SearchEnded
  <2>3. CASE ExplainSearch
    <3>1. i' = 0 /\ pc' \in {"ex", "eu", "eg", "ebu", "ebg"}
      BY <2>3 DEF ExplainSearch, Search
    <3>2. node' \in Node
      BY <3>1 DEF NodeInv, Running, Searching, EuPcs, EbuPcs, EgPcs, EbgPcs
    <3>3. Inf' \in Nat
      BY <3>2, ExplainAssumption DEF Inf
    <3> QED
      BY <3>1, <3>3 DEF BoundInv
  <2>4. CASE AndRight \/ AndJoin
    <3>1. i' = i /\ pc' \in {"recur", "return"}
      BY <2>4 DEF AndRight, AndJoin, Returns
    <3> QED
      BY <3>1, <1>a, <1>b
  <2> QED
    BY <1>4, <2>1, <2>2, <2>3, <2>4 DEF ExplainRecur
<1>5. ASSUME Answer PROVE BoundInv'
  BY <1>5, <1>a, <1>b DEF Answer
<1>6. ASSUME NEW by \in DOMAIN Nodes, NEW n \in Nodes[by], NEW s \in Subjects(by, n), Request(by, n, s)
      PROVE  BoundInv'
  BY <1>6, <1>a, <1>b DEF Request
<1>7. ASSUME Taken PROVE BoundInv'
  BY <1>7, <1>a, <1>b DEF Taken
<1>8. ASSUME Restart PROVE BoundInv'
  BY <1>8, <1>b, SearchEnded DEF Restart
<1>9. ASSUME UNCHANGED vars PROVE BoundInv'
  BY <1>9 DEF BoundInv, Inf, Last, Length, Accepting, vars, fsmVars, pathVars, euVars
<1> QED
  BY <1>1, <1>2, <1>3, <1>4, <1>5, <1>6, <1>7, <1>8, <1>9, StepCases

\* What eg_explain works with.
LEMMA HulkNext == FsmInv /\ ThenInv /\ NodeInv /\ PathInv /\ HulkInv /\ [Next]_vars => HulkInv'
<1> SUFFICES ASSUME FsmInv, ThenInv, NodeInv, PathInv, HulkInv, [Next]_vars PROVE HulkInv'
  OBVIOUS
<1>a. pc' \notin EuPcs \cup EgPcs \cup {"ex"} => HulkInv'
  BY DEF HulkInv, InEg, EuPcs, EgPcs
<1>1. ASSUME ExSearch PROVE HulkInv'
  <2>1. /\ pc = "ex" /\ pc' \in {"aborted", then} /\ then \in {"based", "closed", "reopened"}
        /\ UNCHANGED <<hulk, trans>>
    BY <1>1 DEF ExSearch, ExAbort, ExFail, Ended, ExExplain, ThenInv, fsmVars, egVars
  <2> QED
    BY <2>1 DEF HulkInv, InEg, EuPcs, EgPcs
<1>2. ASSUME EuSearch PROVE HulkInv'
  <2>1. /\ pc \in EuPcs /\ then \in {"based", "met", "returned", "ebu_found"}
        /\ UNCHANGED <<hulk, target, trans, g, then>>
    BY <1>2 DEF EuSearch, EuAtOnce, EuRefuse, EuCall, EuFound, EuIterate, EuFail, Forget, EuBack, EuDone,
                EuPcs, ThenInv, fsmVars, egVars, euVars
  <2>2. /\ pc' \in EuPcs \cup {then} /\ pc' # "eg"
        /\ pc' \in EgPcs => then \in {"met", "returned"}
        /\ pc' = "met" => then = "met"
    BY <1>2, <2>1 DEF EuSearch, EuAtOnce, EuRefuse, EuCall, EuFound, EuIterate, EuFail, EuBack, EuDone,
                      Ended, EuPcs, EgPcs
  <2>3. pc' = "eu_back" => Last' \subseteq g
    <3>1. CASE EuAtOnce \/ EuRefuse \/ EuCall \/ EuIterate \/ EuFail \/ EuDone
      BY <2>1, <3>1 DEF EuAtOnce, EuRefuse, EuCall, EuIterate, EuFail, EuDone, Ended
    <3>2. CASE EuBack
      BY <3>2, EuBackPath DEF HulkInv, EuBack
    <3> QED
      BY <1>2, <3>1, <3>2, EuFoundPath DEF EuSearch
  <2>4. pc' = "met" /\ ok' => Last' \subseteq g
    <3>1. CASE EuRefuse \/ EuCall \/ EuFound \/ EuIterate \/ EuFail \/ EuBack
      BY <2>1, <3>1 DEF EuRefuse, EuCall, EuFound, EuIterate, EuFail, EuBack, Ended
    <3>2. CASE EuDone
      <4>1. pc = "eu_back" /\ Last' = Last
        BY <3>2 DEF EuDone, pathVars, Last, Length
      <4> QED
        BY <4>1 DEF HulkInv
    <3> QED
      BY <1>2, <3>1, <3>2, EuAtOncePath DEF EuSearch
  <2> QED
    BY <2>1, <2>2, <2>3, <2>4 DEF HulkInv, InEg, EuPcs, EgPcs
<1>3. ASSUME EgSearch PROVE HulkInv'
  <2>1. CASE EgCall
    BY <2>1 DEF EgCall, FsmInv, HulkInv, InEg, EuPcs, EgPcs, fsmVars, euVars
  <2>2. ASSUME NEW p \in Justice, Meet(p) PROVE HulkInv'
    <3>1. /\ pc = "meet" /\ pc' = "eu" /\ then' = "met" /\ UNCHANGED <<hulk, trans>>
          /\ target' \subseteq hulk /\ g' = StatesOf(target')
      BY <2>2 DEF Meet, fsmVars
    <3>2. hulk \subseteq StateInput /\ GoesOn(trans, hulk)
      BY <3>1 DEF HulkInv, InEg, EgPcs
    <3> QED
      BY <3>1, <3>2 DEF HulkInv, EuPcs, EgPcs
  <2>3. CASE StartRound \/ MetByStep \/ MetByState \/ Return \/ Close \/ Reopen \/ Reopened
    <3>1. /\ pc \in EgPcs \ {"eg"} /\ UNCHANGED <<hulk, trans>>
          /\ \/ pc' \in {"meet", "round"}
             \/ pc' = "eu" /\ then' = "returned"
             \/ pc' = "ex" /\ then' \in {"closed", "reopened"}
      BY <2>3 DEF StartRound, MetByStep, MetByState, Return, Close, Reopen, Reopened, EgPcs, fsmVars, egVars
    <3> QED
      BY <3>1 DEF HulkInv, InEg, EuPcs, EgPcs
  <2>4. CASE EgRefuse \/ Closed1
    BY <2>4, <1>a DEF EgRefuse, Closed1, Ended, EuPcs, EgPcs
  <2> QED
    BY <1>3, <2>1, <2>2, <2>3, <2>4 DEF EgSearch
<1>4. ASSUME BoundedSearch PROVE HulkInv'
  <2>1. CASE EbuSearch
    BY <2>1 DEF EbuSearch, HulkInv, InEg, EuPcs, EgPcs
  <2>2. CASE EbuAdvance \/ EbuStuck \/ EbuFound \/ EbuLate \/ EbuBack
    BY <2>2, <1>a DEF EbuAdvance, EbuStuck, EbuFound, EbuLate, EbuBack, BoundedFail, Ended, EuPcs, EgPcs
  <2>3. CASE EbgAdvance \/ EbgStuck \/ EbgSearch \/ EbgHold \/ EbgLost \/ EbgFound \/ EbgBack \/ BoundedDone
    BY <2>3, <1>a DEF EbgAdvance, EbgStuck, EbgSearch, EbgHold, EbgLost, EbgFound, EbgBack, BoundedDone,
                      BoundedFail, Ended, EuPcs, EgPcs
  <2> QED
    BY <1>4, <2>1, <2>2, <2>3 DEF BoundedSearch
<1>5. ASSUME ExplainRecur PROVE HulkInv'
  <2>1. CASE ExplainSearch
    <3>1. /\ Op(node) \in DOMAIN Search /\ pc' = Search[Op(node)] /\ then' = "based" /\ UNCHANGED egs
      BY <2>1 DEF ExplainSearch, fsmVars
    <3>2. /\ pc' \in {"ex", "eu", "eg", "ebu", "ebg"}
          /\ pc' = "eg" => Op(node) = "EG"
      BY <3>1 DEF Search
    <3>3. Op(node) = "EG" => g' = sat[Syntax[node].car]
      BY <2>1 DEF ExplainSearch
    <3>4. g' \in DOMAIN egs' \/ pc' # "eg"
      <4>1. node \in Node
        BY <2>1 DEF ExplainSearch, NodeInv, Running
      <4> QED
        BY <3>1, <3>2, <3>3, <4>1 DEF FsmInv
    <3> QED
      BY <3>1, <3>2, <3>4 DEF HulkInv, InEg, EuPcs, EgPcs
  <2>2. CASE ~ExplainSearch
    <3>1. pc' \in {"recur", "return"}
      BY <1>5, <2>2 DEF ExplainRecur, ExplainNot, ExplainRewritten, ExplainAtom, Ended, ExplainOr,
         ExplainAndRefuse, ExplainAnd, Continue, EndBase, Keep, OrFound, OrRight, AndRight, AndJoin, Returns
    <3> QED
      BY <3>1, <1>a DEF EuPcs, EgPcs
  <2> QED
    BY <2>1, <2>2
<1>6. ASSUME Answer \/ Taken \/ Restart PROVE HulkInv'
  BY <1>6, <1>a DEF Answer, Taken, Restart, EuPcs, EgPcs
<1>7. ASSUME NEW by \in DOMAIN Nodes, NEW n \in Nodes[by], NEW s \in Subjects(by, n), Request(by, n, s)
      PROVE  HulkInv'
  BY <1>7, <1>a DEF Request, EuPcs, EgPcs
<1>8. ASSUME UNCHANGED vars PROVE HulkInv'
  BY <1>8 DEF HulkInv, InEg, Last, Length, vars, fsmVars, pathVars, euVars, egVars
<1> QED
  BY <1>1, <1>2, <1>3, <1>4, <1>5, <1>6, <1>7, <1>8, StepCases

LEMMA PrefixAlone ==
    ASSUME NEW t, NEW s0, NEW ss, NEW is, NEW n, Prefix(t, s0, ss, is, n), NEW m \in 1..n
    PROVE  Alone(ss[m])
<1>1. n \in Nat /\ m \in Nat /\ m >= 1 /\ m <= n
  BY SetsLength DEF Prefix
<1>2. CASE m = n
  BY <1>2 DEF Prefix
<1>3. CASE m # n
  BY <1>1, <1>3 DEF Prefix, Joined, Alone
<1> QED
  BY <1>2, <1>3

LEMMA GoesOnward ==
    ASSUME NEW ss, NEW ss2, NEW n \in Nat, NEW k \in Nat, NEW S,
           Goes(ss, n, S), Same(ss, ss2, n), n <= k
    PROVE  Goes(ss2, k, S)
BY DEF Goes, Same

LEMMA GrowsSame ==
    ASSUME NEW ss, NEW is, NEW ss2, NEW is2, NEW k, Grows(ss, is, ss2, is2, k)
    PROVE  Same(ss, ss2, Len(ss))
BY DEF Grows, Same

\* The state a loop starts from stays on the path.
LEMMA EuLoop == ThenInv /\ PathInv /\ NodeInv /\ LoopInv /\ EuSearch => LoopInv'
<1> SUFFICES ASSUME ThenInv, PathInv, NodeInv, LoopInv, EuSearch PROVE LoopInv'
  OBVIOUS
<1>1. /\ pc \in EuPcs /\ then \in {"based", "met", "returned", "ebu_found"}
      /\ UNCHANGED <<starting, g, then, caller, asked, node>>
      /\ pc' \in EuPcs \cup {then}
  BY DEF EuSearch, EuAtOnce, EuRefuse, EuCall, EuFound, EuIterate, EuFail, Forget, EuBack, EuDone, Ended,
         EuPcs, ThenInv, callVars, egVars, euVars
<1>2. then \notin {"met", "returned"} => LoopInv'
  <2>1. then = "based" => Op(node) = "EU" /\ (caller = "explainXX" => node = asked)
    BY <1>1 DEF NodeInv, Running, Searching
  <2> QED
    BY <1>1, <2>1 DEF LoopInv, Looping, EuPcs
<1>3. ASSUME then \in {"met", "returned"},
             pc' \in {"eu_loop", "eu_back"} => Goes(states', base', starting),
             pc' \in {"met", "returned"} => Goes(states', Length', starting)
      PROVE  LoopInv'
  <2>1. pc' # "eu"
    BY DEF EuSearch, EuAtOnce, EuRefuse, EuCall, EuFound, EuIterate, EuFail, EuBack, EuDone, Ended,
           ThenInv, EuPcs
  <2> QED
    BY <1>1, <1>3, <2>1 DEF LoopInv, Looping, EuPcs
<1> SUFFICES ASSUME then \in {"met", "returned"}
             PROVE  /\ pc' \in {"eu_loop", "eu_back"} => Goes(states', base', starting)
                    /\ pc' \in {"met", "returned"} => Goes(states', Length', starting)
  BY <1>2, <1>3
<1>4. pc = "eu" => /\ Goes(states, Length, starting) /\ Length \in Nat
  BY Numbers DEF LoopInv, Looping, Steady
<1>5. pc \in {"eu_loop", "eu_back"} =>
        /\ Goes(states, base, starting) /\ Root = base /\ base \in Nat /\ Length \in Nat /\ base <= Length
        /\ base \in 1..Length
  BY EuLoopIs DEF LoopInv, Looping, Root
<1>6. CASE EuAtOnce
  <2>1. /\ Alters(states, inputs, states', inputs', Length)
        /\ Length' = Length /\ Length \in Nat \ {0} /\ Last' = Last
    BY <1>6, EuAtOncePath
  <2>2. Same(states, states', Length)
    BY <2>1 DEF Alters, Same, Length, Last
  <2>3. pc = "eu" /\ pc' = then
    BY <1>6 DEF EuAtOnce, Ended
  <2> QED
    BY <1>4, <2>1, <2>2, <2>3, GoesOnward
<1>7. CASE EuRefuse
  BY <1>4, <1>7 DEF EuRefuse, Ended, pathVars, Length
<1>8. CASE EuCall
  BY <1>4, <1>8 DEF EuCall, pathVars
<1>9. CASE EuFound \/ EuIterate
  <2>1. /\ Grows(states, inputs, states', inputs', 1) /\ Length' = Length + 1
    BY <1>9, EuFoundPath, EuIteratePath
  <2>2. /\ pc = "eu_loop" /\ pc' \in {"eu_loop", "eu_back"} /\ base' = base
    BY <1>9 DEF EuFound, EuIterate
  <2>3. Same(states, states', base)
    BY <1>5, <2>1, <2>2 DEF Grows, Same, Length
  <2> QED
    BY <1>5, <2>2, <2>3, GoesOnward
<1>10. CASE EuFail
  <2>1. Length' = base /\ Same(states, states', base)
    BY <1>10, EuFailPath
  <2>2. pc = "eu_loop" /\ pc' = then
    BY <1>10 DEF EuFail, Ended
  <2> QED
    BY <1>5, <2>1, <2>2, GoesOnward
<1>11. CASE EuBack
  <2>1. Same(states, states', Root) /\ pc = "eu_back" /\ pc' = pc /\ base' = base
    BY <1>11, EuBackPath DEF EuBack
  <2> QED
    BY <1>5, <2>1, GoesOnward
<1>12. CASE EuDone
  <2>1. pc = "eu_back" /\ pc' = then /\ UNCHANGED states /\ Length' = Length
    BY <1>12 DEF EuDone, Ended, pathVars, Length
  <2>2. Same(states, states', base)
    BY <2>1 DEF Same
  <2> QED
    BY <1>5, <2>1, <2>2, GoesOnward
<1> QED
  BY <1>6, <1>7, <1>8, <1>9, <1>10, <1>11, <1>12 DEF EuSearch

LEMMA LoopNext ==
    ThenInv /\ NodeInv /\ PathInv /\ HulkInv /\ LoopInv /\ PathInv' /\ [Next]_vars => LoopInv'
<1> SUFFICES ASSUME ThenInv, NodeInv, PathInv, HulkInv, LoopInv, PathInv', [Next]_vars PROVE LoopInv'
  OBVIOUS
<1>a. /\ pc' \notin EuPcs \cup EgPcs \cup {"ex", "based", "return"} => LoopInv'
      /\ pc' \in {"based", "return"} /\ ~ok' => LoopInv'
  BY DEF LoopInv, Looping, EuPcs, EgPcs
<1>1. ASSUME ExSearch PROVE LoopInv'
  <2>1. /\ pc = "ex" /\ then \in {"based", "closed", "reopened"}
        /\ UNCHANGED <<starting, g, then, caller, asked, node>>
    BY <1>1 DEF ExSearch, ExAbort, ExFail, ExExplain, ThenInv, callVars, egVars, euVars
  <2>2. CASE ExAbort
    BY <2>2, <1>a DEF ExAbort, EuPcs, EgPcs
  <2>3. CASE ExFail
    BY <2>1, <2>3 DEF ExFail, Ended, LoopInv, Looping, EuPcs
  <2>4. CASE ExExplain
    <3>1. pc' = then
      BY <2>4 DEF ExExplain, Ended
    <3>2. CASE then \in {"based", "reopened"}
      <4>1. then = "based" => Op(node) = "EX" /\ (caller = "explainXX" => node = asked)
        BY <2>1 DEF NodeInv, Running, Searching
      <4> QED
        BY <2>1, <3>1, <3>2, <4>1 DEF LoopInv, Looping, EuPcs
    <3>3. CASE then = "closed"
      <4>1. Goes(states, Length, starting) /\ g = starting
        BY <2>1, <3>3 DEF LoopInv, Looping
      <4>2. /\ Grows(states, inputs, states', inputs', 1)
            /\ Length' = Length + 1 /\ Last' \subseteq g
        BY <2>4, ExExplainPath
      <4>3. Prefix(trans, given, states, inputs, Length) /\ Length \in Nat \ {0}
        BY <2>1, Numbers DEF PathInv, Steady
      <4>4. Alone(starting)
        BY <4>1, <4>3, PrefixAlone DEF Goes
      <4>5. Alone(Last')
        <5>1. Prefix(trans', given', states', inputs', Length')
          BY <3>1, <3>3 DEF PathInv, Steady, EgPcs
        <5> QED
          BY <5>1 DEF Prefix, Last
      <4>6. Last' = starting
        BY <4>1, <4>2, <4>4, <4>5 DEF Alone
      <4>7. Same(states, states', Length)
        BY <4>2, GrowsSame DEF Length
      <4>8. Goes(states', Length, Last')
        BY <4>1, <4>3, <4>6, <4>7, GoesOnward
      <4>9. Length' - 1 = Length
        BY <4>2, <4>3
      <4> QED
        BY <3>1, <3>3, <4>8, <4>9 DEF LoopInv, Looping, EuPcs
    <3> QED
      BY <2>1, <3>2, <3>3
  <2> QED
    BY <1>1, <2>2, <2>3, <2>4 DEF ExSearch
<1>2. ASSUME EuSearch PROVE LoopInv'
  BY <1>2, EuLoop
<1>3. ASSUME EgSearch PROVE LoopInv'
  <2>0. pc \in EgPcs => Length \in Nat \ {0}
    BY Numbers DEF Steady
  <2>1. CASE EgRefuse
    BY <2>1, <1>a DEF EgRefuse, Ended
  <2>2. CASE EgCall
    BY <2>2 DEF EgCall, LoopInv, Looping, EuPcs
  <2>3. CASE StartRound
    <3>1. /\ pc = "round" /\ pc' = "meet" /\ starting' = Last /\ UNCHANGED states /\ Length' = Length
      BY <2>3 DEF StartRound, pathVars, Length
    <3>2. Goes(states', Length', starting')
      BY <2>0, <3>1 DEF Goes, Last, EgPcs
    <3> QED
      BY <3>1, <3>2 DEF LoopInv, Looping, EuPcs
  <2>4. ASSUME NEW p \in Justice, Meet(p) PROVE LoopInv'
    BY <2>4 DEF Meet, pathVars, Length, LoopInv, Looping, EuPcs
  <2>5. CASE MetByState \/ Return
    BY <2>5 DEF MetByState, Return, pathVars, egVars, Length, LoopInv, Looping, EuPcs
  <2>6. CASE Close
    BY <2>6 DEF Close, pathVars, egVars, Length, LoopInv, Looping, EuPcs
  <2>7. CASE MetByStep
    <3>1. /\ Grows(states, inputs, states', inputs', 1) /\ Length \in Nat /\ Length' = Length + 1
      BY <2>7, MetByStepPath
    <3>2. pc = "met" /\ pc' = "meet" /\ starting' = starting
      BY <2>7 DEF MetByStep, egVars
    <3>3. Goes(states, Length, starting) /\ Same(states, states', Length)
      BY <3>1, <3>2, GrowsSame DEF LoopInv, Looping, Length
    <3>4. Goes(states', Length', starting')
      BY <3>1, <3>2, <3>3, GoesOnward
    <3> QED
      BY <3>2, <3>4 DEF LoopInv, Looping, EuPcs
  <2>8. CASE Closed1
    BY <2>8 DEF Closed1, Ended, pathVars, Last, Length, LoopInv, Looping, EuPcs
  <2>9. CASE Reopen \/ Reopened
    BY <2>9 DEF Reopen, Reopened, LoopInv, Looping, EuPcs
  <2> QED
    BY <1>3, <2>1, <2>2, <2>3, <2>4, <2>5, <2>6, <2>7, <2>8, <2>9 DEF EgSearch
<1>4. ASSUME BoundedSearch PROVE LoopInv'
  <2>1. CASE EbuSearch
    BY <2>1 DEF EbuSearch, LoopInv, Looping, EuPcs
  <2>2. CASE EbuAdvance \/ EbuFound \/ EbuBack \/ EbgAdvance \/ EbgSearch \/ EbgHold \/ EbgFound \/ EbgBack
    BY <2>2, <1>a DEF EbuAdvance, EbuFound, EbuBack, EbgAdvance, EbgSearch, EbgHold, EbgFound, EbgBack, EuPcs, EgPcs
  <2>3. CASE EbuStuck \/ EbuLate \/ EbgStuck \/ EbgLost
    BY <2>3, <1>a DEF EbuStuck, EbuLate, EbgStuck, EbgLost, BoundedFail, Ended
  <2>4. CASE BoundedDone
    <3>1. /\ Op(node) \in {"EBU", "EBG"} /\ (caller = "explainXX" => node = asked)
          /\ pc' = "based" /\ UNCHANGED <<caller, asked>>
      BY <2>4 DEF BoundedDone, Ended, NodeInv, InEbu, EbuPcs, EbgPcs, Running, Searching, callVars
    <3> QED
      BY <3>1 DEF LoopInv, Looping, EuPcs
  <2> QED
    BY <1>4, <2>1, <2>2, <2>3, <2>4 DEF BoundedSearch
<1>5. ASSUME ExplainRecur PROVE LoopInv'
  <2>1. CASE ExplainSearch
    <3>1. then' = "based" /\ pc' \in {"ex", "eu", "eg", "ebu", "ebg"}
      BY <2>1 DEF ExplainSearch, Search
    <3> QED
      BY <3>1 DEF LoopInv, Looping, EuPcs
  <2>2. CASE ExplainNot \/ ExplainRewritten \/ ExplainOr \/ ExplainAnd \/ Continue \/ OrRight
    <3>1. pc' = "recur"
      BY <2>2 DEF ExplainNot, ExplainRewritten, ExplainOr, ExplainAnd, Continue, OrRight
    <3> QED
      BY <3>1, <1>a DEF EuPcs, EgPcs
  <2>3. CASE ExplainAtom \/ ExplainAndRefuse
    BY <2>3, <1>a DEF ExplainAtom, ExplainAndRefuse, Ended
  <2>4. CASE EndBase
    BY <2>4 DEF EndBase, callVars, pathVars, Last, Length, LoopInv, Looping, EuPcs
  <2>5. CASE Keep \/ OrFound \/ AndRight \/ AndJoin
    <3>1. stack # <<>> /\ pc = "return" /\ pc' \in {"recur", "return"} /\ caller' = caller
      BY <2>5 DEF Keep, OrFound, AndRight, AndJoin, Returns, callVars
    <3>2. caller # "explainXX"
      BY <3>1 DEF NodeInv, Running
    <3> QED
      BY <3>1, <3>2 DEF LoopInv, Looping, EuPcs
  <2> QED
    BY <1>5, <2>1, <2>2, <2>3, <2>4, <2>5 DEF ExplainRecur
<1>6. ASSUME Answer \/ Taken \/ Restart PROVE LoopInv'
  BY <1>6, <1>a DEF Answer, Taken, Restart, EuPcs, EgPcs
<1>7. ASSUME NEW by \in DOMAIN Nodes, NEW n \in Nodes[by], NEW s \in Subjects(by, n), Request(by, n, s)
      PROVE  LoopInv'
  BY <1>7, <1>a DEF Request, EuPcs, EgPcs
<1>8. ASSUME UNCHANGED vars PROVE LoopInv'
  BY <1>8 DEF LoopInv, Looping, Last, Length, vars, callVars, pathVars, euVars, egVars
<1> QED
  BY <1>1, <1>2, <1>3, <1>4, <1>5, <1>6, <1>7, <1>8, StepCases

-----------------------------------------------------------------------------
(* The answer.                                                             *)

LEMMA JoinedStep ==
    ASSUME NEW s, NEW k, NEW u, Joined(trans, s, k, u)
    PROVE  Step(s, k, u)
BY DEF Joined, Allowed, Step

\* The first n states of a sequence, and what they are.
LEMMA Front ==
    ASSUME NEW A, NEW s \in Seq(A), NEW n \in Nat, n <= Len(s)
    PROVE  /\ SubSeq(s, 1, n) \in Seq(A) /\ Len(SubSeq(s, 1, n)) = n
           /\ DOMAIN SubSeq(s, 1, n) = 1..n
           /\ \A m \in 1..n : SubSeq(s, 1, n)[m] = s[m]
OBVIOUS

\* The lists of a path are an answer, and so are they when the last step is
\* returned apart.
LEMMA WholeAnswer ==
    ASSUME NEW w, Prefix(trans, given, states, inputs, Length),
           w.states = states, w.inputs = inputs
    PROVE  w.states[1] = {given} /\ Steps(w)
<1> SUFFICES ASSUME NEW m \in 1..(Len(states) - 1)
             PROVE  Step(states[m], inputs[m], states[m + 1])
  BY DEF Prefix, Steps
<1>1. Joined(trans, states[m], inputs[m], states[m + 1])
  BY DEF Prefix, Length
<1> QED
  BY <1>1, JoinedStep

LEMMA LoopAnswer ==
    ASSUME NEW w, Prefix(trans, given, states, inputs, Length), Goes(states, Length - 1, Last),
           w.states = SubSeq(states, 1, Length - 1), w.inputs = SubSeq(inputs, 1, Length - 2)
    PROVE  /\ w.states[1] = {given} /\ Steps(w)
           /\ Step(w.states[Len(w.states)], inputs[Length - 1], Last)
           /\ \E k \in DOMAIN w.states : w.states[k] = Last
<1> DEFINE n == Length - 1
<1>1. Sets(states, inputs)
  BY DEF Prefix
<1>2. /\ states \in Seq(SUBSET State) /\ inputs \in Seq(SUBSET Input)
      /\ Length \in Nat /\ Len(inputs) \in Nat /\ Length = Len(inputs) + 1
  BY <1>1, SetsLength DEF Length
<1>3. n \in Nat \ {0} /\ n <= Len(states) /\ n = Length - 1
  BY <1>2 DEF Goes, Length
<1>4. \A m \in 1..n : Joined(trans, states[m], inputs[m], states[m + 1])
  BY <1>2 DEF Prefix
<1>5. n - 1 \in Nat /\ n - 1 <= Len(inputs) /\ Length - 2 = n - 1
  BY <1>2, <1>3
<1> HIDE DEF n
<1>6. /\ Len(w.states) = n /\ DOMAIN w.states = 1..n
      /\ \A m \in 1..n : w.states[m] = states[m]
  BY <1>2, <1>3, Front
<1>7. \A m \in 1..(n - 1) : w.inputs[m] = inputs[m]
  <2> DEFINE l == n - 1
  <2>1. l \in Nat /\ l <= Len(inputs) /\ w.inputs = SubSeq(inputs, 1, l)
    BY <1>5
  <2> HIDE DEF l
  <2>2. \A m \in 1..l : w.inputs[m] = inputs[m]
    BY <1>2, <2>1, Front
  <2> QED
    BY <2>2 DEF l
<1>8. w.states[1] = {given}
  BY <1>3, <1>6 DEF Prefix
<1>9. Steps(w)
  <2> SUFFICES ASSUME NEW m \in 1..(n - 1) PROVE Step(w.states[m], w.inputs[m], w.states[m + 1])
    BY <1>6 DEF Steps
  <2>1. m \in 1..n /\ m + 1 \in 1..n
    BY <1>3
  <2>2. Step(states[m], inputs[m], states[m + 1])
    BY <1>4, <2>1, JoinedStep
  <2> QED
    BY <1>6, <1>7, <2>1, <2>2
<1>10. Step(w.states[n], inputs[n], Last)
  <2>1. n \in 1..n /\ n + 1 = Length
    BY <1>2, <1>3
  <2>2. Step(states[n], inputs[n], states[n + 1])
    BY <1>4, <2>1, JoinedStep
  <2> QED
    BY <1>6, <2>1, <2>2 DEF Last
<1>11. \E k \in 1..n : w.states[k] = Last
  BY <1>3, <1>6 DEF Goes
<1> QED
  BY <1>3, <1>6, <1>8, <1>9, <1>10, <1>11

\* What is said of an answer, of any answer.
IsStep(t, s, k, u) == \E x \in s, j \in k, y \in u :
    /\ s = {x} /\ k = {j} /\ u = {y}
    /\ <<x, j, y>> \in t /\ {x, y} \subseteq Invar /\ j \in InvarInput

IsAnswer(t, s0, w) ==
    /\ w.states[1] = {s0}
    /\ \A k \in 1..(Len(w.states) - 1) : IsStep(t, w.states[k], w.inputs[k], w.states[k + 1])
    /\ w.loop # <<>> =>
          /\ IsStep(t, w.states[Len(w.states)], w.loop[1], w.loop[2])
          /\ \E k \in DOMAIN w.states : w.states[k] = w.loop[2]

LEMMA StepIsStep ==
    ASSUME NEW s, NEW k, NEW u
    PROVE  Step(s, k, u) <=> IsStep(trans, s, k, u)
BY DEF Step, IsStep

LEMMA GoodAnswer == AnswerIsPath <=> (pc = "done" => IsAnswer(trans, given, answer))
BY StepIsStep DEF AnswerIsPath, Steps, IsAnswer

LEMMA GoodAnswerAfter == AnswerIsPath' <=> (pc' = "done" => IsAnswer(trans', given', answer'))
<1>1. (AnswerIsPath <=> (pc = "done" => IsAnswer(trans, given, answer)))'
  BY GoodAnswer, PTL
<1> QED
  BY <1>1

LEMMA AnswerNext == ThenInv /\ PathInv /\ LoopInv /\ AnswerIsPath /\ [Next]_vars => AnswerIsPath'
<1> SUFFICES ASSUME ThenInv, PathInv, LoopInv, AnswerIsPath, [Next]_vars PROVE AnswerIsPath'
  OBVIOUS
<1>1. CASE Answer
  <2> DEFINE w == answer'
  <2>1. /\ pc = "return" /\ UNCHANGED <<trans, given>>
        /\ w = IF ~ok THEN [states |-> <<{given}>>, inputs |-> <<>>, loop |-> <<>>]
               ELSE IF caller = "explainXX" /\ Op(asked) = "EG"
               THEN [states |-> SubSeq(states, 1, Length - 1),
                     inputs |-> SubSeq(inputs, 1, Length - 2),
                     loop |-> <<inputs[Length - 1], Last>>]
               ELSE [states |-> states, inputs |-> inputs, loop |-> <<>>]
    BY <1>1 DEF Answer, fsmVars, callVars
  <2>2. Prefix(trans, given, states, inputs, Length)
    BY <2>1 DEF PathInv, Steady
  <2> HIDE DEF w
  <2>3. /\ w.states[1] = {given} /\ Steps(w)
        /\ w.loop # <<>> =>
             /\ Step(w.states[Len(w.states)], w.loop[1], w.loop[2])
             /\ \E k \in DOMAIN w.states : w.states[k] = w.loop[2]
    <3>1. CASE ~ok
      BY <2>1, <3>1 DEF Steps
    <3>2. CASE ok /\ caller = "explainXX" /\ Op(asked) = "EG"
      <4>1. Goes(states, Length - 1, Last)
        BY <2>1, <3>2 DEF LoopInv
      <4>2. /\ w.states = SubSeq(states, 1, Length - 1) /\ w.inputs = SubSeq(inputs, 1, Length - 2)
            /\ w.loop[1] = inputs[Length - 1] /\ w.loop[2] = Last
        BY <2>1, <3>2
      <4> QED
        BY <2>2, <4>1, <4>2, LoopAnswer
    <3>3. CASE ok /\ ~(caller = "explainXX" /\ Op(asked) = "EG")
      <4>1. w.states = states /\ w.inputs = inputs /\ w.loop = <<>>
        BY <2>1, <3>3
      <4> QED
        BY <2>2, <4>1, WholeAnswer
    <3> QED
      BY <3>1, <3>2, <3>3
  <2> QED
    <3>1. IsAnswer(trans, given, w)
      BY <2>3, StepIsStep DEF IsAnswer, Steps
    <3> QED
      BY <2>1, <3>1, GoodAnswerAfter DEF w
<1>2. CASE UNCHANGED vars
  BY <1>2, GoodAnswer, GoodAnswerAfter DEF vars, fsmVars, callVars
<1>3. CASE pc' # "done"
  BY <1>3, GoodAnswerAfter
<1>4. Answer \/ UNCHANGED vars \/ pc' # "done"
  <2>1. ASSUME NEW by \in DOMAIN Nodes, NEW n \in Nodes[by], NEW s \in Subjects(by, n), Request(by, n, s)
        PROVE  pc' # "done"
    BY <2>1 DEF Request
  <2>2. ASSUME ExSearch \/ EuSearch \/ EgSearch \/ BoundedSearch PROVE pc' # "done"
    BY <2>2, SearchSteps DEF Searching, EuPcs, EbuPcs, EbgPcs, EgPcs
  <2>3. ASSUME ExplainRecur PROVE pc' # "done"
    <3>1. CASE ExplainSearch
      <4>1. pc' \in {"ex", "eu", "eg", "ebu", "ebg"}
        BY <3>1 DEF ExplainSearch, Search
      <4> QED
        BY <4>1
    <3>2. CASE ~ExplainSearch
      BY <2>3, <3>2 DEF ExplainRecur, ExplainNot, ExplainRewritten, ExplainAtom, Ended, ExplainOr,
         ExplainAndRefuse, ExplainAnd, Continue, EndBase, Keep, OrFound, OrRight, AndRight, AndJoin, Returns
    <3> QED
      BY <3>1, <3>2
  <2>4. ASSUME Taken \/ Restart PROVE pc' # "done"
    BY <2>4 DEF Taken, Restart
  <2> QED
    BY <2>1, <2>2, <2>3, <2>4, StepCases
<1> QED
  BY <1>1, <1>2, <1>3, <1>4

-----------------------------------------------------------------------------
(* The invariant holds.                                                    *)

LEMMA FsmInit == Init => FsmInv
<1> SUFFICES ASSUME Init PROVE FsmInv
  OBVIOUS
<1>1. reach = Reach(trans) /\ egs = EgsOf(trans, reach, fairsi, sat)
  BY DEF Init
<1>2. reach \subseteq State
  BY <1>1, ReachClosed
<1> DEFINE D == {sat[Syntax[n].car] : n \in {m \in Node : Op(m) = "EG"}}
<1>3. DOMAIN egs = D
      /\ \A S \in D : egs[S].si = EgSi(trans, reach, S \X Input)
  BY <1>1 DEF EgsOf
<1>4. \A n \in Node : Op(n) = "EG" => sat[Syntax[n].car] \in D
  OBVIOUS
<1> HIDE DEF D
<1>5. ASSUME NEW S \in D PROVE egs[S].si \subseteq StateInput /\ GoesOn(trans, egs[S].si)
  <2>1. LET F == EgSi(trans, reach, S \X Input) IN F \subseteq StateInput /\ GoesOn(trans, F)
    BY EgSiGoesOn
  <2>2. egs[S].si = EgSi(trans, reach, S \X Input)
    BY <1>3, <1>5
  <2> QED
    BY <2>1, <2>2
<1> QED
  BY <1>2, <1>3, <1>4, <1>5 DEF FsmInv

LEMMA InvInit == Init => Inv
<1> SUFFICES ASSUME Init PROVE Inv
  OBVIOUS
<1>1. /\ pc = "idle" /\ stack = <<>> /\ ok = FALSE /\ base = 0 /\ mark = 0 /\ at = 0 /\ i = 0
      /\ caller = ""
  BY DEF Init
<1>2. ThenInv /\ NodeInv
  BY <1>1 DEF ThenInv, NodeInv, Running, Searching, InEg, InEbu, EuPcs, EgPcs, EbuPcs, EbgPcs
<1>3. /\ ~Searching /\ ~Steady /\ ~InEbu /\ pc \notin EbgPcs
      /\ pc # "ebu" /\ pc # "eu" /\ pc \notin {"eu_loop", "eu_back"} /\ pc # "eu_loop" /\ pc # "eu_back"
      /\ pc # "ebu_found" /\ pc # "ebu_back" /\ pc # "ebg" /\ pc # "ebg_hold" /\ pc # "ebg_back"
      /\ {base, mark, at} \subseteq Nat
  <2>1. ~Searching /\ ~Steady /\ ~InEbu /\ pc \notin EbgPcs
    BY <1>1 DEF Steady, Searching, InEbu, EuPcs, EgPcs, EbgPcs, EbuPcs
  <2>2. base \in Nat /\ mark \in Nat /\ at \in Nat
    BY <1>1
  <2>3. {base, mark, at} \subseteq Nat
    BY <2>2, Zenon
  <2> QED
    BY <1>1, <2>1, <2>3
<1>4. PathInv
  BY <1>3, Zenon DEF PathInv
<1>5. BoundInv /\ HulkInv /\ LoopInv /\ AnswerIsPath
  BY <1>1 DEF BoundInv, HulkInv, LoopInv, Looping, AnswerIsPath, InEg, EuPcs, EgPcs
<1>6. StackInv
  BY <1>1, NothingWaits DEF StackInv, Running
<1> QED
  BY <1>2, <1>4, <1>5, <1>6, FsmInit DEF Inv

LEMMA InvNext == StrictBounds /\ Inv /\ [Next]_vars => Inv'
  BY FsmNext, ThenNext, NodeNext, PathNext, BoundNext, HulkNext, LoopNext, StackNext, AnswerNext DEF Inv

\* What the searches return is a path of the FSM from the state it was asked
\* for, and what explainEG returns beside it leads from its end back to one of
\* its states (mcExplain.c:141-980, mc.py:143-315): for every set of formulas,
\* every relation and every choice of a state and of inputs.  For EBG the bounds
\* are taken to be different: ebg_explain with equal ones may choose a state
\* from an empty set (mcExplain.c:925-927).
THEOREM PathCorrect ==
    ASSUME StrictBounds
    PROVE  Spec => []AnswerIsPath
<1>1. Inv /\ [Next]_vars => Inv'
  BY InvNext
<1>2. Inv => AnswerIsPath
  BY DEF Inv
<1> QED
  BY <1>1, <1>2, InvInit, PTL DEF Spec

-----------------------------------------------------------------------------
(* What the sets of eg_explain promise: from each of their states, every   *)
(* constraint can be met without leaving them.                             *)

\* The sets a loop over subspace starts from and ends with are pairs.
LEMMA EgSiIsLast ==
    ASSUME NEW t, NEW R, NEW si
    PROVE  LET subspace == Within(R, si \cap StatesInputsConstraints(t, R))
           IN subspace \in SUBSET StateInput => LastRound(t, R, subspace, EgSi(t, R, si))
<1> DEFINE subspace == Within(R, si \cap StatesInputsConstraints(t, R))
           L == CHOOSE L : IsStepLoop(t, R, subspace, L)
<1>1. EgSi(t, R, si) = L[StateInput]
  BY Zenon DEF EgSi, IsStepLoop
<1>2. IsStepLoop(t, R, subspace, L)
  <2> HIDE DEF subspace
  <2> QED
    BY StepLoop, Zenon
<1>3. LastRound(t, R, subspace, L[StateInput])
  <2> HIDE DEF subspace, L
  <2> QED
    BY <1>2, StepLoop
<1> QED
  BY <1>1, <1>3

\* Each pair of the result can reach each constraint inside it.
LEMMA MeetsInside ==
    ASSUME NEW t, NEW R, NEW sub \in SUBSET StateInput, NEW F, LastRound(t, R, sub, F),
           NEW p \in Justice
    PROVE  EU(t, R, sub, F \cap p) = F
<1> DEFINE U(si, q) == EU(t, R, sub, si \cap q)
           Y == U(F, p)
<1>1. F \in SUBSET StateInput /\ F \subseteq sub /\ F \subseteq FairStep(t, R, F, sub)
  BY DEF LastRound, StepRound
<1>2. ASSUME NEW si \in SUBSET StateInput, NEW q
      PROVE  /\ U(si, q) \in SUBSET StateInput
             /\ Within(R, si \cap q) \subseteq U(si, q)
             /\ sub \cap EX(t, R, U(si, q)) \subseteq U(si, q)
             /\ \A W \in SUBSET StateInput :
                   Within(R, si \cap q) \subseteq W /\ sub \cap EX(t, R, W) \subseteq W => U(si, q) \subseteq W
  <2>1. si \cap q \in SUBSET StateInput
    OBVIOUS
  <2> QED
    BY <2>1, EuIsLeast
<1> DEFINE Met(si) == {x \in si : \A q \in Justice : x \in U(si, q)}
<1>3. \A si : FairStep(t, R, si, sub) = EX(t, R, Met(si))
  BY DEF FairStep
<1> HIDE DEF U
<1>4. \A q \in Justice : F \subseteq U(F, q)
  <2> SUFFICES ASSUME NEW q \in Justice PROVE F \subseteq U(F, q)
    OBVIOUS
  <2>1. Met(F) \in SUBSET StateInput /\ Met(F) \subseteq U(F, q) /\ U(F, q) \in SUBSET StateInput
    BY <1>1, <1>2
  <2>2. F \subseteq EX(t, R, Met(F))
    BY <1>1, <1>3
  <2> HIDE DEF Met
  <2>3. EX(t, R, Met(F)) \subseteq EX(t, R, U(F, q))
    BY <2>1, ExPairs
  <2> QED
    BY <1>1, <1>2, <2>2, <2>3
<1> HIDE DEF Met
<1>5. Y \in SUBSET StateInput /\ F \subseteq Y
  BY <1>1, <1>2, <1>4
<1>6. Y \subseteq sub /\ Y \subseteq EX(t, R, Y)
  <2>1. F \subseteq EX(t, R, Y)
    <3>1. Met(F) \in SUBSET StateInput /\ Met(F) \subseteq Y
      BY <1>1, <1>5 DEF Met
    <3>2. EX(t, R, Met(F)) \subseteq EX(t, R, Y)
      BY <1>5, <3>1, ExPairs
    <3> QED
      BY <1>1, <1>3, <3>2
  <2> DEFINE W == Y \cap sub \cap EX(t, R, Y)
  <2>2. W \in SUBSET StateInput /\ W \subseteq Y
    BY <1>5
  <2>3. Within(R, F \cap p) \subseteq W
    BY <1>1, <1>5, <2>1 DEF Within
  <2>4. EX(t, R, W) \subseteq EX(t, R, Y)
    <3> HIDE DEF W, Y
    <3> QED
      BY <1>5, <2>2, ExPairs
  <2>5. sub \cap EX(t, R, W) \subseteq W
    <3>1. sub \cap EX(t, R, Y) \subseteq Y
      BY <1>1, <1>2
    <3> QED
      BY <2>4, <3>1
  <2> HIDE DEF W
  <2>6. Y \subseteq W
    BY <1>1, <1>2, <2>2, <2>3, <2>5
  <2> QED
    BY <2>6 DEF W
<1>7. ASSUME NEW si \in SUBSET StateInput, Y \subseteq si PROVE Y \subseteq StepRound(t, R, sub, si)
  <2>1. ASSUME NEW q \in Justice PROVE Y \subseteq U(si, q)
    <3>1. F \subseteq U(si, q)
      <4>1. U(F, q) \subseteq U(si, q)
        <5>1. Within(R, F \cap q) \subseteq Within(R, si \cap q)
          BY <1>5, <1>7 DEF Within
        <5> QED
          BY <1>1, <1>2, <1>7, <5>1
      <4> QED
        BY <1>4, <2>1, <4>1
    <3>2. Within(R, F \cap p) \subseteq U(si, q)
      BY <3>1 DEF Within
    <3> QED
      BY <1>1, <1>2, <1>7, <3>2
  <2>2. Y \subseteq Met(si) /\ Met(si) \in SUBSET StateInput
    BY <1>7, <2>1 DEF Met
  <2>3. EX(t, R, Y) \subseteq EX(t, R, Met(si))
    <3> HIDE DEF Y
    <3> QED
      BY <1>5, <2>2, ExPairs
  <2> QED
    BY <1>3, <1>6, <1>7, <2>3 DEF StepRound
<1>8. Y \subseteq F
  <2> HIDE DEF Y
  <2> QED
    BY <1>5, <1>7 DEF LastRound
<1> QED
  BY <1>5, <1>8 DEF U

\* A result that lies in another subspace lies in its result.
LEMMA LastInside ==
    ASSUME NEW t, NEW R, NEW sub \in SUBSET StateInput, NEW sub2 \in SUBSET StateInput, NEW F, NEW F2,
           LastRound(t, R, sub, F), LastRound(t, R, sub2, F2), F \subseteq sub2
    PROVE  F \subseteq F2
<1>1. F \in SUBSET StateInput /\ F \subseteq FairStep(t, R, F, sub)
  BY DEF LastRound, StepRound
<1> SUFFICES ASSUME NEW si \in SUBSET StateInput, F \subseteq si
             PROVE  F \subseteq StepRound(t, R, sub2, si)
  BY <1>1 DEF LastRound
<1>2. ASSUME NEW p \in Justice PROVE F \subseteq EU(t, R, sub2, si \cap p)
  <2> DEFINE E == EU(t, R, sub2, si \cap p)
             W == F \cap E
  <2>1. F \cap p \in SUBSET StateInput /\ si \cap p \in SUBSET StateInput
    BY <1>1
  <2>2. E \in SUBSET StateInput /\ Within(R, si \cap p) \subseteq E /\ sub2 \cap EX(t, R, E) \subseteq E
    BY <2>1, EuIsLeast
  <2>3. EU(t, R, sub, F \cap p) = F
    BY <1>2, MeetsInside
  <2>4. /\ sub \cap EX(t, R, F) \subseteq F /\ Within(R, F \cap p) \subseteq F
        /\ \A V \in SUBSET StateInput :
              Within(R, F \cap p) \subseteq V /\ sub \cap EX(t, R, V) \subseteq V => F \subseteq V
    BY <2>1, <2>3, EuIsLeast
  <2> HIDE DEF E
  <2>5. W \in SUBSET StateInput /\ W \subseteq F /\ W \subseteq E
    BY <1>1
  <2>6. EX(t, R, W) \subseteq EX(t, R, F) /\ EX(t, R, W) \subseteq EX(t, R, E)
    <3> HIDE DEF W
    <3> QED
      BY <1>1, <2>2, <2>5, ExPairs
  <2>7. Within(R, F \cap p) \subseteq W
    BY <2>2, <2>4 DEF Within
  <2>8. sub \cap EX(t, R, W) \subseteq W
    BY <2>2, <2>4, <2>6
  <2>9. F \subseteq W
    <3> HIDE DEF W
    <3> QED
      BY <2>4, <2>5, <2>7, <2>8
  <2> QED
    BY <2>9 DEF E
<1> DEFINE Met == {x \in F : \A p \in Justice : x \in EU(t, R, sub, F \cap p)}
           Met2 == {x \in si : \A p \in Justice : x \in EU(t, R, sub2, si \cap p)}
<1>3. Met \subseteq Met2 /\ Met \in SUBSET StateInput /\ Met2 \in SUBSET StateInput
  BY <1>1, <1>2
<1>4. EX(t, R, Met) \subseteq EX(t, R, Met2)
  <2> HIDE DEF Met, Met2
  <2> QED
    BY <1>3, ExPairs
<1> QED
  BY <1>1, <1>4 DEF StepRound, FairStep

\* No set of states with those of p, and with every state of si that has a step to one
\* of it, is smaller than the states of si.
BackClosed(t, S, C) ==
    \A s \in S, u \in C : (\E j \in InvarInput : Allowed(t, s, j, u)) => s \in C

Meetable(t, si, p) ==
    \A C \in SUBSET StatesOf(si) :
        StatesOf(si \cap p) \subseteq C /\ BackClosed(t, StatesOf(si), C) => StatesOf(si) \subseteq C

\* eg_si and eg of one operand: S the states of the fair pairs si.
Fits(t, R, fsi, si, S) ==
    /\ si \subseteq fsi /\ fsi \in SUBSET StateInput
    /\ S = StatesOf(si) /\ S \subseteq R
    /\ \A p \in Justice : Meetable(t, si, p)

LEMMA LastMeetable ==
    ASSUME NEW t, NEW R, NEW sub \in SUBSET StateInput, NEW si, LastRound(t, R, sub, si),
           NEW p \in Justice
    PROVE  Meetable(t, si, p)
<1>1. si \in SUBSET StateInput /\ EU(t, R, sub, si \cap p) = si
  BY MeetsInside DEF LastRound
<1>2. /\ Within(R, si \cap p) \subseteq si /\ sub \cap EX(t, R, si) \subseteq si
      /\ \A W \in SUBSET StateInput :
            Within(R, si \cap p) \subseteq W /\ sub \cap EX(t, R, W) \subseteq W => si \subseteq W
  <2>1. si \cap p \in SUBSET StateInput
    BY <1>1
  <2> QED
    BY <1>1, <2>1, EuIsLeast
<1> SUFFICES ASSUME NEW C \in SUBSET StatesOf(si), StatesOf(si \cap p) \subseteq C,
                    BackClosed(t, StatesOf(si), C)
             PROVE  StatesOf(si) \subseteq C
  BY DEF Meetable
<1>3. \A x \in si : x[1] \in StatesOf(si) /\ (x \in p => x[1] \in StatesOf(si \cap p))
  <2>1. si \cap p \in SUBSET StateInput
    BY <1>1
  <2> QED
    BY <1>1, <2>1, StatesAre
<1> DEFINE W == {x \in si : x[1] \in C}
<1>4. W \in SUBSET StateInput /\ W \subseteq si
  BY <1>1
<1>5. Within(R, si \cap p) \subseteq W
  BY <1>3 DEF Within
<1>6. ASSUME NEW x \in sub, x \in EX(t, R, W) PROVE x \in W
  <2>1. EX(t, R, W) \subseteq EX(t, R, si)
    <3> HIDE DEF W
    <3> QED
      BY <1>1, <1>4, ExPairs
  <2>2. x \in si
    BY <1>2, <1>6, <2>1
  <2>3. x \in Legal /\ \E y \in W : y[1] \in Invar /\ Leads(t, x, y)
    <3> HIDE DEF W
    <3> QED
      BY <1>4, <1>6, ExMeans
  <2>4. PICK y \in W : y[1] \in Invar /\ Leads(t, x, y)
    BY <2>3
  <2>5. x[2] \in InvarInput /\ Allowed(t, x[1], x[2], y[1])
    BY <2>3, <2>4 DEF Allowed, Legal, Leads
  <2> QED
    BY <1>3, <2>2, <2>4, <2>5 DEF BackClosed
<1>7. si \subseteq W
  <2> HIDE DEF W
  <2> QED
    BY <1>2, <1>4, <1>5, <1>6
<1>8. \A s \in StatesOf(si) : \E x \in si : x[1] = s
  BY <1>1, StatesAre
<1> QED
  BY <1>7, <1>8

\* What eg_si and eg return for an operand S of EG fits: the one computes over the
\* pairs of S, the other over the fair ones among them.
LEMMA EgFits ==
    ASSUME NEW t, NEW R \in SUBSET State, NEW S
    PROVE  LET fsi == FairStatesInputs(t, R)
           IN Fits(t, R, fsi, EgSi(t, R, S \X Input), Eg(t, R, fsi, S))
<1> DEFINE all == StatesInputsConstraints(t, R)
           fsi == FairStatesInputs(t, R)
           here == Within(R, (S \X Input) \cap all)
           si == EgSi(t, R, S \X Input)
           fairs == Within(R, (fsi \cap (S \X Input)) \cap all)
           mi == EgSi(t, R, fsi \cap (S \X Input))
<1>1. all \in SUBSET StateInput /\ here \subseteq all /\ fairs \subseteq here
  BY DEF StatesInputsConstraints, StateInput, Within
<1>2. LastRound(t, R, all, fsi)
  BY FairIsGreatest DEF LastRound, FairRound
<1>3. LastRound(t, R, here, si) /\ LastRound(t, R, fairs, mi)
  BY <1>1, EgSiIsLast
<1> HIDE DEF all, fsi, si, mi
<1>4. here \in SUBSET StateInput /\ fairs \in SUBSET StateInput
  BY <1>1
<1>5. /\ fsi \in SUBSET StateInput /\ si \in SUBSET StateInput /\ mi \in SUBSET StateInput
      /\ fsi \subseteq all /\ si \subseteq here /\ mi \subseteq fairs
  BY <1>2, <1>3 DEF LastRound, StepRound
<1>6. si \subseteq fsi
  <2>1. si \subseteq all
    BY <1>1, <1>5
  <2> HIDE DEF here, fairs
  <2> QED
    BY <1>1, <1>2, <1>3, <1>4, <2>1, LastInside
<1>7. mi = si
  <2>1. si \subseteq fairs /\ mi \subseteq here
    BY <1>1, <1>5, <1>6 DEF Within
  <2> HIDE DEF here, fairs
  <2> QED
    BY <1>3, <1>4, <2>1, LastInside
<1>8. ASSUME S = State PROVE Eg(t, R, fsi, S) = StatesOf(si)
  <2>1. fsi \subseteq here
    <3>1. fsi \subseteq EX(t, R, {x \in fsi : \A p \in Justice : x \in EU(t, R, all, fsi \cap p)})
      BY <1>2 DEF LastRound, StepRound, FairStep
    <3>2. fsi \subseteq R \X Input
      BY <3>1 DEF EX, Within
    <3> QED
      BY <1>5, <1>8, <3>2 DEF Within, StateInput
  <2>2. fsi \subseteq si
    <3> HIDE DEF here, fairs
    <3> QED
      BY <1>1, <1>2, <1>3, <1>4, <2>1, LastInside
  <2>3. Eg(t, R, fsi, S) = StatesOf(si)
    BY <1>6, <1>8, <2>2 DEF Eg
  <2> QED
    BY <2>3
<1>9. ASSUME S # State PROVE Eg(t, R, fsi, S) = StatesOf(si)
  <2>1. Eg(t, R, fsi, S) = StatesOf(mi)
    BY <1>9 DEF Eg, mi
  <2> QED
    BY <1>7, <2>1
<1>10. Eg(t, R, fsi, S) = StatesOf(si)
  BY <1>8, <1>9
<1>11. StatesOf(si) \subseteq R
  BY <1>5 DEF Within, StatesOf
<1>12. \A p \in Justice : Meetable(t, si, p)
  <2> HIDE DEF here, fairs
  <2> QED
    BY <1>3, <1>4, LastMeetable
<1>13. Fits(t, R, fsi, si, Eg(t, R, fsi, S))
  BY <1>5, <1>6, <1>10, <1>11, <1>12 DEF Fits
<1> QED
  BY <1>13 DEF fsi, si

-----------------------------------------------------------------------------
(* The searches of eu_explain and eg_explain find what there is.           *)

\* No path inside E leads from S to X: some subset of E holds S, holds nothing
\* of X and is not left by a step inside E.
Shut(t, E, X, S) == \E C \in SUBSET E :
    S \subseteq C /\ C \cap X = {} /\ ForwardImage(t, C) \cap E \subseteq C

\* What eu_explain has seen: states of F that are not in A and that only the
\* last ones lead out of.
Seen(t, F, A, all, last) ==
    /\ last \subseteq all /\ all \subseteq F /\ all \cap A = {}
    /\ ForwardImage(t, all \ last) \cap F \subseteq all
    /\ ForwardImage(t, all \ last) \cap A = {}

SeenInv ==
    pc = "eu_loop" =>
        /\ Seen(trans, f, Accepting, Z, new) /\ Z \in SUBSET State
        /\ states[base] \cap f \subseteq Z /\ states[base] \cap f # {}
        /\ then = "returned" => base = mark

\* The fair states, and those of an operand of EG.
EgsInv ==
    /\ fair = StatesOf(fairsi)
    /\ \A S \in DOMAIN egs : Fits(trans, reach, fairsi, egs[S].si, egs[S].states)

\* eg_explain stays in eg_g and meets every constraint; it closes the loop as
\* soon as the way back is found, and looks for another when there is none.
RoundInv ==
    /\ todo \subseteq Justice
    /\ InEg /\ pc # "eg" => Fits(trans, reach, fairsi, hulk, eg)
    /\ InEg /\ pc \notin {"eg", "round"} => starting \subseteq eg
    /\ pc \in EuPcs /\ then = "met" => f = eg /\ \E p \in Justice : target = hulk \cap p
    /\ pc \in EuPcs /\ then = "returned" => f = eg /\ g = eg \cap Ex(starting)
    /\ pc \in {"round", "meet"} \/ (pc = "eu" /\ then \in {"met", "returned"}) => Last \subseteq eg
    /\ pc = "eu" /\ then = "returned" => mark = Length
    /\ pc = "eu_loop" /\ then = "returned" => states[mark] \subseteq eg
    /\ pc \in {"met", "closed", "reopened"} => ok
    /\ (pc = "returned" /\ ok) \/ (pc = "ex" /\ then = "closed") => Last \subseteq eg \cap Ex(starting)
    /\ pc = "returned" /\ ~ok => Shut(trans, eg, Ex(starting), states[mark])
    /\ pc = "ex" /\ then = "reopened" => g = eg /\ Shut(trans, eg, Ex(starting), Last)
    /\ pc = "reopened" => Shut(trans, eg, starting, Last)

SearchInv == Inv /\ EgsInv /\ SeenInv /\ RoundInv

LEMMA FsmKept ==
    ASSUME [Next]_vars
    PROVE  UNCHANGED fsmVars
<1>1. ASSUME ExSearch \/ EuSearch PROVE UNCHANGED fsmVars
  BY <1>1 DEF ExSearch, ExAbort, ExFail, ExExplain, EuSearch, EuAtOnce, EuRefuse, EuCall, EuFound,
              EuIterate, EuFail, EuBack, EuDone
<1>2. ASSUME EgSearch PROVE UNCHANGED fsmVars
  BY <1>2 DEF EgSearch, EgRefuse, EgCall, StartRound, Meet, MetByStep, MetByState, Return, Close,
              Closed1, Reopen, Reopened
<1>3. ASSUME BoundedSearch PROVE UNCHANGED fsmVars
  BY <1>3 DEF BoundedSearch, EbuAdvance, EbuStuck, EbuSearch, EbuFound, EbuLate, EbuBack, EbgAdvance,
              EbgStuck, EbgSearch, EbgHold, EbgLost, EbgFound, EbgBack, BoundedDone, BoundedFail
<1>4. ASSUME ExplainRecur PROVE UNCHANGED fsmVars
  BY <1>4 DEF ExplainRecur, ExplainNot, ExplainRewritten, ExplainAtom, ExplainOr, ExplainAndRefuse,
              ExplainAnd, ExplainSearch, Continue, EndBase, Keep, OrFound, OrRight, AndRight, AndJoin
<1>5. ASSUME Answer \/ Taken \/ Restart \/ UNCHANGED vars PROVE UNCHANGED fsmVars
  BY <1>5 DEF Answer, Taken, Restart, vars
<1>6. ASSUME NEW by \in DOMAIN Nodes, NEW n \in Nodes[by], NEW s \in Subjects(by, n), Request(by, n, s)
      PROVE  UNCHANGED fsmVars
  BY <1>6 DEF Request
<1> QED
  BY <1>1, <1>2, <1>3, <1>4, <1>5, <1>6, StepCases

LEMMA EgsNext == EgsInv /\ [Next]_vars => EgsInv'
  BY FsmKept DEF EgsInv, fsmVars

\* eu_explain looks on only by EuCall and EuIterate.
LEMMA LooksOn ==
    ASSUME ThenInv, NodeInv, [Next]_vars, pc' = "eu_loop"
    PROVE  EuCall \/ EuIterate \/ UNCHANGED vars
<1>1. ASSUME ExSearch PROVE FALSE
  BY <1>1 DEF ExSearch, ExAbort, ExFail, ExExplain, Ended, ThenInv
<1>2. ASSUME EuSearch PROVE EuCall \/ EuIterate
  BY <1>2 DEF EuSearch, EuAtOnce, EuRefuse, EuFound, EuFail, EuBack, EuDone, Ended, ThenInv, EuPcs
<1>3. ASSUME EgSearch PROVE FALSE
  BY <1>3 DEF EgSearch, EgRefuse, EgCall, StartRound, Meet, MetByStep, MetByState, Return, Close,
              Closed1, Reopen, Reopened, Ended
<1>4. ASSUME BoundedSearch PROVE FALSE
  BY <1>4 DEF BoundedSearch, EbuAdvance, EbuStuck, EbuSearch, EbuFound, EbuLate, EbuBack, EbgAdvance,
              EbgStuck, EbgSearch, EbgHold, EbgLost, EbgFound, EbgBack, BoundedDone, BoundedFail, Ended
<1>5. ASSUME ExplainRecur PROVE FALSE
  <2>1. CASE ExplainSearch
    BY <2>1 DEF ExplainSearch, Search
  <2>2. CASE ~ExplainSearch
    BY <1>5, <2>2 DEF ExplainRecur, ExplainNot, ExplainRewritten, ExplainAtom, Ended, ExplainOr,
         ExplainAndRefuse, ExplainAnd, Continue, EndBase, Keep, OrFound, OrRight, AndRight, AndJoin, Returns
  <2> QED
    BY <2>1, <2>2
<1>6. ASSUME Answer \/ Taken \/ Restart PROVE FALSE
  BY <1>6 DEF Answer, Taken, Restart
<1>7. ASSUME NEW by \in DOMAIN Nodes, NEW n \in Nodes[by], NEW s \in Subjects(by, n), Request(by, n, s)
      PROVE  FALSE
  BY <1>7 DEF Request
<1> QED
  BY <1>1, <1>2, <1>3, <1>4, <1>5, <1>6, <1>7, StepCases

\* A round more of the search forwards.
LEMMA SeesMore ==
    ASSUME NEW t, NEW F, NEW A, NEW all, NEW last, Seen(t, F, A, all, last),
           ForwardImage(t, last) \cap A = {}
    PROVE  Seen(t, F, A, all \cup (ForwardImage(t, last) \cap F), (ForwardImage(t, last) \cap F) \ all)
<1>1. (all \cup (ForwardImage(t, last) \cap F)) \ ((ForwardImage(t, last) \cap F) \ all) = all
  OBVIOUS
<1>2. ForwardImage(t, all) = ForwardImage(t, all \ last) \cup ForwardImage(t, last)
  BY DEF ForwardImage, Seen
<1> QED
  BY <1>1, <1>2 DEF Seen

LEMMA SeenNext == SearchInv /\ [Next]_vars => SeenInv'
<1> SUFFICES ASSUME SearchInv, [Next]_vars, pc' = "eu_loop" PROVE SeenInv'
  BY DEF SeenInv
<1>0. ThenInv /\ NodeInv /\ PathInv /\ SeenInv /\ RoundInv
  BY DEF SearchInv, Inv
<1>1. CASE EuCall
  <2>1. /\ pc = "eu" /\ Z' = Last \cap f /\ new' = Last \cap f /\ base' = Length
        /\ UNCHANGED <<trans, fair, f, g, states, then, mark>>
        /\ Last \cap Accepting = {} /\ Last \cap f # {}
    BY <1>1 DEF EuCall, fsmVars, pathVars
  <2>2. Last \subseteq State
    <3>1. Sets(states, inputs) /\ Length \in 1..Length
      <4>1. pc = "eu" => \E n \in {Length, mark} : Prefix(trans, given, states, inputs, n)
        BY <1>0 DEF PathInv, Steady, InEbu, EuPcs, ThenInv
      <4> QED
        BY <2>1, <4>1, SetsLength DEF Prefix, Length
    <3> QED
      BY <3>1, SetsLength DEF Last, Length
  <2>3. ForwardImage(trans, {}) = {}
    BY DEF ForwardImage
  <2>4. Seen(trans, f, Accepting, Z', new')
    <3>1. Z' \ new' = {}
      BY <2>1
    <3> QED
      BY <2>1, <2>3, <3>1 DEF Seen
  <2>6. states'[base'] \cap f' = Last \cap f
    BY <2>1 DEF Last
  <2>7. then' = "returned" => base' = mark'
    BY <1>0, <2>1 DEF RoundInv
  <2> QED
    BY <2>1, <2>2, <2>4, <2>6, <2>7 DEF SeenInv, Accepting
<1>2. CASE EuIterate
  <2>1. /\ pc = "eu_loop" /\ Z' = Z \cup (Image \cap f) /\ new' = (Image \cap f) \ Z
        /\ UNCHANGED <<trans, fair, f, g, base, then, mark>>
        /\ Image \cap Accepting = {}
    BY <1>2 DEF EuIterate, fsmVars
  <2>2. Seen(trans, f, Accepting, Z', new')
    BY <1>0, <2>1, SeesMore DEF SeenInv, Image
  <2>3. Image \subseteq State
    BY ForwardReached DEF Image
  <2>4. base \in 1..Length /\ Length \in Nat
    BY <1>0, <2>1, EuLoopIs
  <2>5. states'[base] = states[base]
    BY <1>0, <1>2, <2>4, EuIteratePath DEF Grows, Length
  <2> QED
    BY <1>0, <2>1, <2>2, <2>3, <2>5 DEF SeenInv, Accepting
<1>3. CASE UNCHANGED vars
  BY <1>0, <1>3 DEF SeenInv, Accepting, vars, fsmVars, pathVars, euVars
<1> QED
  BY <1>0, <1>1, <1>2, <1>3, LooksOn

\* What is given up.
LEMMA SeenAll ==
    ASSUME NEW t, NEW F, NEW A, NEW all, NEW last, Seen(t, F, A, all, last),
           ForwardImage(t, last) \cap A = {}, (ForwardImage(t, last) \cap F) \ all = {}
    PROVE  ForwardImage(t, all) \cap F \subseteq all /\ ForwardImage(t, all) \cap A = {}
<1>1. ForwardImage(t, all) = ForwardImage(t, all \ last) \cup ForwardImage(t, last)
  BY DEF ForwardImage, Seen
<1> QED
  BY <1>1 DEF Seen

\* A constraint is met wherever one starts in the states of the pairs.
LEMMA AlwaysMet ==
    ASSUME NEW t, NEW si \in SUBSET StateInput, NEW p, Meetable(t, si, p), NEW all,
           all \subseteq StatesOf(si), all \cap StatesOf(si \cap p) = {},
           ForwardImage(t, all) \cap StatesOf(si) \subseteq all
    PROVE  all = {}
<1> DEFINE F == StatesOf(si)
           C == F \ all
<1>1. StatesOf(si \cap p) \subseteq F
  BY DEF StatesOf
<1>2. BackClosed(t, F, C)
  <2> SUFFICES ASSUME NEW s \in F, NEW u \in C, NEW j \in InvarInput, Allowed(t, s, j, u), s \in all
               PROVE  FALSE
    BY DEF BackClosed
  <2>1. u \in ForwardImage(t, all)
    BY DEF Allowed, ForwardImage
  <2> QED
    BY <2>1
<1>3. F \subseteq C
  BY <1>1, <1>2 DEF Meetable
<1> QED
  BY <1>3

\* Every pair has a step to another: from a state of theirs there is one.
LEMMA StepOn ==
    ASSUME NEW t, NEW si, si \subseteq StateInput, GoesOn(t, si), NEW s, s # {}, s \subseteq StatesOf(si)
    PROVE  ForwardImage(t, s) \cap StatesOf(si) # {}
<1>1. PICK x \in s : TRUE
  OBVIOUS
<1>2. PICK k \in Input : <<x, k>> \in si
  BY <1>1 DEF StatesOf
<1>3. PICK u \in StatesOf(si) : Allowed(t, x, k, u)
  BY <1>2 DEF GoesOn
<1> QED
  BY <1>1, <1>3 DEF Allowed, ForwardImage

\* eg_explain in the middle of a search.
LEMMA RoundIs ==
    ASSUME SearchInv, InEg, pc # "eg"
    PROVE  /\ Fits(trans, reach, fairsi, hulk, eg) /\ hulk \in SUBSET StateInput /\ GoesOn(trans, hulk)
           /\ eg = StatesOf(hulk) /\ eg \subseteq reach /\ eg \subseteq fair
           /\ reach \subseteq State
<1>1. Fits(trans, reach, fairsi, hulk, eg) /\ hulk \in SUBSET StateInput /\ GoesOn(trans, hulk)
  BY DEF SearchInv, Inv, RoundInv, HulkInv
<1>2. eg = StatesOf(hulk) /\ eg \subseteq reach /\ hulk \subseteq fairsi
  BY <1>1 DEF Fits
<1>3. StatesOf(hulk) \subseteq StatesOf(fairsi)
  BY <1>2 DEF StatesOf
<1> QED
  BY <1>1, <1>2, <1>3 DEF SearchInv, Inv, FsmInv, EgsInv

\* The last set of a path is a state.
LEMMA LastIs ==
    ASSUME PathInv, Steady
    PROVE  Alone(Last) /\ Last # {} /\ Last \subseteq State
<1>1. Prefix(trans, given, states, inputs, Length)
  BY DEF PathInv
<1>2. Alone(Last)
  BY <1>1 DEF Prefix, Last
<1> QED
  BY <1>2 DEF Alone

\* No constraint is looked for in vain.
LEMMA MeetFound ==
    ASSUME SearchInv, pc \in EuPcs, then = "met", EuFail
    PROVE  FALSE
<1>0. ThenInv /\ NodeInv /\ PathInv /\ SeenInv /\ RoundInv /\ HulkInv
  BY DEF SearchInv, Inv
<1>1. /\ Fits(trans, reach, fairsi, hulk, eg) /\ hulk \in SUBSET StateInput
      /\ eg = StatesOf(hulk) /\ eg \subseteq fair
  BY RoundIs DEF InEg, EuPcs
<1>2. PICK p \in Justice : target = hulk \cap p
  BY <1>0 DEF RoundInv
<1>3. /\ pc = "eu_loop" /\ Image \cap Accepting = {} /\ (Image \cap f) \ Z = {}
  BY DEF EuFail
<1>4. f = eg /\ g = StatesOf(hulk \cap p)
  BY <1>0, <1>2 DEF RoundInv, HulkInv
<1>5. StatesOf(hulk \cap p) \subseteq eg
  BY <1>1 DEF StatesOf
<1>6. Accepting = StatesOf(hulk \cap p)
  BY <1>1, <1>4, <1>5 DEF Accepting
<1>7. Seen(trans, f, Accepting, Z, new) /\ Z # {}
  BY <1>0, <1>3 DEF SeenInv
<1>8. ForwardImage(trans, Z) \cap eg \subseteq Z
  BY <1>3, <1>4, <1>7, SeenAll DEF Image
<1>9. Z \subseteq eg /\ Z \cap StatesOf(hulk \cap p) = {}
  BY <1>4, <1>6, <1>7 DEF Seen
<1>10. Meetable(trans, hulk, p)
  BY <1>1 DEF Fits
<1> QED
  BY <1>1, <1>7, <1>8, <1>9, <1>10, AlwaysMet

\* The way back is given up when there is none.
LEMMA ReturnFails ==
    ASSUME SearchInv, then = "returned", EuFail
    PROVE  Shut(trans, eg, Ex(starting), states'[mark])
<1>0. ThenInv /\ NodeInv /\ PathInv /\ SeenInv /\ RoundInv /\ HulkInv
  BY DEF SearchInv, Inv
<1>1. pc = "eu_loop" /\ Image \cap Accepting = {} /\ (Image \cap f) \ Z = {}
  BY DEF EuFail
<1>2. f = eg /\ g = eg \cap Ex(starting) /\ eg \subseteq fair
  BY <1>0, <1>1, RoundIs DEF RoundInv, InEg, EuPcs
<1>3. Accepting = eg \cap Ex(starting)
  BY <1>2 DEF Accepting
<1>4. /\ Seen(trans, f, Accepting, Z, new)
      /\ states[base] \cap f \subseteq Z /\ base = mark
  BY <1>0, <1>1 DEF SeenInv
<1>5. ForwardImage(trans, Z) \cap eg \subseteq Z
  BY <1>1, <1>2, <1>4, SeenAll DEF Image
<1>6. states'[mark] = states[mark]
  <2>1. base \in 1..Length /\ Same(states, states', base)
    BY <1>0, <1>1, EuLoopIs, EuFailPath
  <2> QED
    BY <1>4, <2>1 DEF Same
<1>7. states[mark] \subseteq eg
  BY <1>0, <1>1 DEF RoundInv
<1>8. Z \subseteq eg /\ Z \cap Ex(starting) = {}
  BY <1>2, <1>3, <1>4 DEF Seen
<1> QED
  BY <1>2, <1>4, <1>5, <1>6, <1>7, <1>8 DEF Shut

\* The loop is closed where its starting state has been found.
LEMMA ClosesLoop ==
    ASSUME SearchInv, pc = "ex", then = "closed", ExFail
    PROVE  FALSE
<1>0. ThenInv /\ NodeInv /\ PathInv /\ LoopInv /\ RoundInv
  BY DEF SearchInv, Inv
<1>1. g = starting /\ Last \subseteq Ex(starting)
  BY <1>0 DEF LoopInv, Looping, RoundInv
<1>2. PICK x \in Last : TRUE
  BY <1>0, LastIs DEF Steady
<1>3. x \in BackwardImage(trans, starting \cap fair \cap reach)
  BY <1>1, <1>2 DEF Ex
<1>4. PICK y \in starting \cap fair, k \in InvarInput : Allowed(trans, x, k, y)
  BY <1>3 DEF BackwardImage, Allowed
<1>5. y \in ForwardImage(trans, Last)
  BY <1>2, <1>4 DEF ForwardImage, Allowed
<1> QED
  BY <1>1, <1>4, <1>5 DEF ExFail, Target

\* There is a step inside eg_g, and it does not lead back.
LEMMA StepsOnward ==
    ASSUME SearchInv, pc = "ex", then = "reopened"
    PROVE  /\ ~ExAbort /\ ~ExFail
           /\ ExExplain => Shut(trans, eg, starting, Last')
<1>0. ThenInv /\ NodeInv /\ PathInv /\ LoopInv /\ RoundInv /\ FsmInv
  BY DEF SearchInv, Inv
<1>1. /\ hulk \in SUBSET StateInput /\ GoesOn(trans, hulk)
      /\ eg = StatesOf(hulk) /\ eg \subseteq reach /\ eg \subseteq fair
  BY RoundIs DEF InEg, EuPcs
<1>2. g = eg /\ starting \subseteq eg
  BY <1>0 DEF RoundInv, InEg
<1>3. PICK C \in SUBSET eg : /\ Last \subseteq C /\ C \cap Ex(starting) = {}
                             /\ ForwardImage(trans, C) \cap eg \subseteq C
  BY <1>0 DEF RoundInv, Shut
<1>4. Last # {} /\ Last \subseteq State
  BY <1>0, LastIs DEF Steady
<1>5. ForwardImage(trans, Last) \cap eg # {}
  BY <1>1, <1>3, <1>4, StepOn
<1>6. Target = ForwardImage(trans, Last) \cap eg
  BY <1>1, <1>2 DEF Target
<1>7. ~ExAbort /\ ~ExFail
  BY <1>1, <1>3, <1>5, <1>6 DEF ExAbort, ExFail
<1>8. ASSUME ExExplain PROVE Shut(trans, eg, starting, Last')
  <2> DEFINE D == ForwardImage(trans, C) \cap eg
  <2>1. Prefix(trans, given, states, inputs, Length)
    BY <1>0 DEF PathInv, Steady
  <2>2. Last' \subseteq ForwardImage(trans, Last) \cap eg
    BY <1>5, <1>6, <1>8, <2>1, ExtendsWithOne DEF ExExplain
  <2>3. \A P, Q : P \subseteq Q => ForwardImage(trans, P) \subseteq ForwardImage(trans, Q)
    BY DEF ForwardImage
  <2>4. Last' \subseteq D
    BY <1>3, <2>2, <2>3
  <2>5. D \cap starting = {}
    <3> SUFFICES ASSUME NEW y \in D \cap starting PROVE FALSE
      OBVIOUS
    <3>1. PICK x \in C, k \in InvarInput : Allowed(trans, x, k, y)
      BY DEF ForwardImage, Allowed
    <3>2. y \in starting \cap fair \cap reach /\ x \in reach
      BY <1>1
    <3>3. x \in Ex(starting)
      BY <3>1, <3>2 DEF Ex, BackwardImage, Allowed
    <3> QED
      BY <1>3, <3>1, <3>3
  <2>6. ForwardImage(trans, D) \cap eg \subseteq D
    BY <1>3, <2>3
  <2> QED
    BY <2>4, <2>5, <2>6 DEF Shut
<1> QED
  BY <1>7, <1>8

LEMMA RoundElsewhere ==
    ASSUME todo' \subseteq Justice, pc' \notin EuPcs \cup EgPcs \cup {"ex"} \/ (pc' \notin EgPcs /\ then' \notin {"met", "returned", "closed", "reopened"})
           \/ pc' = "eg"
    PROVE  RoundInv'
  BY DEF RoundInv, InEg, EuPcs, EgPcs

LEMMA EuRound == SearchInv /\ EuSearch => RoundInv'
<1> SUFFICES ASSUME SearchInv, EuSearch PROVE RoundInv'
  OBVIOUS
<1>0. ThenInv /\ NodeInv /\ PathInv /\ SeenInv /\ RoundInv /\ HulkInv
  BY DEF SearchInv, Inv
<1>1. /\ pc \in EuPcs /\ then \in {"based", "met", "returned", "ebu_found"}
      /\ UNCHANGED <<trans, reach, fair, fairsi, f, g, mark, then, hulk, eg, target, starting, todo>>
      /\ pc' \in EuPcs \cup {then} /\ pc' # "eu"
  BY <1>0 DEF EuSearch, EuAtOnce, EuRefuse, EuCall, EuFound, EuIterate, EuFail, Forget, EuBack, EuDone,
              Ended, EuPcs, ThenInv, fsmVars, egVars, euVars
<1>2. CASE then \notin {"met", "returned"}
  BY <1>0, <1>1, <1>2, RoundElsewhere DEF RoundInv, EuPcs, EgPcs
<1> SUFFICES ASSUME then \in {"met", "returned"} PROVE RoundInv'
  BY <1>2
<1>3. InEg /\ pc # "eg" /\ pc # "round"
  BY <1>1 DEF InEg, EuPcs
<1>4. Ex(starting)' = Ex(starting)
  BY <1>1 DEF Ex
\* What has to be shown of the step.
<1>5. ASSUME pc' = "met" => ok',
             pc' = "returned" /\ ok' => Last' \subseteq g,
             pc' = "returned" /\ ~ok' => Shut(trans, eg, Ex(starting), states'[mark]),
             pc' = "eu_loop" /\ then = "returned" => states'[mark] \subseteq eg
      PROVE  RoundInv'
  <2>1. /\ todo' \subseteq Justice
        /\ Fits(trans', reach', fairsi', hulk', eg') /\ starting' \subseteq eg'
        /\ then' = "met" => f' = eg' /\ \E p \in Justice : target' = hulk' \cap p
        /\ then' = "returned" => f' = eg' /\ g' = eg' \cap Ex(starting)'
    BY <1>0, <1>1, <1>3, <1>4 DEF RoundInv
  <2>2. pc' \notin {"closed", "reopened", "round", "meet", "ex"}
    BY <1>1 DEF EuPcs
  <2>3. pc' = "returned" => then = "returned"
    BY <1>1 DEF EuPcs
  <2> QED
    BY <1>1, <1>4, <1>5, <2>1, <2>2, <2>3 DEF RoundInv, EuPcs
<1>6. pc = "eu" => Last \subseteq eg /\ f = eg /\ Last # {} /\ (then = "returned" => mark = Length)
  BY <1>0, <1>1, LastIs DEF RoundInv, Steady
<1>7. CASE EuAtOnce
  <2>1. Last' \subseteq g
    BY <1>0, <1>7, EuAtOncePath
  <2>2. ok' /\ pc' = then
    BY <1>7 DEF EuAtOnce, Ended
  <2> QED
    BY <1>5, <2>1, <2>2
<1>8. CASE EuRefuse
  BY <1>6, <1>8 DEF EuRefuse
<1>9. CASE EuCall
  BY <1>1, <1>5, <1>6, <1>9 DEF EuCall, pathVars, Last, Length
<1>10. CASE EuFound \/ EuIterate
  <2>1. pc = "eu_loop" /\ pc' \in {"eu_loop", "eu_back"}
    BY <1>10 DEF EuFound, EuIterate
  <2>2. then = "returned" => states[mark] \subseteq eg
    BY <1>0, <2>1 DEF RoundInv
  <2>3. states'[mark] = states[mark]
    <3>1. mark \in 1..Length
      BY <1>0, <2>1, EuLoopIs
    <3> QED
      BY <1>0, <1>10, <3>1, EuFoundPath, EuIteratePath DEF Grows, Length
  <2> QED
    BY <1>5, <2>1, <2>2, <2>3
<1>11. CASE EuFail
  <2>1. then = "returned"
    BY <1>1, <1>11, MeetFound
  <2>2. pc' = "returned" /\ ~ok'
    BY <1>11, <2>1 DEF EuFail, Ended
  <2> QED
    BY <1>5, <1>11, <2>1, <2>2, ReturnFails
<1>12. CASE EuBack
  BY <1>5, <1>12 DEF EuBack
<1>13. CASE EuDone
  <2>1. Last \subseteq g /\ Last' = Last /\ ok'
    BY <1>0, <1>13 DEF EuDone, Ended, HulkInv, pathVars, Last, Length
  <2> QED
    BY <1>1, <1>5, <1>13, <2>1 DEF EuDone, Ended
<1> QED
  BY <1>7, <1>8, <1>9, <1>10, <1>11, <1>12, <1>13 DEF EuSearch

LEMMA ExRound == SearchInv /\ ExSearch => RoundInv'
<1> SUFFICES ASSUME SearchInv, ExSearch PROVE RoundInv'
  OBVIOUS
<1>0. ThenInv /\ NodeInv /\ PathInv /\ RoundInv
  BY DEF SearchInv, Inv
<1>1. /\ pc = "ex" /\ then \in {"based", "closed", "reopened"} /\ pc' \in {"aborted", then}
      /\ UNCHANGED <<trans, reach, fair, fairsi, f, g, mark, then, hulk, eg, target, starting, todo>>
  BY <1>0 DEF ExSearch, ExAbort, ExFail, ExExplain, Ended, ThenInv, fsmVars, egVars, euVars
<1>2. CASE then = "based" \/ pc' = "aborted"
  BY <1>0, <1>1, <1>2, RoundElsewhere DEF RoundInv, EuPcs, EgPcs
<1>3. CASE then \in {"closed", "reopened"} /\ pc' = then
  <2>1. ExExplain /\ ok'
    <3>1. ~ExFail /\ ~ExAbort
      BY <1>1, <1>3, ClosesLoop, StepsOnward DEF ExAbort
    <3> QED
      BY <3>1 DEF ExSearch, ExExplain, Ended
  <2>2. Fits(trans, reach, fairsi, hulk, eg) /\ starting \subseteq eg /\ todo \subseteq Justice
    BY <1>0, <1>1, <1>3 DEF RoundInv, InEg
  <2>3. then = "reopened" => Shut(trans, eg, starting, Last')
    BY <1>1, <2>1, StepsOnward
  <2>4. pc' \notin EuPcs \cup {"round", "meet", "met", "returned", "ex"}
    BY <1>3 DEF EuPcs
  <2> QED
    BY <1>1, <1>3, <2>1, <2>2, <2>3, <2>4 DEF RoundInv, EuPcs
<1> QED
  BY <1>1, <1>2, <1>3

LEMMA EgRound == SearchInv /\ EgSearch => RoundInv'
<1> SUFFICES ASSUME SearchInv, EgSearch PROVE RoundInv'
  OBVIOUS
<1>0. ThenInv /\ NodeInv /\ PathInv /\ RoundInv /\ HulkInv /\ EgsInv
  BY DEF SearchInv, Inv
<1>1. CASE EgRefuse \/ Closed1
  <2>1. pc' = "based" /\ todo' \subseteq Justice
    BY <1>0, <1>1 DEF EgRefuse, Closed1, Ended, EgFree, RoundInv, egVars
  <2> QED
    BY <2>1, RoundElsewhere DEF EuPcs, EgPcs
<1>2. CASE EgCall
  <2>1. /\ pc = "eg" /\ pc' = "round" /\ hulk' = egs[g].si /\ eg' = egs[g].states
        /\ UNCHANGED <<trans, reach, fairsi, todo>> /\ Last \subseteq egs[g].states /\ Last' = Last
    BY <1>2 DEF EgCall, fsmVars, pathVars, Last, Length
  <2>2. Fits(trans', reach', fairsi', hulk', eg')
    BY <1>0, <2>1 DEF EgsInv, HulkInv
  <2> QED
    BY <1>0, <2>1, <2>2 DEF RoundInv, EuPcs
<1> SUFFICES ASSUME ~EgCall, ~EgRefuse, ~Closed1 PROVE RoundInv'
  BY <1>1, <1>2
<1>3. /\ pc \in EgPcs \ {"eg"}
      /\ UNCHANGED <<trans, reach, fair, fairsi, hulk, eg>>
  BY DEF EgSearch, StartRound, Meet, MetByStep, MetByState, Return, Close, Reopen, Reopened, EgPcs, fsmVars, egVars
<1>4. /\ Fits(trans, reach, fairsi, hulk, eg) /\ eg = StatesOf(hulk)
      /\ hulk \subseteq fairsi /\ todo \subseteq Justice
      /\ pc # "round" => starting \subseteq eg
  BY <1>0, <1>3 DEF RoundInv, InEg, Fits
<1>5. CASE StartRound
  BY <1>0, <1>3, <1>4, <1>5 DEF StartRound, RoundInv, pathVars, Last, Length, EuPcs, EgPcs
<1>6. ASSUME NEW p \in Justice, Meet(p) PROVE RoundInv'
  <2>1. /\ pc = "meet" /\ pc' = "eu" /\ then' = "met" /\ f' = eg /\ target' = hulk \cap p
        /\ todo' \subseteq Justice /\ starting' = starting /\ Last' = Last
    BY <1>4, <1>6 DEF Meet, pathVars, Last, Length
  <2> QED
    BY <1>0, <1>3, <1>4, <2>1 DEF RoundInv, EuPcs
<1>7. CASE MetByStep
  <2>1. pc = "met" /\ pc' = "meet" /\ UNCHANGED <<starting, todo>>
    BY <1>7 DEF MetByStep, egVars
  <2>2. Last' \subseteq eg
    <3>1. PICK s, k : /\ s \in Pick(ForwardBy(Last, k) \cap StatesOf(hulk))
                      /\ states' = Append(states, s)
      BY <1>7 DEF MetByStep
    <3>2. s \subseteq eg
      BY <1>4, <3>1 DEF Pick
    <3>3. states'[Length'] = s
      <4>1. Sets(states, inputs)
        BY <1>0, <2>1 DEF PathInv, Steady, EgPcs, Prefix
      <4>2. s \in SUBSET State /\ states \in Seq(SUBSET State)
        BY <1>4, <3>2, <4>1, SetsLength DEF StatesOf
      <4> QED
        BY <3>1, <4>2 DEF Length
    <3> QED
      BY <3>2, <3>3 DEF Last
  <2> QED
    BY <1>3, <1>4, <2>1, <2>2 DEF RoundInv, EuPcs
<1>8. CASE MetByState
  <2>1. pc = "met" /\ pc' = "meet" /\ UNCHANGED <<starting, todo>> /\ Last' = Last /\ ok
    BY <1>8 DEF MetByState, egVars, pathVars, Last, Length
  <2>2. Last \subseteq eg
    BY <1>0, <1>4, <2>1 DEF HulkInv, StatesOf
  <2> QED
    BY <1>3, <1>4, <2>1, <2>2 DEF RoundInv, EuPcs
<1>9. CASE Return
  <2>1. /\ pc = "meet" /\ pc' = "eu" /\ then' = "returned" /\ f' = eg /\ g' = eg \cap Ex(starting)
        /\ UNCHANGED <<starting, todo>> /\ Last' = Last /\ mark' = Length /\ Length' = Length
    BY <1>9 DEF Return, egVars, pathVars, Last, Length
  <2>2. Ex(starting)' = Ex(starting)
    BY <1>3, <2>1 DEF Ex
  <2> QED
    BY <1>0, <1>3, <1>4, <2>1, <2>2 DEF RoundInv, EuPcs
<1>10. CASE Close
  <2>1. /\ pc = "returned" /\ ok /\ pc' = "ex" /\ then' = "closed"
        /\ UNCHANGED <<starting, todo>> /\ Last' = Last
    BY <1>10 DEF Close, egVars, pathVars, Last, Length
  <2>2. Ex(starting)' = Ex(starting)
    BY <1>3, <2>1 DEF Ex
  <2> QED
    BY <1>0, <1>3, <1>4, <2>1, <2>2 DEF RoundInv, EuPcs
<1>11. CASE Reopen
  <2>1. /\ pc = "returned" /\ ~ok /\ pc' = "ex" /\ then' = "reopened" /\ g' = eg
        /\ UNCHANGED <<starting, todo>> /\ Cut(mark)
    BY <1>0, <1>11 DEF Reopen, egVars, RoundInv
  <2>2. Ex(starting)' = Ex(starting)
    BY <1>3, <2>1 DEF Ex
  <2>3. Last' = states[mark]
    <3>1. /\ mark \in 1..Length /\ mark \in Nat
          /\ Prefix(trans, given, states, inputs, Length)
      BY <1>0, <2>1 DEF PathInv, Searching, Steady, EgPcs
    <3>2. Length' = mark /\ Same(states, states', mark)
      BY <2>1, <3>1, Cuts DEF Length
    <3> QED
      BY <3>1, <3>2 DEF Same, Last
  <2> QED
    BY <1>0, <1>3, <1>4, <2>1, <2>2, <2>3 DEF RoundInv, EuPcs
<1>12. CASE Reopened
  <2>1. pc = "reopened" /\ pc' = "round" /\ todo' = todo /\ Last' = Last
    BY <1>12 DEF Reopened, egVars, pathVars, Last, Length
  <2>2. Last \subseteq eg
    BY <1>0, <2>1 DEF RoundInv, Shut
  <2> QED
    BY <1>3, <1>4, <2>1, <2>2 DEF RoundInv, EuPcs
<1> QED
  BY <1>5, <1>6, <1>7, <1>8, <1>9, <1>10, <1>11, <1>12 DEF EgSearch

LEMMA RoundNext == SearchInv /\ [Next]_vars => RoundInv'
<1> SUFFICES ASSUME SearchInv, [Next]_vars PROVE RoundInv'
  OBVIOUS
<1>0. ThenInv /\ NodeInv /\ PathInv /\ RoundInv /\ todo \subseteq Justice
  BY DEF SearchInv, Inv, RoundInv
<1>1. ASSUME BoundedSearch PROVE RoundInv'
  <2>1. /\ pc' \in EbuPcs \cup EbgPcs \cup {"based"} \/ (pc' = "eu" /\ then' = "ebu_found")
        /\ todo' = todo
    BY <1>1 DEF BoundedSearch, EbuAdvance, EbuStuck, EbuSearch, EbuFound, EbuLate, EbuBack, EbgAdvance,
       EbgStuck, EbgSearch, EbgHold, EbgLost, EbgFound, EbgBack, BoundedDone, BoundedFail, Ended,
       EbuPcs, EbgPcs, egVars
  <2> QED
    BY <1>0, <2>1, RoundElsewhere DEF EuPcs, EgPcs, EbuPcs, EbgPcs
<1>2. ASSUME ExplainRecur PROVE RoundInv'
  <2>1. CASE ExplainSearch
    <3>1. then' = "based" /\ pc' \in {"ex", "eu", "eg", "ebu", "ebg"} /\ todo' = todo
      BY <2>1 DEF ExplainSearch, Search, egVars
    <3> QED
      BY <1>0, <3>1, RoundElsewhere DEF EgPcs
  <2>2. CASE ~ExplainSearch
    <3>1. pc' \in {"recur", "return"} /\ todo' = todo
      BY <1>2, <2>2 DEF ExplainRecur, ExplainNot, ExplainRewritten, ExplainAtom, Ended, ExplainOr,
         ExplainAndRefuse, ExplainAnd, Continue, EndBase, Keep, OrFound, OrRight, AndRight, AndJoin,
         Returns, egVars
    <3> QED
      BY <1>0, <3>1, RoundElsewhere DEF EuPcs, EgPcs
  <2> QED
    BY <2>1, <2>2
<1>3. ASSUME Answer \/ Taken \/ Restart PROVE RoundInv'
  BY <1>0, <1>3, RoundElsewhere DEF Answer, Taken, Restart, EuPcs, EgPcs, egVars
<1>4. ASSUME NEW by \in DOMAIN Nodes, NEW n \in Nodes[by], NEW s \in Subjects(by, n), Request(by, n, s)
      PROVE  RoundInv'
  BY <1>0, <1>4, RoundElsewhere DEF Request, EuPcs, EgPcs, egVars
<1>5. ASSUME UNCHANGED vars PROVE RoundInv'
  <2>1. UNCHANGED <<trans, fair, reach, fairsi, hulk, pc, then, ok, states, mark, f, g, target, eg, starting, todo>>
    BY <1>5 DEF vars, fsmVars, callVars, pathVars, euVars, egVars
  <2>2. UNCHANGED <<Last, Length, InEg, Ex(starting)>>
    BY <2>1 DEF Last, Length, InEg, Ex
  <2>3. /\ Shut(trans, eg, Ex(starting), states[mark])' = Shut(trans, eg, Ex(starting), states[mark])
        /\ Shut(trans, eg, Ex(starting), Last)' = Shut(trans, eg, Ex(starting), Last)
        /\ Shut(trans, eg, starting, Last)' = Shut(trans, eg, starting, Last)
    BY <2>1, <2>2 DEF Shut
  <2> QED
    BY <1>0, <2>1, <2>2, <2>3 DEF RoundInv
<1>6. ASSUME ExSearch \/ EuSearch \/ EgSearch PROVE RoundInv'
  BY <1>6, ExRound, EuRound, EgRound
<1> QED
  BY <1>1, <1>2, <1>3, <1>4, <1>5, <1>6, StepCases

LEMMA SearchInit == Init => SearchInv
<1> SUFFICES ASSUME Init PROVE SearchInv
  OBVIOUS
<1>1. pc = "idle" /\ todo = {}
  BY DEF Init
<1>2. SeenInv /\ RoundInv
  BY <1>1 DEF SeenInv, RoundInv, InEg, EuPcs, EgPcs
<1>3. EgsInv
  <2>1. /\ fair = StatesOf(fairsi) /\ fairsi = FairStatesInputs(trans, reach)
        /\ egs = EgsOf(trans, reach, fairsi, sat) /\ reach = Reach(trans)
    BY DEF Init
  <2>2. reach \in SUBSET State
    BY <2>1 DEF Reach
  <2> SUFFICES ASSUME NEW S \in DOMAIN egs PROVE Fits(trans, reach, fairsi, egs[S].si, egs[S].states)
    BY <2>1 DEF EgsInv
  <2>3. egs[S] = [si |-> EgSi(trans, reach, S \X Input), states |-> Eg(trans, reach, fairsi, S)]
    BY <2>1 DEF EgsOf
  <2> QED
    BY <2>1, <2>2, <2>3, EgFits
<1> QED
  BY <1>2, <1>3, InvInit DEF SearchInv

LEMMA SearchNext == StrictBounds /\ SearchInv /\ [Next]_vars => SearchInv'
  BY InvNext, EgsNext, SeenNext, RoundNext DEF SearchInv

\* From a state of eg_g every constraint is met in turn without leaving eg_g
\* (mcExplain.c:511-512, 1365-1387), and where the loop cannot be closed a step
\* inside eg_g is found: internal_error is never called (mcExplain.c:536-546),
\* whatever the relation, the constraints and the formulas are.
THEOREM LoopCorrect ==
    ASSUME StrictBounds
    PROVE  Spec => []LoopIsFound
<1>1. SearchInv /\ [Next]_vars => SearchInv'
  BY SearchNext
<1>2. SearchInv => LoopIsFound
  BY DEF SearchInv, RoundInv, LoopIsFound
<1> QED
  BY <1>1, <1>2, SearchInit, PTL DEF Spec

\* No path inside E leads from S to X.
LEMMA ShutOff ==
    ASSUME NEW t, NEW E \in SUBSET Invar, NEW X, NEW S \in SUBSET State, Shut(t, E, X, S),
           NEW s \in S, NEW n \in Nat, NEW w \in Paths(t, s, n), Holding(E, w, 1, Len(w))
    PROVE  w[Len(w)] \notin X
<1>1. PICK C \in SUBSET E : S \subseteq C /\ C \cap X = {} /\ ForwardImage(t, C) \cap E \subseteq C
  BY DEF Shut
<1>2. w \in PathsOf(t, s, n)
  BY PathsAre
<1>3. /\ Len(w) \in Nat /\ Len(w) >= 1 /\ w[1] = s
      /\ \A k \in 1..(Len(w) - 1) : w[k + 1] \in Successors(t, w[k])
  BY <1>2 DEF PathsOf
<1> DEFINE N == {k \in Nat : k + 1 \in 1..Len(w) => w[k + 1] \in C}
<1>4. \A k \in Nat : (\A m \in Nat : m < k => m \in N) => k \in N
  <2> SUFFICES ASSUME NEW k \in Nat, \A m \in Nat : m < k => m \in N, k + 1 \in 1..Len(w)
               PROVE  w[k + 1] \in C
    OBVIOUS
  <2>1. CASE k = 0
    BY <1>1, <1>3, <2>1
  <2>2. CASE k # 0
    <3>1. k \in 1..(Len(w) - 1) /\ k - 1 \in Nat /\ k - 1 < k /\ (k - 1) + 1 = k /\ k \in 1..Len(w)
      BY <1>3, <2>2
    <3>2. w[k] \in C
      BY <3>1
    <3>3. w[k + 1] \in Successors(t, w[k]) /\ w[k + 1] \in E
      BY <1>3, <3>1 DEF Holding
    <3>4. w[k + 1] \in ForwardImage(t, C)
      BY <1>1, <3>2, <3>3 DEF Successors, ForwardImage
    <3> QED
      BY <1>1, <3>3, <3>4
  <2> QED
    BY <2>1, <2>2
<1>5. N \in SUBSET Nat
  OBVIOUS
<1> HIDE DEF N
<1>6. N = Nat
  BY <1>4, <1>5, Induction
<1>7. Len(w) - 1 \in N /\ (Len(w) - 1) + 1 = Len(w) /\ Len(w) \in 1..Len(w)
  BY <1>3, <1>6
<1>8. w[Len(w)] \in C
  BY <1>7 DEF N
<1> QED
  BY <1>1, <1>8

LEMMA GivesUp == SearchInv => GivesUpForGood
<1> SUFFICES ASSUME SearchInv, pc = "reopened" PROVE GivesUpForGood
  BY DEF GivesUpForGood
<1>1. PathInv /\ RoundInv
  BY DEF SearchInv, Inv
<1>2. Shut(trans, eg, starting, Last) /\ Last \subseteq State
  BY <1>1, LastIs DEF RoundInv, Steady, EgPcs
<1>3. eg \subseteq Invar
  <2>1. hulk \in SUBSET StateInput /\ GoesOn(trans, hulk) /\ eg = StatesOf(hulk)
    BY RoundIs DEF InEg, EgPcs
  <2> SUFFICES ASSUME NEW s \in eg PROVE s \in Invar
    OBVIOUS
  <2>2. PICK k \in Input : <<s, k>> \in hulk
    BY <2>1 DEF StatesOf
  <2> QED
    BY <2>1, <2>2 DEF GoesOn, Allowed
<1>4. Cardinality(State) \in Nat
  BY FsmAssumption, FS_CardinalityType
<1>5. ASSUME NEW s \in Last, NEW w \in Paths(trans, s, Cardinality(State)), Holding(eg, w, 1, Len(w))
      PROVE  w[Len(w)] \notin starting
  BY <1>2, <1>3, <1>4, <1>5, ShutOff
<1> QED
  BY <1>5 DEF GivesUpForGood

\* A loop is given up only when there is none: where the search for one goes on,
\* no path inside eg_g leads back to the state the last round started from
\* (mcExplain.c:506-548), so that the same loop is never looked for twice.
THEOREM GiveUpCorrect ==
    ASSUME StrictBounds
    PROVE  Spec => []GivesUpForGood
<1>1. SearchInv /\ [Next]_vars => SearchInv'
  BY SearchNext
<1> QED
  BY <1>1, GivesUp, SearchInit, PTL DEF Spec

-----------------------------------------------------------------------------
(* The search of eu_explain is a shortest one.                             *)

\* No path of at most n steps from S through F ends in A.
NoneWithin(t, F, A, S, n) ==
    \A s \in S : \A w \in Paths(t, s, n) : Holding(F, w, 1, Len(w) - 1) => w[Len(w)] \notin A

\* Those that stay in F end in what has been seen.
SeenWithin(t, F, all, S, n) ==
    \A s \in S : \A w \in Paths(t, s, n) : Holding(F, w, 1, Len(w)) => w[Len(w)] \in all

ShortInv ==
    /\ reach \subseteq Invar
    /\ Running => given \in Invar
    /\ pc = "eu_loop" =>
         /\ states[base] \subseteq Invar
         /\ NoneWithin(trans, f, Accepting, states[base], Length - base)
         /\ SeenWithin(trans, f, Z, states[base], Length - base)
    /\ pc = "eu_back" => NoneWithin(trans, f, Accepting, states[base], Length - base - 1)

\* The last set of a path is legal.
LEMMA LastLegal ==
    ASSUME ThenInv, PathInv, given \in Invar, pc = "eu"
    PROVE  Last \subseteq Invar
<1>1. \E n \in 1..Length : /\ Prefix(trans, given, states, inputs, n)
                           /\ Chain(trans, states, inputs, n, Length, f, f, n)
  <2>1. CASE then = "ebu_found"
    BY <2>1 DEF PathInv, InEbu, EuPcs, Searching
  <2>2. CASE then # "ebu_found"
    <3>1. Prefix(trans, given, states, inputs, Length)
      BY <2>2 DEF PathInv, Steady
    <3>2. Length \in 1..Length
      BY <3>1 DEF Prefix, Length
    <3>3. Chain(trans, states, inputs, Length, Length, f, f, Length)
      BY <3>1, SetsLength DEF Chain, Prefix, Length
    <3> QED
      BY <3>1, <3>2, <3>3
  <2> QED
    BY <2>1, <2>2
<1>2. PICK n \in 1..Length : /\ Prefix(trans, given, states, inputs, n)
                             /\ Chain(trans, states, inputs, n, Length, f, f, n)
  BY <1>1
<1>3. Length \in Nat /\ n \in Nat /\ n >= 1 /\ n <= Length
  BY <1>2, SetsLength DEF Prefix, Length
<1>4. CASE Length = 1
  BY <1>2, <1>3, <1>4 DEF Prefix, Last
<1>5. CASE n = Length /\ Length # 1
  <2>1. n - 1 \in 1..(n - 1) /\ (n - 1) + 1 = Length
    BY <1>3, <1>5
  <2>2. Joined(trans, states[n - 1], inputs[n - 1], states[Length])
    BY <1>2, <2>1 DEF Prefix
  <2> QED
    BY <2>2 DEF Joined, Allowed, Last
<1>6. CASE n # Length
  <2> DEFINE m == Length - 1
  <2>1. m \in n..(Length - 1) /\ m + 1 = Length
    BY <1>3, <1>6
  <2>2. \E X : Linked(trans, X, inputs[m], states[Length])
    BY <1>2, <2>1 DEF Chain
  <2> QED
    BY <2>2 DEF Linked, Allowed, Last
<1> QED
  BY <1>4, <1>5, <1>6

\* A path of no step, and those of one step more.
LEMMA ShortStart ==
    ASSUME NEW t, NEW F, NEW A, NEW S \in SUBSET State, S \cap A = {}
    PROVE  NoneWithin(t, F, A, S, 0) /\ SeenWithin(t, F, S \cap F, S, 0)
<1>1. ASSUME NEW s \in S, NEW w \in Paths(t, s, 0)
      PROVE  w = <<s>> /\ Len(w) = 1 /\ w[Len(w)] = s
  BY PathsAre, PathsStart
<1>2. ASSUME NEW s \in S, NEW w \in Paths(t, s, 0), Holding(F, w, 1, Len(w))
      PROVE  w[Len(w)] \in S \cap F
  BY <1>1, <1>2 DEF Holding
<1> QED
  BY <1>1, <1>2 DEF NoneWithin, SeenWithin

LEMMA ShortMore ==
    ASSUME NEW t, NEW F, NEW A, NEW all, NEW last, Seen(t, F, A, all, last),
           NEW S \in SUBSET Invar, NEW n \in Nat,
           NoneWithin(t, F, A, S, n), SeenWithin(t, F, all, S, n),
           ForwardImage(t, last) \cap A = {}
    PROVE  /\ NoneWithin(t, F, A, S, n + 1)
           /\ SeenWithin(t, F, all \cup (ForwardImage(t, last) \cap F), S, n + 1)
<1>1. ForwardImage(t, all) = ForwardImage(t, all \ last) \cup ForwardImage(t, last)
  BY DEF ForwardImage, Seen
<1>2. /\ ForwardImage(t, all) \cap A = {}
      /\ ForwardImage(t, all) \cap F \subseteq all \cup (ForwardImage(t, last) \cap F)
  BY <1>1 DEF Seen
\* The last step of a longer path starts from what has been seen.
<1>3. ASSUME NEW s \in S, NEW w \in Paths(t, s, n + 1), w \notin Paths(t, s, n),
             Holding(F, w, 1, Len(w) - 1)
      PROVE  Len(w) \in 1..Len(w) /\ w[Len(w)] \in ForwardImage(t, all)
  <2>1. s \in State /\ n + 1 \in Nat
    BY FsmAssumption
  <2>2. w \in PathsOf(t, s, n + 1) /\ w \notin PathsOf(t, s, n)
    BY <1>3, <2>1, PathsAre
  <2>3. PICK v \in PathsOf(t, s, n) : w \in Extended(t, v)
    BY <2>1, <2>2, PathsLonger
  <2>4. PICK q \in Successors(t, v[Len(v)]) : w = Append(v, q)
    BY <2>3 DEF Extended
  <2>5. /\ v \in Seq(State) /\ Len(v) \in Nat /\ Len(v) >= 1 /\ v[1] = s
        /\ \A k \in 1..(Len(v) - 1) : v[k + 1] \in Successors(t, v[k])
    BY <2>3 DEF PathsOf
  <2>6. q \in State
    BY <2>4, SuccessorsIn
  <2>7. /\ Len(w) = Len(v) + 1 /\ w[Len(w)] = q
        /\ \A k \in 1..Len(v) : w[k] = v[k]
    BY <2>4, <2>5, <2>6
  <2>8. Holding(F, v, 1, Len(v))
    BY <1>3, <2>5, <2>7 DEF Holding
  <2>9. v[Len(v)] \in all
    BY <2>1, <2>3, <2>8, PathsAre DEF SeenWithin
  <2>10. v[Len(v)] \in Invar
    <3>1. CASE Len(v) = 1
      BY <2>5, <3>1
    <3>2. CASE Len(v) # 1
      <4>1. \A l \in Nat : l >= 1 /\ l # 1 => l - 1 \in 1..(l - 1) /\ (l - 1) + 1 = l
        OBVIOUS
      <4>2. Len(v) - 1 \in 1..(Len(v) - 1) /\ (Len(v) - 1) + 1 = Len(v)
        BY <2>5, <3>2, <4>1
      <4> QED
        BY <2>5, <4>2, SuccessorsIn
    <3> QED
      BY <3>1, <3>2
  <2>11. q \in ForwardImage(t, all)
    BY <2>4, <2>9, <2>10 DEF Successors, ForwardImage
  <2> QED
    BY <2>5, <2>7, <2>11
<1>4. ASSUME NEW s \in S, NEW w \in Paths(t, s, n + 1), Holding(F, w, 1, Len(w) - 1)
      PROVE  w[Len(w)] \notin A
  BY <1>2, <1>3, <1>4 DEF NoneWithin
<1>5. ASSUME NEW s \in S, NEW w \in Paths(t, s, n + 1), Holding(F, w, 1, Len(w))
      PROVE  w[Len(w)] \in all \cup (ForwardImage(t, last) \cap F)
  <2>1. CASE w \in Paths(t, s, n)
    BY <1>5, <2>1 DEF SeenWithin
  <2>2. CASE w \notin Paths(t, s, n)
    <3>1. w \in PathsOf(t, s, n + 1)
      BY FsmAssumption, PathsAre
    <3>2. Len(w) \in Nat /\ Len(w) >= 1
      BY <3>1 DEF PathsOf
    <3>3. Holding(F, w, 1, Len(w) - 1) /\ w[Len(w)] \in F
      BY <1>5, <3>2 DEF Holding
    <3> QED
      BY <1>2, <1>3, <2>2, <3>3
  <2> QED
    BY <2>1, <2>2
<1> QED
  BY <1>4, <1>5 DEF NoneWithin, SeenWithin

\* Where a search turns back, and turns further back.
LEMMA TurnsOnly ==
    ASSUME ThenInv, NodeInv, [Next]_vars, pc' = "eu_back"
    PROVE  EuFound \/ EuBack \/ UNCHANGED vars
<1>1. ASSUME ExSearch PROVE FALSE
  BY <1>1 DEF ExSearch, ExAbort, ExFail, ExExplain, Ended, ThenInv
<1>2. ASSUME EuSearch PROVE EuFound \/ EuBack
  BY <1>2 DEF EuSearch, EuAtOnce, EuRefuse, EuCall, EuIterate, EuFail, EuDone, Ended, ThenInv, EuPcs
<1>3. ASSUME EgSearch PROVE FALSE
  BY <1>3 DEF EgSearch, EgRefuse, EgCall, StartRound, Meet, MetByStep, MetByState, Return, Close,
              Closed1, Reopen, Reopened, Ended
<1>4. ASSUME BoundedSearch PROVE FALSE
  BY <1>4 DEF BoundedSearch, EbuAdvance, EbuStuck, EbuSearch, EbuFound, EbuLate, EbuBack, EbgAdvance,
              EbgStuck, EbgSearch, EbgHold, EbgLost, EbgFound, EbgBack, BoundedDone, BoundedFail, Ended
<1>5. ASSUME ExplainRecur PROVE FALSE
  <2>1. CASE ExplainSearch
    BY <2>1 DEF ExplainSearch, Search
  <2>2. CASE ~ExplainSearch
    BY <1>5, <2>2 DEF ExplainRecur, ExplainNot, ExplainRewritten, ExplainAtom, Ended, ExplainOr,
         ExplainAndRefuse, ExplainAnd, Continue, EndBase, Keep, OrFound, OrRight, AndRight, AndJoin, Returns
  <2> QED
    BY <2>1, <2>2
<1>6. ASSUME Answer \/ Taken \/ Restart PROVE FALSE
  BY <1>6 DEF Answer, Taken, Restart
<1>7. ASSUME NEW by \in DOMAIN Nodes, NEW n \in Nodes[by], NEW s \in Subjects(by, n), Request(by, n, s)
      PROVE  FALSE
  BY <1>7 DEF Request
<1> QED
  BY <1>1, <1>2, <1>3, <1>4, <1>5, <1>6, <1>7, StepCases

\* What a function is called for stays the same while it runs.
LEMMA SubjectKept ==
    ASSUME ThenInv, PathInv, [Next]_vars, Running'
    PROVE  \/ Running /\ UNCHANGED callVars
           \/ \E by \in DOMAIN Nodes : \E n \in Nodes[by] : \E s \in Subjects(by, n) : Request(by, n, s)
<1>1. ASSUME ExSearch \/ EuSearch \/ EgSearch \/ BoundedSearch
      PROVE  Running /\ UNCHANGED callVars
  <2>1. UNCHANGED callVars
    BY <1>1 DEF ExSearch, ExAbort, ExFail, ExExplain, EuSearch, EuAtOnce, EuRefuse, EuCall, EuFound,
                EuIterate, EuFail, EuBack, EuDone, EgSearch, EgRefuse, EgCall, StartRound, Meet, MetByStep,
                MetByState, Return, Close, Closed1, Reopen, Reopened, BoundedSearch, EbuAdvance, EbuStuck,
                EbuSearch, EbuFound, EbuLate, EbuBack, EbgAdvance, EbgStuck, EbgSearch, EbgHold, EbgLost,
                EbgFound, EbgBack, BoundedDone, BoundedFail
  <2> QED
    BY <1>1, <2>1, SearchSteps DEF Running
<1>2. ASSUME ExplainRecur PROVE Running /\ UNCHANGED callVars
  BY <1>2 DEF ExplainRecur, ExplainNot, ExplainRewritten, ExplainAtom, ExplainOr, ExplainAndRefuse,
              ExplainAnd, ExplainSearch, Continue, EndBase, Keep, OrFound, OrRight, AndRight, AndJoin,
              Returns, Running, Searching
<1>3. ASSUME Answer \/ Taken \/ Restart PROVE FALSE
  BY <1>3 DEF Answer, Taken, Restart, Running, Searching, EuPcs, EgPcs, EbuPcs, EbgPcs
<1>4. ASSUME UNCHANGED vars PROVE Running /\ UNCHANGED callVars
  BY <1>4 DEF vars, callVars, Running, Searching
<1> QED
  BY <1>1, <1>2, <1>3, <1>4, StepCases

LEMMA ShortNext == StrictBounds /\ SearchInv /\ ShortInv /\ [Next]_vars => ShortInv'
<1> SUFFICES ASSUME SearchInv, ShortInv, [Next]_vars PROVE ShortInv'
  OBVIOUS
<1>0. ThenInv /\ NodeInv /\ PathInv /\ SeenInv
  BY DEF SearchInv, Inv
<1>1. reach' \subseteq Invar /\ (Running' => given' \in Invar)
  <2>1. reach \subseteq Invar /\ (Running => given \in Invar) /\ Start \subseteq Invar
    BY DEF ShortInv, Start
  <2>2. \A by, n : Subjects(by, n) \subseteq Invar
    BY <2>1 DEF Subjects
  <2>3. \A by, n, s : Request(by, n, s) => given' = s
    BY DEF Request
  <2>4. reach' = reach
    BY FsmKept DEF fsmVars
  <2>5. ASSUME Running' PROVE given' \in Invar
    BY <1>0, <2>1, <2>2, <2>3, <2>5, SubjectKept DEF callVars
  <2> QED
    BY <2>1, <2>4, <2>5
<1>2. ASSUME pc' = "eu_loop"
      PROVE  /\ states'[base'] \subseteq Invar
             /\ NoneWithin(trans', f', Accepting', states'[base'], Length' - base')
             /\ SeenWithin(trans', f', Z', states'[base'], Length' - base')
  <2>1. CASE EuCall
    <3>1. /\ pc = "eu" /\ Z' = Last \cap f /\ base' = Length
          /\ UNCHANGED <<trans, fair, f, g, states>>
          /\ Last \cap Accepting = {}
      BY <2>1 DEF EuCall, fsmVars, pathVars
    <3>2. Last \subseteq Invar
      <4>1. given \in Invar
        BY <3>1 DEF ShortInv, Running, Searching, EuPcs
      <4> QED
        BY <1>0, <3>1, <4>1, LastLegal
    <3>3. Last \in SUBSET State
      BY <3>2, FsmAssumption
    <3>4. NoneWithin(trans, f, Accepting, Last, 0) /\ SeenWithin(trans, f, Last \cap f, Last, 0)
      BY <3>1, <3>3, ShortStart
    <3>5. /\ Accepting' = Accepting /\ states'[base'] = Last /\ Length' - base' = 0
      <4>1. mark \in 1..Length
        BY <1>0, <3>1 DEF PathInv, Searching, EuPcs
      <4>2. Length \in Nat
        <5>1. \E n : Prefix(trans, given, states, inputs, n)
          BY <1>0, <3>1 DEF PathInv, Steady, InEbu, EuPcs
        <5> QED
          BY <5>1, SetsLength DEF Prefix, Length
      <4> QED
        BY <3>1, <4>2 DEF Accepting, Last, Length
    <3> QED
      BY <3>1, <3>2, <3>4, <3>5
  <2>2. CASE EuIterate
    <3>1. /\ pc = "eu_loop" /\ Z' = Z \cup (Image \cap f)
          /\ UNCHANGED <<trans, fair, f, g, base>>
          /\ Image \cap Accepting = {}
      BY <2>2 DEF EuIterate, fsmVars
    <3>2. /\ states[base] \in SUBSET Invar /\ Seen(trans, f, Accepting, Z, new)
          /\ NoneWithin(trans, f, Accepting, states[base], Length - base)
          /\ SeenWithin(trans, f, Z, states[base], Length - base)
      BY <1>0, <3>1 DEF ShortInv, SeenInv
    <3>3. base \in 1..Length /\ Length \in Nat
      BY <1>0, <3>1, EuLoopIs
    <3>4. states'[base] = states[base] /\ Length' = Length + 1
      BY <1>0, <2>2, <3>3, EuIteratePath DEF Grows, Length
    <3>5. Length - base \in Nat /\ Length' - base = (Length - base) + 1
      BY <3>3, <3>4
    <3>6. /\ NoneWithin(trans, f, Accepting, states[base], (Length - base) + 1)
          /\ SeenWithin(trans, f, Z \cup (Image \cap f), states[base], (Length - base) + 1)
      BY <3>1, <3>2, <3>5, ShortMore DEF Image
    <3>7. Accepting' = Accepting
      BY <3>1 DEF Accepting
    <3> QED
      BY <3>1, <3>2, <3>4, <3>5, <3>6, <3>7
  <2>3. CASE UNCHANGED vars
    BY <1>2, <2>3 DEF ShortInv, Accepting, Length, vars, fsmVars, pathVars, euVars
  <2> QED
    BY <1>0, <1>2, <2>1, <2>2, <2>3, LooksOn
<1>3. ASSUME pc' = "eu_back"
      PROVE  NoneWithin(trans', f', Accepting', states'[base'], Length' - base' - 1)
  <2>1. CASE EuFound
    <3>1. pc = "eu_loop" /\ UNCHANGED <<trans, fair, f, g, base>>
      BY <2>1 DEF EuFound, fsmVars
    <3>2. base \in 1..Length /\ Length \in Nat
      BY <1>0, <3>1, EuLoopIs
    <3>3. states'[base] = states[base] /\ Length' = Length + 1
      BY <1>0, <2>1, <3>2, EuFoundPath DEF Grows, Length
    <3>4. Length' - base - 1 = Length - base /\ Accepting' = Accepting
      BY <3>1, <3>2, <3>3 DEF Accepting
    <3> QED
      BY <3>1, <3>3, <3>4 DEF ShortInv
  <2>2. CASE EuBack
    <3>1. pc = "eu_back" /\ UNCHANGED <<trans, fair, f, g, base>>
      BY <2>2 DEF EuBack, fsmVars
    <3>2. base \in 1..Length
      BY <1>0, <3>1, EuLoopIs
    <3>3. states'[base] \subseteq states[base] /\ Length' = Length
      BY <1>0, <2>2, <3>2, EuBackPath DEF Alters, Length
    <3>4. NoneWithin(trans, f, Accepting, states[base], Length - base - 1) /\ Accepting' = Accepting
      BY <3>1 DEF ShortInv, Accepting
    <3> QED
      BY <3>1, <3>3, <3>4 DEF NoneWithin
  <2>3. CASE UNCHANGED vars
    BY <1>3, <2>3 DEF ShortInv, Accepting, Length, vars, fsmVars, pathVars, euVars
  <2> QED
    BY <1>0, <1>3, <2>1, <2>2, <2>3, TurnsOnly
<1> QED
  BY <1>1, <1>2, <1>3 DEF ShortInv

\* A search of eu_explain is a shortest one: from the state the path goes on
\* from, no shorter path through states of f ends in a fair state of g
\* (mcExplain.c:304-440), on which the bound of ebu_explain depends
\* (mcExplain.c:653-654).
THEOREM ShortestCorrect ==
    ASSUME StrictBounds
    PROVE  Spec => []SearchIsShortest
<1>1. Init => SearchInv /\ ShortInv
  <2> SUFFICES ASSUME Init PROVE ShortInv
    BY SearchInit
  <2>1. pc = "idle" /\ reach = Reach(trans)
    BY DEF Init
  <2> QED
    BY <2>1, ReachLegal DEF ShortInv, Running, Searching, EuPcs, EgPcs, EbuPcs, EbgPcs
<1>2. SearchInv /\ ShortInv /\ [Next]_vars => (SearchInv /\ ShortInv)'
  BY SearchNext, ShortNext
<1>3. ShortInv => SearchIsShortest
  BY DEF ShortInv, SearchIsShortest, NoneWithin, Accepting
<1> QED
  BY <1>1, <1>2, <1>3, PTL DEF Spec

-----------------------------------------------------------------------------
(* What eval_ctl_spec returns for a node, whatever the formulas.           *)

OperandOf(h, n) == IF n = None THEN {} ELSE h[n]

Rule(E, h, n) == E[n][OperandOf(h, Syntax[n].car)][OperandOf(h, Syntax[n].cdr)]

\* E gives a set for each node and each pair of sets.
IsRule(E) == \A n \in Node : \A a, b \in SUBSET State : E[n][a][b] \in SUBSET State

\* h follows the rule up to node k.
Obeys(E, k, h) ==
    /\ h \in [Node -> SUBSET State]
    /\ \A n \in Node : n <= k => h[n] = Rule(E, h, n)

LEMMA Operands ==
    ASSUME NEW n \in Node
    PROVE  /\ n \in Nat /\ n # 0
           /\ Syntax[n].car = None \/ (Syntax[n].car \in Node /\ Syntax[n].car < n)
           /\ Syntax[n].cdr = None \/ (Syntax[n].cdr \in Node /\ Syntax[n].cdr < n)
<1>1. /\ n \in Nat \ {None}
      /\ Syntax[n].car \in (Node \cup {None}) \cap 0..(n - 1)
      /\ Syntax[n].cdr \in (Node \cup {None}) \cap 0..(n - 1)
  BY ExplainAssumption
<1> QED
  BY <1>1 DEF None

\* The rule only looks at the operands.
LEMMA RuleSame ==
    ASSUME NEW E, NEW h, NEW h2, NEW n \in Node, \A m \in Node : m < n => h[m] = h2[m]
    PROVE  Rule(E, h, n) = Rule(E, h2, n)
BY Operands DEF Rule, OperandOf

LEMMA RuleIn ==
    ASSUME NEW E, IsRule(E), NEW h \in [Node -> SUBSET State], NEW n \in Node
    PROVE  Rule(E, h, n) \in SUBSET State
<1>1. OperandOf(h, Syntax[n].car) \in SUBSET State /\ OperandOf(h, Syntax[n].cdr) \in SUBSET State
  BY Operands DEF OperandOf
<1> QED
  BY <1>1 DEF Rule, IsRule

LEMMA RulesAgree ==
    ASSUME NEW E, NEW k \in Nat, NEW l \in Nat, k <= l, NEW h, NEW h2,
           Obeys(E, k, h), Obeys(E, l, h2), NEW n \in Node, n <= k
    PROVE  h[n] = h2[n]
<1> DEFINE S == {m \in Nat : m \in Node /\ m <= k => h[m] = h2[m]}
<1>1. ASSUME NEW m \in Nat, \A j \in Nat : j < m => j \in S PROVE m \in S
  <2> SUFFICES ASSUME m \in Node, m <= k PROVE h[m] = h2[m]
    OBVIOUS
  <2>1. \A j \in Node : j < m => h[j] = h2[j]
    BY <1>1, Operands
  <2>2. Rule(E, h, m) = Rule(E, h2, m)
    BY <2>1, RuleSame
  <2>3. m <= l
    OBVIOUS
  <2> QED
    BY <2>2, <2>3 DEF Obeys
<1>2. S \in SUBSET Nat
  OBVIOUS
<1> HIDE DEF S
<1>3. S = Nat
  BY <1>1, <1>2, Induction
<1>4. n \in S
  BY <1>3, Operands
<1> QED
  BY <1>4 DEF S

LEMMA RuleFollowed ==
    ASSUME NEW E, IsRule(E)
    PROVE  \A k \in Nat : \E h : Obeys(E, k, h)
<1> DEFINE S == {k \in Nat : \E h : Obeys(E, k, h)}
<1>1. ASSUME NEW k \in Nat, \A j \in Nat : j < k => j \in S PROVE k \in S
  <2>1. CASE k = 0
    <3> DEFINE h == [n \in Node |-> {}]
    <3>1. \A n \in Node : ~(n <= 0)
      BY Operands
    <3>2. Obeys(E, k, h)
      BY <2>1, <3>1 DEF Obeys
    <3> QED
      BY <3>2
  <2>2. CASE k # 0
    <3>1. k - 1 \in Nat /\ k - 1 < k
      BY <2>2
    <3>2. PICK h : Obeys(E, k - 1, h)
      BY <1>1, <3>1
    <3> DEFINE h2 == [n \in Node |-> IF n = k THEN Rule(E, h, n) ELSE h[n]]
    <3>3. h \in [Node -> SUBSET State]
      BY <3>2 DEF Obeys
    <3>4. h2 \in [Node -> SUBSET State]
      BY <3>3, RuleIn
    <3>5. ASSUME NEW n \in Node, n <= k PROVE h2[n] = Rule(E, h2, n)
      <4>1. \A m \in Node : m < n => h2[m] = h[m]
        BY <3>5, Operands
      <4>2. Rule(E, h2, n) = Rule(E, h, n)
        BY <4>1, RuleSame
      <4>3. n # k => n <= k - 1
        BY <3>5, Operands
      <4>4. n # k => h[n] = Rule(E, h, n)
        BY <3>2, <4>3 DEF Obeys
      <4> QED
        BY <4>2, <4>4
    <3> HIDE DEF h2
    <3>6. Obeys(E, k, h2)
      BY <3>4, <3>5 DEF Obeys
    <3> QED
      BY <3>6
  <2> QED
    BY <2>1, <2>2
<1>2. S \in SUBSET Nat
  OBVIOUS
<1> HIDE DEF S
<1>3. S = Nat
  BY <1>1, <1>2, Induction
<1> QED
  BY <1>3 DEF S

\* Some function follows the rule at every node.
ObeysAll(E, h) == h \in [Node -> SUBSET State] /\ h = [n \in Node |-> Rule(E, h, n)]

LEMMA RuleHolds ==
    ASSUME NEW E, IsRule(E)
    PROVE  \E h : ObeysAll(E, h)
<1> DEFINE to(k) == CHOOSE h : Obeys(E, k, h)
           all == [n \in Node |-> to(n)[n]]
<1>1. \A n \in Node : Obeys(E, n, to(n))
  BY RuleFollowed, Operands
<1> HIDE DEF to
<1>2. \A n \in Node : all[n] \in SUBSET State
  BY <1>1 DEF Obeys
<1>3. ASSUME NEW n \in Node PROVE all[n] = Rule(E, all, n)
  <2>1. \A m \in Node : m < n => to(m)[m] = to(n)[m]
    <3> SUFFICES ASSUME NEW m \in Node, m < n PROVE to(m)[m] = to(n)[m]
      OBVIOUS
    <3>1. m \in Nat /\ n \in Nat /\ m <= n /\ m <= m
      BY Operands
    <3> QED
      BY <1>1, <3>1, RulesAgree
  <2>2. \A m \in Node : m < n => all[m] = to(n)[m]
    BY <2>1
  <2>3. Rule(E, all, n) = Rule(E, to(n), n)
    BY <2>2, RuleSame
  <2>4. n <= n
    BY Operands
  <2>5. to(n)[n] = Rule(E, to(n), n)
    BY <1>1, <2>4 DEF Obeys
  <2> QED
    BY <2>3, <2>5
<1>4. all \in [Node -> SUBSET State] /\ all = [n \in Node |-> all[n]]
  BY <1>2
<1> HIDE DEF all
<1>5. all = [n \in Node |-> Rule(E, all, n)]
  BY <1>3, <1>4
<1>6. ObeysAll(E, all)
  BY <1>4, <1>5 DEF ObeysAll
<1> QED
  BY <1>6

\* What a node is worth, when its operands are.
Worth(t, R, F, n, a, b) ==
    CASE Op(n) = "ATOM" -> Syntax[n].set
      [] Op(n) = "NOT" -> State \ a
      [] Op(n) = "AND" -> a \cap b
      [] Op(n) = "OR" -> a \cup b
      [] OTHER -> {s \in R : Satisfies(t, Justice, F, Op(n), s, a, b,
                                      Syntax[n].inf, Syntax[n].sup)}

LEMMA SatUnfolds ==
    ASSUME NEW t, NEW R \in SUBSET State, NEW F, NEW n \in Node
    PROVE  LET sats == SatOf(t, R, F)
           IN sats[n] = Worth(t, R, F, n, OperandOf(sats, Syntax[n].car), OperandOf(sats, Syntax[n].cdr))
<1> DEFINE Value[m \in Node] ==
            LET a == IF Syntax[m].car = None THEN {} ELSE Value[Syntax[m].car]
                b == IF Syntax[m].cdr = None THEN {} ELSE Value[Syntax[m].cdr]
            IN CASE Op(m) = "ATOM" -> Syntax[m].set
                 [] Op(m) = "NOT" -> State \ a
                 [] Op(m) = "AND" -> a \cap b
                 [] Op(m) = "OR" -> a \cup b
                 [] OTHER -> {s \in R : Satisfies(t, Justice, F, Op(m), s, a, b,
                                                 Syntax[m].inf, Syntax[m].sup)}
           H(h) == h = [m \in Node |->
            LET a == IF Syntax[m].car = None THEN {} ELSE h[Syntax[m].car]
                b == IF Syntax[m].cdr = None THEN {} ELSE h[Syntax[m].cdr]
            IN CASE Op(m) = "ATOM" -> Syntax[m].set
                 [] Op(m) = "NOT" -> State \ a
                 [] Op(m) = "AND" -> a \cap b
                 [] Op(m) = "OR" -> a \cup b
                 [] OTHER -> {s \in R : Satisfies(t, Justice, F, Op(m), s, a, b,
                                                 Syntax[m].inf, Syntax[m].sup)}]
           E == [m \in Node |-> [a \in SUBSET State |-> [b \in SUBSET State |-> Worth(t, R, F, m, a, b)]]]
           V(h) == [m \in Node |-> Worth(t, R, F, m, OperandOf(h, Syntax[m].car), OperandOf(h, Syntax[m].cdr))]
<1>1. SatOf(t, R, F) = Value
  BY DEF SatOf
<1>2. Value = CHOOSE h : H(h)
  OBVIOUS
<1>3. \A h : H(h) <=> h = V(h)
  BY DEF Worth, OperandOf
<1> HIDE DEF Value, H
<1>4. \A m \in Node : \A a, b \in SUBSET State :
          E[m][a][b] = Worth(t, R, F, m, a, b) /\ Worth(t, R, F, m, a, b) \in SUBSET State
  <2>1. \A m \in Node : Syntax[m].set \in SUBSET State
    BY ExplainAssumption
  <2>2. \A m \in Node : \A a, b \in SUBSET State : Worth(t, R, F, m, a, b) \in SUBSET State
    BY <2>1 DEF Worth
  <2> QED
    BY <2>2
<1> HIDE DEF E
<1>a. IsRule(E)
  BY <1>4 DEF IsRule
<1>b. PICK h : ObeysAll(E, h)
  BY <1>a, RuleHolds
<1>5. h \in [Node -> SUBSET State] /\ h = [m \in Node |-> Rule(E, h, m)]
  BY <1>b DEF ObeysAll
<1>6. \A m \in Node : Rule(E, h, m) = Worth(t, R, F, m, OperandOf(h, Syntax[m].car), OperandOf(h, Syntax[m].cdr))
  <2>1. \A m \in Node : /\ OperandOf(h, Syntax[m].car) \in SUBSET State
                        /\ OperandOf(h, Syntax[m].cdr) \in SUBSET State
    BY <1>5, Operands DEF OperandOf
  <2> QED
    BY <1>4, <2>1 DEF Rule
<1>7. h = V(h)
  BY <1>5, <1>6
<1>8. H(Value)
  BY <1>2, <1>3, <1>7, Zenon
<1>9. Value = V(Value)
  BY <1>3, <1>8
<1> QED
  BY <1>1, <1>9

-----------------------------------------------------------------------------
(* Every search ends in a fair state.                                      *)

\* From a reachable state one only comes to a fair one from another.
BackFair(t, R, F) ==
    \A x \in R, y \in F, j \in InvarInput : Allowed(t, x, j, y) => x \in F

FairFsm ==
    /\ Start \subseteq reach /\ reach \in SUBSET Invar /\ ForwardImage(trans, reach) \subseteq reach
    /\ BackFair(trans, reach, fair)
    /\ \A n \in Node : Op(n) = "EX" => sat[n] \subseteq fair

LEMMA FairBackwards ==
    ASSUME NEW t, NEW R \in SUBSET Invar, ForwardImage(t, R) \subseteq R
    PROVE  BackFair(t, R, StatesOf(FairStatesInputs(t, R)))
<1>1. FairStatesInputs(t, R) = Within(R, FairPairs(t))
  <2>1. R \in SUBSET State
    BY FsmAssumption
  <2> QED
    BY <2>1, FairPairsComputed
<1> SUFFICES ASSUME NEW x \in R, NEW y \in StatesOf(FairStatesInputs(t, R)), NEW j \in InvarInput,
                    Allowed(t, x, j, y)
             PROVE  x \in StatesOf(FairStatesInputs(t, R))
  BY DEF BackFair
<1>2. PICK k \in Input : <<y, k>> \in FairPairs(t)
  BY <1>1 DEF StatesOf, Within
<1>3. <<x, j>> \in Legal /\ x \in State /\ j \in Input
  BY FsmAssumption DEF Legal
<1>4. Leads(t, <<x, j>>, <<y, k>>)
  BY DEF Leads, Allowed
<1>5. <<x, j>> \in FairPairs(t)
  BY <1>2, <1>3, <1>4, FairAreRounds, RoundBack
<1>6. <<x, j>> \in FairStatesInputs(t, R)
  BY <1>1, <1>3, <1>5 DEF Within
<1> QED
  BY <1>3, <1>6 DEF StatesOf

LEMMA FairFsmInit == Init => FairFsm
<1> SUFFICES ASSUME Init PROVE FairFsm
  OBVIOUS
<1>1. /\ reach = Reach(trans) /\ fair = StatesOf(FairStatesInputs(trans, reach))
      /\ sat = SatOf(trans, reach, fair)
  BY DEF Init
<1>2. /\ Start \subseteq reach /\ reach \in SUBSET Invar /\ ForwardImage(trans, reach) \subseteq reach
      /\ reach \in SUBSET State
  BY <1>1, ReachClosed, ReachLegal
<1>3. BackFair(trans, reach, fair)
  BY <1>1, <1>2, FairBackwards
<1>4. ASSUME NEW n \in Node, Op(n) = "EX", NEW s \in sat[n] PROVE s \in fair
  <2>1. PICK a, b : sat[n] = Worth(trans, reach, fair, n, a, b)
    BY <1>1, <1>2, SatUnfolds
  <2>2. sat[n] = {x \in reach : Satisfies(trans, Justice, fair, "EX", x, a, b, Syntax[n].inf, Syntax[n].sup)}
    BY <1>4, <2>1 DEF Worth
  <2>3. s \in reach /\ Successors(trans, s) \cap fair \cap a # {}
    BY <2>2 DEF Satisfies
  <2>4. PICK y \in fair : y \in Successors(trans, s)
    BY <2>3
  <2>5. \E j \in InvarInput : Allowed(trans, s, j, y)
    BY <1>2, <2>3, <2>4 DEF Successors, Allowed
  <2> QED
    BY <1>3, <2>3, <2>4, <2>5 DEF BackFair
<1> QED
  BY <1>2, <1>3, <1>4 DEF FairFsm

\* The set at n is fair, unless it is the state the function was called for.
Kept(F, ss, n) == n = 1 \/ ss[n] \subseteq F

\* What leads to a fair state is fair.
LEMMA KeptBelow ==
    ASSUME FairFsm, NEW s0 \in reach, NEW ss, NEW is, NEW n, Prefix(trans, s0, ss, is, n),
           Kept(fair, ss, n), NEW m \in 1..n
    PROVE  Kept(fair, ss, m)
<1>1. n \in Nat /\ n >= 1
  BY SetsLength DEF Prefix
<1>2. \A k \in 1..(n - 1) : Joined(trans, ss[k], is[k], ss[k + 1])
  BY DEF Prefix
<1>3. CASE n = 1
  BY <1>1, <1>3 DEF Kept
<1>4. CASE n # 1
  <2> DEFINE S == {k \in Nat : k + 1 \in 1..n => ss[k + 1] \subseteq reach}
             T == {k \in Nat : ss[k] \subseteq fair}
  <2>1. ASSUME NEW k \in Nat, \A j \in Nat : j < k => j \in S PROVE k \in S
    <3> SUFFICES ASSUME k + 1 \in 1..n PROVE ss[k + 1] \subseteq reach
      OBVIOUS
    <3>1. CASE k = 0
      BY <3>1 DEF Prefix
    <3>2. CASE k # 0
      <4>1. k - 1 \in Nat /\ k - 1 < k /\ (k - 1) + 1 = k /\ k \in 1..(n - 1) /\ k \in 1..n
        BY <1>1, <3>2
      <4>2. ss[k] \subseteq reach
        BY <2>1, <4>1
      <4>3. Joined(trans, ss[k], is[k], ss[k + 1])
        BY <1>2, <4>1
      <4> QED
        BY <4>2, <4>3 DEF Joined, Allowed, FairFsm, ForwardImage
    <3> QED
      BY <3>1, <3>2
  <2>2. S \in SUBSET Nat
    OBVIOUS
  <2> HIDE DEF S
  <2>3. S = Nat
    BY <2>1, <2>2, Induction
  <2>4. \A k \in 1..n : ss[k] \subseteq reach
    <3> SUFFICES ASSUME NEW k \in 1..n PROVE ss[k] \subseteq reach
      OBVIOUS
    <3>1. k - 1 \in S /\ (k - 1) + 1 = k
      BY <2>3
    <3> QED
      BY <3>1 DEF S
  <2>5. n \in T
    BY <1>1, <1>4 DEF Kept
  <2>6. \A k \in 1..(n - 1) : k + 1 \in T => k \in T
    <3> SUFFICES ASSUME NEW k \in 1..(n - 1), ss[k + 1] \subseteq fair PROVE ss[k] \subseteq fair
      OBVIOUS
    <3>1. Joined(trans, ss[k], is[k], ss[k + 1]) /\ k \in 1..n
      BY <1>1, <1>2
    <3>2. ss[k] \subseteq reach
      BY <2>4, <3>1
    <3> QED
      BY <3>1, <3>2 DEF Joined, Allowed, FairFsm, BackFair
  <2> HIDE DEF T
  <2>7. 1..n \subseteq T
    BY <1>1, <2>5, <2>6, Backwards
  <2> QED
    BY <2>7 DEF T, Kept
<1> QED
  BY <1>3, <1>4

\* What a function is called for, and on which states.
SubjectInv ==
    Running => /\ given \in reach
               /\ \/ given \in fair
                  \/ caller = "explain"
                  \/ caller = "explainXX" /\ Op(asked) # "EX"

\* The path ends in a fair state, and began in one before the search that runs.
KeptInv ==
    /\ Steady => Kept(fair, states, Length)
    /\ InEbu \/ pc \in EbgPcs => Kept(fair, states, mark)
    /\ pc \in {"eu_loop", "eu_back"} => Kept(fair, states, Root)
    /\ pc \in {"eu_back", "ebu_back", "ebg_back"} \/ (pc = "ebu_found" /\ ok) => Last \subseteq fair

\* So do the paths put aside.
SavedFair(F, st) == \A m \in 1..Len(st) :
    st[m].kind = "right" => Kept(F, st[m].states, Len(st[m].states))

FairInv == /\ FairFsm /\ SubjectInv /\ KeptInv /\ SavedFair(fair, stack)
           /\ AbortsOnUnfairSubject

LEMMA FairFsmNext == FairFsm /\ [Next]_vars => FairFsm'
  BY FsmKept DEF FairFsm, fsmVars

LEMMA SubjectNext == SearchInv /\ FairFsm /\ SubjectInv /\ [Next]_vars => SubjectInv'
<1> SUFFICES ASSUME SearchInv, FairFsm, SubjectInv, [Next]_vars, Running' PROVE SubjectInv'
  BY DEF SubjectInv
<1>1. UNCHANGED <<reach, fair, sat>>
  BY FsmKept DEF fsmVars
<1>2. CASE Running /\ UNCHANGED callVars
  BY <1>1, <1>2 DEF SubjectInv, callVars
<1>3. ASSUME NEW by \in DOMAIN Nodes, NEW n \in Nodes[by], NEW s \in Subjects(by, n), Request(by, n, s)
      PROVE  SubjectInv'
  <2>1. caller' = by /\ asked' = n /\ given' = s
    BY <1>3 DEF Request
  <2>2. n \in Node /\ by \in {"explain", "check", "explainXX"}
    BY ExplainAssumption DEF Nodes
  <2>3. CASE by = "check"
    BY <1>1, <2>1, <2>3 DEF Subjects, SubjectInv, FairFsm
  <2>4. CASE by # "check"
    BY <1>1, <2>1, <2>2, <2>4 DEF Subjects, SubjectInv, FairFsm
  <2> QED
    BY <2>3, <2>4
<1>4. ThenInv /\ PathInv
  BY DEF SearchInv, Inv
<1> QED
  BY <1>2, <1>3, <1>4, SubjectKept

\* Where the path is a whole, and where it may not be.
LEMMA KeptSteady ==
    ASSUME pc' \notin EbuPcs \cup EbgPcs \cup {"eu_loop", "eu_back"}, pc' = "eu" => then' # "ebu_found",
           Steady' => Kept(fair', states', Length')
    PROVE  KeptInv'
  BY DEF KeptInv, InEbu, EuPcs, EbuPcs, EbgPcs

LEMMA ExKept == SearchInv /\ KeptInv /\ ExSearch => KeptInv'
<1> SUFFICES ASSUME SearchInv, KeptInv, ExSearch PROVE KeptInv'
  OBVIOUS
<1>0. ThenInv /\ PathInv
  BY DEF SearchInv, Inv
<1>1. /\ pc = "ex" /\ pc' \in {"aborted", "based", "closed", "reopened"} /\ fair' = fair
  BY <1>0 DEF ExSearch, ExAbort, ExFail, ExExplain, Ended, ThenInv, fsmVars
<1>2. pc' # "aborted" => Kept(fair', states', Length')
  <2>1. CASE ExAbort
    BY <2>1 DEF ExAbort
  <2>2. CASE ExFail
    BY <1>1, <2>2 DEF ExFail, KeptInv, Steady, Length, pathVars
  <2>3. CASE ExExplain
    BY <1>0, <1>1, <2>3, ExExplainPath DEF Kept, Last
  <2> QED
    BY <2>1, <2>2, <2>3 DEF ExSearch
<1> QED
  BY <1>1, <1>2, KeptSteady DEF EbuPcs, EbgPcs, EgPcs, Steady

\* After a step of eu_explain.
LEMMA KeptEu ==
    ASSUME ThenInv, pc \in EuPcs, EuSearch, fair' = fair, then' = then, mark' = mark,
           pc' \in {"eu_loop", "eu_back"} => Kept(fair, states', Root'),
           then = "ebu_found" => Kept(fair, states', mark),
           then # "ebu_found" /\ pc' = then => Kept(fair, states', Length'),
           pc' = "eu_back" \/ (pc' = "ebu_found" /\ ok') => Last' \subseteq fair
    PROVE  KeptInv'
<1>1. then \in {"based", "met", "returned", "ebu_found"}
  BY DEF ThenInv
<1>2. pc' \in {"eu_loop", "eu_back", then}
  BY DEF EuSearch, EuAtOnce, EuRefuse, EuCall, EuFound, EuIterate, EuFail, EuBack, EuDone, Ended
<1>3. CASE pc' \in {"eu_loop", "eu_back"}
  BY <1>1, <1>3 DEF KeptInv, InEbu, Steady, EuPcs, EbuPcs, EbgPcs, EgPcs
<1>4. CASE pc' = then
  BY <1>1, <1>4 DEF KeptInv, InEbu, Steady, EuPcs, EbuPcs, EbgPcs, EgPcs
<1> QED
  BY <1>2, <1>3, <1>4

LEMMA EuKept == SearchInv /\ KeptInv /\ EuSearch => KeptInv'
<1> SUFFICES ASSUME SearchInv, KeptInv, EuSearch PROVE KeptInv'
  OBVIOUS
<1>0. ThenInv /\ PathInv
  BY DEF SearchInv, Inv
<1>1. /\ pc \in EuPcs /\ fair' = fair /\ then' = then /\ mark' = mark
  BY DEF EuSearch, EuAtOnce, EuRefuse, EuCall, EuFound, EuIterate, EuFail, Forget, EuBack, EuDone,
         EuPcs, fsmVars, egVars, euVars
<1>2. /\ then = "ebu_found" => Kept(fair, states, mark)
      /\ pc = "eu" /\ then # "ebu_found" => Kept(fair, states, Length)
      /\ pc \in {"eu_loop", "eu_back"} => Kept(fair, states, Root)
  BY <1>1 DEF KeptInv, InEbu, Steady, EuPcs
<1>3. mark \in 1..Length
  BY <1>0, <1>1 DEF PathInv, Searching
<1>4. Root' = IF then = "ebu_found" THEN mark ELSE base'
  BY <1>1 DEF Root
<1>5. CASE EuAtOnce
  <2>1. Last' \subseteq fair /\ Alters(states, inputs, states', inputs', Length) /\ Length' = Length
    BY <1>0, <1>5, EuAtOncePath
  <2>2. Kept(fair, states', Length')
    BY <2>1 DEF Kept, Last
  <2>3. then = "ebu_found" => Kept(fair, states', mark)
    BY <1>2, <1>3, <2>1, <2>2 DEF Alters, Kept, Length
  <2>4. pc' = then /\ then \notin {"eu_loop", "eu_back"}
    BY <1>0, <1>1, <1>5 DEF EuAtOnce, Ended, ThenInv
  <2> QED
    BY <1>0, <1>1, <2>1, <2>2, <2>3, <2>4, KeptEu
<1>6. CASE EuRefuse
  <2>1. pc = "eu" /\ pc' = then /\ ~ok' /\ states' = states /\ then \notin {"eu_loop", "eu_back"}
    BY <1>0, <1>1, <1>6 DEF EuRefuse, Ended, ThenInv, pathVars
  <2>2. Length' = Length
    BY <2>1 DEF Length
  <2> QED
    BY <1>0, <1>1, <1>2, <2>1, <2>2, KeptEu
<1>7. CASE EuCall
  <2>1. pc = "eu" /\ pc' = "eu_loop" /\ states' = states /\ base' = Length
    BY <1>7 DEF EuCall, pathVars
  <2>2. then # "eu_loop"
    BY <1>0, <1>1 DEF ThenInv
  <2> QED
    BY <1>0, <1>1, <1>2, <1>4, <2>1, <2>2, KeptEu
<1> SUFFICES ASSUME ~EuAtOnce, ~EuRefuse, ~EuCall PROVE KeptInv'
  BY <1>5, <1>6, <1>7
<1>8. /\ pc \in {"eu_loop", "eu_back"}
      /\ then \notin {"eu_loop", "eu_back"}
      /\ Root \in 1..base /\ base \in 1..Length /\ mark <= base
  <2>1. pc \in {"eu_loop", "eu_back"}
    BY DEF EuSearch, EuFound, EuIterate, EuFail, EuBack, EuDone
  <2> QED
    BY <1>0, <2>1, EuLoopIs
<1>9. Root \in 1..Length /\ Length \in Nat
  BY <1>0, <1>8, EuLoopIs
<1>10. CASE EuFound \/ EuIterate
  <2>1. /\ Grows(states, inputs, states', inputs', 1)
        /\ EuFound => Last' \subseteq fair
    BY <1>0, <1>10, EuFoundPath, EuIteratePath
  <2>2. states'[Root] = states[Root] /\ states'[mark] = states[mark]
    BY <1>3, <1>9, <2>1 DEF Grows, Length
  <2>3. /\ pc' \in {"eu_loop", "eu_back"} /\ (pc' = "eu_back" => EuFound) /\ Root' = Root
    BY <1>1, <1>10 DEF EuFound, EuIterate, Root
  <2>4. Kept(fair, states', Root') /\ (then = "ebu_found" => Kept(fair, states', mark))
    BY <1>2, <1>8, <2>2, <2>3 DEF Kept
  <2>5. pc' # "ebu_found" /\ pc' # then
    BY <1>8, <2>3
  <2> QED
    BY <1>0, <1>1, <2>1, <2>3, <2>4, <2>5, KeptEu
<1>11. CASE EuFail
  <2>1. Length' = base /\ Same(states, states', base)
    BY <1>0, <1>11, EuFailPath
  <2>2. pc' = then /\ ~ok'
    BY <1>11 DEF EuFail, Ended
  <2>3. mark \in 1..base /\ base \in 1..base /\ Root = IF then = "ebu_found" THEN mark ELSE base
    BY <1>3, <1>8 DEF Root
  <2>4. /\ then = "ebu_found" => Kept(fair, states', mark)
        /\ then # "ebu_found" => Kept(fair, states', Length')
    BY <1>2, <1>8, <2>1, <2>3 DEF Same, Kept
  <2>5. pc' \notin {"eu_loop", "eu_back"}
    BY <1>8, <2>2
  <2> QED
    BY <1>0, <1>1, <2>2, <2>4, <2>5, KeptEu
<1>12. CASE EuBack
  <2>1. Same(states, states', Root) /\ Last' = Last /\ pc = "eu_back" /\ pc' = pc /\ Root' = Root
    BY <1>0, <1>1, <1>12, EuBackPath DEF EuBack, Root
  <2>2. Kept(fair, states', Root')
    BY <1>2, <1>8, <2>1 DEF Same, Kept
  <2>3. then = "ebu_found" => Kept(fair, states', mark)
    BY <1>4, <2>2
  <2>4. Last' \subseteq fair
    BY <2>1 DEF KeptInv
  <2>5. pc' # then
    BY <1>8, <2>1
  <2> QED
    BY <1>0, <1>1, <2>2, <2>3, <2>4, <2>5, KeptEu
<1>13. CASE EuDone
  <2>1. pc = "eu_back" /\ pc' = then /\ states' = states
    BY <1>13 DEF EuDone, Ended, pathVars
  <2>2. Last' = Last /\ Length' = Length
    BY <2>1 DEF Last, Length
  <2>3. Last' \subseteq fair
    BY <2>1, <2>2 DEF KeptInv
  <2>4. Kept(fair, states', Length')
    BY <2>3 DEF Kept, Last
  <2> QED
    BY <1>0, <1>1, <1>2, <1>8, <2>1, <2>3, <2>4, KeptEu
<1> QED
  BY <1>10, <1>11, <1>12, <1>13 DEF EuSearch

LEMMA EgKept == SearchInv /\ FairFsm /\ SubjectInv /\ KeptInv /\ EgSearch /\ RoundInv' => KeptInv'
<1> SUFFICES ASSUME SearchInv, FairFsm, SubjectInv, KeptInv, EgSearch, RoundInv' PROVE KeptInv'
  OBVIOUS
<1>0. ThenInv /\ PathInv
  BY DEF SearchInv, Inv
<1>1. pc \in EgPcs /\ fair' = fair
  BY DEF EgSearch, EgRefuse, EgCall, StartRound, Meet, MetByStep, MetByState, Return, Close, Closed1,
         Reopen, Reopened, EgPcs, fsmVars
<1>2. Kept(fair, states, Length) /\ Prefix(trans, given, states, inputs, Length) /\ given \in reach
  BY <1>0, <1>1 DEF KeptInv, PathInv, Steady, SubjectInv, Running, Searching
<1>3. pc' \in EgPcs \cup {"based", "ex"} \/ (pc' = "eu" /\ then' \in {"met", "returned"})
  BY DEF EgSearch, EgRefuse, EgCall, StartRound, Meet, MetByStep, MetByState, Return, Close, Closed1,
         Reopen, Reopened, Ended, EgPcs
<1>4. ASSUME Kept(fair, states', Length') PROVE KeptInv'
  BY <1>1, <1>3, <1>4, KeptSteady DEF EbuPcs, EbgPcs, EgPcs
<1>5. CASE MetByStep
  <2>1. pc = "met" /\ pc' = "meet" /\ UNCHANGED <<eg>>
    BY <1>5 DEF MetByStep, egVars
  <2>2. eg \subseteq fair
    BY <2>1, RoundIs DEF InEg, EgPcs
  <2>3. Last' \subseteq fair
    BY <2>1, <2>2 DEF RoundInv
  <2> QED
    BY <1>4, <2>3 DEF Kept, Last
<1>6. CASE Reopen
  <2>1. Cut(mark) /\ mark \in 1..Length /\ mark \in Nat
    BY <1>0, <1>1, <1>6 DEF Reopen, PathInv, Searching
  <2>2. Length' = mark /\ Same(states, states', mark)
    BY <1>2, <2>1, Cuts DEF Length
  <2>3. Kept(fair, states, mark)
    BY <1>2, <2>1, KeptBelow
  <2>4. states'[mark] = states[mark]
    BY <2>1, <2>2 DEF Same
  <2> QED
    BY <1>4, <2>2, <2>3, <2>4 DEF Kept
<1>7. CASE ~MetByStep /\ ~Reopen
  <2>1. states' = states
    BY <1>7 DEF EgSearch, EgRefuse, EgCall, StartRound, Meet, MetByState, Return, Close, Closed1,
                Reopened, pathVars
  <2> QED
    BY <1>2, <1>4, <2>1 DEF Length
<1> QED
  BY <1>5, <1>6, <1>7

LEMMA BoundedKept == StrictBounds /\ SearchInv /\ KeptInv /\ BoundedSearch => KeptInv'
<1> SUFFICES ASSUME StrictBounds, SearchInv, KeptInv, BoundedSearch PROVE KeptInv'
  OBVIOUS
<1>0. ThenInv /\ NodeInv /\ PathInv /\ BoundInv
  BY DEF SearchInv, Inv
<1>1. pc \in EbuPcs \cup EbgPcs /\ UNCHANGED <<fair, mark>>
  BY DEF BoundedSearch, EbuAdvance, EbuStuck, EbuSearch, EbuFound, EbuLate, EbuBack, EbgAdvance, EbgStuck,
         EbgSearch, EbgHold, EbgLost, EbgFound, EbgBack, BoundedDone, BoundedFail, EbuPcs, EbgPcs, fsmVars
<1>2. /\ Kept(fair, states, mark) /\ mark \in 1..Length /\ mark \in Nat
      /\ Prefix(trans, given, states, inputs, mark)
  <2>1. InEbu \/ pc \in EbgPcs
    BY <1>1 DEF InEbu
  <2> QED
    BY <1>0, <2>1, BoundedIs DEF KeptInv
\* What has to be shown of a step that goes on with the search.
<1>3. ASSUME pc' \in EbuPcs \cup EbgPcs \/ (pc' = "eu" /\ then' = "ebu_found"),
             Same(states, states', mark),
             pc' \in {"ebu_back", "ebg_back"} \/ (pc' = "ebu_found" /\ ok') => Last' \subseteq fair
      PROVE  KeptInv'
  <2>1. Kept(fair, states', mark)
    BY <1>2, <1>3 DEF Same, Kept
  <2>2. ~Steady' /\ pc' \notin {"eu_loop", "eu_back"}
    BY <1>3 DEF Steady, EbuPcs, EbgPcs, EgPcs
  <2> QED
    BY <1>1, <1>3, <2>1, <2>2 DEF KeptInv
<1>4. ASSUME pc' = "based", Kept(fair, states', Length') PROVE KeptInv'
  BY <1>1, <1>4, KeptSteady DEF EbuPcs, EbgPcs
<1>5. CASE EbuAdvance \/ EbgAdvance \/ EbgHold
  <2>1. \E n \in Nat : Grows(states, inputs, states', inputs', n)
    BY <1>0, <1>5, AdvancePath
  <2>2. Same(states, states', mark)
    BY <1>2, <2>1 DEF Grows, Same, Length
  <2>3. pc' \in {"ebu", "ebg", "ebg_hold"}
    BY <1>5 DEF EbuAdvance, EbgAdvance, EbgHold
  <2> QED
    BY <1>3, <2>2, <2>3 DEF EbuPcs, EbgPcs
<1>6. CASE EbuSearch \/ EbuFound \/ EbgSearch
  <2>1. /\ states' = states
        /\ \/ pc' = "eu" /\ then' = "ebu_found"
           \/ pc' = "ebu_back" /\ pc = "ebu_found" /\ ok
           \/ pc' = "ebg_hold"
    BY <1>6 DEF EbuSearch, EbuFound, EbgSearch, pathVars
  <2>2. Same(states, states', mark) /\ Last' = Last
    BY <2>1 DEF Same, Last, Length
  <2>3. pc' = "ebu_back" => Last \subseteq fair
    BY <2>1 DEF KeptInv
  <2> QED
    BY <1>3, <2>1, <2>2, <2>3 DEF EbuPcs, EbgPcs
<1>7. CASE EbuStuck \/ EbuLate \/ EbgStuck \/ EbgLost
  <2>1. Cut(mark) /\ pc' = "based"
    BY <1>7 DEF EbuStuck, EbuLate, EbgStuck, EbgLost, BoundedFail, Ended
  <2>2. Length' = mark /\ Same(states, states', mark)
    BY <1>2, <2>1, Cuts DEF Length
  <2>3. Kept(fair, states', Length')
    BY <1>2, <2>2 DEF Same, Kept
  <2> QED
    BY <1>4, <2>1, <2>3
<1>8. CASE EbuBack \/ EbgBack
  <2>1. Same(states, states', mark) /\ Last' = Last
    BY <1>0, <1>8, BoundedBackPath
  <2>2. pc \in {"ebu_back", "ebg_back"} /\ pc' = pc
    BY <1>8 DEF EbuBack, EbgBack
  <2>3. Last \subseteq fair
    BY <2>2 DEF KeptInv
  <2> QED
    BY <1>3, <2>1, <2>2, <2>3 DEF EbuPcs, EbgPcs
<1>9. CASE EbgFound
  <2>1. Same(states, states', mark) /\ Last' \subseteq Accepting
    BY <1>0, <1>9, EbgFoundPath
  <2>2. pc' = "ebg_back" /\ Accepting \subseteq fair
    BY <1>9 DEF EbgFound, Accepting
  <2> QED
    BY <1>3, <2>1, <2>2 DEF EbgPcs
<1>10. CASE BoundedDone
  <2>1. pc \in {"ebu_back", "ebg_back"} /\ pc' = "based" /\ states' = states
    BY <1>10 DEF BoundedDone, Ended, pathVars
  <2>2. Last \subseteq fair /\ states'[Length'] = Last
    BY <2>1 DEF KeptInv, Last, Length
  <2> QED
    BY <1>4, <2>1, <2>2 DEF Kept
<1> QED
  BY <1>5, <1>6, <1>7, <1>8, <1>9, <1>10 DEF BoundedSearch

LEMMA RecurKept ==
    SearchInv /\ FairFsm /\ SubjectInv /\ KeptInv /\ SavedFair(fair, stack) /\ ExplainRecur
      => KeptInv' /\ SavedFair(fair, stack)'
<1> SUFFICES ASSUME SearchInv, FairFsm, SubjectInv, KeptInv, SavedFair(fair, stack), ExplainRecur
             PROVE  KeptInv' /\ SavedFair(fair, stack')
  <2>1. ExplainRecur => [Next]_vars
    BY DEF Next, Run
  <2>2. ExplainRecur => fair' = fair
    BY <2>1, FsmKept DEF fsmVars
  <2>3. SavedFair(fair, stack)' <=> SavedFair(fair', stack')
    BY DEF SavedFair, Kept
  <2> QED
    BY <2>2, <2>3
<1>0. ThenInv /\ NodeInv /\ PathInv /\ StackInv
  BY DEF SearchInv, Inv
<1>1. fair' = fair /\ pc \in {"recur", "return", "based"}
  BY DEF ExplainRecur, ExplainNot, ExplainRewritten, ExplainAtom, ExplainOr, ExplainAndRefuse, ExplainAnd,
         ExplainSearch, Continue, EndBase, Keep, OrFound, OrRight, AndRight, AndJoin, Returns, fsmVars
<1>2. /\ Kept(fair, states, Length) /\ Prefix(trans, given, states, inputs, Length) /\ given \in reach
      /\ Length \in Nat /\ Length >= 1
  BY <1>0, <1>1, LowIs DEF KeptInv, Steady, SubjectInv, Running, Searching
<1>3. stack \in Seq(Frames) /\ Len(stack) \in Nat
  BY <1>0 DEF StackInv, Waiting
\* The path stays one; the calls that wait are pushed and popped.
<1>4. ASSUME pc' \in {"recur", "return"}, Kept(fair, states', Length') PROVE KeptInv'
  BY <1>1, <1>4, KeptSteady DEF EbuPcs, EbgPcs
<1>5. ASSUME NEW fr \in Frames, NEW st \in Seq(Frames), SavedFair(fair, st),
             fr.kind = "right" => Kept(fair, fr.states, Len(fr.states))
      PROVE  SavedFair(fair, Append(st, fr))
  BY <1>5 DEF SavedFair
<1>6. stack # <<>> => /\ Pop \in Seq(Frames) /\ SavedFair(fair, Pop)
                      /\ Top \in Frames /\ (Top.kind = "right" => Kept(fair, Top.states, Len(Top.states)))
  <2> SUFFICES ASSUME stack # <<>>
               PROVE  /\ Pop \in Seq(Frames) /\ SavedFair(fair, Pop)
                      /\ Top \in Frames /\ (Top.kind = "right" => Kept(fair, Top.states, Len(Top.states)))
    OBVIOUS
  <2>1. Len(stack) \in 1..Len(stack) /\ Len(stack) - 1 \in Nat /\ Len(stack) - 1 <= Len(stack)
    BY <1>3
  <2>2. /\ Pop \in Seq(Frames) /\ Len(Pop) = Len(stack) - 1
        /\ \A m \in 1..(Len(stack) - 1) : Pop[m] = stack[m]
    BY <1>3, <2>1, Front DEF Pop
  <2>3. SavedFair(fair, Pop)
    BY <2>1, <2>2 DEF SavedFair
  <2> QED
    BY <1>3, <2>1, <2>2, <2>3 DEF SavedFair, Top
<1>7. CASE ExplainNot \/ ExplainRewritten \/ ExplainAtom \/ ExplainAndRefuse \/ EndBase
  <2>1. states' = states /\ stack' = stack /\ pc' \in {"recur", "return"}
    BY <1>7 DEF ExplainNot, ExplainRewritten, ExplainAtom, ExplainAndRefuse, EndBase, Ended, pathVars
  <2> QED
    BY <1>2, <1>4, <2>1 DEF Length
<1>8. CASE ExplainOr \/ ExplainAnd \/ Continue
  <2>1. /\ states' = states /\ pc' \in {"recur", "return"}
        /\ \E kind \in {"or", "left", "keep"} :
             /\ stack' = Append(stack, Frame(kind))
             /\ kind \in {"or", "left"} => Op(node) \in {"OR", "AND"}
    BY <1>8 DEF ExplainOr, ExplainAnd, Continue, pathVars
  <2>2. PICK kind \in {"or", "left", "keep"} :
             /\ stack' = Append(stack, Frame(kind))
             /\ kind \in {"or", "left"} => Op(node) \in {"OR", "AND"}
    BY <2>1
  <2>3. Frame(kind) \in Frames /\ Frame(kind).kind # "right"
    <3>1. Running /\ Steady
      BY <1>1 DEF Running, Searching, Steady
    <3>2. Frame(kind) \in Frames
      BY <1>0, <2>2, <3>1, FrameWaits
    <3> QED
      BY <2>2, <3>2 DEF Frame
  <2>4. SavedFair(fair, stack')
    BY <1>3, <1>5, <2>2, <2>3
  <2> QED
    BY <1>2, <1>4, <2>1, <2>4 DEF Length
<1>9. CASE ExplainSearch
  <2>1. /\ states' = states /\ stack' = stack /\ mark' = Length /\ then' = "based"
        /\ pc' \in {"ex", "eu", "eg", "ebu", "ebg"}
    BY <1>9 DEF ExplainSearch, Search, pathVars
  <2>2. Kept(fair', states', Length') /\ Kept(fair', states', mark')
    BY <1>1, <1>2, <2>1 DEF Length
  <2> QED
    BY <2>1, <2>2 DEF KeptInv
<1>10. CASE Keep \/ OrFound \/ OrRight
  <2>1. states' = states /\ stack' = Pop /\ stack # <<>> /\ pc' \in {"recur", "return"}
    BY <1>10 DEF Keep, OrFound, OrRight, Returns, pathVars
  <2> QED
    BY <1>2, <1>4, <1>6, <2>1 DEF Length
<1>11. CASE AndRight
  <2> DEFINE aside == [Top EXCEPT !.kind = "right", !.left = Came(Top), !.fresh = FALSE,
                            !.states = states, !.inputs = inputs]
  <2>1. /\ pc = "return" /\ stack # <<>> /\ stack' = Append(Pop, aside)
        /\ Cut(Top.length) /\ pc' = "recur"
    BY <1>11 DEF AndRight, Returns
  <2>2. SetAside(aside)
    BY DEF SetAside
  <2> HIDE DEF aside
  <2>3. states \in Seq(SUBSET State) /\ inputs \in Seq(SUBSET Input)
    BY <1>2, SetsLength DEF Prefix
  <2>4. aside \in Frames /\ aside.states = states
    BY <1>0, <1>6, <2>1, <2>2, <2>3, AsideIs DEF ThenInv
  <2>5. SavedFair(fair, stack')
    BY <1>2, <1>5, <1>6, <2>1, <2>4 DEF Length
  <2>6. Top.length \in 1..Length /\ Top.length \in Nat
    <3>1. Running /\ ~Searching
      BY <2>1 DEF Running, Searching, EuPcs, EbuPcs, EbgPcs, EgPcs
    <3>2. Top.length <= Low /\ Low = Length
      BY <1>0, <2>1, <3>1, TopIs DEF Low
    <3>3. Top.length \in Nat \ {0}
      BY <1>6, <2>1 DEF Frames
    <3> QED
      BY <1>2, <3>2, <3>3
  <2>7. Length' = Top.length /\ Same(states, states', Top.length)
    BY <1>2, <2>1, <2>6, Cuts DEF Length
  <2>8. Kept(fair, states, Top.length)
    BY <1>2, <2>6, KeptBelow
  <2>9. states'[Top.length] = states[Top.length]
    BY <2>6, <2>7 DEF Same
  <2> QED
    BY <1>4, <2>1, <2>5, <2>7, <2>8, <2>9 DEF Kept
<1>12. CASE AndJoin
  <2>1. /\ stack # <<>> /\ Top.kind = "right" /\ stack' \in {Pop, Marked(Pop)} /\ pc' = "return"
        /\ states' \in {states, Top.states}
    BY <1>12 DEF AndJoin, Returns, pathVars
  <2>2. Kept(fair, states', Length')
    BY <1>2, <1>6, <2>1 DEF Length
  <2>3. /\ Len(Marked(Pop)) = Len(Pop)
        /\ \A m \in 1..Len(Pop) : Alike(Pop[m], Marked(Pop)[m])
    BY <1>6, <2>1, MarkedIs
  <2> HIDE DEF Marked
  <2>4. SavedFair(fair, Marked(Pop))
    BY <1>6, <2>1, <2>3 DEF SavedFair, Alike
  <2> QED
    BY <1>4, <1>6, <2>1, <2>2, <2>4
<1> QED
  BY <1>7, <1>8, <1>9, <1>10, <1>11, <1>12 DEF ExplainRecur

LEMMA KeptNext ==
    StrictBounds /\ SearchInv /\ FairFsm /\ SubjectInv /\ KeptInv /\ SavedFair(fair, stack)
      /\ RoundInv' /\ [Next]_vars
        => KeptInv' /\ SavedFair(fair, stack)'
<1> SUFFICES ASSUME StrictBounds, SearchInv, FairFsm, SubjectInv, KeptInv, SavedFair(fair, stack),
                    RoundInv', [Next]_vars
             PROVE  KeptInv' /\ SavedFair(fair, stack)'
  OBVIOUS
<1>0. ThenInv /\ PathInv /\ StackInv
  BY DEF SearchInv, Inv
<1>1. fair' = fair
  BY FsmKept DEF fsmVars
<1>2. CASE ExSearch \/ EuSearch \/ EgSearch \/ BoundedSearch
  <2>1. stack' = stack
    BY <1>0, <1>2, SearchSteps
  <2>2. KeptInv'
    BY <1>2, ExKept, EuKept, EgKept, BoundedKept
  <2> QED
    BY <1>1, <2>1, <2>2
<1>3. CASE ExplainRecur
  BY <1>3, RecurKept
<1>4. CASE Answer \/ Taken \/ Restart
  <2>1. pc' \in {"done", "idle"} /\ (stack' = stack \/ stack' = <<>>)
    BY <1>4 DEF Answer, Taken, Restart
  <2>2. KeptInv'
    BY <2>1, KeptSteady DEF Steady, EbuPcs, EbgPcs, EgPcs
  <2>3. SavedFair(fair, <<>>)
    BY DEF SavedFair
  <2> QED
    BY <1>1, <2>1, <2>2, <2>3
<1>5. ASSUME NEW by \in DOMAIN Nodes, NEW n \in Nodes[by], NEW s \in Subjects(by, n), Request(by, n, s)
      PROVE  KeptInv' /\ SavedFair(fair, stack)'
  <2>1. pc' = "recur" /\ stack' = stack /\ states' = <<{s}>>
    BY <1>5 DEF Request
  <2>2. Kept(fair', states', Length')
    BY <2>1 DEF Kept, Length
  <2>3. KeptInv'
    BY <2>1, <2>2, KeptSteady DEF EbuPcs, EbgPcs
  <2> QED
    BY <1>1, <2>1, <2>3
<1>6. CASE UNCHANGED vars
  BY <1>6 DEF KeptInv, Steady, InEbu, Root, Last, Length, vars, fsmVars, pathVars, euVars
<1> QED
  BY <1>2, <1>3, <1>4, <1>5, <1>6, StepCases

\* The assertion of ex_explain fails nowhere else.
LEMMA AbortsOnly ==
    ASSUME ThenInv, [Next]_vars, pc' = "aborted"
    PROVE  ExAbort \/ UNCHANGED vars
<1>1. ASSUME ExSearch PROVE ExAbort
  BY <1>1 DEF ExSearch, ExFail, ExExplain, Ended, ThenInv
<1>2. ASSUME EuSearch PROVE FALSE
  BY <1>2 DEF EuSearch, EuAtOnce, EuRefuse, EuCall, EuFound, EuIterate, EuFail, EuBack, EuDone, Ended,
              ThenInv, EuPcs
<1>3. ASSUME EgSearch PROVE FALSE
  BY <1>3 DEF EgSearch, EgRefuse, EgCall, StartRound, Meet, MetByStep, MetByState, Return, Close,
              Closed1, Reopen, Reopened, Ended
<1>4. ASSUME BoundedSearch PROVE FALSE
  BY <1>4 DEF BoundedSearch, EbuAdvance, EbuStuck, EbuSearch, EbuFound, EbuLate, EbuBack, EbgAdvance,
              EbgStuck, EbgSearch, EbgHold, EbgLost, EbgFound, EbgBack, BoundedDone, BoundedFail, Ended
<1>5. ASSUME ExplainRecur PROVE FALSE
  <2>1. CASE ExplainSearch
    BY <2>1 DEF ExplainSearch, Search
  <2>2. CASE ~ExplainSearch
    BY <1>5, <2>2 DEF ExplainRecur, ExplainNot, ExplainRewritten, ExplainAtom, Ended, ExplainOr,
         ExplainAndRefuse, ExplainAnd, Continue, EndBase, Keep, OrFound, OrRight, AndRight, AndJoin, Returns
  <2> QED
    BY <2>1, <2>2
<1>6. ASSUME Answer \/ Taken \/ Restart PROVE FALSE
  BY <1>6 DEF Answer, Taken, Restart
<1>7. ASSUME NEW by \in DOMAIN Nodes, NEW n \in Nodes[by], NEW s \in Subjects(by, n), Request(by, n, s)
      PROVE  FALSE
  BY <1>7 DEF Request
<1> QED
  BY <1>1, <1>2, <1>3, <1>4, <1>5, <1>6, <1>7, StepCases

LEMMA AbortsNext ==
    SearchInv /\ SubjectInv /\ KeptInv /\ AbortsOnUnfairSubject /\ [Next]_vars => AbortsOnUnfairSubject'
<1> SUFFICES ASSUME SearchInv, SubjectInv, KeptInv, AbortsOnUnfairSubject, [Next]_vars, pc' = "aborted"
             PROVE  caller' = "explain" /\ given' \notin fair'
  BY DEF AbortsOnUnfairSubject
<1>0. ThenInv /\ NodeInv /\ PathInv /\ RoundInv
  BY DEF SearchInv, Inv
<1>1. CASE UNCHANGED vars
  BY <1>1 DEF AbortsOnUnfairSubject, vars, fsmVars, callVars
<1>2. CASE ExAbort
  <2>1. pc = "ex" /\ ~(Last \subseteq fair) /\ UNCHANGED <<fair, caller, given>>
    BY <1>2 DEF ExAbort, fsmVars, callVars
  <2>2. then = "based"
    <3>1. CASE then = "closed"
      <4>1. Last \subseteq eg
        BY <1>0, <2>1, <3>1 DEF RoundInv
      <4> QED
        BY <2>1, <3>1, <4>1, RoundIs DEF InEg
    <3>2. CASE then = "reopened"
      BY <1>2, <2>1, <3>2, StepsOnward
    <3> QED
      BY <1>0, <2>1, <3>1, <3>2 DEF ThenInv
  <2>3. Kept(fair, states, Length) /\ Running
    BY <2>1 DEF KeptInv, Steady, Running, Searching
  <2>4. Last = {given}
    <3>1. Length = 1
      BY <2>1, <2>3 DEF Kept, Last
    <3>2. Prefix(trans, given, states, inputs, Length)
      BY <1>0, <2>1 DEF PathInv, Steady
    <3> QED
      BY <3>1, <3>2 DEF Prefix, Last
  <2>5. given \notin fair
    BY <2>1, <2>4
  <2>6. caller = "explainXX" => Op(asked) = "EX"
    BY <1>0, <2>1, <2>2, <2>3 DEF NodeInv
  <2>7. caller = "explain"
    BY <2>3, <2>5, <2>6 DEF SubjectInv
  <2> QED
    BY <2>1, <2>5, <2>7
<1> QED
  BY <1>0, <1>1, <1>2, AbortsOnly

LEMMA FairInit == Init => FairInv
<1> SUFFICES ASSUME Init PROVE FairInv
  OBVIOUS
<1>1. pc = "idle" /\ stack = <<>>
  BY DEF Init
<1>2. KeptInv /\ SubjectInv /\ AbortsOnUnfairSubject
  BY <1>1 DEF KeptInv, SubjectInv, AbortsOnUnfairSubject, Steady, InEbu, Running, Searching,
              EuPcs, EbuPcs, EbgPcs, EgPcs
<1>3. SavedFair(fair, stack)
  BY <1>1 DEF SavedFair
<1> QED
  BY <1>2, <1>3, FairFsmInit DEF FairInv

\* The assertion of ex_explain (mcExplain.c:174) only fails where mc.explain was
\* asked about a state that is not fair: every search ends in a fair state, and
\* so does every path put aside, whatever the formulas and the relation are.
THEOREM AssertionCorrect ==
    ASSUME StrictBounds
    PROVE  Spec => []AbortsOnUnfairSubject
<1>1. SearchInv /\ FairInv /\ [Next]_vars => (SearchInv /\ FairInv)'
  <2> SUFFICES ASSUME SearchInv, FairInv, [Next]_vars PROVE SearchInv' /\ FairInv'
    OBVIOUS
  <2>1. SearchInv'
    BY SearchNext
  <2>2. RoundInv'
    BY <2>1 DEF SearchInv
  <2>3. FairFsm' /\ SubjectInv'
    BY FairFsmNext, SubjectNext DEF FairInv
  <2>4. KeptInv' /\ SavedFair(fair, stack)'
    BY <2>2, KeptNext DEF FairInv
  <2>5. AbortsOnUnfairSubject'
    BY AbortsNext DEF FairInv
  <2> QED
    BY <2>1, <2>3, <2>4, <2>5 DEF FairInv
<1>2. FairInv => AbortsOnUnfairSubject
  BY DEF FairInv
<1> QED
  BY <1>1, <1>2, SearchInit, FairInit, PTL DEF Spec

=============================================================================
