--------------------------- MODULE WrappersProofs ---------------------------
(***************************************************************************)
(* Proofs about Wrappers, for any number of wrappers, nodes and sessions.  *)
(*                                                                         *)
(* The counting lemmas come first: Held is the cardinality of a finite set *)
(* of <<wrapper, position>> pairs, so that it adds up over disjoint sets   *)
(* of wrappers and does not see the wrappers outside the set.              *)
(***************************************************************************)
EXTENDS Wrappers, FiniteSetTheorems, TLAPS

USE WrappersAssumption

\* The pairs that Held counts, for contents c.
Refs(c, S, n) == UNION {Places(o, c[o], n) : o \in S}

LEMMA ContentShape ==
    ASSUME NEW c \in Contents
    PROVE  /\ c \in Seq(Nodes \cup {None})
           /\ Len(c) \in 0..MaxLen
           /\ DOMAIN c = 1..Len(c)
<1>1. PICK m \in 0..MaxLen : c \in [1..m -> Nodes \cup {None}]
  BY DEF Contents
<1> QED BY <1>1

LEMMA PairContent ==
    ASSUME NEW n \in Nodes
    PROVE  <<n>> \in Contents
<1>1. <<n>> \in [1..1 -> Nodes \cup {None}]
  OBVIOUS
<1>2. 1 \in 0..MaxLen
  OBVIOUS
<1> QED BY <1>1, <1>2 DEF Contents

LEMMA PlacesFinite ==
    ASSUME NEW o, NEW c \in Contents, NEW n
    PROVE  /\ IsFiniteSet(Places(o, c, n))
           /\ Cardinality(Places(o, c, n)) \in Nat
           /\ Places(o, c, n) \subseteq {o} \X (1..MaxLen)
<1>1. Places(o, c, n) \subseteq {o} \X (1..MaxLen)
  BY ContentShape DEF Places
<1>2. IsFiniteSet({o} \X (1..MaxLen))
  <2>1. IsFiniteSet({o})
    BY FS_Singleton
  <2>2. IsFiniteSet(1..MaxLen)
    BY FS_Interval
  <2> QED BY <2>1, <2>2, FS_Product
<1>3. IsFiniteSet(Places(o, c, n))
  BY <1>1, <1>2, FS_Subset
<1> QED BY <1>1, <1>3, FS_CardinalityType

LEMMA RefsFinite ==
    ASSUME NEW c \in [Objects -> Contents], NEW S \in SUBSET Objects, NEW n
    PROVE  /\ IsFiniteSet(Refs(c, S, n))
           /\ Cardinality(Refs(c, S, n)) \in Nat
           /\ Refs(c, S, n) \subseteq S \X (1..MaxLen)
<1>1. Refs(c, S, n) \subseteq S \X (1..MaxLen)
  <2>1. \A o \in S : Places(o, c[o], n) \subseteq {o} \X (1..MaxLen)
    BY PlacesFinite
  <2> QED BY <2>1 DEF Refs
<1>2. IsFiniteSet(S \X (1..MaxLen))
  <2>1. IsFiniteSet(S)
    BY FS_Subset
  <2>2. IsFiniteSet(1..MaxLen)
    BY FS_Interval
  <2> QED BY <2>1, <2>2, FS_Product
<1>3. IsFiniteSet(Refs(c, S, n))
  BY <1>1, <1>2, FS_Subset
<1> QED BY <1>1, <1>3, FS_CardinalityType

\* Disjoint sets of wrappers hold what each of them holds.
LEMMA RefsAddUp ==
    ASSUME NEW c \in [Objects -> Contents], NEW n,
           NEW S \in SUBSET Objects, NEW T \in SUBSET Objects, S \cap T = {}
    PROVE  Cardinality(Refs(c, S \cup T, n)) =
               Cardinality(Refs(c, S, n)) + Cardinality(Refs(c, T, n))
<1>1. Refs(c, S \cup T, n) = Refs(c, S, n) \cup Refs(c, T, n)
  BY DEF Refs
<1>2. Refs(c, S, n) \cap Refs(c, T, n) = {}
  BY RefsFinite
<1>3. /\ IsFiniteSet(Refs(c, S, n)) /\ Cardinality(Refs(c, S, n)) \in Nat
      /\ IsFiniteSet(Refs(c, T, n)) /\ Cardinality(Refs(c, T, n)) \in Nat
  BY RefsFinite
<1>4. Cardinality(Refs(c, S, n) \cap Refs(c, T, n)) = 0
  BY <1>2, FS_EmptySet
<1>5. Cardinality(Refs(c, S, n) \cup Refs(c, T, n)) =
          Cardinality(Refs(c, S, n)) + Cardinality(Refs(c, T, n))
              - Cardinality(Refs(c, S, n) \cap Refs(c, T, n))
  BY <1>3, FS_Union
<1>6. Cardinality(Refs(c, S, n) \cup Refs(c, T, n)) =
          Cardinality(Refs(c, S, n)) + Cardinality(Refs(c, T, n))
  <2> HIDE <1>1
  <2> DEFINE a == Cardinality(Refs(c, S, n))
             b == Cardinality(Refs(c, T, n))
             u == Cardinality(Refs(c, S, n) \cup Refs(c, T, n))
             d == Cardinality(Refs(c, S, n) \cap Refs(c, T, n))
  <2>1. a \in Nat /\ b \in Nat /\ d = 0 /\ u = a + b - d
    BY <1>3, <1>4, <1>5
  <2> HIDE DEF a, b, u, d
  <2>2. u = a + b
    BY <2>1
  <2> QED BY <2>2 DEF a, b, u
<1> QED BY <1>1, <1>6, Zenon

\* One wrapper more.
LEMMA RefsOneMore ==
    ASSUME NEW c \in [Objects -> Contents], NEW n, NEW S \in SUBSET Objects,
           NEW o \in Objects \ S
    PROVE  Cardinality(Refs(c, S \cup {o}, n)) =
               Cardinality(Refs(c, S, n)) + Cardinality(Refs(c, {o}, n))
<1> DEFINE T == {o}
<1>1. T \in SUBSET Objects /\ S \cap T = {}
  OBVIOUS
<1> HIDE DEF T
<1>2. Cardinality(Refs(c, S \cup T, n)) =
          Cardinality(Refs(c, S, n)) + Cardinality(Refs(c, T, n))
  BY <1>1, RefsAddUp, ZenonT(60)
<1> QED BY <1>2 DEF T

LEMMA RefsOfOne ==
    ASSUME NEW c, NEW o, NEW n
    PROVE  Refs(c, {o}, n) = Places(o, c[o], n)
BY DEF Refs

LEMMA RefsOfNone ==
    ASSUME NEW c, NEW n
    PROVE  Cardinality(Refs(c, {}, n)) = 0
<1>1. Refs(c, {}, n) = {}
  BY DEF Refs
<1> QED BY <1>1, FS_EmptySet

\* A wrapper outside S does not count.
LEMMA RefsElsewhere ==
    ASSUME NEW c \in [Objects -> Contents], NEW n, NEW S \in SUBSET Objects,
           NEW o \in Objects \ S, NEW x
    PROVE  Refs([c EXCEPT ![o] = x], S, n) = Refs(c, S, n)
BY DEF Refs

LEMMA HeldIsRefs ==
    ASSUME NEW S, NEW n
    PROVE  /\ Held(S, n) = Cardinality(Refs(content, S, n))
           /\ Held(S, n)' = Cardinality(Refs(content', S, n))
BY DEF Held, Refs, Places

-----------------------------------------------------------------------------
(* The inductive invariant.                                                 *)

\* An owner is alive and belongs to a session that has begun.
Living ==
    /\ up => session >= 1
    /\ \A o \in freeit : life[o] # "none" /\ born[o] \in 1..session

\* As long as every session collects, no owner outlives its session.
Prudent == ~trusting =>
    /\ up => collecting
    /\ \A o \in freeit : up /\ born[o] = session

IInv ==
    /\ TypeOK
    /\ Living
    /\ Prudent
    /\ RefsConserved
    /\ CollectorHoldsOwners
    /\ CollectedSessionsAreSafe

Owners == {o \in freeit : born[o] = session}

LEMMA InitIInv == Init => IInv
<1> SUFFICES ASSUME Init PROVE IInv
  OBVIOUS
<1>1. TypeOK
  <2>1. <<>> \in Contents
    <3>1. <<>> \in [1..0 -> Nodes \cup {None}]
      OBVIOUS
    <3> QED BY <3>1 DEF Contents
  <2>2. /\ content \in [Objects -> Contents]
        /\ session \in 0..MaxSessions
        /\ life \in [Objects -> {"none", "held", "cycle"}]
        /\ freeit \subseteq Objects
        /\ born \in [Objects -> 0..MaxSessions]
        /\ collector \subseteq Objects
        /\ refs \in [Nodes -> Nat]
    BY <2>1 DEF Init, NoReference
  <2>3. /\ up \in BOOLEAN /\ collecting \in BOOLEAN /\ fault \in BOOLEAN
        /\ leaked \in BOOLEAN /\ trusting \in BOOLEAN
    BY Zenon DEF Init
  <2> QED BY <2>2, <2>3, Zenon DEF TypeOK
<1> QED BY <1>1 DEF Init, IInv, Living, Prudent, RefsConserved,
               CollectorHoldsOwners, CollectedSessionsAreSafe

-----------------------------------------------------------------------------
(* A new wrapper o for the nodes c.                                         *)

LEMMA WrapsType ==
    ASSUME TypeOK, NEW o \in Objects, NEW c \in Contents, NEW owns \in BOOLEAN,
           Wraps(o, c, owns), refs' \in [Nodes -> Nat]
    PROVE  TypeOK'
<1>1. /\ session' \in 0..MaxSessions
      /\ life' \in [Objects -> {"none", "held", "cycle"}]
      /\ content' \in [Objects -> Contents]
      /\ freeit' \subseteq Objects
      /\ born' \in [Objects -> 0..MaxSessions]
      /\ collector' \subseteq Objects
  BY DEF TypeOK, Wraps, Registers, managerVars
<1>2. /\ up' \in BOOLEAN /\ collecting' \in BOOLEAN /\ fault' \in BOOLEAN
      /\ leaked' \in BOOLEAN /\ trusting' \in BOOLEAN
  BY Zenon DEF TypeOK, Wraps, managerVars
<1> QED BY <1>1, <1>2, Zenon DEF TypeOK

LEMMA TakesType ==
    ASSUME TypeOK, NEW o \in Objects, NEW c \in Contents, Takes(o, c)
    PROVE  refs' \in [Nodes -> Nat]
<1>1. \A n \in Nodes : Cardinality(Places(o, c, n)) \in Nat
  BY PlacesFinite, Zenon
<1>2. refs \in [Nodes -> Nat]
  BY DEF TypeOK
<1> QED BY <1>1, <1>2 DEF Takes

\* A wrapper that owns its nodes brings as many references as it takes.
LEMMA WrapsOwning ==
    ASSUME IInv, NEW o \in Objects, NEW c \in Contents,
           Wraps(o, c, TRUE), Takes(o, c)
    PROVE  IInv'
<1>1. TypeOK'
  BY TakesType, WrapsType DEF IInv
<1>2. o \notin freeit
  BY DEF IInv, Living, Wraps
<1>3. Living' /\ Prudent' /\ CollectorHoldsOwners' /\ CollectedSessionsAreSafe'
  <2> USE DEF Wraps, managerVars
  <2>1. /\ life \in [Objects -> {"none", "held", "cycle"}]
        /\ born \in [Objects -> 0..MaxSessions] /\ session \in 0..MaxSessions
        /\ freeit \subseteq Objects
    BY DEF IInv, TypeOK
  <2>2. freeit' = freeit \cup {o} /\ born'[o] = session /\ life'[o] = "held"
    BY <2>1
  <2>3. \A p \in freeit : born'[p] = born[p] /\ life'[p] = life[p]
    BY <2>1, <1>2
  <2>4. Living'
    BY <2>1, <2>2, <2>3 DEF IInv, Living
  <2>5. Prudent'
    BY <2>2, <2>3 DEF IInv, Prudent
  <2>6. CollectorHoldsOwners'
    BY <2>2, <2>3 DEF IInv, CollectorHoldsOwners, Registers
  <2>7. CollectedSessionsAreSafe'
    BY Zenon DEF IInv, CollectedSessionsAreSafe
  <2> QED BY <2>4, <2>5, <2>6, <2>7
<1>4. RefsConserved'
  <2> SUFFICES ASSUME up', ~fault', NEW n \in Nodes
               PROVE  refs'[n] = Held(Owners, n)'
    BY DEF RefsConserved, Owners
  <2>1. refs[n] = Cardinality(Refs(content, Owners, n))
    BY HeldIsRefs DEF IInv, RefsConserved, Owners, Wraps, managerVars
  <2>2. refs'[n] = refs[n] + Cardinality(Places(o, c, n))
    BY DEF Takes
  <2>3. Owners' = Owners \cup {o}
    BY <1>2 DEF Owners, Wraps, managerVars, IInv, TypeOK
  <2>4. Owners \in SUBSET Objects /\ o \notin Owners
    BY <1>2 DEF Owners, IInv, TypeOK
  <2>5. /\ content' = [content EXCEPT ![o] = c]
        /\ content' \in [Objects -> Contents]
        /\ content \in [Objects -> Contents]
    BY <1>1 DEF Wraps, TypeOK, IInv
  <2>6. Refs(content', Owners, n) = Refs(content, Owners, n)
    <3>1. o \in Objects \ Owners
      BY <2>4
    <3>2. Refs([content EXCEPT ![o] = c], Owners, n) = Refs(content, Owners, n)
      BY <2>4, <2>5, <3>1, RefsElsewhere, Zenon
    <3> QED BY <2>5, <3>2, Zenon
  <2>7. Refs(content', {o}, n) = Places(o, c, n)
    <3>1. content'[o] = c
      BY <2>5
    <3> QED BY <3>1, RefsOfOne, Zenon
  <2>8. Cardinality(Refs(content', Owners \cup {o}, n)) =
            Cardinality(Refs(content', Owners, n))
                + Cardinality(Refs(content', {o}, n))
    <3>1. content' \in [Objects -> Contents]
      BY <2>5
    <3>2. Owners \in SUBSET Objects /\ o \in Objects \ Owners
      BY <2>4
    <3> QED BY <3>1, <3>2, RefsOneMore, ZenonT(60)
  <2>9. Held(Owners, n)' = Cardinality(Refs(content', Owners', n))
    BY DEF Held, Refs, Places
  <2> QED BY <2>1, <2>2, <2>3, <2>6, <2>7, <2>8, <2>9
<1> QED BY <1>1, <1>3, <1>4 DEF IInv

LEMMA BorrowStep ==
    ASSUME IInv, NEW o \in Objects, NEW n \in Nodes, Borrow(o, n)
    PROVE  IInv'
<1>1. TypeOK'
  BY PairContent, WrapsType DEF IInv, Borrow, TypeOK
<1>2. o \notin freeit
  BY DEF IInv, Living, Borrow, Wraps
<1>3. Living' /\ Prudent' /\ CollectorHoldsOwners' /\ CollectedSessionsAreSafe'
  BY <1>2 DEF IInv, TypeOK, Living, Prudent, CollectorHoldsOwners, Borrow,
         CollectedSessionsAreSafe, Wraps, Registers, managerVars
<1>4. RefsConserved'
  <2> SUFFICES ASSUME up', ~fault', NEW m \in Nodes
               PROVE  refs'[m] = Held(Owners, m)'
    BY DEF RefsConserved, Owners
  <2>1. refs'[m] = Cardinality(Refs(content, Owners, m))
    BY HeldIsRefs DEF IInv, RefsConserved, Owners, Borrow, Wraps, managerVars
  <2>2. Owners' = Owners /\ Owners \in SUBSET Objects /\ o \notin Owners
    BY <1>2 DEF Owners, Borrow, Wraps, managerVars, IInv, TypeOK
  <2>3. /\ content' = [content EXCEPT ![o] = <<n>>]
        /\ content \in [Objects -> Contents]
    BY DEF Borrow, Wraps, TypeOK, IInv
  <2>4. Refs(content', Owners, m) = Refs(content, Owners, m)
    <3>1. o \in Objects \ Owners
      BY <2>2
    <3>2. Refs([content EXCEPT ![o] = <<n>>], Owners, m)
              = Refs(content, Owners, m)
      BY <2>2, <2>3, <3>1, RefsElsewhere, Zenon
    <3> QED BY <2>3, <3>2, Zenon
  <2>5. Held(Owners, m)' = Cardinality(Refs(content', Owners', m))
    BY DEF Held, Refs, Places
  <2> QED BY <2>1, <2>2, <2>4, <2>5
<1> QED BY <1>1, <1>3, <1>4 DEF IInv

LEMMA CreateStep ==
    ASSUME IInv, NEW o \in Objects, Create(o)
    PROVE  IInv'
<1>1. CASE \E n \in Nodes : Operate(o, n)
  BY <1>1, WrapsOwning, PairContent DEF Operate
<1>2. CASE \E n \in Nodes : Borrow(o, n)
  BY <1>2, BorrowStep
<1>3. ASSUME NEW tuple \in Tuples, FromTuple(o, tuple)
      PROVE  IInv'
  <2>1. PICK m \in 0..MaxLen : tuple \in [1..m -> Objects \cup {None}]
    BY DEF Tuples
  <2>2. ASSUME NEW i \in 1..m, tuple[i] # None
        PROVE  content[tuple[i]][1] \in Nodes \cup {None}
    <3>1. /\ tuple[i] \in Objects
          /\ content[tuple[i]] \in Contents
          /\ Len(content[tuple[i]]) = 1
      BY <1>3, <2>1, <2>2 DEF FromTuple, IsHeldBdd, IInv, TypeOK
    <3> QED BY <3>1, ContentShape
  <2>3. ListOf(tuple) \in [1..m -> Nodes \cup {None}]
    BY <2>1, <2>2 DEF ListOf
  <2>4. ListOf(tuple) \in Contents
    BY <2>3 DEF Contents
  <2> QED BY <1>3, <2>4, WrapsOwning DEF FromTuple
<1>4. ASSUME NEW l \in Objects, NEW i \in 1..MaxLen, GetItem(o, l, i)
      PROVE  IInv'
  <2>1. content[l] \in Contents /\ i \in DOMAIN content[l] /\ content[l][i] # None
    BY <1>4 DEF GetItem, IInv, TypeOK
  <2>2. content[l][i] \in Nodes
    BY <2>1, ContentShape
  <2> QED BY <1>4, <2>2, PairContent, WrapsOwning DEF GetItem
<1> QED BY <1>1, <1>2, <1>3, <1>4 DEF Create

-----------------------------------------------------------------------------
(* A wrapper dies.                                                          *)

LEMMA DiesType ==
    ASSUME IInv, NEW o \in Objects, Dies(o)
    PROVE  TypeOK'
<1>1. /\ session' \in 0..MaxSessions
      /\ life' \in [Objects -> {"none", "held", "cycle"}]
      /\ freeit' \subseteq Objects
      /\ born' \in [Objects -> 0..MaxSessions]
      /\ collector' \subseteq Objects
  BY DEF IInv, TypeOK, Dies, managerVars
<1>2. content' \in [Objects -> Contents]
  <2>1. <<>> \in [1..0 -> Nodes \cup {None}]
    OBVIOUS
  <2>2. <<>> \in Contents
    BY <2>1 DEF Contents
  <2> QED BY <2>2 DEF IInv, TypeOK, Dies
<1>3. refs' \in [Nodes -> Nat]
  <2>1. Current({o}) \in SUBSET Objects
    BY DEF Current
  <2>2. content \in [Objects -> Contents] /\ refs \in [Nodes -> Nat]
    BY DEF IInv, TypeOK
  <2>3. \A n \in Nodes : Cardinality(Refs(content, Current({o}), n)) \in Nat
    BY <2>1, <2>2, RefsFinite, Zenon
  <2>4. \A n \in Nodes : Held(Current({o}), n) \in Nat
    BY <2>3, HeldIsRefs, Zenon
  <2>5. ASSUME NEW n \in Nodes
        PROVE  (IF Held(Current({o}), n) <= refs[n]
                THEN refs[n] - Held(Current({o}), n) ELSE 0) \in Nat
    <3>1. Held(Current({o}), n) \in Nat /\ refs[n] \in Nat
      BY <2>2, <2>4
    <3> QED BY <3>1
  <2>6. refs' = [n \in Nodes |-> IF Held(Current({o}), n) <= refs[n]
                                 THEN refs[n] - Held(Current({o}), n) ELSE 0]
    BY DEF Dies, Frees
  <2> QED BY <2>5, <2>6
<1>4. /\ up' \in BOOLEAN /\ collecting' \in BOOLEAN
      /\ leaked' \in BOOLEAN /\ trusting' \in BOOLEAN
  BY Zenon DEF IInv, TypeOK, Dies, managerVars
<1>5. fault' \in BOOLEAN
  BY Zenon DEF Dies, Frees
<1> QED BY <1>1, <1>2, <1>3, <1>4, <1>5, Zenon DEF TypeOK

\* When nothing went wrong before, a wrapper that frees its nodes is current
\* and its references are among those counted.
LEMMA OwnerFrees ==
    ASSUME IInv, NEW o \in freeit, NEW n \in Nodes,
           up, ~fault, born[o] = session
    PROVE  /\ Owners \ {o} \in SUBSET Objects
           /\ refs[n] = Cardinality(Refs(content, Owners \ {o}, n))
                          + Held({o}, n)
           /\ Cardinality(Refs(content, Owners \ {o}, n)) \in Nat
           /\ Held({o}, n) \in Nat
<1>1. refs[n] = Cardinality(Refs(content, Owners, n))
  BY HeldIsRefs DEF IInv, RefsConserved, Owners
<1>2. /\ {o} \in SUBSET Objects /\ Owners \ {o} \in SUBSET Objects
      /\ o \in Objects \ (Owners \ {o})
      /\ Owners = (Owners \ {o}) \cup {o}
      /\ content \in [Objects -> Contents]
  BY DEF Owners, IInv, TypeOK
<1>3. Cardinality(Refs(content, (Owners \ {o}) \cup {o}, n)) =
          Cardinality(Refs(content, Owners \ {o}, n))
              + Cardinality(Refs(content, {o}, n))
  <2> DEFINE Others == Owners \ {o}
  <2>1. Others \in SUBSET Objects /\ o \in Objects \ Others
    BY <1>2
  <2>2. content \in [Objects -> Contents]
    BY <1>2
  <2> HIDE DEF Others
  <2>3. Cardinality(Refs(content, Others \cup {o}, n)) =
            Cardinality(Refs(content, Others, n))
                + Cardinality(Refs(content, {o}, n))
    BY <2>1, <2>2, RefsOneMore, ZenonT(60)
  <2> QED BY <2>3 DEF Others
<1>4. /\ Cardinality(Refs(content, Owners \ {o}, n)) \in Nat
      /\ Cardinality(Refs(content, {o}, n)) \in Nat
  BY <1>2, RefsFinite, Zenon
<1>5. Held({o}, n) = Cardinality(Refs(content, {o}, n))
  BY HeldIsRefs, Zenon
<1>6. refs[n] = Cardinality(Refs(content, (Owners \ {o}) \cup {o}, n))
  BY <1>1, <1>2, Zenon
<1> QED BY <1>2, <1>3, <1>4, <1>5, <1>6

\* The wrapper that dies changes nothing for those that stay.
LEMMA OthersKeep ==
    ASSUME IInv, NEW o \in Objects, Dies(o), NEW n \in Nodes
    PROVE  Held(Owners, n)' = Cardinality(Refs(content, Owners \ {o}, n))
<1>1. Owners' = Owners \ {o}
  BY DEF Owners, Dies, managerVars, IInv, TypeOK
<1>2. /\ Owners \ {o} \in SUBSET Objects
      /\ o \in Objects \ (Owners \ {o})
      /\ content \in [Objects -> Contents]
      /\ content' = [content EXCEPT ![o] = <<>>]
  BY DEF Owners, Dies, IInv, TypeOK
<1>3. Refs([content EXCEPT ![o] = <<>>], Owners \ {o}, n)
          = Refs(content, Owners \ {o}, n)
  BY <1>2, RefsElsewhere, Zenon
<1>4. Held(Owners, n)' = Cardinality(Refs(content', Owners', n))
  BY DEF Held, Refs, Places
<1> QED BY <1>1, <1>2, <1>3, <1>4, Zenon

LEMMA DiesStep ==
    ASSUME IInv, NEW o \in Objects, Dies(o)
    PROVE  IInv'
<1> USE DEF managerVars
<1>1. TypeOK'
  BY DiesType
<1>2. /\ freeit' = freeit \ {o} /\ collector' = collector \ {o}
      /\ \A p \in freeit' : born'[p] = born[p] /\ life'[p] = life[p]
  BY DEF Dies, IInv, TypeOK
<1>3. Living'
  BY <1>2 DEF IInv, Living, Dies
<1>4. Prudent'
  BY <1>2 DEF IInv, Prudent, Dies
<1>5. CollectorHoldsOwners'
  BY <1>2 DEF IInv, CollectorHoldsOwners, Dies
<1>6. ASSUME ~Misfrees({o}), up, ~fault, NEW n \in Nodes
      PROVE  refs'[n] = Held(Owners, n)'
  <2>1. CASE o \in freeit
    <3>1. Current({o}) = {o} /\ born[o] = session
      BY <1>6, <2>1 DEF Misfrees, Current
    <3>2. refs'[n] = IF Held({o}, n) <= refs[n] THEN refs[n] - Held({o}, n) ELSE 0
      BY <3>1 DEF Dies, Frees
    <3>3. /\ refs[n] = Cardinality(Refs(content, Owners \ {o}, n))
                          + Held({o}, n)
          /\ Cardinality(Refs(content, Owners \ {o}, n)) \in Nat
          /\ Held({o}, n) \in Nat
      BY <1>6, <2>1, <3>1, OwnerFrees, Zenon
    <3>4. refs'[n] = Cardinality(Refs(content, Owners \ {o}, n))
      BY <3>2, <3>3
    <3> QED BY <3>4, OthersKeep
  <2>2. CASE o \notin freeit
    <3>1. Current({o}) = {} /\ Owners \ {o} = Owners
      BY <2>2 DEF Current, Owners
    <3>2. Held({}, n) = 0
      BY HeldIsRefs, RefsOfNone, Zenon
    <3>3. refs \in [Nodes -> Nat]
      BY DEF IInv, TypeOK
    <3>4. refs'[n] = refs[n]
      <4>1. refs'[n] = IF Held(Current({o}), n) <= refs[n]
                       THEN refs[n] - Held(Current({o}), n) ELSE 0
        BY DEF Dies, Frees
      <4>2. Held(Current({o}), n) = 0
        BY <3>1, <3>2, Zenon
      <4> QED BY <3>3, <4>1, <4>2
    <3>5. refs[n] = Cardinality(Refs(content, Owners, n))
      BY <1>6, HeldIsRefs DEF IInv, RefsConserved, Owners
    <3> QED BY <3>1, <3>4, <3>5, OthersKeep
  <2> QED BY <2>1, <2>2
<1>7. RefsConserved'
  <2> SUFFICES ASSUME up', ~fault', NEW n \in Nodes
               PROVE  refs'[n] = Held(Owners, n)'
    BY DEF RefsConserved, Owners
  <2> QED BY <1>6 DEF Dies, Frees
<1>8. CollectedSessionsAreSafe'
  <2> SUFFICES ASSUME ~trusting'
               PROVE  ~fault' /\ ~leaked'
    BY DEF CollectedSessionsAreSafe
  <2>1. ~trusting /\ ~fault /\ ~leaked /\ ~leaked'
    BY DEF IInv, CollectedSessionsAreSafe, Dies
  <2>2. \A p \in freeit : up /\ born[p] = session
    BY <2>1 DEF IInv, Prudent
  <2>3. {o} \cap freeit = Current({o})
    BY <2>2 DEF Current
  <2>4. ASSUME NEW n \in Nodes
        PROVE  ~(Held(Current({o}), n) > refs[n])
    <3>1. refs[n] \in Nat
      BY DEF IInv, TypeOK
    <3>2. CASE o \in freeit
      <4>1. Current({o}) = {o}
        BY <2>3, <3>2
      <4>2. /\ refs[n] = Cardinality(Refs(content, Owners \ {o}, n))
                            + Held({o}, n)
            /\ Cardinality(Refs(content, Owners \ {o}, n)) \in Nat
            /\ Held({o}, n) \in Nat
        <5>1. up /\ born[o] = session
          BY <2>2, <3>2
        <5> QED BY <2>1, <3>2, <5>1, OwnerFrees, Zenon
      <4>3. Held(Current({o}), n) = Held({o}, n)
        BY <4>1, Zenon
      <4> QED BY <4>2, <4>3
    <3>3. CASE o \notin freeit
      <4>1. Current({o}) = {}
        BY <3>3 DEF Current
      <4>2. Held({}, n) = 0
        BY HeldIsRefs, RefsOfNone, Zenon
      <4> QED BY <3>1, <4>1, <4>2
    <3> QED BY <3>2, <3>3
  <2> QED BY <2>1, <2>3, <2>4 DEF Dies, Frees, Misfrees
<1> QED BY <1>1, <1>3, <1>4, <1>5, <1>7, <1>8 DEF IInv

-----------------------------------------------------------------------------
(* Sessions begin and end.                                                  *)

\* With no owner in the session there is no reference.
LEMMA NoOwners ==
    ASSUME Owners' = {}, refs' = NoReference
    PROVE  RefsConserved'
<1> SUFFICES ASSUME NEW n \in Nodes
             PROVE  refs'[n] = Held(Owners, n)'
  BY DEF RefsConserved, Owners
<1>1. Held(Owners, n)' = Cardinality(Refs(content', Owners', n))
  BY DEF Held, Refs, Places
<1>2. Cardinality(Refs(content', {}, n)) = 0
  BY RefsOfNone, Zenon
<1>3. refs'[n] = 0
  BY DEF NoReference
<1> QED BY <1>1, <1>2, <1>3

LEMMA InitNusmvStep ==
    ASSUME IInv, NEW collect \in BOOLEAN, InitNusmv(collect)
    PROVE  IInv'
<1> USE DEF InitNusmv, Starts
<1>1. TypeOK'
  <2>1. /\ session' \in 0..MaxSessions
        /\ life' \in [Objects -> {"none", "held", "cycle"}]
        /\ content' \in [Objects -> Contents]
        /\ freeit' \subseteq Objects
        /\ born' \in [Objects -> 0..MaxSessions]
        /\ collector' \subseteq Objects
        /\ refs' \in [Nodes -> Nat]
    BY DEF IInv, TypeOK, NoReference
  <2>2. /\ up' \in BOOLEAN /\ collecting' \in BOOLEAN /\ fault' \in BOOLEAN
        /\ leaked' \in BOOLEAN /\ trusting' \in BOOLEAN
    BY Zenon DEF IInv, TypeOK
  <2> QED BY <2>1, <2>2, Zenon DEF TypeOK
<1>2. Living'
  BY DEF IInv, TypeOK, Living
<1>3. ASSUME ~trusting'
      PROVE  freeit = {} /\ collecting' /\ ~trusting
  <2>1. ~trusting /\ collect
    BY <1>3, Zenon
  <2>2. \A o \in freeit : up
    BY <2>1, Zenon DEF IInv, Prudent
  <2> QED BY <2>1, <2>2
<1>4. Prudent'
  BY <1>3 DEF Prudent
<1>5. \A o \in freeit' : born'[o] # session'
  BY DEF IInv, TypeOK, Living
<1>6. RefsConserved'
  <2>1. Owners' = {}
    BY <1>5 DEF Owners
  <2> QED BY <2>1, NoOwners
<1>7. CollectorHoldsOwners'
  BY <1>5 DEF CollectorHoldsOwners
<1>8. CollectedSessionsAreSafe'
  BY <1>3, Zenon DEF IInv, CollectedSessionsAreSafe
<1> QED BY <1>1, <1>2, <1>4, <1>6, <1>7, <1>8 DEF IInv

\* What deinit_nusmv does to the wrappers, whatever happens to the session.
LEMMA SweepsKeep ==
    ASSUME IInv, up, Sweeps
    PROVE  /\ life' \in [Objects -> {"none", "held", "cycle"}]
           /\ content' \in [Objects -> Contents]
           /\ freeit' \subseteq freeit
           /\ born' \in [Objects -> 0..MaxSessions]
           /\ \A o \in freeit' : life'[o] = life[o] /\ born'[o] = born[o]
           /\ collector' = {}
           /\ refs' = NoReference
           /\ fault' \in BOOLEAN /\ leaked' \in BOOLEAN
<1>1. <<>> \in Contents
  <2>1. <<>> \in [1..0 -> Nodes \cup {None}]
    OBVIOUS
  <2> QED BY <2>1 DEF Contents
<1>2. /\ life' \in [Objects -> {"none", "held", "cycle"}]
      /\ born' \in [Objects -> 0..MaxSessions]
  BY DEF IInv, TypeOK, Sweeps
<1>3. content' \in [Objects -> Contents]
  BY <1>1 DEF IInv, TypeOK, Sweeps
<1>4. /\ freeit' \subseteq freeit
      /\ \A o \in freeit' : life'[o] = life[o] /\ born'[o] = born[o]
  BY DEF IInv, TypeOK, Sweeps, NoLongerOwners, Swept
<1>5. fault' \in BOOLEAN /\ leaked' \in BOOLEAN
  BY Zenon DEF Sweeps
<1> QED BY <1>2, <1>3, <1>4, <1>5 DEF Sweeps

\* A session that collects, after others that did, is swept clean.
LEMMA SweepsClean ==
    ASSUME IInv, up, Sweeps, ~trusting
    PROVE  freeit' = {} /\ ~fault' /\ ~leaked'
<1>1. collecting /\ ~fault /\ ~leaked /\ \A o \in freeit : born[o] = session
  BY Zenon DEF IInv, Prudent, CollectedSessionsAreSafe
<1>2. freeit \subseteq collector
  BY <1>1 DEF IInv, CollectorHoldsOwners
<1>3. freeit \subseteq Swept
  BY <1>2 DEF Swept
<1>4. Swept \cap freeit = Current(Swept)
  BY <1>1 DEF Current
<1>5. Current(Swept) = Owners
  BY <1>1, <1>3, <1>4 DEF Owners
<1>6. ASSUME NEW n \in Nodes
      PROVE  refs[n] = Held(Current(Swept), n) /\ ~(Held(Current(Swept), n) > refs[n])
  <2>1. refs[n] = Held(Owners, n)
    BY <1>1 DEF IInv, RefsConserved, Owners
  <2>2. refs[n] = Held(Current(Swept), n)
    BY <1>5, <2>1, Zenon
  <2>3. refs[n] \in Nat
    BY DEF IInv, TypeOK
  <2> QED BY <2>2, <2>3
<1>7. freeit' = {}
  BY <1>3 DEF Sweeps, NoLongerOwners
<1>8. ~Misfrees(Swept)
  BY <1>4, <1>6 DEF Misfrees
<1> QED BY <1>1, <1>6, <1>7, <1>8 DEF Sweeps

LEMMA DeinitNusmvStep ==
    ASSUME IInv, DeinitNusmv
    PROVE  IInv'
<1> USE DEF DeinitNusmv
<1>1. TypeOK'
  <2>1. /\ session' \in 0..MaxSessions
        /\ life' \in [Objects -> {"none", "held", "cycle"}]
        /\ content' \in [Objects -> Contents]
        /\ freeit' \subseteq Objects
        /\ born' \in [Objects -> 0..MaxSessions]
        /\ collector' \subseteq Objects
        /\ refs' \in [Nodes -> Nat]
    BY SweepsKeep DEF IInv, TypeOK, NoReference
  <2>2. /\ up' \in BOOLEAN /\ collecting' \in BOOLEAN /\ fault' \in BOOLEAN
        /\ leaked' \in BOOLEAN /\ trusting' \in BOOLEAN
    BY SweepsKeep, Zenon DEF IInv, TypeOK
  <2> QED BY <2>1, <2>2, Zenon DEF TypeOK
<1>2. Living'
  BY SweepsKeep DEF IInv, Living
<1>3. Prudent'
  BY SweepsClean DEF Prudent
<1>4. RefsConserved' /\ CollectorHoldsOwners'
  BY DEF RefsConserved, CollectorHoldsOwners
<1>5. CollectedSessionsAreSafe'
  BY SweepsClean, Zenon DEF CollectedSessionsAreSafe
<1> QED BY <1>1, <1>2, <1>3, <1>4, <1>5 DEF IInv

LEMMA ResetNusmvStep ==
    ASSUME IInv, ResetNusmv
    PROVE  IInv'
<1> USE DEF ResetNusmv, Starts
<1>1. TypeOK'
  <2>1. /\ session' \in 0..MaxSessions
        /\ life' \in [Objects -> {"none", "held", "cycle"}]
        /\ content' \in [Objects -> Contents]
        /\ freeit' \subseteq Objects
        /\ born' \in [Objects -> 0..MaxSessions]
        /\ collector' \subseteq Objects
        /\ refs' \in [Nodes -> Nat]
    BY SweepsKeep DEF IInv, TypeOK, NoReference
  <2>2. /\ up' \in BOOLEAN /\ collecting' \in BOOLEAN /\ fault' \in BOOLEAN
        /\ leaked' \in BOOLEAN /\ trusting' \in BOOLEAN
    BY SweepsKeep, Zenon DEF IInv, TypeOK
  <2> QED BY <2>1, <2>2, Zenon DEF TypeOK
<1>2. Living'
  BY SweepsKeep DEF IInv, TypeOK, Living
<1>3. ASSUME ~trusting'
      PROVE  freeit' = {} /\ ~fault' /\ ~leaked' /\ collecting'
  BY <1>3, SweepsClean, Zenon
<1>4. Prudent'
  BY <1>3 DEF Prudent
<1>5. \A o \in freeit' : born'[o] # session'
  BY SweepsKeep DEF IInv, TypeOK, Living
<1>6. RefsConserved'
  <2>1. Owners' = {}
    BY <1>5 DEF Owners
  <2> QED BY <2>1, NoOwners, SweepsKeep
<1>7. CollectorHoldsOwners'
  BY <1>5 DEF CollectorHoldsOwners
<1>8. CollectedSessionsAreSafe'
  BY <1>3, Zenon DEF CollectedSessionsAreSafe
<1> QED BY <1>1, <1>2, <1>4, <1>6, <1>7, <1>8 DEF IInv

-----------------------------------------------------------------------------
LEMMA TangleStep ==
    ASSUME IInv, NEW o \in Objects, Tangle(o)
    PROVE  IInv'
<1> USE DEF Tangle, managerVars
<1>1. TypeOK'
  BY DEF IInv, TypeOK
<1>2. Living'
  BY DEF IInv, TypeOK, Living
<1>3. Prudent' /\ CollectorHoldsOwners' /\ CollectedSessionsAreSafe'
  BY Zenon DEF IInv, Prudent, CollectorHoldsOwners, CollectedSessionsAreSafe
<1>4. RefsConserved'
  BY DEF IInv, RefsConserved, Held
<1> QED BY <1>1, <1>2, <1>3, <1>4 DEF IInv

LEMMA StutterStep == IInv /\ UNCHANGED vars => IInv'
<1> SUFFICES ASSUME IInv, UNCHANGED vars PROVE IInv'
  OBVIOUS
<1> USE DEF vars
<1>1. TypeOK' /\ Living' /\ Prudent'
  BY DEF IInv, TypeOK, Living, Prudent
<1>2. CollectorHoldsOwners' /\ CollectedSessionsAreSafe'
  BY DEF IInv, CollectorHoldsOwners, CollectedSessionsAreSafe
<1>3. RefsConserved'
  BY DEF IInv, RefsConserved, Held
<1> QED BY <1>1, <1>2, <1>3 DEF IInv

LEMMA NextIInv == IInv /\ [Next]_vars => IInv'
<1> SUFFICES ASSUME IInv, [Next]_vars PROVE IInv'
  OBVIOUS
<1>1. ASSUME NEW o \in Objects, Create(o) PROVE IInv'
  BY <1>1, CreateStep
<1>2. ASSUME NEW o \in Objects, Drop(o) PROVE IInv'
  BY <1>2, DiesStep DEF Drop
<1>3. ASSUME NEW o \in Objects, Tangle(o) PROVE IInv'
  BY <1>3, TangleStep
<1>4. ASSUME NEW o \in Objects, Collect(o) PROVE IInv'
  BY <1>4, DiesStep DEF Collect
<1>5. ASSUME NEW collect \in BOOLEAN, InitNusmv(collect) PROVE IInv'
  BY <1>5, InitNusmvStep
<1>6. CASE DeinitNusmv
  BY <1>6, DeinitNusmvStep
<1>7. CASE ResetNusmv
  BY <1>7, ResetNusmvStep
<1>8. CASE UNCHANGED vars
  BY <1>8, StutterStep
<1> QED BY <1>1, <1>2, <1>3, <1>4, <1>5, <1>6, <1>7, <1>8 DEF Next

\* The invariant holds in every reachable state.
THEOREM Invariance == Spec => []IInv
BY InitIInv, NextIInv, PTL DEF Spec

\* Every variable of the wrappers' world keeps its type.
THEOREM TypeCorrect == Spec => []TypeOK
<1>1. IInv => TypeOK
  BY DEF IInv
<1> QED BY <1>1, Invariance, PTL

\* CUDD's count of Python's references is that of the living owners, however
\* many wrappers share a node and in whatever order they die (dd.py:194-195).
THEOREM ReferencesConserved == Spec => []RefsConserved
<1>1. IInv => RefsConserved
  BY DEF IInv
<1> QED BY <1>1, Invariance, PTL

\* The collector of init.py knows every wrapper that must be freed before
\* NuSMV is quit.
THEOREM CollectorComplete == Spec => []CollectorHoldsOwners
<1>1. IInv => CollectorHoldsOwners
  BY DEF IInv
<1> QED BY <1>1, Invariance, PTL

\* With collecting on, no bdd_free goes wrong and no session leaks, for any
\* number of wrappers and sessions.
THEOREM SafeCollection == Spec => []CollectedSessionsAreSafe
<1>1. IInv => CollectedSessionsAreSafe
  BY DEF IInv
<1> QED BY <1>1, Invariance, PTL

=============================================================================
