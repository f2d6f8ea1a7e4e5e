--------------------------- MODULE FsmCacheProofs ---------------------------
(***************************************************************************)
(* FsmCache for every FSM, set of Python objects and sequence of calls.    *)
(*                                                                         *)
(* The properties are not inductive: what makes them hold is that whatever *)
(* loop runs carries the breadth-first onion with its outermost shell, and *)
(* an incomplete onion in the cache has a shell to go on from.             *)
(***************************************************************************)
EXTENDS FsmCache, SequenceTheorems, TLAPS

IsOnion(t, o) == /\ o # <<>> => o[1] = Start
                 /\ \A k \in 1..(Len(o) - 1) :
                       o[k + 1] = o[k] \cup ForwardImage(t, o[k])

Sound(t, o) == /\ IsOnion(t, o)
               /\ \A k \in 1..Len(o) : o[k] \subseteq Reach(t)
               /\ o # <<>> => Start \subseteq Reached(o)

CacheInv ==
    /\ layers = <<>> /\ computed => Start = {}
    /\ layers # <<>> => Start # {}
    /\ layers # <<>> /\ ~ computed => Shell(layers) # {}
    /\ TransKept => Sound(trans, layers)
    /\ TransKept /\ computed => Reached(layers) = Reach(trans)

Extends(o, l) == Len(l) <= Len(o) /\ \A k \in 1..Len(l) : o[k] = l[k]

LoopInv ==
    loop # "none" =>
        /\ computed => layers = <<>>
        /\ frontier = Shell(onion)
        /\ Extends(onion, layers)
        /\ onion = <<>> => Start = {}
        /\ Len(onion) > 1 \/ frontier # {} => Start # {}
        /\ TransKept => Sound(trans, onion)
        /\ loop # "search" => /\ onion # <<>> => Start # {}
                              /\ onion # <<>> /\ frontier = {} =>
                                     Len(onion) > 1 /\ Len(onion) > Len(layers)

SearchInv ==
    loop = "search" =>
        /\ ~ computed
        /\ onion # <<>>
        /\ checked \cap Invar \subseteq bad /\ badFrontier \subseteq bad
        /\ BackwardImage(trans, bad \ badFrontier) \subseteq bad
        /\ TransKept /\ Reach(trans) \cap checked = {} => Reach(trans) \cap bad = {}
        /\ (target = {}) <=> (Reached(onion) \cap bad = {})

\* The states the fair ones are looked for in, given the reachable ones.
Universe(R) == IF UseReachable THEN R ELSE State

DerivedInv ==
    /\ override # NoSet => "reachable" \in touched
    /\ TransKept => notSucc \in {NoSet, NotSuccessorStates(trans)}
    /\ Untouched => deadlock \in {NoSet, Reach(trans) \cap NotSuccessorStates(trans)}
    /\ Untouched => fair \in {NoSet, FairStates(trans, Universe(Reach(trans)))}

PyInv ==
    \A w \in Fsm :
        /\ py[w]["fair"] \in {NoSet, fair}
        /\ py[w]["deadlock"] \in {NoSet, deadlock}
        /\ \/ "reachable" \in touched
           \/ py[w]["reachable"] = NoSet
           \/ computed /\ py[w]["reachable"] = Reached(layers)

IInv == /\ TypeOK /\ CacheInv /\ LoopInv /\ SearchInv
        /\ DerivedInv /\ PyInv /\ VerdictRight

-----------------------------------------------------------------------------
(* Images and reachable states. *)

LEMMA ImageTypes ==
    ASSUME NEW t, NEW S
    PROVE  /\ ForwardImage(t, S) \subseteq Invar
           /\ BackwardImage(t, S) \subseteq Invar
           /\ NotSuccessorStates(t) \subseteq Invar
           /\ \A R : FairStates(t, R) \subseteq State
           /\ Reach(t) \subseteq State
           /\ Start \subseteq Invar
           /\ Invar \subseteq State
  BY FsmAssumption DEF ForwardImage, BackwardImage, NotSuccessorStates, FairStates,
                       StatesOf, Reach, Start

\* Splitting the source splits the image; more sources, more image.
LEMMA ImageUnion ==
    ASSUME NEW t, NEW S, NEW T
    PROVE  ForwardImage(t, S \cup T) = ForwardImage(t, S) \cup ForwardImage(t, T)
  BY DEF ForwardImage

LEMMA ImageMonotone ==
    ASSUME NEW t, NEW S, NEW T, S \subseteq T
    PROVE  ForwardImage(t, S) \subseteq ForwardImage(t, T)
  BY DEF ForwardImage

LEMMA ReachLeast ==
    ASSUME NEW t, NEW S \in SUBSET State, Closed(t, S)
    PROVE  Reach(t) \subseteq S
  BY DEF Reach

LEMMA ReachClosed ==
    ASSUME NEW t
    PROVE  /\ Start \subseteq Reach(t)
           /\ ForwardImage(t, Reach(t)) \subseteq Reach(t)
  <1>1. Start \subseteq Reach(t)
    BY ImageTypes DEF Reach, Closed
  <1>2. ASSUME NEW q \in ForwardImage(t, Reach(t)), NEW S \in SUBSET State, Closed(t, S)
        PROVE  q \in S
    <2>1. ForwardImage(t, Reach(t)) \subseteq ForwardImage(t, S)
      BY <1>2, ReachLeast, ImageMonotone
    <2>2. QED
      BY <2>1, <1>2 DEF Closed
  <1>3. QED
    BY <1>1, <1>2, ImageTypes DEF Reach

LEMMA ReachInvar ==
    ASSUME NEW t
    PROVE  Reach(t) \subseteq Invar
  <1>1. Closed(t, Invar)
    BY ImageTypes DEF Closed
  <1>2. QED
    BY <1>1, ReachLeast, FsmAssumption

LEMMA ReachNothing ==
    ASSUME NEW t, Start = {}
    PROVE  Reach(t) = {}
  <1>1. ForwardImage(t, {}) = {}
    BY DEF ForwardImage
  <1>2. Closed(t, {})
    BY <1>1 DEF Closed
  <1>3. QED
    BY <1>2, ReachLeast

\* A set of reachable states that is closed is all of them.
LEMMA ReachIs ==
    ASSUME NEW t, NEW S, Start \subseteq S, ForwardImage(t, S) \subseteq S,
           S \subseteq Reach(t)
    PROVE  S = Reach(t)
  <1>1. S \in SUBSET State
    BY ImageTypes
  <1>2. Closed(t, S)
    BY DEF Closed
  <1>3. QED
    BY <1>1, <1>2, ReachLeast

\* The states with no successor, seen backward and forward.
LEMMA NoSuccessor ==
    ASSUME NEW t
    PROVE  NotSuccessorStates(t) = {s \in Invar : ForwardImage(t, {s}) = {}}
  <1>1. ASSUME NEW s \in Invar
        PROVE  s \in BackwardImage(t, State) <=> ForwardImage(t, {s}) # {}
    BY FsmAssumption DEF BackwardImage, ForwardImage
  <1>2. QED
    BY <1>1 DEF NotSuccessorStates

-----------------------------------------------------------------------------
(* Onions. *)

LEMMA AppendFacts ==
    ASSUME NEW S, NEW o \in Seq(S), NEW e \in S
    PROVE  /\ Append(o, e) \in Seq(S)
           /\ Append(o, e) # <<>>
           /\ Len(Append(o, e)) = Len(o) + 1
           /\ \A k \in 1..Len(o) : Append(o, e)[k] = o[k]
           /\ Append(o, e)[Len(o) + 1] = e
           /\ Reached(Append(o, e)) = e
           /\ o # <<>> => Len(o) \in Nat \ {0}
  BY DEF Reached, Last

LEMMA TrimFacts ==
    ASSUME NEW S, NEW o \in Seq(S), o # <<>>
    PROVE  /\ Trimmed(o) \in Seq(S)
           /\ Len(Trimmed(o)) = Len(o) - 1
           /\ \A k \in 1..(Len(o) - 1) : Trimmed(o)[k] = o[k]
           /\ Len(o) \in Nat \ {0}
  <1>1. Len(o) \in Nat \ {0} /\ \A k \in 1..Len(o) : o[k] \in S
    BY LenProperties, EmptySeq, ElementOfSeq
  <1>2. \A k \in 1..(Len(o) - 1) : o[k] \in S
    BY <1>1
  <1>3. Trimmed(o) = SubSeq(o, 1, Len(o) - 1)
    BY DEF Trimmed
  <1>4. /\ Trimmed(o) \in Seq(S)
        /\ Len(Trimmed(o)) = IF 1 <= Len(o) - 1 THEN Len(o) - 1 - 1 + 1 ELSE 0
        /\ \A k \in 1..(Len(o) - 1 - 1 + 1) : Trimmed(o)[k] = o[1 + k - 1]
    BY <1>1, <1>2, <1>3, SubSeqProperties
  <1>5. Len(Trimmed(o)) = Len(o) - 1
    <2> DEFINE n == Len(o)
               m == Len(Trimmed(o))
    <2>1. n \in Nat \ {0} /\ m = IF 1 <= n - 1 THEN n - 1 - 1 + 1 ELSE 0
      BY <1>1, <1>4
    <2> HIDE DEF n, m
    <2>2. m = n - 1
      BY <2>1
    <2>3. QED
      BY <2>2 DEF n, m
  <1>6. ASSUME NEW k \in 1..(Len(o) - 1)
        PROVE  Trimmed(o)[k] = o[k]
    <2>1. k \in 1..(Len(o) - 1 - 1 + 1) /\ 1 + k - 1 = k
      BY <1>1
    <2>2. QED
      BY <1>4, <2>1
  <1>7. QED
    BY <1>1, <1>4, <1>5, <1>6

LEMMA ReachedType ==
    ASSUME NEW o \in Seq(SUBSET State)
    PROVE  Reached(o) \in SUBSET State /\ Shell(o) \in SUBSET State
           /\ Shell(o) \subseteq Reached(o)
  BY DEF Reached, Shell, Last

\* What a loop adds to its onion: the image of the outermost shell is enough.
NextLayer(t, o) == Reached(o) \cup ForwardImage(t, Shell(o))

LEMMA NonEmptyOnion ==
    ASSUME NEW o \in Seq(SUBSET State), o # <<>>
    PROVE  /\ Len(o) \in Nat \ {0}
           /\ Reached(o) = o[Len(o)]
           /\ Len(o) = 1 => Shell(o) = Reached(o)
           /\ Len(o) > 1 => Shell(o) = o[Len(o)] \ o[Len(o) - 1]
           /\ \A k \in 1..Len(o) : o[k] \in SUBSET State
  BY DEF Reached, Shell, Last

LEMMA ShellImage ==
    ASSUME NEW t, NEW o \in Seq(SUBSET State), o # <<>>, IsOnion(t, o)
    PROVE  /\ ForwardImage(t, Reached(o) \ Shell(o)) \subseteq Reached(o)
           /\ NextLayer(t, o) = Reached(o) \cup ForwardImage(t, Reached(o))
  <1>1. ForwardImage(t, Reached(o) \ Shell(o)) \subseteq Reached(o)
    <2>1. CASE Len(o) = 1
      BY <2>1, NonEmptyOnion DEF ForwardImage
    <2>2. CASE Len(o) > 1
      <3> DEFINE n == Len(o) - 1
      <3>1. n \in 1..(Len(o) - 1) /\ n + 1 = Len(o)
        BY <2>2, NonEmptyOnion
      <3>2. o[Len(o)] = o[n] \cup ForwardImage(t, o[n])
        BY <3>1 DEF IsOnion
      <3>3. Reached(o) \ Shell(o) \subseteq o[n]
        BY <2>2, NonEmptyOnion
      <3>4. ForwardImage(t, Reached(o) \ Shell(o)) \subseteq ForwardImage(t, o[n])
        BY <3>3, ImageMonotone
      <3>5. QED
        BY <3>2, <3>4, NonEmptyOnion
    <2>3. Len(o) = 1 \/ Len(o) > 1
      <3> DEFINE n == Len(o)
      <3>1. n \in Nat \ {0}
        BY NonEmptyOnion
      <3> HIDE DEF n
      <3>2. n = 1 \/ n > 1
        BY <3>1
      <3>3. QED
        BY <3>2 DEF n
    <2>4. QED
      BY <2>1, <2>2, <2>3
  <1>2. Reached(o) = (Reached(o) \ Shell(o)) \cup Shell(o)
    BY ReachedType
  <1>3. ForwardImage(t, Reached(o))
          = ForwardImage(t, Reached(o) \ Shell(o)) \cup ForwardImage(t, Shell(o))
    BY <1>2, ImageUnion
  <1>4. QED
    BY <1>1, <1>3 DEF NextLayer

LEMMA NextLayerType ==
    ASSUME NEW t, NEW o \in Seq(SUBSET State)
    PROVE  /\ NextLayer(t, o) \in SUBSET State
           /\ Append(o, NextLayer(t, o)) \in Seq(SUBSET State)
  BY ReachedType, ImageTypes, AppendFacts DEF NextLayer

LEMMA NextShell ==
    ASSUME NEW t, NEW o \in Seq(SUBSET State), o # <<>>
    PROVE  Shell(Append(o, NextLayer(t, o))) = NextLayer(t, o) \ Reached(o)
  <1> DEFINE e == NextLayer(t, o)
             p == Append(o, e)
  <1>1. e \in SUBSET State /\ p \in Seq(SUBSET State)
    BY NextLayerType
  <1>2. /\ p # <<>> /\ Len(p) = Len(o) + 1 /\ p[Len(o) + 1] = e
        /\ \A k \in 1..Len(o) : p[k] = o[k]
    BY <1>1, AppendFacts
  <1>3. Len(o) \in Nat \ {0} /\ Reached(o) = o[Len(o)]
    BY NonEmptyOnion
  <1> HIDE DEF e, p
  <1>4. Shell(p) = p[Len(p)] \ p[Len(p) - 1]
    BY <1>1, <1>2, <1>3, NonEmptyOnion
  <1>5. p[Len(p)] = e /\ p[Len(p) - 1] = Reached(o)
    BY <1>2, <1>3
  <1>6. QED
    BY <1>4, <1>5 DEF e, p

LEMMA SoundGrows ==
    ASSUME NEW t, NEW o \in Seq(SUBSET State), o # <<>>, Sound(t, o)
    PROVE  Sound(t, Append(o, NextLayer(t, o)))
  <1> DEFINE e == NextLayer(t, o)
             p == Append(o, e)
  <1>1. e \in SUBSET State
    BY NextLayerType
  <1>2. /\ p # <<>> /\ Len(p) = Len(o) + 1 /\ p[Len(o) + 1] = e
        /\ \A k \in 1..Len(o) : p[k] = o[k]
        /\ Reached(p) = e
    BY <1>1, AppendFacts
  <1>3. Len(o) \in Nat \ {0} /\ Reached(o) = o[Len(o)]
    BY NonEmptyOnion
  <1>4. e = o[Len(o)] \cup ForwardImage(t, o[Len(o)])
    BY <1>3, ShellImage DEF Sound
  <1>5. e \subseteq Reach(t)
    <2>1. o[Len(o)] \subseteq Reach(t)
      BY <1>3 DEF Sound
    <2>2. ForwardImage(t, o[Len(o)]) \subseteq ForwardImage(t, Reach(t))
      BY <2>1, ImageMonotone
    <2>3. QED
      BY <1>4, <2>1, <2>2, ReachClosed
  <1> HIDE DEF e, p
  <1>6. p[1] = Start
    BY <1>2, <1>3 DEF Sound, IsOnion
  <1>7. ASSUME NEW k \in 1..(Len(p) - 1)
        PROVE  p[k + 1] = p[k] \cup ForwardImage(t, p[k])
    <2>1. CASE k = Len(o)
      BY <2>1, <1>2, <1>3, <1>4
    <2>2. CASE k # Len(o)
      <3>1. k \in 1..(Len(o) - 1) /\ k \in 1..Len(o) /\ k + 1 \in 1..Len(o)
        BY <2>2, <1>2, <1>3
      <3>2. QED
        BY <3>1, <1>2 DEF Sound, IsOnion
    <2>3. QED
      BY <2>1, <2>2
  <1>8. ASSUME NEW k \in 1..Len(p)
        PROVE  p[k] \subseteq Reach(t)
    <2>1. k = Len(o) + 1 \/ k \in 1..Len(o)
      BY <1>2, <1>3
    <2>2. QED
      BY <2>1, <1>2, <1>5 DEF Sound
  <1>9. Start \subseteq Reached(p)
    BY <1>2, <1>3, <1>4 DEF Sound
  <1>10. QED
    BY <1>6, <1>7, <1>8, <1>9 DEF Sound, IsOnion, e, p

\* An onion whose outermost shell is empty is complete.
LEMMA CompleteOnion ==
    ASSUME NEW t, NEW o \in Seq(SUBSET State), Sound(t, o), Shell(o) = {},
           o = <<>> => Start = {}
    PROVE  Reached(o) = Reach(t)
  <1>1. CASE o = <<>>
    BY <1>1, ReachNothing DEF Reached
  <1>2. CASE o # <<>>
    <2>1. Reached(o) \ Shell(o) = Reached(o)
      BY ReachedType
    <2>2. ForwardImage(t, Reached(o)) \subseteq Reached(o)
      BY <1>2, <2>1, ShellImage DEF Sound
    <2>3. Reached(o) \subseteq Reach(t)
      BY <1>2, NonEmptyOnion DEF Sound
    <2>4. Start \subseteq Reached(o)
      BY <1>2 DEF Sound
    <2>5. QED
      BY <2>2, <2>3, <2>4, ReachIs
  <1>3. QED
    BY <1>1, <1>2

\* Its last layer is the one before, which is what the code drops.
LEMMA SoundTrimmed ==
    ASSUME NEW t, NEW o \in Seq(SUBSET State), Sound(t, o), Shell(o) = {}, Len(o) > 1
    PROVE  Sound(t, Trimmed(o)) /\ Reached(Trimmed(o)) = Reached(o)
  <1> DEFINE p == Trimmed(o)
  <1>0. o # <<>>
    BY EmptySeq
  <1>1. /\ p \in Seq(SUBSET State) /\ Len(p) = Len(o) - 1
        /\ \A k \in 1..(Len(o) - 1) : p[k] = o[k]
        /\ Len(o) \in Nat \ {0}
    BY <1>0, TrimFacts
  <1> HIDE DEF p
  <1>2. p # <<>> /\ Len(p) \in Nat \ {0}
    BY <1>1, EmptySeq
  <1>3. Reached(p) = p[Len(p)] /\ Reached(o) = o[Len(o)]
        /\ Shell(o) = o[Len(o)] \ o[Len(o) - 1]
    BY <1>0, <1>1, <1>2, NonEmptyOnion
  <1>4. p[Len(p)] = o[Len(o) - 1]
    BY <1>1, <1>2
  <1>5. o[Len(o)] = o[Len(o) - 1] \cup ForwardImage(t, o[Len(o) - 1])
    <2> DEFINE n == Len(o) - 1
    <2>1. n \in 1..(Len(o) - 1) /\ n + 1 = Len(o)
      BY <1>1
    <2>2. QED
      BY <2>1 DEF Sound, IsOnion
  <1>6. Reached(p) = Reached(o)
    BY <1>3, <1>4, <1>5
  <1>7. p[1] = Start
    BY <1>0, <1>1 DEF Sound, IsOnion
  <1>8. ASSUME NEW k \in 1..(Len(p) - 1)
        PROVE  p[k + 1] = p[k] \cup ForwardImage(t, p[k])
    <2>1. k \in 1..(Len(o) - 1) /\ k + 1 \in 1..(Len(o) - 1)
      BY <1>1
    <2>2. QED
      BY <2>1, <1>1 DEF Sound, IsOnion
  <1>9. ASSUME NEW k \in 1..Len(p)
        PROVE  p[k] \subseteq Reach(t)
    <2>1. k \in 1..(Len(o) - 1) /\ k \in 1..Len(o)
      BY <1>1
    <2>2. QED
      BY <2>1, <1>1 DEF Sound
  <1>10. Start \subseteq Reached(p)
    BY <1>0, <1>6 DEF Sound
  <1>11. QED
    BY <1>6, <1>7, <1>8, <1>9, <1>10 DEF Sound, IsOnion, p

LEMMA SoundStart ==
    ASSUME NEW t
    PROVE  /\ Sound(t, <<Start>>) /\ Sound(t, <<>>)
           /\ <<Start>> \in Seq(SUBSET State)
           /\ Len(<<Start>>) = 1 /\ <<Start>> # <<>>
           /\ Reached(<<Start>>) = Start /\ Shell(<<Start>>) = Start
           /\ Reached(<<>>) = {} /\ Shell(<<>>) = {}
  <1>1. Start \in SUBSET State
    BY ImageTypes
  <1>2. Start \subseteq Reach(t)
    BY ReachClosed
  <1>3. QED
    BY <1>1, <1>2 DEF Sound, IsOnion, Reached, Shell, Last

-----------------------------------------------------------------------------
(* The steps. *)

\* Every way to begin an expansion.
Starts ==
    /\ ~ Busy
    /\ layers = <<>> \/ ~ computed
    /\ call' \in {NoCall} \cup (Fsm \X Getters)
    /\ \E kind \in {"expand", "timed"}, k \in -1..MaxBudget : StartExpand(kind, k)

LEMMA NextCases ==
    ASSUME TypeOK, [Next]_vars
    PROVE  \/ ExpandStep \/ ExpandEnd
           \/ SearchForward \/ SearchBackward \/ SearchEnd \/ SearchToBmc
           \/ Starts
           \/ \E w \in Fsm : GetReachable(w)
           \/ \E w \in Fsm : GetDeadlock(w)
           \/ \E w \in Fsm : GetFair(w)
           \/ \E w \in Fsm, S \in Overrides : SetReachable(w, S)
           \/ \E t \in Replacements : SetTrans(t)
           \/ \E B \in Bads : CheckInvarGiven(B)
           \/ \E B \in Bads : CheckInvarKnown(B)
           \/ \E B \in Bads : CheckInvarSearch(B)
           \/ UNCHANGED vars
  <1>1. ASSUME NEW k \in {-1} \cup 1..MaxBudget, NEW timed \in BOOLEAN,
               ComputeReachable(k, timed)
        PROVE  Starts
    <2>1. k \in -1..MaxBudget /\ (IF timed THEN "timed" ELSE "expand") \in {"expand", "timed"}
      BY CacheAssumption
    <2>2. QED
      BY <1>1, <2>1 DEF ComputeReachable, Starts, TypeOK
  <1>2. ASSUME Measure
        PROVE  Starts
    <2>1. -1 \in -1..MaxBudget
      BY CacheAssumption
    <2>2. QED
      BY <1>2, <2>1 DEF Measure, Starts, TypeOK
  <1>3. ASSUME NEW w \in Fsm, NEW g \in Getters, AwaitReachable(w, g)
        PROVE  Starts
    <2>1. -1 \in -1..MaxBudget
      BY CacheAssumption
    <2>2. QED
      BY <1>3, <2>1 DEF AwaitReachable, NeedsExpansion, Starts
  <1>4. QED
    BY <1>1, <1>2, <1>3 DEF Next, Continue

LEMMA GrownType ==
    ASSUME TypeOK
    PROVE  /\ Grown \in SUBSET State
           /\ Append(onion, Grown) \in Seq(SUBSET State)
           /\ Reached(Append(onion, Grown)) = Grown
  <1>1. Grown \in SUBSET State
    BY ReachedType, ImageTypes DEF TypeOK, Grown
  <1>2. QED
    BY <1>1, AppendFacts DEF TypeOK

LEMMA TypeStep ==
    ASSUME TypeOK, [Next]_vars
    PROVE  TypeOK'
  <1> USE DEF TypeOK, vars, onionVars, derivedVars, expandVars, searchVars, loopVars
  <1>1. CASE ExpandStep
    <2>1. onion' \in Seq(SUBSET State) /\ frontier' \in SUBSET State
      BY <1>1, GrownType DEF ExpandStep
    <2>2. budget' \in -1..MaxBudget
      BY <1>1, CacheAssumption DEF ExpandStep, Spent
    <2>3. QED
      BY <1>1, <2>1, <2>2 DEF ExpandStep
  <1>2. CASE ExpandEnd
    BY <1>2, TrimFacts, CacheAssumption DEF ExpandEnd, LoopReset, Trimmed
  <1>3. CASE SearchForward
    <2>1. /\ onion' \in Seq(SUBSET State) /\ frontier' \in SUBSET State
          /\ target' \in SUBSET State
      BY <1>3, GrownType DEF SearchForward
    <2>2. QED
      BY <1>3, <2>1 DEF SearchForward
  <1>4. CASE SearchBackward
    BY <1>4, ImageTypes DEF SearchBackward
  <1>5. CASE SearchEnd
    <2>1. layers' \in Seq(SUBSET State) /\ computed' \in BOOLEAN
      BY <1>5 DEF SearchEnd, CacheOnion
    <2>2. verdict' \in (SUBSET State) \X BOOLEAN
      BY <1>5 DEF SearchEnd
    <2>3. QED
      BY <1>5, <2>1, <2>2, CacheAssumption DEF SearchEnd, LoopReset
  <1>6. CASE SearchToBmc
    <2>1. layers' \in Seq(SUBSET State) /\ computed' \in BOOLEAN
      BY <1>6 DEF SearchToBmc, CacheOnion
    <2>2. QED
      BY <1>6, <2>1, CacheAssumption DEF SearchToBmc, LoopReset
  <1>7. CASE Starts
    BY <1>7, SoundStart, ReachedType DEF Starts, StartExpand, ResumedOnion
  <1>8. ASSUME NEW w \in Fsm, GetReachable(w)
        PROVE  TypeOK'
    BY <1>8, ReachedType DEF GetReachable, ReachableStates, Remember, Getters, Option
  <1>9. ASSUME NEW w \in Fsm, GetDeadlock(w)
        PROVE  TypeOK'
    <2>1. notSucc' \in Option
      BY <1>9, ImageTypes DEF GetDeadlock, Option
    <2>2. deadlock' \in Option
      <3>1. NotSuccessorStates(trans) \subseteq State
        BY ImageTypes
      <3>2. notSucc' \in Option /\ (deadlock = NoSet => notSucc' \in SUBSET State)
        BY <1>9, <3>1 DEF GetDeadlock, Option
      <3>3. QED
        BY <1>9, <3>2 DEF GetDeadlock, Option
    <2>3. py' \in [Fsm -> [Getters -> Option]]
      BY <1>9, <2>2 DEF GetDeadlock, Remember, Getters
    <2>4. QED
      BY <1>9, <2>1, <2>2, <2>3 DEF GetDeadlock
  <1>10. ASSUME NEW w \in Fsm, GetFair(w)
         PROVE  TypeOK'
    <2>1. fair' \in Option
      BY <1>10, ImageTypes DEF GetFair, Option
    <2>2. py' \in [Fsm -> [Getters -> Option]]
      BY <1>10, <2>1 DEF GetFair, Remember, Getters
    <2>3. QED
      BY <1>10, <2>1, <2>2 DEF GetFair
  <1>11. ASSUME NEW w \in Fsm, NEW S \in Overrides, SetReachable(w, S)
         PROVE  TypeOK'
    BY <1>11, CacheAssumption DEF SetReachable, Remember, Getters, Option
  <1>12. ASSUME NEW t \in Replacements, SetTrans(t)
         PROVE  TypeOK'
    BY <1>12 DEF SetTrans
  <1>13. ASSUME NEW B \in Bads, CheckInvarGiven(B)
         PROVE  TypeOK'
    BY <1>13, CacheAssumption DEF CheckInvarGiven
  <1>14. ASSUME NEW B \in Bads, CheckInvarKnown(B)
         PROVE  TypeOK'
    BY <1>14, CacheAssumption, SoundStart DEF CheckInvarKnown, SearchOnion
  <1>15. ASSUME NEW B \in Bads, CheckInvarSearch(B)
         PROVE  TypeOK'
    <2>1. SearchOnion \in Seq(SUBSET State)
      BY SoundStart DEF SearchOnion
    <2>2. /\ onion' \in Seq(SUBSET State) /\ frontier' \in SUBSET State
      BY <1>15, <2>1, ReachedType DEF CheckInvarSearch
    <2>3. {bad, badFrontier, target, checked}' \subseteq SUBSET State
      BY <1>15, CacheAssumption DEF CheckInvarSearch
    <2>4. QED
      BY <1>15, <2>2, <2>3 DEF CheckInvarSearch
  <1>16. CASE UNCHANGED vars
    BY <1>16
  <1>17. QED
    BY <1>1, <1>2, <1>3, <1>4, <1>5, <1>6, <1>7, <1>8, <1>9, <1>10, <1>11, <1>12,
       <1>13, <1>14, <1>15, <1>16, NextCases

\* The steps that leave the cached onion and the relation alone.
LEMMA CacheFrame ==
    ASSUME CacheInv, UNCHANGED <<trans, onionVars>>, TransKept' <=> TransKept
    PROVE  CacheInv'
  BY DEF CacheInv, onionVars

LEMMA CacheStep ==
    ASSUME IInv, [Next]_vars
    PROVE  CacheInv'
  <1> USE DEF IInv
  <1>0. layers \in Seq(SUBSET State) /\ onion \in Seq(SUBSET State)
    BY DEF TypeOK
  <1>1. CASE \/ ExpandStep \/ SearchForward \/ SearchBackward \/ Starts
             \/ \E w \in Fsm : GetReachable(w)
             \/ \E w \in Fsm : GetDeadlock(w)
             \/ \E w \in Fsm : GetFair(w)
             \/ \E w \in Fsm, S \in Overrides : SetReachable(w, S)
             \/ \E B \in Bads : CheckInvarGiven(B)
             \/ \E B \in Bads : CheckInvarSearch(B)
             \/ UNCHANGED vars
    <2>1. UNCHANGED <<trans, onionVars>> /\ touched' \in {touched, touched \cup {"reachable"}}
      BY <1>1 DEF ExpandStep, SearchForward, SearchBackward, Starts, StartExpand,
                  GetReachable, GetDeadlock, GetFair, SetReachable, CheckInvarGiven,
                  CheckInvarSearch, vars
    <2>2. TransKept' <=> TransKept
      BY <2>1 DEF TransKept
    <2>3. QED
      BY <2>1, <2>2, CacheFrame
  <1>2. CASE ExpandEnd
    <2>0. /\ trans' = trans /\ touched' = touched
          /\ loop # "none" /\ loop # "search"
          /\ computed' = (frontier = {})
          /\ layers' = IF frontier = {} THEN Trimmed(onion) ELSE onion
          /\ frontier = Shell(onion)
          /\ onion = <<>> <=> Start = {}
          /\ onion # <<>> /\ frontier = {} => Len(onion) > 1
          /\ TransKept => Sound(trans, onion)
      BY <1>2 DEF ExpandEnd, LoopInv
    <2>1. CASE onion = <<>>
      <3>1. frontier = {} /\ layers' = <<>> /\ computed' = TRUE
        BY <2>0, <2>1, SoundStart DEF Trimmed
      <3>2. Sound(trans, <<>>) /\ Reached(<<>>) = Reach(trans)
        BY <2>0, <2>1, SoundStart, ReachNothing
      <3>3. QED
        BY <2>0, <2>1, <3>1, <3>2 DEF CacheInv, TransKept
    <2>2. CASE onion # <<>> /\ frontier = {}
      <3>1. layers' = Trimmed(onion) /\ computed' = TRUE
        BY <2>0, <2>2
      <3>2. Trimmed(onion) # <<>>
        <4>1. Len(onion) > 1 /\ Len(Trimmed(onion)) = Len(onion) - 1
              /\ Len(onion) \in Nat \ {0}
          BY <1>0, <2>0, <2>2, TrimFacts
        <4>2. Len(Trimmed(onion)) # 0
          BY <4>1
        <4>3. QED
          BY <4>2, SoundStart
      <3>3. TransKept => /\ Sound(trans, Trimmed(onion))
                         /\ Reached(Trimmed(onion)) = Reach(trans)
        BY <1>0, <2>0, <2>2, SoundTrimmed, CompleteOnion
      <3>4. QED
        BY <2>0, <2>2, <3>1, <3>2, <3>3 DEF CacheInv, TransKept
    <2>3. CASE onion # <<>> /\ frontier # {}
      <3>1. layers' = onion /\ computed' = FALSE
        BY <2>0, <2>3
      <3>2. QED
        BY <2>0, <2>3, <3>1 DEF CacheInv, TransKept
    <2>4. QED
      BY <2>1, <2>2, <2>3
  <1>3. CASE SearchEnd \/ SearchToBmc
    <2>0. /\ trans' = trans /\ touched' = touched
          /\ loop = "search"
          /\ frontier = Shell(onion)
          /\ Len(onion) > 1 => Start # {}
          /\ TransKept => Sound(trans, onion)
          /\ onion # <<>>
      BY <1>3 DEF SearchEnd, SearchToBmc, Searching, LoopInv, SearchInv
    <2>1. \/ UNCHANGED onionVars
          \/ /\ Len(onion) - 1 > Len(layers)
             /\ layers' = onion
             /\ computed' = (frontier = {})
      BY <1>3 DEF SearchEnd, SearchToBmc, Searching, CacheOnion, Diameter
    <2>2. CASE UNCHANGED onionVars
      BY <2>0, <2>2, CacheFrame DEF TransKept
    <2>3. CASE /\ Len(onion) - 1 > Len(layers)
               /\ layers' = onion
               /\ computed' = (frontier = {})
      <3>1. Len(onion) > 1
        <4>1. Len(onion) \in Nat /\ Len(layers) \in Nat
          BY <1>0, LenProperties
        <4>2. QED
          BY <2>3, <4>1
      <3>2. TransKept /\ frontier = {} => Reached(onion) = Reach(trans)
        BY <1>0, <2>0, CompleteOnion
      <3>3. QED
        BY <2>0, <2>3, <3>1, <3>2 DEF CacheInv, TransKept
    <2>4. QED
      BY <2>1, <2>2, <2>3
  <1>4. ASSUME NEW t \in Replacements, SetTrans(t)
        PROVE  CacheInv'
    <2>1. UNCHANGED onionVars /\ trans' = t
      BY <1>4 DEF SetTrans
    <2>2. CASE t = trans
      BY <1>4, <2>1, <2>2, CacheFrame DEF SetTrans, TransKept
    <2>3. CASE NothingCached
      <3>1. layers' = <<>> /\ computed' = computed
        BY <2>1, <2>3 DEF NothingCached, onionVars
      <3>2. computed => Start = {}
        BY <2>3 DEF NothingCached, CacheInv
      <3>3. Sound(t, <<>>) /\ (Start = {} => Reached(<<>>) = Reach(t))
        BY SoundStart, ReachNothing
      <3>4. QED
        BY <2>1, <3>1, <3>2, <3>3 DEF CacheInv
    <2>4. CASE t # trans /\ ~ NothingCached
      <3>1. ~ TransKept'
        BY <1>4, <2>4 DEF SetTrans, TransKept
      <3>2. QED
        BY <2>1, <3>1 DEF CacheInv, onionVars
    <2>5. QED
      BY <2>2, <2>3, <2>4
  <1>5. ASSUME NEW B \in Bads, CheckInvarKnown(B)
        PROVE  CacheInv'
    <2> DEFINE buggy == Reached(SearchOnion) \cap B \cap Invar # {}
    <2>0. /\ trans' = trans /\ touched' = touched
          /\ buggy \/ computed
          /\ layers' = IF buggy THEN SearchOnion ELSE layers
          /\ computed' = (computed /\ (layers # <<>> \/ ~ buggy))
      BY <1>5 DEF CheckInvarKnown
    <2>1. CASE layers = <<>> /\ buggy
      <3>1. SearchOnion = <<Start>> /\ Start # {}
        BY <2>1, SoundStart DEF SearchOnion
      <3>2. layers' = <<Start>> /\ computed' = FALSE
        BY <2>0, <2>1, <3>1
      <3>3. QED
        BY <2>0, <3>1, <3>2, SoundStart DEF CacheInv, TransKept
    <2>2. CASE layers # <<>> \/ ~ buggy
      <3>1. layers' = layers
        BY <2>0, <2>2 DEF SearchOnion
      <3>2. computed' = computed
        BY <2>0, <2>2 DEF TypeOK
      <3>3. QED
        BY <2>0, <3>1, <3>2, CacheFrame DEF onionVars, TransKept
    <2>3. QED
      BY <2>1, <2>2
  <1>6. QED
    BY <1>1, <1>2, <1>3, <1>4, <1>5, NextCases

\* The steps between two loops.
LEMMA NoLoop ==
    ASSUME \/ ExpandEnd \/ SearchEnd \/ SearchToBmc
           \/ \E w \in Fsm : GetReachable(w)
           \/ \E w \in Fsm : GetDeadlock(w)
           \/ \E w \in Fsm : GetFair(w)
           \/ \E w \in Fsm, S \in Overrides : SetReachable(w, S)
           \/ \E t \in Replacements : SetTrans(t)
           \/ \E B \in Bads : CheckInvarGiven(B)
           \/ \E B \in Bads : CheckInvarKnown(B)
    PROVE  loop' = "none"
  BY DEF ExpandEnd, SearchEnd, SearchToBmc, LoopReset, GetReachable, GetDeadlock,
         GetFair, Runs, SetReachable, SetTrans, CheckInvarGiven, CheckInvarKnown,
         Busy, loopVars

LEMMA ExtendsAppend ==
    ASSUME NEW o \in Seq(SUBSET State), NEW l \in Seq(SUBSET State),
           NEW e \in SUBSET State, Extends(o, l)
    PROVE  Extends(Append(o, e), l)
  <1> DEFINE p == Append(o, e)
             m == Len(l)
             n == Len(o)
  <1>1. Len(p) = n + 1 /\ \A k \in 1..n : p[k] = o[k]
    BY AppendFacts
  <1>2. m \in Nat /\ n \in Nat /\ m <= n /\ \A k \in 1..m : o[k] = l[k]
    BY LenProperties DEF Extends
  <1> HIDE DEF p, m, n
  <1>3. m <= Len(p) /\ \A k \in 1..m : p[k] = l[k]
    BY <1>1, <1>2
  <1>4. QED
    BY <1>3 DEF Extends, p, m, n

LEMMA ExtendsSelf ==
    ASSUME NEW l \in Seq(SUBSET State)
    PROVE  Extends(l, l) /\ \A o \in Seq(SUBSET State) : Extends(o, <<>>)
  BY LenProperties DEF Extends

LEMMA ShortOnions == ~ (Len(<<>>) > 1) /\ ~ (Len(<<Start>>) > 1)
  <1>1. Len(<<>>) = 0 /\ Len(<<Start>>) = 1
    BY SoundStart
  <1>2. ~ (0 > 1) /\ ~ (1 > 1)
    OBVIOUS
  <1>3. QED
    BY <1>1, <1>2

\* What one more layer does to an onion a loop works on.
LEMMA OneMoreLayer ==
    ASSUME TypeOK, LoopInv, loop # "none", onion # <<>>,
           onion' = Append(onion, Grown), frontier' = Grown \ Reached(onion),
           UNCHANGED <<trans, onionVars, touched>>
    PROVE  /\ frontier' = Shell(onion')
           /\ Extends(onion', layers)
           /\ onion' # <<>>
           /\ Len(onion') > 1
           /\ Len(onion') > Len(layers)
           /\ TransKept => Sound(trans, onion')
           /\ Reached(onion') = Reached(onion) \cup frontier'
  <1>1. onion \in Seq(SUBSET State) /\ layers \in Seq(SUBSET State)
    BY DEF TypeOK
  <1>2. Grown = NextLayer(trans, onion) /\ Grown \in SUBSET State
    BY GrownType DEF Grown, NextLayer, LoopInv
  <1>3. frontier' = Shell(onion')
    BY <1>1, <1>2, NextShell
  <1>4. Extends(onion', layers) /\ Extends(onion, layers)
    BY <1>1, <1>2, ExtendsAppend DEF LoopInv
  <1>5. onion' # <<>> /\ Len(onion') = Len(onion) + 1
    BY <1>1, <1>2, AppendFacts
  <1>6. Len(onion') > 1 /\ Len(onion') > Len(layers)
    <2> DEFINE n == Len(onion)
               m == Len(layers)
    <2>1. n \in Nat \ {0} /\ m \in Nat /\ m <= n
      BY <1>1, <1>4, AppendFacts, LenProperties, EmptySeq DEF Extends
    <2>2. Len(onion') = n + 1
      BY <1>5
    <2> HIDE DEF n, m
    <2>3. Len(onion') > 1 /\ Len(onion') > m
      BY <2>1, <2>2
    <2>4. QED
      BY <2>3 DEF m
  <1>7. TransKept => Sound(trans, onion')
    BY <1>1, <1>2, SoundGrows DEF LoopInv
  <1>8. Reached(onion') = Reached(onion) \cup frontier'
    BY <1>1, <1>2, AppendFacts DEF Grown
  <1>9. QED
    BY <1>3, <1>4, <1>5, <1>6, <1>7, <1>8

LEMMA LoopStep ==
    ASSUME IInv, [Next]_vars
    PROVE  LoopInv'
  <1> USE DEF IInv
  <1>0. layers \in Seq(SUBSET State) /\ onion \in Seq(SUBSET State)
    BY DEF TypeOK
  <1>1. CASE ExpandStep
    <2>0. /\ loop' = loop /\ loop # "none" /\ loop # "search" /\ frontier # {}
          /\ onion' = Append(onion, Grown) /\ frontier' = Grown \ Reached(onion)
          /\ UNCHANGED <<trans, onionVars, touched>>
      BY <1>1 DEF ExpandStep
    <2>1. onion # <<>>
      BY <2>0, SoundStart DEF LoopInv
    <2>2. /\ frontier' = Shell(onion') /\ Extends(onion', layers)
          /\ onion' # <<>> /\ Len(onion') > 1 /\ Len(onion') > Len(layers)
          /\ TransKept => Sound(trans, onion')
      BY <2>0, <2>1, OneMoreLayer
    <2>3. Start # {}
      BY <2>0, <2>1 DEF LoopInv
    <2>4. QED
      BY <2>0, <2>2, <2>3 DEF LoopInv, onionVars, TransKept
  <1>2. CASE SearchForward
    <2>0. /\ loop' = loop /\ loop = "search" /\ frontier # {}
          /\ onion' = Append(onion, Grown) /\ frontier' = Grown \ Reached(onion)
          /\ UNCHANGED <<trans, onionVars, touched>>
      BY <1>2 DEF SearchForward, Searching
    <2>1. onion # <<>>
      BY <2>0 DEF SearchInv
    <2>2. /\ frontier' = Shell(onion') /\ Extends(onion', layers)
          /\ onion' # <<>>
          /\ TransKept => Sound(trans, onion')
      BY <2>0, <2>1, OneMoreLayer
    <2>3. Start # {}
      BY <2>0 DEF LoopInv
    <2>4. QED
      BY <2>0, <2>2, <2>3 DEF LoopInv, onionVars, TransKept
  <1>3. CASE SearchBackward \/ UNCHANGED vars
    <2>1. UNCHANGED <<loop, onion, frontier, trans, onionVars, touched>>
      BY <1>3 DEF SearchBackward, vars, expandVars, loopVars
    <2>2. QED
      BY <2>1 DEF LoopInv, onionVars, TransKept
  <1>4. CASE Starts
    <2>0. /\ onion' = ResumedOnion /\ frontier' = Shell(ResumedOnion)
          /\ loop' # "search"
          /\ layers = <<>> \/ ~ computed
          /\ UNCHANGED <<trans, onionVars, touched>>
      BY <1>4 DEF Starts, StartExpand
    <2>1. CASE layers # <<>>
      <3>1. onion' = layers /\ Start # {} /\ Shell(layers) # {} /\ ~ computed
        BY <2>0, <2>1 DEF ResumedOnion, CacheInv
      <3>2. QED
        BY <1>0, <2>0, <2>1, <3>1, ExtendsSelf DEF LoopInv, CacheInv, onionVars, TransKept
    <2>2. CASE layers = <<>> /\ Start = {}
      <3>1. onion' = <<>> /\ frontier' = {}
        BY <2>0, <2>2, SoundStart DEF ResumedOnion
      <3>2. Extends(<<>>, <<>>)
        BY <1>0, <2>2, ExtendsSelf
      <3>3. QED
        BY <2>0, <2>2, <3>1, <3>2, SoundStart, ShortOnions DEF LoopInv, onionVars, TransKept
    <2>3. CASE layers = <<>> /\ Start # {}
      <3>1. onion' = <<Start>> /\ frontier' = Start
        BY <2>0, <2>3, SoundStart DEF ResumedOnion
      <3>2. Extends(<<Start>>, <<>>)
        BY ExtendsSelf, SoundStart
      <3>3. QED
        BY <2>0, <2>3, <3>1, <3>2, SoundStart DEF LoopInv, onionVars, TransKept
    <2>4. QED
      BY <2>1, <2>2, <2>3
  <1>5. ASSUME NEW B \in Bads, CheckInvarSearch(B)
        PROVE  LoopInv'
    <2>0. /\ onion' = SearchOnion /\ frontier' = Shell(SearchOnion)
          /\ loop' = "search" /\ ~ computed
          /\ UNCHANGED <<trans, onionVars, touched>>
      BY <1>5 DEF CheckInvarSearch
    <2>1. CASE layers # <<>>
      <3>1. onion' = layers /\ Start # {}
        BY <2>0, <2>1 DEF SearchOnion, CacheInv
      <3>2. QED
        BY <1>0, <2>0, <2>1, <3>1, ExtendsSelf DEF LoopInv, CacheInv, onionVars,
           TransKept, SearchOnion
    <2>2. CASE layers = <<>>
      <3>1. onion' = <<Start>> /\ frontier' = Start
        BY <2>0, <2>2, SoundStart DEF SearchOnion
      <3>2. Extends(<<Start>>, <<>>) /\ ~ (Len(<<Start>>) > 1)
        BY ExtendsSelf, SoundStart, ShortOnions
      <3>3. QED
        BY <2>0, <2>2, <3>1, <3>2, SoundStart DEF LoopInv, onionVars, TransKept
    <2>3. QED
      BY <2>1, <2>2
  <1>6. QED
    BY <1>1, <1>2, <1>3, <1>4, <1>5, NextCases, NoLoop DEF LoopInv

\* The states a round of the backward search adds.
LEMMA BackwardRound ==
    ASSUME NEW t, NEW S, NEW F, F \subseteq S, BackwardImage(t, S \ F) \subseteq S
    PROVE  /\ BackwardImage(t, S) \subseteq S \cup BackwardImage(t, F)
           /\ Reach(t) \cap S = {} => Reach(t) \cap BackwardImage(t, F) = {}
  <1>1. BackwardImage(t, S) \subseteq S \cup BackwardImage(t, F)
    BY DEF BackwardImage
  <1>2. ASSUME Reach(t) \cap S = {}, NEW s \in Reach(t) \cap BackwardImage(t, F)
        PROVE  FALSE
    <2>1. PICK q \in F \cap Invar, i \in InvarInput : <<s, i, q>> \in t
      BY <1>2 DEF BackwardImage
    <2>2. q \in ForwardImage(t, Reach(t))
      BY <1>2, <2>1, ReachInvar DEF ForwardImage
    <2>3. QED
      BY <1>2, <2>1, <2>2, ReachClosed
  <1>3. QED
    BY <1>1, <1>2

\* Bad states none of whose predecessors is outside them, and none initial,
\* are unreachable.
LEMMA BackwardClosed ==
    ASSUME NEW t, NEW S, BackwardImage(t, S) \subseteq S, Start \cap S = {}
    PROVE  Reach(t) \cap S = {}
  <1>1. ForwardImage(t, Invar \ S) \subseteq Invar \ S
    BY DEF ForwardImage, BackwardImage
  <1>2. Closed(t, Invar \ S) /\ Invar \ S \in SUBSET State
    BY <1>1, ImageTypes DEF Closed
  <1>3. QED
    BY <1>2, ReachLeast

LEMMA SearchStep ==
    ASSUME IInv, [Next]_vars
    PROVE  SearchInv'
  <1> USE DEF IInv
  <1>1. CASE SearchForward
    <2>0. /\ loop' = loop /\ loop = "search" /\ target = {}
          /\ onion' = Append(onion, Grown) /\ frontier' = Grown \ Reached(onion)
          /\ target' = bad \cap frontier'
          /\ UNCHANGED <<trans, layers, computed, touched>>
          /\ UNCHANGED <<bad, badFrontier, checked>>
      BY <1>1 DEF SearchForward, Searching, onionVars
    <2>1. onion' # <<>> /\ Reached(onion') = Reached(onion) \cup frontier'
      <3>1. onion # <<>> /\ UNCHANGED <<trans, onionVars, touched>>
        BY <2>0 DEF SearchInv, onionVars
      <3>2. QED
        BY <2>0, <3>1, OneMoreLayer
    <2>2. (target' = {}) <=> (Reached(onion') \cap bad' = {})
      BY <2>0, <2>1 DEF SearchInv
    <2>3. QED
      BY <2>0, <2>1, <2>2 DEF SearchInv, TransKept
  <1>2. CASE SearchBackward
    <2>0. /\ loop' = loop /\ loop = "search"
          /\ bad' = bad \cup BackwardImage(trans, badFrontier)
          /\ badFrontier' = bad' \ bad
          /\ target' = bad' \cap Reached(onion)
          /\ UNCHANGED <<trans, layers, computed, touched, checked, onion, frontier>>
      BY <1>2 DEF SearchBackward, Searching, onionVars, expandVars
    <2>1. /\ badFrontier \subseteq bad
          /\ BackwardImage(trans, bad \ badFrontier) \subseteq bad
      BY <2>0 DEF SearchInv
    <2>2. /\ BackwardImage(trans, bad) \subseteq bad'
          /\ Reach(trans) \cap bad = {} => Reach(trans) \cap bad' = {}
      BY <2>0, <2>1, BackwardRound
    <2>3. bad' \ badFrontier' = bad /\ badFrontier' \subseteq bad' /\ bad \subseteq bad'
      BY <2>0
    <2>4. (target' = {}) <=> (Reached(onion') \cap bad' = {})
      BY <2>0
    <2>5. QED
      BY <2>0, <2>2, <2>3, <2>4 DEF SearchInv, TransKept
  <1>3. ASSUME NEW B \in Bads, CheckInvarSearch(B)
        PROVE  SearchInv'
    <2>0. /\ ~ computed /\ onion' = SearchOnion
          /\ Reached(SearchOnion) \cap B \cap Invar = {}
          /\ bad' = B \cap Invar /\ badFrontier' = B \cap Invar
          /\ target' = {} /\ checked' = B
          /\ UNCHANGED <<trans, layers, computed, touched>>
      BY <1>3, IInv DEF CheckInvarSearch, onionVars, TypeOK
    <2>1. onion' # <<>>
      BY <2>0, SoundStart DEF SearchOnion
    <2>2. BackwardImage(trans, {}) = {}
      BY DEF BackwardImage
    <2>3. bad' \ badFrontier' = {}
      BY <2>0
    <2>4. (target' = {}) <=> (Reached(onion') \cap bad' = {})
      BY <2>0
    <2>5. QED
      BY <2>0, <2>1, <2>2, <2>3, <2>4 DEF SearchInv
  <1>4. CASE UNCHANGED vars
    BY <1>4 DEF SearchInv, vars, loopVars, expandVars, searchVars, onionVars, TransKept
  <1>5. CASE ExpandStep \/ Starts
    <2>1. loop' # "search"
      BY <1>5 DEF ExpandStep, Starts, StartExpand
    <2>2. QED
      BY <2>1 DEF SearchInv
  <1>6. QED
    BY <1>1, <1>2, <1>3, <1>4, <1>5, NextCases, NoLoop DEF SearchInv

LEMMA DerivedFrame ==
    ASSUME DerivedInv, UNCHANGED <<trans, derivedVars, touched>>
    PROVE  DerivedInv'
  BY DEF DerivedInv, derivedVars, TransKept, Untouched

\* Without a setter the getters see the reachable states.
LEMMA ReachableStatesRight ==
    ASSUME CacheInv, DerivedInv, Untouched, ~ NeedsExpansion
    PROVE  override = NoSet /\ computed /\ ReachableStates = Reach(trans)
  <1>1. TransKept /\ override = NoSet
    BY DEF Untouched, TransKept, DerivedInv
  <1>2. QED
    BY <1>1 DEF NeedsExpansion, ReachableStates, CacheInv

LEMMA DerivedStep ==
    ASSUME IInv, [Next]_vars
    PROVE  DerivedInv'
  <1> USE DEF IInv
  <1>1. CASE \/ ExpandStep \/ ExpandEnd \/ SearchForward \/ SearchBackward
             \/ SearchEnd \/ SearchToBmc \/ Starts
             \/ \E w \in Fsm : GetReachable(w)
             \/ \E B \in Bads : CheckInvarGiven(B)
             \/ \E B \in Bads : CheckInvarKnown(B)
             \/ \E B \in Bads : CheckInvarSearch(B)
             \/ UNCHANGED vars
    <2>1. UNCHANGED <<trans, derivedVars, touched>>
      BY <1>1 DEF ExpandStep, ExpandEnd, SearchForward, SearchBackward, SearchEnd,
                  SearchToBmc, Starts, StartExpand, GetReachable, CheckInvarGiven,
                  CheckInvarKnown, CheckInvarSearch, vars
    <2>2. QED
      BY <2>1, DerivedFrame
  <1>2. ASSUME NEW w \in Fsm, GetDeadlock(w)
        PROVE  DerivedInv'
    <2>0. /\ deadlock # NoSet \/ ~ NeedsExpansion
          /\ notSucc' = IF deadlock = NoSet /\ notSucc = NoSet
                        THEN NotSuccessorStates(trans) ELSE notSucc
          /\ deadlock' = IF deadlock = NoSet
                         THEN ReachableStates \cap notSucc' ELSE deadlock
          /\ UNCHANGED <<trans, override, fair, touched>>
      BY <1>2 DEF GetDeadlock
    <2>1. TransKept => notSucc' \in {NoSet, NotSuccessorStates(trans)}
      BY <2>0 DEF DerivedInv
    <2>2. Untouched => deadlock' \in {NoSet, Reach(trans) \cap NotSuccessorStates(trans)}
      <3>1. CASE deadlock # NoSet
        BY <2>0, <3>1 DEF DerivedInv
      <3>2. CASE deadlock = NoSet
        <4>1. NotSuccessorStates(trans) \in SUBSET State
          BY ImageTypes
        <4>2. Untouched => notSucc' = NotSuccessorStates(trans)
          BY <2>0, <3>2, <2>1, <4>1, CacheAssumption DEF Untouched, TransKept
        <4>3. Untouched => ReachableStates = Reach(trans)
          BY <2>0, <3>2, ReachableStatesRight
        <4>4. QED
          BY <2>0, <3>2, <4>2, <4>3
      <3>3. QED
        BY <3>1, <3>2
    <2>3. QED
      BY <2>0, <2>1, <2>2 DEF DerivedInv, TransKept, Untouched
  <1>3. ASSUME NEW w \in Fsm, GetFair(w)
        PROVE  DerivedInv'
    <2>0. /\ fair # NoSet \/ ~ UseReachable \/ ~ NeedsExpansion
          /\ fair' = IF fair = NoSet THEN FairStates(trans, Universe(ReachableStates))
                     ELSE fair
          /\ UNCHANGED <<trans, override, notSucc, deadlock, touched>>
      BY <1>3 DEF GetFair, Universe
    <2>1. Untouched => fair' \in {NoSet, FairStates(trans, Universe(Reach(trans)))}
      <3>1. CASE fair # NoSet
        BY <2>0, <3>1 DEF DerivedInv
      <3>2. CASE fair = NoSet
        <4>1. Untouched /\ UseReachable => ReachableStates = Reach(trans)
          BY <2>0, <3>2, ReachableStatesRight
        <4>2. Untouched => Universe(ReachableStates) = Universe(Reach(trans))
          BY <4>1 DEF Universe
        <4>3. QED
          BY <2>0, <3>2, <4>2
      <3>3. QED
        BY <3>1, <3>2
    <2>2. QED
      BY <2>0, <2>1 DEF DerivedInv, TransKept, Untouched
  <1>4. ASSUME NEW w \in Fsm, NEW S \in Overrides, SetReachable(w, S)
        PROVE  DerivedInv'
    <2>1. /\ touched' = touched \cup {"reachable"}
          /\ UNCHANGED <<trans, notSucc, deadlock, fair>>
      BY <1>4 DEF SetReachable
    <2>2. "reachable" \in touched' /\ (TransKept' <=> TransKept) /\ ~ Untouched'
      BY <2>1 DEF TransKept, Untouched
    <2>3. QED
      BY <2>1, <2>2 DEF DerivedInv
  <1>5. ASSUME NEW t \in Replacements, SetTrans(t)
        PROVE  DerivedInv'
    <2>0. /\ trans' = t /\ UNCHANGED derivedVars
          /\ touched' = IF t = trans \/ NothingCached THEN touched
                        ELSE touched \cup {"trans"}
      BY <1>5 DEF SetTrans
    <2>1. CASE t = trans
      BY <2>0, <2>1, DerivedFrame
    <2>2. CASE NothingCached
      BY <2>0, <2>2 DEF NothingCached, DerivedInv, derivedVars
    <2>3. CASE t # trans /\ ~ NothingCached
      <3>1. "trans" \in touched' /\ touched \subseteq touched'
        BY <2>0, <2>3
      <3>2. ~ TransKept' /\ ~ Untouched'
        BY <3>1 DEF TransKept, Untouched
      <3>3. QED
        BY <2>0, <3>1, <3>2 DEF DerivedInv, derivedVars
    <2>4. QED
      BY <2>1, <2>2, <2>3
  <1>6. QED
    BY <1>1, <1>2, <1>3, <1>4, <1>5, NextCases

\* What a Python object remembers stays right while the cached onion does not
\* change under a complete one.
LEMMA PyFrame ==
    ASSUME PyInv, UNCHANGED <<py, deadlock, fair>>, touched \subseteq touched',
           computed => computed' /\ Reached(layers)' = Reached(layers)
    PROVE  PyInv'
  BY DEF PyInv

\* No loop changes a complete onion, and no call to check_invar does.
LEMMA CompleteStays ==
    ASSUME IInv, computed,
           \/ ExpandStep \/ ExpandEnd \/ SearchForward \/ SearchBackward
           \/ SearchEnd \/ SearchToBmc \/ Starts
           \/ \E B \in Bads : CheckInvarGiven(B)
           \/ \E B \in Bads : CheckInvarKnown(B)
           \/ \E B \in Bads : CheckInvarSearch(B)
           \/ UNCHANGED vars
    PROVE  computed' = TRUE /\ layers' = layers
  <1> USE DEF IInv
  <1>0. computed = TRUE
    BY DEF TypeOK
  <1>1. CASE ExpandEnd
    <2>0. /\ loop # "none" /\ loop # "search"
          /\ computed' = (frontier = {})
          /\ layers' = IF frontier = {} THEN Trimmed(onion) ELSE onion
      BY <1>1 DEF ExpandEnd
    <2>1. layers = <<>> /\ Start = {}
      BY <2>0 DEF LoopInv, CacheInv
    <2>2. frontier = {} /\ onion = <<>>
      BY <2>0, <2>1 DEF LoopInv
    <2>3. QED
      BY <2>0, <2>1, <2>2 DEF Trimmed
  <1>2. CASE \E B \in Bads : CheckInvarKnown(B)
    <2>1. PICK B \in Bads : CheckInvarKnown(B)
      BY <1>2
    <2> DEFINE buggy == Reached(SearchOnion) \cap B \cap Invar # {}
    <2>2. /\ layers' = IF buggy THEN SearchOnion ELSE layers
          /\ computed' = (computed /\ (layers # <<>> \/ ~ buggy))
      BY <2>1 DEF CheckInvarKnown
    <2>3. CASE layers = <<>>
      <3>1. SearchOnion = <<Start>> /\ Start = {}
        BY <2>3 DEF SearchOnion, CacheInv
      <3>2. ~ buggy
        BY <3>1, SoundStart
      <3>3. QED
        BY <1>0, <2>2, <3>2
    <2>4. CASE layers # <<>>
      BY <1>0, <2>2, <2>4 DEF SearchOnion
    <2>5. QED
      BY <2>3, <2>4
  <1>3. CASE SearchForward \/ SearchBackward \/ SearchEnd \/ SearchToBmc
             \/ \E B \in Bads : CheckInvarSearch(B)
    <2>1. CASE \E B \in Bads : CheckInvarSearch(B)
      BY <2>1 DEF CheckInvarSearch
    <2>2. CASE SearchForward \/ SearchBackward \/ SearchEnd \/ SearchToBmc
      BY <2>2 DEF SearchForward, SearchBackward, SearchEnd, SearchToBmc, Searching,
                  SearchInv
    <2>3. QED
      BY <1>3, <2>1, <2>2
  <1>4. CASE ExpandStep \/ Starts \/ (\E B \in Bads : CheckInvarGiven(B))
             \/ UNCHANGED vars
    BY <1>0, <1>4 DEF ExpandStep, Starts, StartExpand, CheckInvarGiven, onionVars, vars
  <1>5. QED
    BY <1>1, <1>2, <1>3, <1>4

LEMMA PyStep ==
    ASSUME IInv, [Next]_vars
    PROVE  PyInv'
  <1> USE DEF IInv
  <1>0. py \in [Fsm -> [Getters -> Option]] /\ Getters = {"reachable", "deadlock", "fair"}
    BY DEF TypeOK, Getters
  <1>1. CASE \/ ExpandStep \/ ExpandEnd \/ SearchForward \/ SearchBackward
             \/ SearchEnd \/ SearchToBmc \/ Starts
             \/ \E B \in Bads : CheckInvarGiven(B)
             \/ \E B \in Bads : CheckInvarKnown(B)
             \/ \E B \in Bads : CheckInvarSearch(B)
             \/ UNCHANGED vars
    <2>1. UNCHANGED <<py, deadlock, fair, touched>>
      BY <1>1 DEF ExpandStep, ExpandEnd, SearchForward, SearchBackward, SearchEnd,
                  SearchToBmc, Starts, StartExpand, CheckInvarGiven, CheckInvarKnown,
                  CheckInvarSearch, vars, derivedVars
    <2>2. computed => computed' /\ Reached(layers)' = Reached(layers)
      BY <1>1, CompleteStays
    <2>3. QED
      BY <2>1, <2>2, PyFrame
  <1>2. ASSUME NEW w \in Fsm, GetReachable(w)
        PROVE  PyInv'
    <2>0. /\ ~ NeedsExpansion
          /\ py' = [py EXCEPT ![w]["reachable"] = ReachableStates]
          /\ UNCHANGED <<layers, computed, deadlock, fair, touched>>
      BY <1>2 DEF GetReachable, Remember, onionVars, derivedVars
    <2>1. "reachable" \in touched
          \/ (computed /\ ReachableStates = Reached(layers))
      BY <2>0 DEF NeedsExpansion, ReachableStates, DerivedInv
    <2>2. QED
      BY <1>0, <2>0, <2>1 DEF PyInv
  <1>3. ASSUME NEW w \in Fsm, GetDeadlock(w)
        PROVE  PyInv'
    <2>0. /\ py' = [py EXCEPT ![w]["deadlock"] = deadlock']
          /\ deadlock # NoSet => deadlock' = deadlock
          /\ UNCHANGED <<layers, computed, fair, touched>>
      BY <1>3 DEF GetDeadlock, Remember, onionVars
    <2>1. QED
      BY <1>0, <2>0 DEF PyInv
  <1>4. ASSUME NEW w \in Fsm, GetFair(w)
        PROVE  PyInv'
    <2>0. /\ py' = [py EXCEPT ![w]["fair"] = fair']
          /\ fair # NoSet => fair' = fair
          /\ UNCHANGED <<layers, computed, deadlock, touched>>
      BY <1>4 DEF GetFair, Remember, onionVars
    <2>1. QED
      BY <1>0, <2>0 DEF PyInv
  <1>5. ASSUME NEW w \in Fsm, NEW S \in Overrides, SetReachable(w, S)
        PROVE  PyInv'
    <2>0. /\ py' = [py EXCEPT ![w]["reachable"] = S]
          /\ touched' = touched \cup {"reachable"}
          /\ UNCHANGED <<deadlock, fair>>
      BY <1>5 DEF SetReachable, Remember
    <2>1. QED
      BY <1>0, <2>0 DEF PyInv
  <1>6. ASSUME NEW t \in Replacements, SetTrans(t)
        PROVE  PyInv'
    <2>1. UNCHANGED <<py, deadlock, fair, layers, computed>> /\ touched \subseteq touched'
      BY <1>6 DEF SetTrans, derivedVars, onionVars
    <2>2. QED
      BY <2>1, PyFrame
  <1>7. QED
    BY <1>1, <1>2, <1>3, <1>4, <1>5, <1>6, NextCases

\* The two ways the search ends.
LEMMA SearchVerdict ==
    ASSUME IInv, loop = "search", ~ Searching, Untouched
    PROVE  (target = {}) <=> (Reach(trans) \cap checked = {})
  <1> USE DEF IInv
  <1>0. /\ onion \in Seq(SUBSET State) /\ onion # <<>> /\ Sound(trans, onion)
        /\ frontier = Shell(onion) /\ TransKept
        /\ checked \cap Invar \subseteq bad
        /\ Reach(trans) \cap checked = {} => Reach(trans) \cap bad = {}
        /\ (target = {}) <=> (Reached(onion) \cap bad = {})
    BY DEF TypeOK, LoopInv, SearchInv, Untouched, TransKept
  <1>1. Reached(onion) \subseteq Reach(trans) /\ Start \subseteq Reached(onion)
    BY <1>0, NonEmptyOnion DEF Sound
  <1>2. Reach(trans) \cap bad = {} => Reach(trans) \cap checked = {}
    BY <1>0, ReachInvar
  <1>3. CASE target # {}
    BY <1>0, <1>1, <1>3
  <1>4. CASE target = {} /\ frontier = {}
    <2>1. Reached(onion) = Reach(trans)
      BY <1>0, <1>4, CompleteOnion
    <2>2. QED
      BY <1>0, <1>2, <1>4, <2>1
  <1>5. CASE target = {} /\ badFrontier = {}
    <2>1. bad \ badFrontier = bad
      BY <1>5
    <2>2. BackwardImage(trans, bad) \subseteq bad
      BY <2>1 DEF SearchInv
    <2>3. Start \cap bad = {}
      BY <1>0, <1>1, <1>5
    <2>4. Reach(trans) \cap bad = {}
      BY <2>2, <2>3, BackwardClosed
    <2>5. QED
      BY <1>2, <1>5, <2>4
  <1>6. QED
    BY <1>3, <1>4, <1>5 DEF Searching

LEMMA VerdictStep ==
    ASSUME IInv, [Next]_vars
    PROVE  VerdictRight'
  <1> USE DEF IInv
  <1>1. CASE \/ ExpandStep \/ ExpandEnd \/ SearchForward \/ SearchBackward
             \/ UNCHANGED vars
    <2>1. UNCHANGED <<trans, touched, verdict>>
      BY <1>1 DEF ExpandStep, ExpandEnd, SearchForward, SearchBackward, vars
    <2>2. QED
      BY <2>1 DEF VerdictRight, Untouched
  <1>2. CASE \/ SearchToBmc \/ Starts
             \/ \E w \in Fsm : GetReachable(w)
             \/ \E w \in Fsm : GetDeadlock(w)
             \/ \E w \in Fsm : GetFair(w)
             \/ \E w \in Fsm, S \in Overrides : SetReachable(w, S)
             \/ \E t \in Replacements : SetTrans(t)
             \/ \E B \in Bads : CheckInvarSearch(B)
    <2>1. verdict' = NoVerdict
      BY <1>2 DEF SearchToBmc, Starts, StartExpand, GetReachable, GetDeadlock, GetFair,
                  SetReachable, SetTrans, CheckInvarSearch
    <2>2. QED
      BY <2>1 DEF VerdictRight
  <1>3. CASE SearchEnd
    <2>1. /\ verdict' = <<checked, target = {}>> /\ UNCHANGED <<trans, touched>>
          /\ loop = "search" /\ ~ Searching
      BY <1>3 DEF SearchEnd
    <2>2. Untouched => ((target = {}) <=> (Reach(trans) \cap checked = {}))
      BY <2>1, SearchVerdict
    <2>3. QED
      BY <2>1, <2>2 DEF VerdictRight, Untouched
  <1>4. ASSUME NEW B \in Bads, CheckInvarGiven(B)
        PROVE  VerdictRight'
    <2>1. override # NoSet /\ touched' = touched
      BY <1>4 DEF CheckInvarGiven
    <2>2. ~ Untouched'
      BY <2>1 DEF DerivedInv, Untouched
    <2>3. QED
      BY <2>2 DEF VerdictRight
  <1>5. ASSUME NEW B \in Bads, CheckInvarKnown(B)
        PROVE  VerdictRight'
    <2> DEFINE buggy == Reached(SearchOnion) \cap B \cap Invar # {}
    <2>0. /\ buggy \/ computed
          /\ verdict' = <<B, ~ buggy>>
          /\ UNCHANGED <<trans, touched>>
      BY <1>5 DEF CheckInvarKnown
    <2>1. SUFFICES ASSUME Untouched
                   PROVE  (~ buggy) <=> (Reach(trans) \cap B = {})
      BY <2>0 DEF VerdictRight, Untouched
    <2>2. layers \in Seq(SUBSET State) /\ Sound(trans, layers) /\ TransKept
      BY <2>1 DEF TypeOK, CacheInv, Untouched, TransKept
    <2>3. Reached(SearchOnion) \subseteq Reach(trans)
      <3>1. CASE layers # <<>>
        BY <2>2, <3>1, NonEmptyOnion DEF Sound, SearchOnion
      <3>2. CASE layers = <<>>
        BY <3>2, SoundStart, ReachClosed DEF SearchOnion
      <3>3. QED
        BY <3>1, <3>2
    <2>4. CASE buggy
      BY <2>3, <2>4
    <2>5. CASE ~ buggy /\ layers # <<>>
      <3>1. Reached(SearchOnion) = Reach(trans)
        BY <2>0, <2>2, <2>5 DEF CacheInv, SearchOnion
      <3>2. QED
        BY <2>5, <3>1, ReachInvar
    <2>6. CASE ~ buggy /\ layers = <<>>
      <3>1. Reach(trans) = {}
        BY <2>0, <2>6, ReachNothing DEF CacheInv
      <3>2. QED
        BY <2>6, <3>1
    <2>7. QED
      BY <2>4, <2>5, <2>6
  <1>6. QED
    BY <1>1, <1>2, <1>3, <1>4, <1>5, NextCases

-----------------------------------------------------------------------------
(* The theorems. *)

LEMMA InitInv == Init => IInv
  <1> SUFFICES ASSUME Init PROVE IInv
    OBVIOUS
  <1>1. TypeOK
    <2>1. layers \in Seq(SUBSET State) /\ onion \in Seq(SUBSET State)
      BY EmptySeq DEF Init
    <2>2. py \in [Fsm -> [Getters -> Option]]
      BY DEF Init, Option
    <2>3. budget \in -1..MaxBudget
      BY CacheAssumption DEF Init
    <2>4. computed \in BOOLEAN /\ verdict = NoVerdict /\ call = NoCall
      BY DEF Init
    <2>5. QED
      BY <2>1, <2>2, <2>3, <2>4 DEF Init, TypeOK, Option
  <1>2. Len(<<>>) = 0 /\ Reached(<<>>) = {} /\ Sound(trans, <<>>)
    BY SoundStart
  <1>3. CacheInv /\ LoopInv /\ SearchInv
    BY <1>2 DEF Init, CacheInv, LoopInv, SearchInv
  <1>4. DerivedInv /\ PyInv /\ VerdictRight
    BY DEF Init, DerivedInv, PyInv, VerdictRight, Getters
  <1>5. QED
    BY <1>1, <1>3, <1>4 DEF IInv

LEMMA StepInv == IInv /\ [Next]_vars => IInv'
  <1> SUFFICES ASSUME IInv, [Next]_vars PROVE IInv'
    OBVIOUS
  <1>1. TypeOK'
    BY TypeStep DEF IInv
  <1>2. QED
    BY <1>1, CacheStep, LoopStep, SearchStep, DerivedStep, PyStep, VerdictStep DEF IInv

\* The conjunction above is an invariant of every FSM.
THEOREM Invariance == Spec => []IInv
  <1>1. QED
    BY InitInv, StepInv, PTL DEF Spec

\* Every variable keeps its type: in particular every set a getter returns is a
\* set of states.
THEOREM TypeCorrect == Spec => []TypeOK
  <1>1. IInv => TypeOK
    BY DEF IInv
  <1>2. QED
    BY <1>1, Invariance, PTL

\* The cache holds the breadth-first onion, whatever mix of limited expansions
\* (BddFsm.c:2013-2228) and searches (mcInvar.c:1066-1484) has filled it.
THEOREM LayersCorrect == Spec => []LayersAreOnion
  <1>1. IInv => LayersAreOnion
    BY DEF IInv, CacheInv, Sound, IsOnion, LayersAreOnion
  <1>2. QED
    BY <1>1, Invariance, PTL

\* Without a setter every cached set, in C and in Python, is current.
THEOREM SetsCorrect == Spec => []SetsAreCurrent
  <1>1. ASSUME IInv
        PROVE  SetsAreCurrent
    <2> DEFINE none == {s \in Invar : ForwardImage(trans, {s}) = {}}
               just == FairStates(trans, Universe(Reach(trans)))
    <2>1. NotSuccessorStates(trans) = none
      BY NoSuccessor
    <2>2. TransKept => notSucc \in {NoSet, none}
      BY <1>1, <2>1 DEF IInv, DerivedInv
    <2>3. Untouched => /\ deadlock \in {NoSet, none \cap Reach(trans)}
                       /\ fair \in {NoSet, just}
      BY <1>1, <2>1 DEF IInv, DerivedInv
    <2>4. ASSUME Untouched, NEW w \in Fsm
          PROVE  /\ py[w]["reachable"] \in {NoSet, Reach(trans)}
                 /\ py[w]["deadlock"] \in {NoSet, none \cap Reach(trans)}
                 /\ py[w]["fair"] \in {NoSet, just}
      <3>1. "reachable" \notin touched /\ TransKept
        BY <2>4 DEF Untouched, TransKept
      <3>2. computed => Reached(layers) = Reach(trans)
        BY <1>1, <3>1 DEF IInv, CacheInv
      <3>3. QED
        BY <1>1, <2>3, <2>4, <3>1, <3>2 DEF IInv, PyInv
    <2>5. QED
      BY <2>2, <2>3, <2>4 DEF SetsAreCurrent, Universe
  <1>2. QED
    BY <1>1, Invariance, PTL

\* Python objects over one FSM agree (fsm.py:158-196).
THEOREM AgreementCorrect == Spec => []ObjectsAgree
  <1>1. IInv => ObjectsAgree
    BY DEF IInv, PyInv, ObjectsAgree, Getters
  <1>2. QED
    BY <1>1, Invariance, PTL

\* check_invar answers right, in whatever order its two searches advance.
THEOREM VerdictCorrect == Spec => []VerdictRight
  <1>1. IInv => VerdictRight
    BY DEF IInv
  <1>2. QED
    BY <1>1, Invariance, PTL

LEMMA LayersStep ==
    ASSUME IInv, [Next]_vars
    PROVE  Extends(layers', layers)
  <1> USE DEF IInv
  <1>0. layers \in Seq(SUBSET State) /\ onion \in Seq(SUBSET State)
    BY DEF TypeOK
  <1>1. CASE UNCHANGED layers
    BY <1>0, <1>1, ExtendsSelf
  <1>2. CASE ExpandEnd
    <2>0. /\ loop # "none" /\ loop # "search" /\ Extends(onion, layers)
          /\ layers' = IF frontier = {} THEN Trimmed(onion) ELSE onion
          /\ onion # <<>> /\ frontier = {} => Len(onion) > Len(layers)
      BY <1>2 DEF ExpandEnd, LoopInv
    <2>1. CASE frontier # {} \/ onion = <<>>
      BY <2>0, <2>1 DEF Trimmed
    <2>2. CASE frontier = {} /\ onion # <<>>
      <3> DEFINE n == Len(onion)
                 m == Len(layers)
                 p == Trimmed(onion)
      <3>1. /\ Len(p) = n - 1 /\ \A k \in 1..(n - 1) : p[k] = onion[k]
            /\ n \in Nat \ {0}
        BY <1>0, <2>2, TrimFacts
      <3>2. m \in Nat /\ n > m /\ \A k \in 1..m : onion[k] = layers[k]
        BY <1>0, <2>0, <2>2, LenProperties DEF Extends
      <3> HIDE DEF n, m, p
      <3>3. m <= Len(p) /\ \A k \in 1..m : p[k] = layers[k]
        BY <3>1, <3>2
      <3>4. Extends(p, layers) /\ layers' = p
        BY <2>0, <2>2, <3>3 DEF Extends, m, p
      <3>5. QED
        BY <3>4
    <2>3. QED
      BY <2>1, <2>2
  <1>3. CASE SearchEnd \/ SearchToBmc
    <2>1. layers' \in {layers, onion} /\ loop = "search"
      BY <1>3 DEF SearchEnd, SearchToBmc, Searching, CacheOnion, onionVars
    <2>2. QED
      BY <1>0, <2>1, ExtendsSelf DEF LoopInv
  <1>4. ASSUME NEW B \in Bads, CheckInvarKnown(B)
        PROVE  Extends(layers', layers)
    <2>1. layers' \in {layers, SearchOnion}
      BY <1>4 DEF CheckInvarKnown
    <2>2. QED
      BY <1>0, <2>1, SoundStart, ExtendsSelf DEF SearchOnion
  <1>5. QED
    BY <1>1, <1>2, <1>3, <1>4, NextCases
       DEF ExpandStep, SearchForward, SearchBackward, Starts, StartExpand, GetReachable,
           GetDeadlock, GetFair, SetReachable, SetTrans, CheckInvarGiven,
           CheckInvarSearch, vars, onionVars

\* No call shortens or rewrites the cached onion, or forgets it is complete.
THEOREM GrowthCorrect == Spec => OnionOnlyGrows
  <1>1. ASSUME IInv, [Next]_vars
        PROVE  computed => computed'
    <2>1. CASE \/ ExpandStep \/ ExpandEnd \/ SearchForward \/ SearchBackward
               \/ SearchEnd \/ SearchToBmc \/ Starts
               \/ \E B \in Bads : CheckInvarGiven(B)
               \/ \E B \in Bads : CheckInvarKnown(B)
               \/ \E B \in Bads : CheckInvarSearch(B)
               \/ UNCHANGED vars
      BY <1>1, <2>1, CompleteStays
    <2>2. CASE \/ \E w \in Fsm : GetReachable(w)
               \/ \E w \in Fsm : GetDeadlock(w)
               \/ \E w \in Fsm : GetFair(w)
               \/ \E w \in Fsm, S \in Overrides : SetReachable(w, S)
               \/ \E t \in Replacements : SetTrans(t)
      BY <2>2 DEF GetReachable, GetDeadlock, GetFair, SetReachable, SetTrans, onionVars
    <2>3. QED
      BY <1>1, <2>1, <2>2, NextCases DEF IInv
  <1>2. IInv /\ [Next]_vars =>
            [/\ Len(layers) <= Len(layers')
             /\ \A k \in 1..Len(layers) : layers'[k] = layers[k]
             /\ computed => computed']_vars
    BY <1>1, LayersStep DEF Extends
  <1>3. QED
    BY <1>2, Invariance, PTL DEF Spec, OnionOnlyGrows

=============================================================================
