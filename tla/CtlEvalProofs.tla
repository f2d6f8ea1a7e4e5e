--------------------------- MODULE CtlEvalProofs -----------------------------
(***************************************************************************)
(* Proofs about the evaluation loops of CtlEval, for every FSM, relation   *)
(* and operand: the loop of eu ends with a least fixpoint, the nested      *)
(* loops of eg with a greatest one, and what is returned, a set of states  *)
(* or a length, is what the paths of the FSM make of the operator.         *)
(***************************************************************************)
EXTENDS CtlEval, ImageProofs, TLAPS

\* The backward image of states is monotone and additive.
LEMMA ExSets ==
    ASSUME NEW S \in SUBSET State, NEW T \in SUBSET State
    PROVE  /\ Ex(S) \in SUBSET State
           /\ S \subseteq T => Ex(S) \subseteq Ex(T)
           /\ Ex(S \cup T) = Ex(S) \cup Ex(T)
BY FsmAssumption DEF Ex, BackwardImage

\* So is that of pairs.
LEMMA ExSiSets ==
    ASSUME NEW S \in SUBSET StateInput, NEW T \in SUBSET StateInput
    PROVE  /\ ExSi(S) \in SUBSET StateInput
           /\ S \subseteq T => ExSi(S) \subseteq ExSi(T)
           /\ ExSi(S \cup T) = ExSi(S) \cup ExSi(T)
<1>1. StatesOf(S) \subseteq State /\ (S \subseteq T => StatesOf(S) \subseteq StatesOf(T))
      /\ StatesOf(S \cup T) = StatesOf(S) \cup StatesOf(T)
  BY DEF StatesOf
<1>2. StatesOf(T) \subseteq State
  BY DEF StatesOf
<1>3. ASSUME NEW P \in SUBSET State, NEW Q \in SUBSET State
      PROVE /\ WeakBackwardImage(trans, P) \subseteq StateInput
            /\ P \subseteq Q => WeakBackwardImage(trans, P) \subseteq WeakBackwardImage(trans, Q)
  BY FsmAssumption DEF WeakBackwardImage, StateInput
<1>4. ASSUME NEW P \in SUBSET State, NEW Q \in SUBSET State
      PROVE WeakBackwardImage(trans, P \cup Q)
              = WeakBackwardImage(trans, P) \cup WeakBackwardImage(trans, Q)
  BY DEF WeakBackwardImage
<1>5. ExSi(S) \in SUBSET StateInput
  BY <1>1, <1>3 DEF ExSi, EX, Within
<1>6. S \subseteq T => ExSi(S) \subseteq ExSi(T)
  BY <1>1, <1>2, <1>3 DEF ExSi, EX, Within
<1>7. ExSi(S \cup T) = ExSi(S) \cup ExSi(T)
  <2>1. WeakBackwardImage(trans, StatesOf(S \cup T))
          = WeakBackwardImage(trans, StatesOf(S)) \cup WeakBackwardImage(trans, StatesOf(T))
    BY <1>1, <1>2, <1>4
  <2> QED
    BY <2>1 DEF ExSi, EX, Within
<1> QED
  BY <1>5, <1>6, <1>7

-----------------------------------------------------------------------------
\* Types.
Typed ==
    /\ trans \subseteq Edges /\ reach = Reach(trans)
    /\ fairsi \in SUBSET StateInput /\ fair \in SUBSET State
    /\ pc \in Loops
    /\ tool \in {NuSMV, Tool, Mc} /\ type \in Types.nusmv \cup Types.ctl \cup {"FAIR"}
    /\ a \in SUBSET State /\ b \in SUBSET State /\ given \in SUBSET State
    /\ Y \in SUBSET State /\ new \in SUBSET State /\ prev \in SUBSET State
    /\ saved \in SUBSET State /\ result \in SUBSET State
    /\ inf \in Int /\ sup \in Int /\ i \in Int /\ answer \in Int
    /\ bound \in SUBSET StateInput /\ res \in SUBSET StateInput /\ old \in SUBSET StateInput
    /\ partial \in SUBSET StateInput /\ resY \in SUBSET StateInput /\ newY \in SUBSET StateInput
    /\ todo \in SUBSET Justice

LEMMA TypedTypes == Typed => TypeOK
BY DEF Typed, TypeOK

\* What the operators below build are sets of states and pairs.
LEMMA Sets ==
    ASSUME Typed
    PROVE  /\ reach \in SUBSET State
           /\ Allowed \in SUBSET State
           /\ EgArg \in SUBSET State
           /\ EuLeft \in SUBSET State /\ EuRight \in SUBSET State
           /\ \A S \in SUBSET State : Not(S) \in SUBSET State /\ Signed(S) \in SUBSET State
           /\ \A R \in SUBSET State : StatesInputsConstraints(trans, R) \in SUBSET StateInput
           /\ \A si \in SUBSET StateInput, R \in SUBSET State : Within(R, si) \in SUBSET StateInput
<1>1. reach \in SUBSET State
  BY DEF Typed, Reach
<1>2. \A S \in SUBSET State : Not(S) \in SUBSET State /\ Signed(S) \in SUBSET State
  BY DEF Not, Signed
<1>3. Allowed \in SUBSET State
  BY <1>1 DEF Typed, Allowed
<1>4. EgArg \in SUBSET State
  BY <1>2 DEF Typed, EgArg
<1>5. EuLeft \in SUBSET State /\ EuRight \in SUBSET State
  <2>1. EuLeft \in SUBSET State
    BY <1>2 DEF Typed, EuLeft
  <2>2. EuRight \in SUBSET State
    BY <1>2 DEF Typed, EuRight
  <2> QED
    BY <2>1, <2>2
<1>6. \A R \in SUBSET State : StatesInputsConstraints(trans, R) \in SUBSET StateInput
  BY DEF StatesInputsConstraints, StateInput
<1>7. \A si \in SUBSET StateInput, R \in SUBSET State : Within(R, si) \in SUBSET StateInput
  BY DEF Within
<1> QED
  BY <1>1, <1>2, <1>3, <1>4, <1>5, <1>6, <1>7

LEMMA TypedInit == Init => Typed
<1>1. ASSUME Init PROVE reach \in SUBSET State
  BY <1>1 DEF Init, Reach
<1> QED
  BY <1>1, FsmAssumption DEF Init, Typed, Loops, StatesInputsConstraints, StateInput

\* The types of nodes, and the loops they lead to.
LEMMA Entries ==
    ASSUME NEW to \in {NuSMV, Tool, Mc}, NEW ty \in Types[to]
    PROVE  /\ ty \in Types.nusmv \cup Types.ctl \cup {"FAIR"}
           /\ Entry(ty) \in {"ex", "eg", "eu", "bounded", "minu", "maxu"}
<1>1. ty \in Types.nusmv \cup Types.ctl
  <2>1. CASE to = "nusmv"
    BY <2>1 DEF Types
  <2>2. CASE to = "ctl"
    BY <2>2 DEF Types
  <2>3. CASE to = "mc"
    BY <2>3 DEF Types, Always
  <2> QED
    BY <2>1, <2>2, <2>3 DEF NuSMV, Tool, Mc
<1>2. ty \in Sometimes \cup Always \cup Bounded \cup Lengths \cup {"EW", "AW"}
  BY <1>1 DEF Types
<1>3. Entry(ty) \in {"ex", "eg", "eu", "bounded", "minu", "maxu"}
  BY <1>2 DEF Entry, HasEg, HasEu, Sometimes, Always, Bounded, Lengths
<1> QED
  BY <1>1, <1>3

LEMMA Requests ==
    ASSUME Request
    PROVE  \E to \in {NuSMV, Tool, Mc} : \E ty \in Types[to] : \E x, y \in SUBSET State :
               \E lo, hi \in Int : Call(to, ty, x, y, lo, hi)
<1>1. PICK to \in {NuSMV, Tool, Mc} : \E ty \in Types[to] : \E x \in Args :
         \E y \in (IF ty \in Binary THEN Args ELSE {{}}) :
         \E lo \in (IF ty \in Bounded THEN Infs ELSE {0}) :
         \E hi \in (IF ty \in Bounded THEN Sups ELSE {0}) : Call(to, ty, x, y, lo, hi)
  BY DEF Request
<1>2. ASSUME NEW ty
      PROVE  /\ (IF ty \in Binary THEN Args ELSE {{}}) \subseteq SUBSET State
             /\ (IF ty \in Bounded THEN Infs ELSE {0}) \subseteq Int
             /\ (IF ty \in Bounded THEN Sups ELSE {0}) \subseteq Int
  BY EvalAssumption
<1> QED
  BY <1>1, <1>2, EvalAssumption

LEMMA RestIsLoop == Rest \in Loops /\ Rest \in {"eu", "return"}
BY DEF Rest, Loops

LEMMA TypedEg ==
    Typed /\ (EgLoop \/ \E p \in Justice : EgTry(p)) => Typed'
<1> SUFFICES ASSUME Typed, EgLoop \/ \E p \in Justice : EgTry(p) PROVE Typed'
  OBVIOUS
<1> USE DEF fsmVars, nodeVars, euVars
<1>1. reach \in SUBSET State
  BY Sets
<1>2. \A si \in SUBSET StateInput : ExSi(si) \in SUBSET StateInput /\ Within(reach, si) \in SUBSET StateInput
                                 /\ StatesOf(si) \in SUBSET State
  BY ExSiSets, Sets DEF StatesOf
<1>3. CASE EgIterate
  BY <1>3 DEF EgIterate, Typed, Loops
<1>4. CASE EgAccumulate
  BY <1>4, <1>2 DEF EgAccumulate, Typed, Loops
<1>5. CASE FairExit
  BY <1>5, <1>2 DEF FairExit, EgFree, Typed, Loops
<1>6. CASE EgExit
  BY <1>6, <1>2, RestIsLoop DEF EgExit, EgFree, Typed
<1>7. CASE EuSiIterate
  BY <1>7, <1>2 DEF EuSiIterate, Typed, Loops
<1>8. CASE EuSiExit
  BY <1>8 DEF EuSiExit, Typed, Loops
<1>9. ASSUME NEW p \in Justice, EgTry(p) PROVE Typed'
  <2>1. Within(reach, res \cap p) \in SUBSET StateInput
    BY <1>2 DEF Typed
  <2> QED
    BY <1>9, <2>1 DEF EgTry, Typed, Loops
<1> QED
  BY <1>3, <1>4, <1>5, <1>6, <1>7, <1>8, <1>9 DEF EgLoop

LEMMA TypedUnbounded == Typed /\ Unbounded => Typed'
<1> SUFFICES ASSUME Typed, Unbounded PROVE Typed'
  OBVIOUS
<1> USE DEF fsmVars, nodeVars, egVars, euVars
<1>1. \A S \in SUBSET State : Ex(S) \in SUBSET State
  BY ExSets
<1>2. CASE ExCall
  BY <1>2, <1>1, Sets DEF ExCall, Typed, Loops
<1>3. CASE EgTrue
  BY <1>3, RestIsLoop DEF EgTrue, Typed
<1>4. CASE EgCall
  <2>1. Within(EgArg, fairsi \cap StatesInputsConstraints(trans, reach)) \in SUBSET StateInput
    BY Sets DEF Typed
  <2> QED
    BY <1>4, <2>1 DEF EgCall, Typed, Loops
<1>5. CASE ToolEgCall
  BY <1>5 DEF ToolEgCall, Typed, Loops
<1>6. CASE ToolEgIterate
  BY <1>6 DEF ToolEgIterate, Typed
<1>7. CASE ToolEgExit
  BY <1>7, RestIsLoop DEF ToolEgExit, Typed
<1>8. CASE EuCall
  BY <1>8, Sets DEF EuCall, Typed, Loops
<1>9. CASE EuIterate
  BY <1>9, <1>1, Sets DEF EuIterate, Typed
<1>10. CASE EuExit
  BY <1>10 DEF EuExit, Typed, Loops
<1> QED
  BY <1>2, <1>3, <1>4, <1>5, <1>6, <1>7, <1>8, <1>9, <1>10 DEF Unbounded

LEMMA TypedBounded == Typed /\ BoundedLoop => Typed'
<1> SUFFICES ASSUME Typed, BoundedLoop PROVE Typed'
  OBVIOUS
<1> USE DEF fsmVars, nodeVars, egVars, euVars
<1>1. Next1 \in SUBSET State
  BY ExSets, Sets DEF Next1, Typed
<1>2. CASE BoundedRefuse
  BY <1>2 DEF BoundedRefuse, Typed, Loops
<1>3. CASE BoundedCall
  BY <1>3, Sets DEF BoundedCall, Typed, Loops
<1>4. CASE WithinIterate
  BY <1>4, <1>1, Sets DEF WithinIterate, Typed
<1>5. CASE WithinExit
  BY <1>5 DEF WithinExit, Typed, Loops
<1>6. CASE BeforeIterate
  BY <1>6, <1>1, Sets DEF BeforeIterate, Typed
<1>7. CASE BeforeExit
  BY <1>7 DEF BeforeExit, Typed, Loops
<1> QED
  BY <1>2, <1>3, <1>4, <1>5, <1>6, <1>7 DEF BoundedLoop

LEMMA TypedCompute == Typed /\ Compute => Typed'
<1> SUFFICES ASSUME Typed, Compute PROVE Typed'
  OBVIOUS
<1> USE DEF fsmVars, nodeVars, egVars, euVars
<1>1. ASSUME NEW n \in Int, Answer(n) PROVE Typed'
  BY <1>1 DEF Answer, Typed, Loops
<1>2. CASE MinuCall
  BY <1>2 DEF MinuCall, Typed, Loops
<1>3. CASE MinuFound
  BY <1>3, <1>1 DEF MinuFound, Typed
<1>4. CASE MinuIterate
  BY <1>4 DEF MinuIterate, Typed
<1>5. CASE MinuExit
  BY <1>5, <1>1 DEF MinuExit, Infinite
<1>6. CASE MaxuRefuse
  BY <1>6, <1>1 DEF MaxuRefuse, Undefined
<1>7. CASE MaxuCall
  BY <1>7 DEF MaxuCall, Typed, Loops
<1>8. CASE MaxuFound
  BY <1>8, <1>1 DEF MaxuFound, Typed
<1>9. CASE MaxuIterate
  BY <1>9, FsmAssumption DEF MaxuIterate, BackwardImage, Typed
<1>10. CASE MaxuExit
  BY <1>10, <1>1 DEF MaxuExit, Infinite
<1> QED
  BY <1>2, <1>3, <1>4, <1>5, <1>6, <1>7, <1>8, <1>9, <1>10 DEF Compute

LEMMA TypedNext == Typed /\ [Next]_vars => Typed'
<1> SUFFICES ASSUME Typed, [Next]_vars PROVE Typed'
  OBVIOUS
<1> USE DEF fsmVars, nodeVars, egVars, euVars
<1>1. CASE Request
  <2>1. PICK to \in {NuSMV, Tool, Mc} : \E ty \in Types[to] : \E x, y \in SUBSET State :
               \E lo, hi \in Int : Call(to, ty, x, y, lo, hi)
    BY <1>1, Requests
  <2>2. PICK ty \in Types[to] : \E x, y \in SUBSET State : \E lo, hi \in Int :
               Call(to, ty, x, y, lo, hi)
    BY <2>1
  <2>3. PICK x \in SUBSET State, y \in SUBSET State, lo \in Int, hi \in Int :
                 Call(to, ty, x, y, lo, hi)
    BY <2>2
  <2>4. ty \in Types.nusmv \cup Types.ctl \cup {"FAIR"} /\ Entry(ty) \in Loops
    BY Entries DEF Loops
  <2>5. \A S \in SUBSET State : Operand(to, S) \in SUBSET State
    BY DEF Operand
  <2> QED
    BY <2>3, <2>4, <2>5 DEF Call, Typed
<1>2. CASE Taken
  BY <1>2 DEF Taken, Typed, Loops
<1>5. CASE EgLoop \/ (\E p \in Justice : EgTry(p))
  BY <1>5, TypedEg
<1>6. CASE Unbounded \/ BoundedLoop \/ Compute
  BY <1>6, TypedUnbounded, TypedBounded, TypedCompute
<1>3. CASE Return
  BY <1>3, Sets DEF Return, Typed, Loops
<1>4. CASE UNCHANGED vars
  BY <1>4 DEF vars, Typed
<1> QED
  BY <1>1, <1>2, <1>3, <1>4, <1>5, <1>6 DEF Next, Evaluate

\* Every register keeps its type, whatever the FSM, relation and operands.
THEOREM TypeCorrect == Spec => []TypeOK
<1>1. Spec => []Typed
  BY TypedInit, TypedNext, PTL DEF Spec
<1> QED
  BY <1>1, TypedTypes, PTL

\* How the loops are entered.
LEMMA ControlFlow ==
    ASSUME Next
    PROVE  /\ pc' = "eu_loop" => EuCall \/ EuIterate
           /\ pc' = "gfp" => EgCall \/ EgAccumulate
           /\ pc' = "justice" => EgIterate \/ EuSiExit
           /\ pc' = "eu_si" => EuSiIterate \/ \E p \in Justice : EgTry(p)
<1>1. CASE Request
  <2>1. PICK to, ty, x, y, lo, hi :
                 to \in {NuSMV, Tool, Mc} /\ ty \in Types[to] /\ Call(to, ty, x, y, lo, hi)
    BY <1>1, Requests
  <2>2. pc' \in {"ex", "eg", "eu", "bounded", "minu", "maxu"}
    BY <2>1, Entries DEF Call
  <2> QED
    BY <2>2
<1>2. CASE Taken \/ Return
  BY <1>2 DEF Taken, Return
<1>3. CASE EgLoop
  BY <1>3, RestIsLoop DEF EgLoop, EgIterate, EgAccumulate, FairExit, EgExit, EuSiIterate, EuSiExit
<1>4. CASE \E p \in Justice : EgTry(p)
  BY <1>4 DEF EgTry
<1>5. CASE Unbounded
  BY <1>5, RestIsLoop DEF Unbounded, ExCall, EgTrue, EgCall, ToolEgCall, ToolEgIterate,
                          ToolEgExit, EuCall, EuIterate, EuExit
<1>6. CASE BoundedLoop
  BY <1>6 DEF BoundedLoop, BoundedRefuse, BoundedCall, WithinIterate, WithinExit,
              BeforeIterate, BeforeExit
<1>7. CASE Compute
  BY <1>7 DEF Compute, Answer, MinuCall, MinuFound, MinuIterate, MinuExit,
              MaxuRefuse, MaxuCall, MaxuFound, MaxuIterate, MaxuExit
<1> QED
  BY <1>1, <1>2, <1>3, <1>4, <1>5, <1>6, <1>7 DEF Next, Evaluate

-----------------------------------------------------------------------------
(* The loop of eu.  Each round works on the states of the last one, so the *)
(* states of the earlier rounds must already have their predecessors in Y. *)

Seed == EuRight \cap Allowed

EuInv ==
    pc = "eu_loop" =>
        /\ Seed \subseteq Y /\ new \subseteq Y
        /\ Y \subseteq LeastUntil(EuLeft, Seed)
        /\ EuLeft \cap Ex(Y \ new) \subseteq Y

\* The least set has the seed and is closed.
LEMMA LeastUntilClosed ==
    ASSUME NEW Left \in SUBSET State, NEW Right \in SUBSET State
    PROVE  /\ LeastUntil(Left, Right) \in SUBSET State
           /\ Right \subseteq LeastUntil(Left, Right)
           /\ Left \cap Ex(LeastUntil(Left, Right)) \subseteq LeastUntil(Left, Right)
<1> DEFINE L == LeastUntil(Left, Right)
<1>1. L \in SUBSET State
  BY DEF LeastUntil
<1>2. Right \subseteq L
  BY DEF LeastUntil
<1>3. ASSUME NEW S \in SUBSET State, Right \subseteq S, Left \cap Ex(S) \subseteq S
      PROVE  L \subseteq S
  BY <1>3 DEF LeastUntil
<1>4. ASSUME NEW s \in Left \cap Ex(L), NEW S \in SUBSET State,
             Right \subseteq S, Left \cap Ex(S) \subseteq S
      PROVE  s \in S
  <2>1. Ex(L) \subseteq Ex(S)
    BY <1>1, <1>3, <1>4, ExSets
  <2> QED
    BY <1>4, <2>1
<1>5. Left \cap Ex(L) \subseteq L
  BY <1>4 DEF LeastUntil
<1> QED
  BY <1>1, <1>2, <1>5

\* No loop changes the node it evaluates, or the FSM.
LEMMA NodeKept ==
    ASSUME UNCHANGED <<fsmVars, nodeVars>>
    PROVE  /\ EuLeft' = EuLeft /\ Seed' = Seed
           /\ \A S : Ex(S)' = Ex(S)
           /\ LeastUntil(EuLeft, Seed)' = LeastUntil(EuLeft, Seed)
<1>1. EuLeft' = EuLeft /\ EuRight' = EuRight /\ Allowed' = Allowed
  BY DEF EuLeft, EuRight, Allowed, Signed, fsmVars, nodeVars
<1>2. \A S : Ex(S)' = Ex(S)
  BY <1>1 DEF Ex, fsmVars
<1>3. Seed' = Seed
  BY <1>1 DEF Seed
<1>4. LeastUntil(EuLeft, Seed)' = LeastUntil(EuLeft, Seed)
  BY <1>1, <1>2, <1>3 DEF LeastUntil
<1> QED
  BY <1>1, <1>2, <1>3, <1>4

LEMMA EuStarts == Typed /\ EuCall => EuInv'
<1> SUFFICES ASSUME Typed, EuCall PROVE EuInv'
  OBVIOUS
<1>1. UNCHANGED <<fsmVars, nodeVars>> /\ Y' = Seed /\ new' = Seed
  BY DEF EuCall, Seed
<1>2. Seed \in SUBSET State /\ EuLeft \in SUBSET State
  BY Sets DEF Seed
<1>3. Seed \subseteq LeastUntil(EuLeft, Seed)
  BY <1>2, LeastUntilClosed
<1>4. Ex({}) = {}
  BY DEF Ex, BackwardImage
<1> QED
  BY <1>1, <1>3, <1>4, NodeKept DEF EuInv

LEMMA EuGoesOn == Typed /\ EuInv /\ EuIterate => EuInv'
<1> SUFFICES ASSUME Typed, EuInv, EuIterate PROVE EuInv'
  OBVIOUS
<1> DEFINE L == LeastUntil(EuLeft, Seed)
<1>1. UNCHANGED <<fsmVars, nodeVars>> /\ Y' = Y \cup (EuLeft \cap Ex(new)) /\ new' = Y' \ Y
  BY DEF EuIterate
<1>2. /\ Seed \subseteq Y /\ new \subseteq Y /\ Y \subseteq L
      /\ EuLeft \cap Ex(Y \ new) \subseteq Y
  BY DEF EuInv, EuIterate
<1>3. Seed \in SUBSET State /\ EuLeft \in SUBSET State /\ Y \in SUBSET State /\ new \in SUBSET State
  BY Sets DEF Seed, Typed
<1>4. L \in SUBSET State /\ EuLeft \cap Ex(L) \subseteq L
  BY <1>3, LeastUntilClosed
<1>5. Y' \subseteq L
  <2>1. Ex(new) \subseteq Ex(L)
    BY <1>2, <1>3, <1>4, ExSets
  <2> QED
    BY <1>1, <1>2, <1>4, <2>1
<1>6. EuLeft \cap Ex(Y' \ new') \subseteq Y'
  <2>1. Y' \ new' = (Y \ new) \cup new
    BY <1>1, <1>2
  <2>2. Ex((Y \ new) \cup new) = Ex(Y \ new) \cup Ex(new)
    BY <1>3, ExSets
  <2> QED
    BY <1>1, <1>2, <2>1, <2>2
<1> QED
  BY <1>1, <1>2, <1>5, <1>6, NodeKept DEF EuInv

LEMMA EuInvNext == Typed /\ EuInv /\ [Next]_vars => EuInv'
<1> SUFFICES ASSUME Typed, EuInv, [Next]_vars PROVE EuInv'
  OBVIOUS
<1>1. CASE UNCHANGED vars
  <2>1. UNCHANGED <<fsmVars, nodeVars>> /\ UNCHANGED <<pc, Y, new>>
    BY <1>1 DEF vars, euVars
  <2> QED
    BY <2>1, NodeKept DEF EuInv
<1>2. CASE EuCall
  BY <1>2, EuStarts
<1>3. CASE EuIterate
  BY <1>3, EuGoesOn
<1>4. CASE Next
  BY <1>2, <1>3, <1>4, ControlFlow DEF EuInv
<1> QED
  BY <1>1, <1>4

\* eu computes the least fixpoint, by NuSMV and by the ctl tool, for every
\* relation, operands and sets of fair and reachable states.
THEOREM UntilCorrect == Spec => []UntilIsLeast
<1>1. Init => EuInv
  BY DEF Init, EuInv
<1>2. Typed /\ EuInv => UntilIsLeast
  <2> SUFFICES ASSUME Typed, EuInv, pc = "eu_loop", new = {}
               PROVE  Y = LeastUntil(EuLeft, Seed)
    BY DEF UntilIsLeast, Seed
  <2>1. Y \in SUBSET State /\ Y \ new = Y
    BY DEF Typed
  <2>2. Seed \subseteq Y /\ EuLeft \cap Ex(Y) \subseteq Y /\ Y \subseteq LeastUntil(EuLeft, Seed)
    BY <2>1 DEF EuInv
  <2> QED
    BY <2>1, <2>2 DEF LeastUntil
<1>3. Spec => [](Typed /\ EuInv)
  BY <1>1, TypedInit, TypedNext, EuInvNext, PTL DEF Spec
<1> QED
  BY <1>2, <1>3, PTL

-----------------------------------------------------------------------------
(* The nested loops of eg.  partial holds the pairs of res that passed the *)
(* constraints tried so far, so the order does not matter; res never loses *)
(* a pair of the greatest fixpoint, and is a fixpoint when it is stable.   *)

Meeting(p) == LeastUntilSi(bound, Within(reach, res \cap p))

Passed(P) == {x \in res : \A p \in P : x \in Meeting(p)}

Trying(p) ==
    /\ partial = Passed(Justice \ (todo \cup {p}))
    /\ Within(reach, res \cap p) \subseteq resY /\ newY \subseteq resY
    /\ resY \subseteq Meeting(p)
    /\ bound \cap ExSi(resY \ newY) \subseteq resY

EgInv ==
    /\ pc \in {"gfp", "justice", "eu_si"} => GreatestRecurring \subseteq res
    /\ pc = "gfp" /\ res = old => res \subseteq bound /\ res \subseteq Recurring(res)
    /\ pc \in {"justice", "eu_si"} => old = res
    /\ pc = "justice" => partial = Passed(Justice \ todo)
    /\ pc = "eu_si" => \E p \in Justice \ todo : Trying(p)

LEMMA LeastUntilSiClosed ==
    ASSUME NEW Left \in SUBSET StateInput, NEW Right \in SUBSET StateInput
    PROVE  /\ LeastUntilSi(Left, Right) \in SUBSET StateInput
           /\ Right \subseteq LeastUntilSi(Left, Right)
           /\ Left \cap ExSi(LeastUntilSi(Left, Right)) \subseteq LeastUntilSi(Left, Right)
<1> DEFINE L == LeastUntilSi(Left, Right)
<1>1. L \in SUBSET StateInput
  BY DEF LeastUntilSi
<1>2. Right \subseteq L
  BY DEF LeastUntilSi
<1>3. ASSUME NEW S \in SUBSET StateInput, Right \subseteq S, Left \cap ExSi(S) \subseteq S
      PROVE  L \subseteq S
  BY <1>3 DEF LeastUntilSi
<1>4. ASSUME NEW s \in Left \cap ExSi(L), NEW S \in SUBSET StateInput,
             Right \subseteq S, Left \cap ExSi(S) \subseteq S
      PROVE  s \in S
  <2>1. ExSi(L) \subseteq ExSi(S)
    BY <1>1, <1>3, <1>4, ExSiSets
  <2> QED
    BY <1>4, <2>1
<1>5. Left \cap ExSi(L) \subseteq L
  BY <1>4 DEF LeastUntilSi
<1> QED
  BY <1>1, <1>2, <1>5

\* Each set of a greatest fixpoint's union stays below a larger one.
LEMMA RecurringMonotone ==
    ASSUME Typed, NEW Z \in SUBSET StateInput, NEW X \in SUBSET StateInput, Z \subseteq X
    PROVE  Recurring(Z) \subseteq Recurring(X)
<1> DEFINE In(S) == {x \in S : \A p \in Justice :
                        x \in LeastUntilSi(bound, Within(reach, S \cap p))}
<1>1. ASSUME NEW p
      PROVE LeastUntilSi(bound, Within(reach, Z \cap p))
              \subseteq LeastUntilSi(bound, Within(reach, X \cap p))
  <2>1. Within(reach, Z \cap p) \subseteq Within(reach, X \cap p)
    BY DEF Within
  <2> QED
    BY <2>1 DEF LeastUntilSi
<1>2. In(Z) \subseteq In(X) /\ In(Z) \in SUBSET StateInput /\ In(X) \in SUBSET StateInput
  BY <1>1
<1>3. ExSi(In(Z)) \subseteq ExSi(In(X))
  BY <1>2, ExSiSets
<1> QED
  BY <1>3 DEF Recurring

LEMMA GreatestIsRecurring ==
    ASSUME Typed, NEW X \in SUBSET StateInput, GreatestRecurring \subseteq X
    PROVE  GreatestRecurring \subseteq bound /\ GreatestRecurring \subseteq Recurring(X)
<1>1. GreatestRecurring \subseteq bound
  BY DEF GreatestRecurring
<1>2. ASSUME NEW Z \in SUBSET bound, Z \subseteq Recurring(Z)
      PROVE  Z \subseteq Recurring(X)
  <2>1. Z \subseteq GreatestRecurring
    BY <1>2 DEF GreatestRecurring
  <2>2. Z \in SUBSET StateInput
    BY DEF Typed
  <2>3. Recurring(Z) \subseteq Recurring(X)
    BY <2>1, <2>2, RecurringMonotone
  <2> QED
    BY <1>2, <2>3
<1>3. GreatestRecurring \subseteq Recurring(X)
  BY <1>2 DEF GreatestRecurring
<1> QED
  BY <1>1, <1>3

\* The loops change neither the FSM nor the pairs they work in.
LEMMA PairsKept ==
    ASSUME UNCHANGED fsmVars, UNCHANGED bound
    PROVE  /\ \A S : ExSi(S)' = ExSi(S)
           /\ \A L, R : LeastUntilSi(L, R)' = LeastUntilSi(L, R)
           /\ \A Z : Recurring(Z)' = Recurring(Z)
           /\ GreatestRecurring' = GreatestRecurring
<1>1. \A S : ExSi(S)' = ExSi(S)
  BY DEF ExSi, fsmVars
<1>2. \A L, R : LeastUntilSi(L, R)' = LeastUntilSi(L, R)
  BY <1>1 DEF LeastUntilSi
<1>3. \A Z : Recurring(Z)' = Recurring(Z)
  BY <1>1, <1>2 DEF Recurring, fsmVars
<1>4. GreatestRecurring' = GreatestRecurring
  BY <1>3 DEF GreatestRecurring
<1> QED
  BY <1>1, <1>2, <1>3, <1>4

LEMMA PassedKept ==
    ASSUME UNCHANGED fsmVars, UNCHANGED <<bound, res>>
    PROVE  /\ \A p : Meeting(p)' = Meeting(p)
           /\ \A P : Passed(P)' = Passed(P)
<1>1. \A p : Meeting(p)' = Meeting(p)
  BY PairsKept DEF Meeting, fsmVars
<1>2. \A P : Passed(P)' = Passed(P)
  BY <1>1 DEF Passed
<1> QED
  BY <1>1, <1>2

LEMMA EgStarts ==
    ASSUME Typed', pc' = "gfp", res' = StateInput, old' = {}
    PROVE  EgInv'
<1>1. GreatestRecurring' \subseteq res'
  BY DEF GreatestRecurring, Typed
<1>2. res' = old' => res' \subseteq bound' /\ res' \subseteq Recurring(res)'
  OBVIOUS
<1> QED
  BY <1>1, <1>2 DEF EgInv

LEMMA EgIterates == Typed /\ EgInv /\ EgIterate => EgInv'
<1> SUFFICES ASSUME Typed, EgInv, EgIterate PROVE EgInv'
  OBVIOUS
<1>1. /\ UNCHANGED fsmVars /\ UNCHANGED <<bound, res>>
      /\ pc' = "justice" /\ old' = res /\ partial' = res /\ todo' = Justice
  BY DEF EgIterate
<1>2. GreatestRecurring' \subseteq res'
  BY <1>1, PairsKept DEF EgInv, EgIterate
<1>3. partial' = Passed(Justice \ todo)'
  BY <1>1 DEF Passed
<1> QED
  BY <1>1, <1>2, <1>3 DEF EgInv

LEMMA EgTries == ASSUME Typed, EgInv, NEW p \in Justice, EgTry(p) PROVE EgInv'
<1>1. /\ UNCHANGED fsmVars /\ UNCHANGED <<bound, res, old, partial>>
      /\ pc = "justice" /\ pc' = "eu_si" /\ p \in todo /\ todo' = todo \ {p}
      /\ resY' = Within(reach, res \cap p) /\ newY' = resY'
  BY DEF EgTry
<1>2. GreatestRecurring' \subseteq res' /\ old' = res'
  BY <1>1, PairsKept DEF EgInv
<1>3. p \in Justice \ todo'
  BY <1>1
<1>4. Trying(p)'
  <2>1. partial' = Passed(Justice \ (todo \cup {p}))'
    <3>1. partial = Passed(Justice \ todo)
      BY <1>1 DEF EgInv
    <3>2. todo' \cup {p} = todo
      BY <1>1
    <3>3. Passed(Justice \ todo)' = {x \in res' : \A q \in Justice \ todo' : x \in Meeting(q)'}
      BY DEF Passed
    <3> QED
      BY <1>1, <3>1, <3>2, PassedKept DEF Passed
  <2>2. Within(reach, res \cap p)' = resY'
    BY <1>1 DEF Within, fsmVars
  <2>3. resY \in SUBSET StateInput /\ Within(reach, res \cap p) \in SUBSET StateInput
    BY DEF Typed, Within
  <2>4. Within(reach, res \cap p) \subseteq Meeting(p)
    BY <2>3, LeastUntilSiClosed DEF Meeting, Typed
  <2>5. resY' \subseteq Meeting(p)'
    BY <1>1, <2>4, PassedKept
  <2>6. ExSi({})' = {}
    BY DEF ExSi, EX, Within, WeakBackwardImage, StatesOf
  <2>7. (bound \cap ExSi(resY \ newY))' \subseteq resY'
    BY <1>1, <2>6
  <2> QED
    BY <1>1, <2>1, <2>2, <2>5, <2>7 DEF Trying
<1> QED
  BY <1>1, <1>2, <1>3, <1>4 DEF EgInv

LEMMA EuSiIterates == Typed /\ EgInv /\ EuSiIterate => EgInv'
<1> SUFFICES ASSUME Typed, EgInv, EuSiIterate PROVE EgInv'
  OBVIOUS
<1>1. /\ UNCHANGED fsmVars /\ UNCHANGED <<bound, res, old, partial, todo>>
      /\ pc = "eu_si" /\ pc' = "eu_si"
      /\ resY' = resY \cup (bound \cap ExSi(newY)) /\ newY' = resY' \ resY
  BY DEF EuSiIterate
<1>2. GreatestRecurring' \subseteq res' /\ old' = res'
  BY <1>1, PairsKept DEF EgInv
<1>3. PICK p \in Justice \ todo : Trying(p)
  BY <1>1 DEF EgInv
<1>4. /\ partial = Passed(Justice \ (todo \cup {p}))
      /\ Within(reach, res \cap p) \subseteq resY /\ newY \subseteq resY
      /\ resY \subseteq Meeting(p)
      /\ bound \cap ExSi(resY \ newY) \subseteq resY
  BY <1>3 DEF Trying
<1>5. resY \in SUBSET StateInput /\ newY \in SUBSET StateInput /\ bound \in SUBSET StateInput
      /\ Within(reach, res \cap p) \in SUBSET StateInput
  BY DEF Typed, Within
<1>6. resY' \subseteq Meeting(p)'
  <2>1. Meeting(p) \in SUBSET StateInput /\ bound \cap ExSi(Meeting(p)) \subseteq Meeting(p)
    BY <1>5, LeastUntilSiClosed DEF Meeting
  <2>2. ExSi(newY) \subseteq ExSi(Meeting(p))
    BY <1>4, <1>5, <2>1, ExSiSets
  <2> QED
    BY <1>1, <1>4, <2>1, <2>2, PassedKept
<1>7. (bound \cap ExSi(resY \ newY))' \subseteq resY'
  <2>1. resY' \ newY' = (resY \ newY) \cup newY
    BY <1>1, <1>4
  <2>2. ExSi((resY \ newY) \cup newY) = ExSi(resY \ newY) \cup ExSi(newY)
    BY <1>5, ExSiSets
  <2>3. ExSi(resY \ newY)' = ExSi(resY \ newY) \cup ExSi(newY)
    <3>1. ExSi(resY \ newY)' = ExSi(resY' \ newY')
      BY <1>1 DEF ExSi, fsmVars
    <3> QED
      BY <2>1, <2>2, <3>1
  <2> QED
    BY <1>1, <1>4, <2>3
<1>8. Trying(p)'
  <2>1. Within(reach, res \cap p)' = Within(reach, res \cap p)
    BY <1>1 DEF Within, fsmVars
  <2>2. Passed(Justice \ (todo \cup {p}))' = Passed(Justice \ (todo \cup {p}))
    BY <1>1, PassedKept DEF Passed
  <2> QED
    BY <1>1, <1>4, <1>6, <1>7, <2>1, <2>2 DEF Trying
<1> QED
  BY <1>1, <1>2, <1>3, <1>8 DEF EgInv

LEMMA EuSiExits == Typed /\ EgInv /\ EuSiExit => EgInv'
<1> SUFFICES ASSUME Typed, EgInv, EuSiExit PROVE EgInv'
  OBVIOUS
<1>1. /\ UNCHANGED fsmVars /\ UNCHANGED <<bound, res, old, todo>>
      /\ pc = "eu_si" /\ pc' = "justice" /\ newY = {} /\ partial' = partial \cap resY
  BY DEF EuSiExit
<1>2. GreatestRecurring' \subseteq res' /\ old' = res'
  BY <1>1, PairsKept DEF EgInv
<1>3. PICK p \in Justice \ todo : Trying(p)
  BY <1>1 DEF EgInv
<1>4. resY = Meeting(p)
  <2>1. resY \in SUBSET StateInput /\ resY \ newY = resY
    BY <1>1 DEF Typed
  <2>2. Within(reach, res \cap p) \subseteq resY /\ bound \cap ExSi(resY) \subseteq resY
        /\ resY \subseteq Meeting(p)
    BY <1>3, <2>1 DEF Trying
  <2> QED
    BY <2>1, <2>2 DEF Meeting, LeastUntilSi
<1>5. partial \cap resY = Passed(Justice \ todo)
  <2>1. Justice \ todo = (Justice \ (todo \cup {p})) \cup {p}
    BY <1>3
  <2>2. partial = Passed(Justice \ (todo \cup {p}))
    BY <1>3 DEF Trying
  <2> QED
    BY <1>4, <2>1, <2>2 DEF Passed
<1>6. Passed(Justice \ todo)' = Passed(Justice \ todo)
  BY <1>1, PassedKept DEF Passed
<1> QED
  BY <1>1, <1>2, <1>5, <1>6 DEF EgInv

LEMMA EgAccumulates == Typed /\ EgInv /\ EgAccumulate => EgInv'
<1> SUFFICES ASSUME Typed, EgInv, EgAccumulate PROVE EgInv'
  OBVIOUS
<1>1. /\ UNCHANGED fsmVars /\ UNCHANGED <<bound, old>>
      /\ pc = "justice" /\ pc' = "gfp" /\ todo = {}
      /\ res' = res \cap ExSi(partial) \cap bound
  BY DEF EgAccumulate
<1>2. partial = Passed(Justice) /\ old = res /\ GreatestRecurring \subseteq res
  BY <1>1 DEF EgInv
<1>3. ExSi(partial) = Recurring(res)
  BY <1>2 DEF Recurring, Passed, Meeting
<1>4. GreatestRecurring' \subseteq res'
  BY <1>1, <1>2, <1>3, GreatestIsRecurring, PairsKept DEF Typed
<1>5. ASSUME res' = old' PROVE res' \subseteq bound' /\ res' \subseteq Recurring(res)'
  <2>1. res' = res /\ res \subseteq Recurring(res) /\ res \subseteq bound
    BY <1>1, <1>2, <1>3, <1>5
  <2>2. Recurring(res)' = Recurring(res)
    BY <1>1, <2>1, PairsKept DEF Recurring, fsmVars
  <2> QED
    BY <1>1, <2>1, <2>2
<1> QED
  BY <1>1, <1>4, <1>5 DEF EgInv

LEMMA EgInvNext == Typed /\ EgInv /\ [Next]_vars => EgInv'
<1> SUFFICES ASSUME Typed, EgInv, [Next]_vars PROVE EgInv'
  OBVIOUS
<1>1. CASE UNCHANGED vars
  <2>1. /\ UNCHANGED fsmVars /\ UNCHANGED <<bound, res>>
        /\ UNCHANGED <<pc, old, partial, todo, resY, newY>>
    BY <1>1 DEF vars, egVars
  <2>3. ASSUME NEW p, Trying(p) PROVE Trying(p)'
    <3>1. Within(reach, res \cap p)' = Within(reach, res \cap p)
      BY <2>1 DEF Within, fsmVars
    <3>2. Passed(Justice \ (todo \cup {p}))' = Passed(Justice \ (todo \cup {p}))
      BY <2>1, PassedKept DEF Passed
    <3>3. ExSi(resY \ newY)' = ExSi(resY \ newY)
      BY <2>1 DEF ExSi, fsmVars
    <3>4. Meeting(p)' = Meeting(p)
      BY <2>1, PassedKept
    <3> QED
      BY <2>1, <2>3, <3>1, <3>2, <3>3, <3>4 DEF Trying
  <2>4. Recurring(res)' = Recurring(res)
    BY <2>1, PairsKept DEF Recurring, fsmVars
  <2>5. Passed(Justice \ todo)' = Passed(Justice \ todo)
    BY <2>1, PassedKept DEF Passed
  <2> QED
    BY <2>1, <2>3, <2>4, <2>5, PairsKept DEF EgInv
<1>2. CASE Next
  <2>1. Typed'
    BY <1>2, TypedNext
  <2>2. CASE EgCall
    BY <2>1, <2>2, EgStarts DEF EgCall
  <2>3. CASE pc' = "justice"
    BY <1>2, <2>3, ControlFlow, EgIterates, EuSiExits
  <2>4. CASE pc' = "eu_si"
    BY <1>2, <2>4, ControlFlow, EuSiIterates, EgTries
  <2>5. CASE pc' = "gfp"
    BY <1>2, <2>2, <2>5, ControlFlow, EgAccumulates
  <2>6. CASE pc' \notin {"gfp", "justice", "eu_si"}
    BY <2>6 DEF EgInv
  <2> QED
    BY <2>3, <2>4, <2>5, <2>6
<1> QED
  BY <1>1, <1>2

\* The nested loops end with the greatest fixpoint, for every relation, list of
\* constraints, order in which they are tried, and set of pairs they work in:
\* those of eg's operand, and those of the fair states.
THEOREM GloballyCorrect == Spec => []GloballyIsGreatest
<1>1. Init => EgInv
  <2> SUFFICES ASSUME Init PROVE EgInv
    OBVIOUS
  <2>1. Typed
    BY TypedInit
  <2>2. GreatestRecurring \subseteq res
    BY <2>1 DEF Init, GreatestRecurring, Typed
  <2>3. res = old => res \subseteq bound /\ res \subseteq Recurring(res)
    BY DEF Init
  <2> QED
    BY <2>2, <2>3 DEF EgInv, Init
<1>2. Typed /\ EgInv => GloballyIsGreatest
  <2> SUFFICES ASSUME Typed, EgInv, pc = "gfp", res = old
               PROVE  res = GreatestRecurring
    BY DEF GloballyIsGreatest
  <2>1. GreatestRecurring \subseteq res
    BY DEF EgInv
  <2>2. res \in SUBSET bound /\ res \subseteq Recurring(res)
    BY DEF EgInv
  <2>3. res \subseteq GreatestRecurring
    BY <2>2 DEF GreatestRecurring
  <2> QED
    BY <2>1, <2>3
<1>3. Spec => [](Typed /\ EgInv)
  BY <1>1, TypedInit, TypedNext, EgInvNext, PTL DEF Spec
<1> QED
  BY <1>2, <1>3, PTL

-----------------------------------------------------------------------------
(* What eg computes: the pairs from which one can go round for ever inside *)
(* its operand.                                                            *)

Lasts(g) == Within(reach, RoundPairs(trans, Justice, Moves(trans, g)))

LEMMA ReachKept ==
    ASSUME Typed
    PROVE  /\ reach \in SUBSET State /\ reach \in SUBSET Invar /\ Start \subseteq reach
           /\ ForwardImage(trans, reach) \subseteq reach
           /\ \A s \in reach : Successors(trans, s) \subseteq reach
<1>1. reach = Reach(trans)
  BY DEF Typed
<1> QED
  BY <1>1, ReachClosed, ReachLegal

\* Every pair eg keeps has a way to every constraint, hence to a round.
LEMMA RecurringLasts ==
    ASSUME Typed, NEW g \in SUBSET State, NEW f,
           bound = Within(g, f \cap StatesInputsConstraints(trans, reach)),
           NEW Z \in SUBSET bound, Z \subseteq Recurring(Z)
    PROVE  Z \subseteq Lasts(g)
<1> DEFINE M == Moves(trans, g)
           G == {x \in Z : \A p \in Justice : x \in LeastUntilSi(bound, Within(reach, Z \cap p))}
<1>1. Z \in SUBSET StateInput /\ bound \in SUBSET StateInput
  BY DEF Typed
<1>2. \A x \in bound : x[1] \in g /\ x[1] \in reach
  BY DEF Within, StatesInputsConstraints
<1>3. ASSUME NEW x \in bound, NEW S \in SUBSET StateInput, \A y \in S : y[1] \in g, x \in ExSi(S)
      PROVE  x \in M /\ \E y \in S : Leads(trans, x, y)
  <2>1. x \in Legal /\ \E y \in S : y[1] \in Invar /\ Leads(trans, x, y)
    BY <1>3, ExMeans DEF ExSi
  <2>2. PICK y \in S : y[1] \in Invar /\ Leads(trans, x, y)
    BY <2>1
  <2>3. x = <<x[1], x[2]>> /\ x[1] \in g \cap Invar /\ x[2] \in InvarInput
    BY <1>2, <2>1, LegalPairs
  <2>4. x \in M
    BY <1>3, <2>2, <2>3, MovesAre DEF Leads
  <2> QED
    BY <2>2, <2>4
<1>4. ASSUME NEW x \in Z PROVE x \in M /\ x[1] \in reach /\ \E y \in G : Leads(trans, x, y)
  <2>1. x \in ExSi(G)
    BY <1>4 DEF Recurring
  <2>2. G \in SUBSET StateInput /\ \A y \in G : y[1] \in g
    BY <1>1, <1>2
  <2> HIDE DEF G
  <2> QED
    BY <1>2, <1>3, <2>1, <2>2
<1>5. Z \in SUBSET M /\ IsFiniteSet(Z)
  BY <1>1, <1>4, PairsFinite, FS_Subset
\* What the search for a constraint finds has a way to it.
<1>6. ASSUME NEW p \in Justice, NEW y \in LeastUntilSi(bound, Within(reach, Z \cap p))
      PROVE  y \in Z \cap p \/ Beyond(trans, M, y) \cap (Z \cap p) # {}
  <2> DEFINE W == {u \in M : u \in Z \cap p \/ Beyond(trans, M, u) \cap (Z \cap p) # {}}
  <2>1. W \in SUBSET StateInput /\ \A u \in W : u \in M /\ u[1] \in g
    BY MovesAre
  <2>2. Within(reach, Z \cap p) \subseteq W
    BY <1>5 DEF Within
  <2>3. ASSUME NEW u \in bound, u \in ExSi(W) PROVE u \in W
    <3>1. u \in M /\ \E v \in W : Leads(trans, u, v)
      <4> HIDE DEF W
      <4> QED
        BY <1>3, <2>1, <2>3
    <3>2. PICK v \in W : Leads(trans, u, v)
      BY <3>1
    <3>3. v \in Beyond(trans, M, u)
      BY <3>2, BeyondStep
    <3>4. Beyond(trans, M, v) \subseteq Beyond(trans, M, u)
      BY <3>3, BeyondTransitive
    <3> QED
      BY <3>1, <3>2, <3>3, <3>4
  <2>4. y \in W
    <3> HIDE DEF W
    <3> QED
      BY <2>1, <2>2, <2>3 DEF LeastUntilSi
  <2> QED
    BY <2>4
<1>7. ASSUME NEW x \in Z
      PROVE  \E y \in Z \cap Beyond(trans, M, x) :
                \A p \in Justice : p \cap ({y} \cup (Z \cap Beyond(trans, M, y))) # {}
  <2>1. PICK y \in G : Leads(trans, x, y)
    BY <1>4
  <2>2. y \in Z /\ y \in Beyond(trans, M, x)
    BY <1>5, <2>1, BeyondStep
  <2>3. ASSUME NEW p \in Justice PROVE p \cap ({y} \cup (Z \cap Beyond(trans, M, y))) # {}
    <3>1. y \in Z \cap p \/ Beyond(trans, M, y) \cap (Z \cap p) # {}
      BY <1>6, <2>1
    <3> QED
      BY <3>1
  <2> QED
    BY <2>2, <2>3
<1>8. Z \subseteq RoundPairs(trans, Justice, M)
  BY <1>5, <1>7, RoundAhead
<1> QED
  BY <1>1, <1>4, <1>8 DEF Lasts, Within, StateInput

\* Every pair that lasts is kept.
LEMMA LastsRecurring ==
    ASSUME Typed, NEW g \in SUBSET State, NEW f, Lasts(g) \subseteq f,
           bound = Within(g, f \cap StatesInputsConstraints(trans, reach))
    PROVE  Lasts(g) \subseteq bound /\ Lasts(g) \subseteq Recurring(Lasts(g))
<1> DEFINE M == Moves(trans, g)
           P == RoundPairs(trans, Justice, M)
           Z == Lasts(g)
<1>1. /\ M \in SUBSET Legal /\ Legal \in SUBSET StateInput /\ P \in SUBSET M
      /\ \A x \in M : x[1] \in g /\ x = <<x[1], x[2]>> /\ x[1] \in Invar /\ x[2] \in Input
  BY MovesAre, LegalPairs, RoundSets, FsmAssumption
<1>2. \A x \in P : x \in Z <=> x[1] \in reach
  BY <1>1 DEF Lasts, Within
<1>3. Z \in SUBSET P
  BY DEF Lasts, Within
<1>4. ASSUME NEW x \in Z, NEW y \in P, Leads(trans, x, y)
      PROVE  y \in Z /\ x \in bound
  <2>1. x \in Legal /\ y \in Legal /\ x[1] \in reach
    BY <1>1, <1>2, <1>3
  <2>2. y[1] \in reach /\ x \in StatesInputsConstraints(trans, reach)
    BY <1>4, <2>1, ReachKept, StepInside
  <2>3. x \in g \X Input /\ x \in f
    BY <1>1, <1>3
  <2> QED
    BY <1>2, <2>2, <2>3 DEF Within
<1>5. ASSUME NEW x \in Z PROVE \E y \in Z : Leads(trans, x, y) /\ x \in bound
  <2>1. PICK y \in P : Leads(trans, x, y)
    BY <1>3, RoundGoesOn
  <2> QED
    BY <1>4, <2>1
<1>6. Z \in SUBSET StateInput /\ bound \in SUBSET StateInput
  BY <1>1, <1>3 DEF Typed
<1>7. ASSUME NEW p \in Justice PROVE Z \subseteq LeastUntilSi(bound, Within(reach, Z \cap p))
  <2> DEFINE U == LeastUntilSi(bound, Within(reach, Z \cap p))
             V == U \cup {x \in P : x \notin Z}
  <2>1. Within(reach, Z \cap p) \in SUBSET StateInput
    BY <1>6 DEF Within
  <2>2. U \in SUBSET StateInput /\ Within(reach, Z \cap p) \subseteq U /\ bound \cap ExSi(U) \subseteq U
    <3> HIDE DEF Z
    <3> QED
      BY <1>6, <2>1, LeastUntilSiClosed, ZenonT(60)
  <2> HIDE DEF U
  <2>3. p \cap P \subseteq V
    BY <1>3, <2>2 DEF Lasts, Within
  <2>4. ASSUME NEW u \in P, NEW z \in P, Leads(trans, u, z), z \in V PROVE u \in V
    <3> SUFFICES ASSUME u \in Z PROVE u \in U
      OBVIOUS
    <3>1. z \in U /\ u \in bound
      BY <1>4, <2>4
    <3>2. u \in ExSi(U)
      <4>1. u \in Legal /\ u[1] \in reach /\ z[1] \in Invar
        BY <1>1, <1>2
      <4> QED
        BY <2>2, <2>4, <3>1, <4>1, ExMeans DEF ExSi
    <3> QED
      BY <2>2, <3>1, <3>2
  <2> HIDE DEF V
  <2>5. P \subseteq V
    BY <2>3, <2>4, RoundMeets
  <2> QED
    BY <1>3, <2>5 DEF V, U
<1>8. Z \subseteq Recurring(Z)
  <2> DEFINE G == {x \in Z : \A p \in Justice : x \in LeastUntilSi(bound, Within(reach, Z \cap p))}
  <2>1. G = Z
    BY <1>7
  <2>2. ASSUME NEW x \in Z PROVE x \in ExSi(Z)
    <3>1. x \in Legal /\ x[1] \in reach /\ \A y \in Z : y[1] \in Invar
      BY <1>1, <1>2, <1>3
    <3> QED
      BY <1>5, <1>6, <3>1, ExMeans DEF ExSi
  <2> QED
    BY <2>1, <2>2 DEF Recurring
<1> QED
  BY <1>5, <1>8

LEMMA GreatestLasts ==
    ASSUME Typed, NEW g \in SUBSET State, NEW f, Lasts(g) \subseteq f,
           bound = Within(g, f \cap StatesInputsConstraints(trans, reach))
    PROVE  GreatestRecurring = Lasts(g)
<1>1. Lasts(g) \in SUBSET bound /\ Lasts(g) \subseteq Recurring(Lasts(g))
  BY LastsRecurring
<1>2. \A Z \in SUBSET bound : Z \subseteq Recurring(Z) => Z \subseteq Lasts(g)
  BY RecurringLasts
<1> QED
  BY <1>1, <1>2 DEF GreatestRecurring

\* The states of those pairs are those of the definition on paths.
LEMMA LastsStates ==
    ASSUME Typed, NEW g \in SUBSET State
    PROVE  /\ Lasts(g) \in SUBSET StateInput /\ Lasts(g) \subseteq Lasts(State)
           /\ StatesOf(Lasts(g)) = reach \cap Forever(trans, Justice, g)
<1>1. Moves(trans, g) \subseteq Moves(trans, State)
  BY DEF Moves
<1>2. RoundPairs(trans, Justice, Moves(trans, g)) \subseteq RoundPairs(trans, Justice, Moves(trans, State))
  BY <1>1, RoundGrows
<1>3. Lasts(g) \in SUBSET StateInput /\ Lasts(g) \subseteq Lasts(State)
  BY <1>2, ReachKept DEF Lasts, Within, StateInput
<1>4. StatesOf(Lasts(g)) = {x[1] : x \in Lasts(g)}
  BY <1>3, StatesAre
<1>5. RoundPairs(trans, Justice, Moves(trans, g)) \in SUBSET Legal
  BY RoundSets, MovesAre
<1>6. \A x \in RoundPairs(trans, Justice, Moves(trans, g)) : x \in Lasts(g) <=> x[1] \in reach
  BY <1>5, LegalPairs, FsmAssumption DEF Lasts, Within
<1>7. Lasts(g) \subseteq RoundPairs(trans, Justice, Moves(trans, g))
  BY DEF Lasts, Within
<1>8. Forever(trans, Justice, g) = {x[1] : x \in RoundPairs(trans, Justice, Moves(trans, g))}
  BY ForeverIs
<1>9. StatesOf(Lasts(g)) = reach \cap Forever(trans, Justice, g)
  BY <1>4, <1>6, <1>7, <1>8
<1> QED
  BY <1>3, <1>9

-----------------------------------------------------------------------------
(* What an evaluation holds, loop by loop, in terms of the paths: the      *)
(* invariant behind ResultIsMeant.                                         *)

Searching == pc \in {"gfp", "justice", "eu_si"}

\* The fair pairs and states, once they are computed.
FairInv ==
    IF type = "FAIR" /\ Searching
    THEN bound = StatesInputsConstraints(trans, reach)
    ELSE fairsi = Lasts(State) /\ fair = reach \cap Forever(trans, Justice, State)

\* What eg and eu return, for the types that call them.
EgPart == IF type \in HasEg THEN reach \cap Forever(trans, Fairness, EgArg) ELSE {}
EuPart == IF type \in HasEu THEN reach \cap Untils(trans, Allowed, EuLeft, EuRight) ELSE {}

\* The states a bounded operator is after, with the bounds lo and n.
Given(lo, n) ==
    IF OnGlobally THEN Staying(trans, Allowed, EuRight, lo, n)
    ELSE IF OnAll THEN MeetingAll(trans, Allowed, EuLeft, EuRight, lo, n)
    ELSE MeetingSome(trans, Allowed, EuLeft, EuRight, lo, n)

\* eg of the ctl tool comes down to the greatest set, and stops there.
ToolEgInv ==
    /\ EgPart \subseteq Y
    /\ Y = prev => Y \subseteq Ex(Y) \cap EgArg \cap reach

\* Each round of the bounded loops takes one step more into account.
BoundedInv ==
    /\ inf \in 0..sup /\ sup \in Nat
    /\ pc = "within" => i \in inf..sup /\ Y \cap Allowed = Given(0, sup - i)
    /\ pc = "before" => i \in 0..inf /\ Y \cap Allowed = Given(inf - i, sup - i)

Returned ==
    /\ type \in {"EX", "AX"} => saved = {} /\ Y = Ex(Signed(a))
    /\ type \in HasEg \cup HasEu => saved = EgPart /\ Y = EuPart
    /\ type \in Bounded /\ ~EmptyRange => saved = {} /\ Y \cap Allowed = Given(inf, sup)

NodeInv ==
    /\ type = "FAIR" => pc = "idle" \/ Searching
    /\ type # "FAIR" => type \in Types[tool]
    /\ pc \in {"idle", "ex", "eg", "bounded"} \/ Searching => Y = {} /\ saved = {}
    /\ pc = "ex" => type \in {"EX", "AX"}
    /\ pc \in {"eg", "tool_eg"} \/ (Searching /\ type # "FAIR") => type \in HasEg
    /\ Searching /\ type # "FAIR" =>
          /\ tool # Tool
          /\ bound = Within(EgArg, fairsi \cap StatesInputsConstraints(trans, reach))
    /\ pc = "tool_eg" => tool = Tool /\ saved = {} /\ ToolEgInv
    /\ pc \in {"eu", "eu_loop"} => type \in HasEu /\ saved = EgPart
    /\ pc = "eu" => Y = {}
    /\ pc \in {"bounded", "within", "before"} => type \in Bounded
    /\ pc \in {"within", "before"} => saved = {} /\ BoundedInv
    /\ pc \in {"minu", "minu_loop", "maxu", "maxu_loop"} => type \in Lengths
    /\ pc = "return" => type \notin Lengths /\ Returned

\* The kinds of nodes, and the loops they are evaluated by.
LEMMA Kinds ==
    /\ \A ty \in {"EX", "AX"} : ty \notin HasEg \cup HasEu \cup Bounded \cup Lengths \cup {"FAIR"}
    /\ \A ty \in HasEg \cup HasEu : ty \notin Bounded \cup Lengths \cup {"FAIR"}
    /\ \A ty \in Bounded : ty \notin Lengths \cup {"FAIR"}
    /\ "FAIR" \notin Lengths
BY DEF HasEg, HasEu, Bounded, Lengths

LEMMA Kind ==
    ASSUME NEW to \in {NuSMV, Tool, Mc}, NEW ty \in Types[to]
    PROVE  /\ ty # "FAIR"
           /\ Entry(ty) \in {"ex", "eg", "eu", "bounded", "minu", "maxu"}
           /\ Entry(ty) = "ex" => ty \in {"EX", "AX"}
           /\ Entry(ty) = "eg" => ty \in HasEg
           /\ Entry(ty) = "eu" => ty \in HasEu /\ ty \notin HasEg
           /\ Entry(ty) = "bounded" => ty \in Bounded
           /\ Entry(ty) \in {"minu", "maxu"} => ty \in Lengths
<1>1. Entry(ty) \in {"ex", "eg", "eu", "bounded", "minu", "maxu"}
  BY Entries
<1>2. ty \in Sometimes \cup Always \cup Bounded \cup Lengths \cup {"EW", "AW"}
  <2>1. CASE to = "nusmv"
    BY <2>1 DEF Types
  <2>2. CASE to = "ctl"
    BY <2>2 DEF Types
  <2>3. CASE to = "mc"
    BY <2>3 DEF Types, Always
  <2> QED
    BY <2>1, <2>2, <2>3 DEF NuSMV, Tool, Mc
<1>3. ty # "FAIR"
  BY <1>2 DEF Sometimes, Always, Bounded, Lengths
<1>4. CASE ty \in {"EX", "AX"}
  <2>1. Entry(ty) = "ex"
    BY <1>4 DEF Entry, HasEg, HasEu, Bounded
  <2> QED
    BY <1>3, <1>4, <2>1
<1>5. CASE ty \in HasEg
  <2>1. Entry(ty) = "eg"
    BY <1>5 DEF Entry, HasEg, HasEu, Bounded
  <2> QED
    BY <1>3, <1>5, <2>1
<1>6. CASE ty \in HasEu /\ ty \notin HasEg
  <2>1. Entry(ty) = "eu"
    BY <1>6 DEF Entry, HasEg, HasEu, Bounded
  <2> QED
    BY <1>3, <1>6, <2>1
<1>7. CASE ty \in Bounded
  <2>1. Entry(ty) = "bounded"
    BY <1>7 DEF Entry, HasEg, HasEu, Bounded
  <2> QED
    BY <1>3, <1>7, <2>1
<1>8. CASE ty \in Lengths
  <2>1. Entry(ty) \in {"minu", "maxu"}
    BY <1>8 DEF Entry, HasEg, HasEu, Bounded, Lengths
  <2> QED
    BY <1>3, <1>8, <2>1
<1>9. ty \in {"EX", "AX"} \cup HasEg \cup HasEu \cup Bounded \cup Lengths
  BY <1>2 DEF Sometimes, Always, HasEg, HasEu
<1> QED
  BY <1>4, <1>5, <1>6, <1>7, <1>8, <1>9

\* The tools that follow fair paths are those that evaluate bounded operators.
LEMMA BoundedByNusmv ==
    ASSUME tool \in {NuSMV, Tool, Mc}, type \in Types[tool], type \in Bounded
    PROVE  tool # Tool
BY DEF Types, Tool, NuSMV, Mc, Bounded, Sometimes, Always

LEMMA PartsKept ==
    ASSUME UNCHANGED <<fsmVars, nodeVars>>
    PROVE  /\ EgPart' = EgPart /\ EuPart' = EuPart /\ EgArg' = EgArg /\ Allowed' = Allowed
           /\ EuLeft' = EuLeft /\ EuRight' = EuRight
           /\ EmptyRange' = EmptyRange /\ Rest' = Rest
           /\ \A lo, n : Given(lo, n)' = Given(lo, n)
           /\ \A S : Ex(S)' = Ex(S)
           /\ \A S : Signed(S)' = Signed(S)
           /\ \A g : Lasts(g)' = Lasts(g)
           /\ \A S, R : (Within(S, R)' = Within(S, R))
           /\ StatesInputsConstraints(trans, reach)' = StatesInputsConstraints(trans, reach)
<1> USE DEF fsmVars, nodeVars
<1>1. EgArg' = EgArg /\ Allowed' = Allowed /\ EuLeft' = EuLeft /\ EuRight' = EuRight
      /\ EmptyRange' = EmptyRange /\ Rest' = Rest /\ Fairness' = Fairness
  BY DEF EgArg, Allowed, EuLeft, EuRight, EmptyRange, Rest, Signed, Fairness
<1>2. EgPart' = EgPart /\ EuPart' = EuPart
  BY <1>1 DEF EgPart, EuPart
<1>3. \A lo, n : Given(lo, n)' = Given(lo, n)
  BY <1>1 DEF Given, OnGlobally, OnAll
<1>4. \A S : Ex(S)' = Ex(S)
  BY <1>1 DEF Ex
<1>5. \A S : Signed(S)' = Signed(S)
  BY DEF Signed
<1>6. \A g : Lasts(g)' = Lasts(g)
  BY DEF Lasts
<1>7. StatesInputsConstraints(trans, reach)' = StatesInputsConstraints(trans, reach)
  OBVIOUS
<1>8. \A S, R : (Within(S, R)' = Within(S, R))
  OBVIOUS
<1> QED
  BY <1>1, <1>2, <1>3, <1>4, <1>5, <1>6, <1>7, <1>8

MeaningInv == FairInv /\ NodeInv

LEMMA MeaningInit == Init => MeaningInv
<1> SUFFICES ASSUME Init PROVE MeaningInv
  OBVIOUS
<1>1. pc = "gfp" /\ type = "FAIR" /\ Y = {} /\ saved = {} /\ bound = StatesInputsConstraints(trans, reach)
  BY DEF Init
<1>2. FairInv
  BY <1>1 DEF FairInv, Searching
<1>3. NodeInv
  BY <1>1, Kinds DEF NodeInv, Searching
<1> QED
  BY <1>2, <1>3 DEF MeaningInv

\* The steps that search on.
LEMMA MeaningSearch ==
    ASSUME Typed, MeaningInv,
           EgIterate \/ EgAccumulate \/ EuSiIterate \/ EuSiExit \/ \E p \in Justice : EgTry(p)
    PROVE  MeaningInv'
<1>1. /\ UNCHANGED <<fsmVars, nodeVars>> /\ UNCHANGED <<fairsi, fair, type, tool, bound, Y, saved>>
      /\ Searching /\ Searching' /\ pc' \in {"gfp", "justice", "eu_si"}
  <2>1. CASE EgIterate
    BY <2>1 DEF EgIterate, Searching, fsmVars, nodeVars, euVars
  <2>2. CASE EgAccumulate
    BY <2>2 DEF EgAccumulate, Searching, fsmVars, nodeVars, euVars
  <2>3. CASE EuSiIterate
    BY <2>3 DEF EuSiIterate, Searching, fsmVars, nodeVars, euVars
  <2>4. CASE EuSiExit
    BY <2>4 DEF EuSiExit, Searching, fsmVars, nodeVars, euVars
  <2>5. ASSUME NEW p \in Justice, EgTry(p)
        PROVE  /\ UNCHANGED <<fsmVars, nodeVars>> /\ UNCHANGED <<fairsi, fair, type, tool, bound, Y, saved>>
               /\ Searching /\ Searching' /\ pc' \in {"gfp", "justice", "eu_si"}
    BY <2>5 DEF EgTry, Searching, fsmVars, nodeVars, euVars
  <2> QED
    BY <2>1, <2>2, <2>3, <2>4, <2>5
<1>2. FairInv'
  <2>1. reach' = reach /\ trans' = trans
    BY <1>1 DEF fsmVars
  <2>2. StatesInputsConstraints(trans, reach)' = StatesInputsConstraints(trans, reach)
        /\ Lasts(State)' = Lasts(State)
    BY <1>1, PartsKept
  <2> QED
    BY <1>1, <2>1, <2>2 DEF FairInv, MeaningInv
<1>3. NodeInv'
  <2>1. /\ StatesInputsConstraints(trans, reach)' = StatesInputsConstraints(trans, reach)
        /\ EgArg' = EgArg
    BY <1>1, PartsKept
  <2>2. /\ Y = {} /\ saved = {} /\ (type # "FAIR" => type \in Types[tool] /\ type \in HasEg /\ tool # Tool)
        /\ type # "FAIR" => bound = Within(EgArg, fairsi \cap StatesInputsConstraints(trans, reach))
    BY <1>1 DEF MeaningInv, NodeInv
  <2>3. type # "FAIR" => bound' = Within(EgArg', fairsi' \cap StatesInputsConstraints(trans, reach)')
    BY <1>1, <2>1, <2>2
  <2> QED
    BY <1>1, <2>2, <2>3 DEF NodeInv
<1> QED
  BY <1>2, <1>3 DEF MeaningInv

\* What the search ends with.
LEMMA SearchEnds ==
    ASSUME Typed, EgInv, MeaningInv, pc = "gfp", res = old
    PROVE  /\ type = "FAIR" => res = Lasts(State)
           /\ type # "FAIR" => StatesOf(res) = EgPart
<1>1. res = GreatestRecurring
  <2>1. GreatestRecurring \subseteq res /\ res \subseteq bound /\ res \subseteq Recurring(res)
    BY DEF EgInv
  <2> QED
    BY <2>1 DEF GreatestRecurring
<1>2. Searching
  BY DEF Searching
<1>3. CASE type = "FAIR"
  <2>1. bound = StatesInputsConstraints(trans, reach)
    BY <1>2, <1>3 DEF MeaningInv, FairInv
  <2>2. bound = Within(State, StateInput \cap StatesInputsConstraints(trans, reach))
    BY <2>1 DEF Within, StateInput, Typed
  <2>3. Lasts(State) \subseteq StateInput
    BY LastsStates
  <2>4. GreatestRecurring = Lasts(State)
    BY <2>2, <2>3, GreatestLasts
  <2> QED
    BY <1>1, <1>3, <2>4
<1>4. CASE type # "FAIR"
  <2>1. /\ tool # Tool /\ type \in HasEg
        /\ bound = Within(EgArg, fairsi \cap StatesInputsConstraints(trans, reach))
    BY <1>2, <1>4 DEF MeaningInv, NodeInv
  <2>2. fairsi = Lasts(State) /\ EgArg \in SUBSET State
    BY <1>4, Sets DEF MeaningInv, FairInv
  <2>3. Lasts(EgArg) \subseteq fairsi
    BY <2>2, LastsStates
  <2>4. GreatestRecurring = Lasts(EgArg)
    BY <2>1, <2>2, <2>3, GreatestLasts
  <2>5. StatesOf(Lasts(EgArg)) = reach \cap Forever(trans, Justice, EgArg)
    BY <2>2, LastsStates
  <2> QED
    BY <1>1, <1>4, <2>1, <2>4, <2>5 DEF EgPart, Fairness
<1> QED
  BY <1>3, <1>4

\* Where eg hands over to.
LEMMA RestIs ==
    /\ type \in HasEu => Rest = "eu"
    /\ type \notin HasEu => Rest = "return"
BY DEF Rest

LEMMA AfterEg ==
    ASSUME Typed, MeaningInv, type \in HasEg, type' = type, tool' = tool,
           UNCHANGED <<fsmVars, nodeVars>>, pc' = Rest, saved' = EgPart, Y' = {}
    PROVE  NodeInv'
<1>1. EgPart' = EgPart /\ EuPart' = EuPart
  BY PartsKept
<1>2. type \in Types[tool]
  BY Kinds DEF MeaningInv, NodeInv
<1>3. type \notin Bounded /\ type \notin {"EX", "AX"} /\ type \notin Lengths /\ type # "FAIR"
  BY Kinds
<1>4. CASE type \in HasEu
  <2>1. pc' = "eu"
    BY <1>4, RestIs
  <2> QED
    BY <1>1, <1>2, <1>3, <1>4, <2>1 DEF NodeInv, Searching
<1>5. CASE type \notin HasEu
  <2>1. pc' = "return" /\ EuPart = {}
    BY <1>5, RestIs DEF EuPart
  <2>2. Returned'
    BY <1>1, <1>3, <2>1 DEF Returned
  <2> QED
    BY <1>1, <1>2, <1>3, <2>1, <2>2 DEF NodeInv, Searching
<1> QED
  BY <1>4, <1>5

LEMMA MeaningEgExits ==
    ASSUME Typed, EgInv, MeaningInv, FairExit \/ EgExit
    PROVE  MeaningInv'
<1>1. CASE FairExit
  <2>1. /\ pc = "gfp" /\ res = old /\ type = "FAIR" /\ pc' = "idle" /\ fairsi' = res /\ fair' = StatesOf(res)
        /\ trans' = trans /\ reach' = reach /\ type' = type /\ tool' = tool /\ Y' = Y /\ saved' = saved
    BY <1>1 DEF FairExit, nodeVars, euVars
  <2>2. res = Lasts(State) /\ StatesOf(Lasts(State)) = reach \cap Forever(trans, Justice, State)
    BY <2>1, SearchEnds, LastsStates
  <2>3. Lasts(State)' = Lasts(State)
    BY <2>1 DEF Lasts
  <2>4. FairInv'
    BY <2>1, <2>2, <2>3 DEF FairInv, Searching
  <2>5. Y = {} /\ saved = {}
    BY <2>1 DEF MeaningInv, NodeInv, Searching
  <2>6. NodeInv'
    BY <2>1, <2>5, Kinds DEF NodeInv, Searching
  <2> QED
    BY <2>4, <2>6 DEF MeaningInv
<1>2. CASE EgExit
  <2>1. /\ pc = "gfp" /\ res = old /\ type # "FAIR" /\ pc' = Rest /\ saved' = StatesOf(res)
        /\ UNCHANGED <<fsmVars, nodeVars>> /\ UNCHANGED <<trans, reach, fairsi, fair, type, tool, Y>>
    BY <1>2 DEF EgExit, fsmVars, nodeVars
  <2>2. saved' = EgPart
    BY <2>1, SearchEnds
  <2>3. Y = {} /\ type \in HasEg
    BY <2>1 DEF MeaningInv, NodeInv, Searching
  <2>4. NodeInv'
    BY <2>1, <2>2, <2>3, AfterEg
  <2>5. FairInv'
    <3>1. Lasts(State)' = Lasts(State)
      BY <2>1, PartsKept
    <3> QED
      BY <2>1, <3>1 DEF FairInv, MeaningInv
  <2> QED
    BY <2>4, <2>5 DEF MeaningInv
<1> QED
  BY <1>1, <1>2

LEMMA ExIs ==
    ASSUME Typed
    PROVE  \A S : Ex(S) = {s \in reach : Successors(trans, s) \cap S \cap Allowed # {}}
<1>1. reach \in SUBSET Invar
  BY ReachKept
<1>2. ASSUME NEW S PROVE Ex(S) = {s \in reach : Successors(trans, s) \cap S \cap Allowed # {}}
  BY <1>1 DEF Ex, BackwardImage, Successors
<1> QED
  BY <1>2

\* The states allowed: what leads to them is allowed, and for NuSMV they lead to
\* one another.
LEMMA AllowedIs ==
    ASSUME Typed, MeaningInv, ~(type = "FAIR" /\ Searching)
    PROVE  /\ Allowed \in SUBSET reach /\ Allowed \in SUBSET State
           /\ \A s \in reach : Successors(trans, s) \cap Allowed # {} => s \in Allowed
           /\ tool # Tool => Lasting(trans, Allowed, reach)
           /\ tool # Tool => Allowed = fair /\ fair = reach \cap Forever(trans, Justice, State)
           /\ tool = Tool => Allowed = reach
<1>1. CASE tool = Tool
  BY <1>1, ReachKept DEF Allowed
<1>2. CASE tool # Tool
  <2> DEFINE E == Forever(trans, Justice, State)
  <2>1. fair = reach \cap E /\ Allowed = reach \cap E
    BY <1>2 DEF MeaningInv, FairInv, Allowed
  <2>2. /\ \A p \in E : p \in State \cap Invar /\ Successors(trans, p) \cap E # {}
        /\ \A p \in State \cap Invar : Successors(trans, p) \cap E # {} => p \in E
    BY ForeverUnfolds
  <2> HIDE DEF E
  <2>3. /\ reach \in SUBSET State /\ reach \in SUBSET Invar
        /\ \A s \in reach : Successors(trans, s) \subseteq reach
    BY ReachKept
  <2>4. \A s \in reach : Successors(trans, s) \cap Allowed # {} => s \in Allowed
    BY <2>1, <2>2, <2>3
  <2>5. \A s \in Allowed : Successors(trans, s) \cap Allowed # {}
    BY <2>1, <2>2, <2>3
  <2> QED
    BY <1>2, <2>1, <2>3, <2>4, <2>5 DEF E, Lasting
<1> QED
  BY <1>1, <1>2

\* The least fixpoint is the set of the states with a way through f to g.
LEMMA EuIs ==
    ASSUME Typed, EuInv, MeaningInv, pc = "eu_loop", new = {}
    PROVE  Y = EuPart
<1> DEFINE U == Untils(trans, Allowed, EuLeft, EuRight)
           S == reach \cap U
<1>1. /\ reach \in SUBSET State /\ \A s \in reach : Successors(trans, s) \subseteq reach
      /\ Allowed \in SUBSET reach
      /\ \A s \in reach : Successors(trans, s) \cap Allowed # {} => s \in Allowed
      /\ EuLeft \in SUBSET State /\ EuRight \in SUBSET State /\ Y \in SUBSET State
  BY ReachKept, AllowedIs, Sets DEF Searching, Typed
<1>2. Seed \subseteq Y /\ Y \subseteq LeastUntil(EuLeft, Seed) /\ EuLeft \cap Ex(Y) \subseteq Y
  <2>1. Y \ new = Y
    OBVIOUS
  <2> QED
    BY <2>1 DEF EuInv
<1>3. \A T : Ex(T) = {s \in reach : Successors(trans, s) \cap T \cap Allowed # {}}
  BY ExIs
<1>4. U = (State \cap Allowed \cap EuRight) \cup StepsBack(trans, EuLeft, U)
  BY UntilUnfolds
<1> HIDE DEF U
<1>5. Y \subseteq S
  <2>1. Seed \subseteq S
    BY <1>1, <1>4 DEF Seed
  <2>2. EuLeft \cap Ex(S) \subseteq S
    BY <1>1, <1>3, <1>4 DEF StepsBack
  <2>3. S \in SUBSET State
    BY <1>1
  <2> QED
    BY <1>2, <2>1, <2>2, <2>3 DEF LeastUntil
<1>6. Y \subseteq Allowed
  <2>1. Seed \subseteq Allowed /\ EuLeft \cap Ex(Allowed) \subseteq Allowed /\ Allowed \in SUBSET State
    BY <1>1, <1>3 DEF Seed
  <2> QED
    BY <1>2, <2>1 DEF LeastUntil
<1>7. S \subseteq Y
  <2>1. reach \cap State \cap Allowed \cap EuRight \subseteq Y
    BY <1>2 DEF Seed
  <2>2. ASSUME NEW s \in reach \cap State \cap EuLeft, Successors(trans, s) \cap Y # {} PROVE s \in Y
    BY <1>2, <1>3, <1>6, <2>2
  <2> QED
    BY <1>1, <2>1, <2>2, UntilLeast DEF U
<1>8. type \in HasEu
  BY DEF MeaningInv, NodeInv
<1> QED
  BY <1>5, <1>7, <1>8 DEF EuPart, U

\* The loop of the ctl tool keeps what lasts, and ends with it.
LEMMA ToolEgGoesOn ==
    ASSUME Typed, MeaningInv, pc = "tool_eg", NEW T \in SUBSET State, EgPart \subseteq T
    PROVE  EgPart \subseteq T \cap Ex(T) \cap EgArg \cap reach
<1> DEFINE E == Forever(trans, {}, EgArg)
<1>1. tool = Tool /\ EgPart = reach \cap E
  BY DEF MeaningInv, NodeInv, EgPart, Fairness
<1>2. \A p \in E : p \in EgArg \cap Invar /\ Successors(trans, p) \cap E # {}
  BY ForeverUnfolds
<1> HIDE DEF E
<1>3. Allowed = reach /\ \A s \in reach : Successors(trans, s) \subseteq reach
  BY <1>1, ReachKept DEF Allowed
<1>4. Ex(T) = {s \in reach : Successors(trans, s) \cap T \cap Allowed # {}}
  BY ExIs
<1> QED
  BY <1>1, <1>2, <1>3, <1>4

LEMMA ToolEgIs ==
    ASSUME Typed, MeaningInv, pc = "tool_eg", Y = prev
    PROVE  Y = EgPart
<1>1. /\ tool = Tool /\ type \in HasEg /\ EgPart \subseteq Y /\ Y \subseteq Ex(Y) \cap EgArg \cap reach
  BY DEF MeaningInv, NodeInv, ToolEgInv
<1>2. EgPart = reach \cap Forever(trans, {}, EgArg)
  BY <1>1 DEF EgPart, Fairness
<1>3. reach \in SUBSET Invar
  BY ReachKept
<1>4. Ex(Y) = {s \in reach : Successors(trans, s) \cap Y \cap Allowed # {}}
  BY ExIs
<1>5. Y \subseteq EgArg \cap Invar /\ \A p \in Y : Successors(trans, p) \cap Y # {}
  BY <1>1, <1>3, <1>4
<1>6. Y \subseteq Forever(trans, {}, EgArg)
  BY <1>5, ForeverGreatest
<1> QED
  BY <1>1, <1>2, <1>6

LEMMA FairKept ==
    ASSUME MeaningInv, UNCHANGED <<fsmVars, nodeVars>>, ~(type = "FAIR" /\ Searching)
    PROVE  (type = "FAIR" /\ Searching') \/ FairInv'
<1>1. Lasts(State)' = Lasts(State) /\ UNCHANGED <<trans, reach, fairsi, fair, type>>
  BY PartsKept DEF fsmVars, nodeVars
<1> QED
  BY <1>1 DEF MeaningInv, FairInv

LEMMA MeaningUnbounded ==
    ASSUME Typed, EuInv, MeaningInv, Unbounded
    PROVE  MeaningInv'
<1>1. UNCHANGED <<fsmVars, nodeVars>> /\ UNCHANGED <<trans, reach, fairsi, fair, type, tool, a>>
  BY DEF Unbounded, ExCall, EgTrue, EgCall, ToolEgCall, ToolEgIterate, ToolEgExit,
         EuCall, EuIterate, EuExit, fsmVars, nodeVars
<1>2. pc \in {"ex", "eg", "tool_eg", "eu", "eu_loop"}
  BY DEF Unbounded, ExCall, EgTrue, EgCall, ToolEgCall, ToolEgIterate, ToolEgExit,
         EuCall, EuIterate, EuExit
<1>3. type # "FAIR" /\ type \in Types[tool]
  BY <1>2 DEF MeaningInv, NodeInv, Searching
<1>4. FairInv'
  BY <1>1, <1>3, FairKept
<1>5. /\ EgPart' = EgPart /\ EuPart' = EuPart /\ EgArg' = EgArg
      /\ StatesInputsConstraints(trans, reach)' = StatesInputsConstraints(trans, reach)
      /\ \A S : Ex(S)' = Ex(S)
      /\ \A S : Signed(S)' = Signed(S)
      /\ \A S, R : (Within(S, R)' = Within(S, R))
  BY <1>1, PartsKept
<1>6. NodeInv'
  <2>1. CASE ExCall
    <3>1. pc = "ex" /\ pc' = "return" /\ Y' = Ex(Signed(a)) /\ saved' = saved
      BY <2>1 DEF ExCall
    <3>2. type \in {"EX", "AX"} /\ saved = {}
      BY <3>1 DEF MeaningInv, NodeInv
    <3>3. Ex(Signed(a))' = Ex(Signed(a))
      BY <1>1, <1>5
    <3>4. Returned'
      BY <1>1, <3>1, <3>2, <3>3, Kinds DEF Returned
    <3> QED
      BY <1>1, <1>3, <3>1, <3>2, <3>4, Kinds DEF NodeInv, Searching
  <2>2. CASE EgTrue
    <3>1. pc = "eg" /\ tool # Tool /\ EgArg = State /\ saved' = fair /\ pc' = Rest /\ Y' = Y
      BY <2>2 DEF EgTrue
    <3>2. type \in HasEg /\ Y = {}
      BY <3>1 DEF MeaningInv, NodeInv
    <3>3. fair = EgPart
      BY <1>3, <3>1, <3>2 DEF MeaningInv, FairInv, EgPart, Fairness
    <3> QED
      BY <1>1, <3>1, <3>2, <3>3, AfterEg
  <2>3. CASE EgCall
    <3>1. /\ pc = "eg" /\ tool # Tool /\ pc' = "gfp" /\ Y' = Y /\ saved' = saved
          /\ bound' = Within(EgArg, fairsi \cap StatesInputsConstraints(trans, reach))
      BY <2>3 DEF EgCall, euVars
    <3>2. type \in HasEg /\ Y = {} /\ saved = {}
      BY <3>1 DEF MeaningInv, NodeInv
    <3>3. bound' = Within(EgArg, fairsi \cap StatesInputsConstraints(trans, reach))'
      BY <1>1, <1>5, <3>1
    <3> QED
      BY <1>1, <1>3, <3>1, <3>2, <3>3 DEF NodeInv, Searching
  <2>4. CASE ToolEgCall
    <3>1. pc = "eg" /\ tool = Tool /\ pc' = "tool_eg" /\ Y' = State /\ prev' = {} /\ saved' = saved
      BY <2>4 DEF ToolEgCall
    <3>2. type \in HasEg /\ saved = {}
      BY <3>1 DEF MeaningInv, NodeInv
    <3>3. EgPart \subseteq State
      BY ReachKept DEF EgPart
    <3>4. ToolEgInv'
      BY <1>5, <3>1, <3>3 DEF ToolEgInv
    <3> QED
      BY <1>1, <1>3, <3>1, <3>2, <3>4 DEF NodeInv, Searching
  <2>5. CASE ToolEgIterate
    <3>1. /\ pc = "tool_eg" /\ pc' = "tool_eg" /\ prev' = Y /\ saved' = saved
          /\ Y' = Y \cap Ex(Y) \cap EgArg \cap reach
      BY <2>5 DEF ToolEgIterate
    <3>2. type \in HasEg /\ tool = Tool /\ saved = {} /\ EgPart \subseteq Y
      BY <3>1 DEF MeaningInv, NodeInv, ToolEgInv
    <3>3. EgPart \subseteq Y'
      BY <3>1, <3>2, ToolEgGoesOn DEF Typed
    <3>4. ToolEgInv'
      <4>1. ASSUME Y' = prev' PROVE Y' \subseteq (Ex(Y) \cap EgArg \cap reach)'
        <5>1. Y' = Y /\ Ex(Y)' = Ex(Y)
          <6>1. Y' = Y
            BY <3>1, <4>1
          <6> QED
            BY <1>5, <6>1
        <5> QED
          BY <1>1, <1>5, <3>1, <5>1
      <4> QED
        BY <1>5, <3>3, <4>1 DEF ToolEgInv
    <3> QED
      BY <1>1, <1>3, <3>1, <3>2, <3>4 DEF NodeInv, Searching
  <2>6. CASE ToolEgExit
    <3>1. pc = "tool_eg" /\ Y = prev /\ pc' = Rest /\ saved' = Y /\ Y' = {}
      BY <2>6 DEF ToolEgExit
    <3>2. type \in HasEg
      BY <3>1 DEF MeaningInv, NodeInv
    <3> QED
      BY <1>1, <3>1, <3>2, ToolEgIs, AfterEg
  <2>7. CASE EuCall \/ EuIterate
    <3>1. pc \in {"eu", "eu_loop"} /\ pc' = "eu_loop" /\ saved' = saved
      BY <2>7 DEF EuCall, EuIterate
    <3>2. type \in HasEu /\ saved = EgPart
      BY <3>1 DEF MeaningInv, NodeInv
    <3> QED
      BY <1>1, <1>3, <1>5, <3>1, <3>2 DEF NodeInv, Searching
  <2>8. CASE EuExit
    <3>1. pc = "eu_loop" /\ new = {} /\ pc' = "return" /\ saved' = saved /\ Y' = Y
      BY <2>8 DEF EuExit, euVars
    <3>2. type \in HasEu /\ saved = EgPart /\ Y = EuPart
      BY <3>1, EuIs DEF MeaningInv, NodeInv
    <3>3. Returned'
      BY <1>1, <1>5, <3>1, <3>2, Kinds DEF Returned
    <3> QED
      BY <1>1, <1>3, <3>1, <3>2, <3>3, Kinds DEF NodeInv, Searching
  <2> QED
    BY <2>1, <2>2, <2>3, <2>4, <2>5, <2>6, <2>7, <2>8 DEF Unbounded
<1> QED
  BY <1>4, <1>6 DEF MeaningInv

\* One step of the bounded loops, on any set.
Ahead(T) == IF OnAll THEN Not(Ex(Not(T))) ELSE Ex(T)
WithinRound(T) == IF OnGlobally THEN T \cap Ahead(T) ELSE T \cup (EuLeft \cap Ahead(T))
BeforeRound(T) == IF OnGlobally THEN Ahead(T) ELSE EuLeft \cap Ahead(T)

LEMMA AheadIs ==
    ASSUME Typed, Allowed \in SUBSET reach, NEW T \in SUBSET State
    PROVE  /\ Allowed \cap Ahead(T) = IF OnAll THEN BeforeAll(trans, Allowed, T)
                                              ELSE Before(trans, Allowed, T)
           /\ Allowed \cap Ahead(T) = Allowed \cap Ahead(T \cap Allowed)
<1>1. reach \in SUBSET State
  BY ReachKept
<1>2. ASSUME NEW S \in SUBSET State
      PROVE  Allowed \cap Ahead(S) = IF OnAll THEN BeforeAll(trans, Allowed, S)
                                             ELSE Before(trans, Allowed, S)
  <2>1. \A P : Ex(P) = {s \in reach : Successors(trans, s) \cap P \cap Allowed # {}}
    BY ExIs
  <2>2. CASE OnAll
    <3>1. Ex(Not(S)) = {s \in reach : Successors(trans, s) \cap Not(S) \cap Allowed # {}}
      BY <2>1
    <3>2. \A s : (Successors(trans, s) \cap Not(S) \cap Allowed # {})
                   <=> ~(Successors(trans, s) \cap Allowed \subseteq S)
      BY <1>1, SuccessorsIn DEF Not
    <3> QED
      BY <1>1, <2>2, <3>1, <3>2 DEF Ahead, BeforeAll, Not
  <2>3. CASE ~OnAll
    BY <2>1, <2>3 DEF Ahead, Before
  <2> QED
    BY <2>2, <2>3
<1>3. /\ BeforeAll(trans, Allowed, T) = BeforeAll(trans, Allowed, T \cap Allowed)
      /\ Before(trans, Allowed, T) = Before(trans, Allowed, T \cap Allowed)
  BY DEF Before, BeforeAll
<1> QED
  BY <1>2, <1>3

\* What the loops compute, a round at a time.
LEMMA GivenRounds ==
    ASSUME Typed, Lasting(trans, Allowed, reach)
    PROVE  /\ Given(0, 0) = Allowed \cap EuRight
           /\ \A n \in Nat : \A lo \in 0..n : Given(lo, n) \in SUBSET Allowed
           /\ \A n \in Nat \ {0} : \A lo \in 1..n :
                 Given(lo, n) = Allowed \cap BeforeRound(Given(lo - 1, n - 1))
           /\ \A n \in Nat \ {0} : Given(0, n) = Allowed \cap WithinRound(Given(0, n - 1))
<1> DEFINE F == Allowed
<1>1. /\ reach \in SUBSET State /\ F \in SUBSET reach /\ F \in SUBSET State
      /\ EuLeft \in SUBSET State /\ EuRight \in SUBSET State
  BY Sets, ReachKept DEF Lasting
<1>2. Given(0, 0) = F \cap EuRight
  <2>1. /\ MeetingSome(trans, F, EuLeft, EuRight, 0, 0) = F \cap EuRight
        /\ MeetingAll(trans, F, EuLeft, EuRight, 0, 0) = F \cap EuRight
        /\ Staying(trans, F, EuRight, 0, 0) = F \cap EuRight
    BY <1>1, MeetingStart
  <2> QED
    BY <2>1 DEF Given
<1>3. \A lo, n : Given(lo, n) \in SUBSET F
  BY DEF Given, Staying, MeetingSome, MeetingAll
<1>4. ~(OnGlobally /\ OnAll)
  BY DEF OnGlobally, OnAll
<1>5. ASSUME NEW T \in SUBSET F
      PROVE  F \cap Ahead(T) = IF OnAll THEN BeforeAll(trans, F, T) ELSE Before(trans, F, T)
  BY <1>1, AheadIs
<1>6. ASSUME NEW n \in Nat \ {0}, NEW lo \in 1..n
      PROVE  Given(lo, n) = F \cap BeforeRound(Given(lo - 1, n - 1))
  <2> DEFINE G == Given(lo - 1, n - 1)
  <2>0. n \in Nat /\ n # 0 /\ lo # 0 /\ lo \in 0..n /\ G \in SUBSET F
    BY <1>3
  <2>1. Staying(trans, F, EuRight, lo, n)
          = Before(trans, F, Staying(trans, F, EuRight, lo - 1, n - 1))
    <3>1. StayingStep(trans, F, EuRight, lo, n)
      BY <2>0, StayingSteps
    <3> QED
      BY <2>0, <3>1 DEF StayingStep
  <2>2. MeetingSome(trans, F, EuLeft, EuRight, lo, n)
          = EuLeft \cap Before(trans, F, MeetingSome(trans, F, EuLeft, EuRight, lo - 1, n - 1))
    <3>1. MeetingSomeStep(trans, F, EuLeft, EuRight, lo, n)
      BY <2>0, MeetingSteps
    <3> QED
      BY <2>0, <3>1 DEF MeetingSomeStep
  <2>3. MeetingAll(trans, F, EuLeft, EuRight, lo, n)
          = EuLeft \cap BeforeAll(trans, F, MeetingAll(trans, F, EuLeft, EuRight, lo - 1, n - 1))
    <3>1. MeetingAllStep(trans, F, EuLeft, EuRight, lo, n)
      BY <2>0, MeetingAllSteps
    <3> QED
      BY <2>0, <3>1 DEF MeetingAllStep
  <2>4. F \cap Ahead(G) = IF OnAll THEN BeforeAll(trans, F, G) ELSE Before(trans, F, G)
    BY <1>5, <2>0
  <2>5. CASE OnGlobally
    BY <1>4, <2>1, <2>4, <2>5 DEF Given, BeforeRound
  <2>6. CASE ~OnGlobally /\ OnAll
    BY <1>4, <2>3, <2>4, <2>6 DEF Given, BeforeRound
  <2>7. CASE ~OnGlobally /\ ~OnAll
    BY <1>4, <2>2, <2>4, <2>7 DEF Given, BeforeRound
  <2> QED
    BY <2>5, <2>6, <2>7
<1>7. ASSUME NEW n \in Nat \ {0}
      PROVE  Given(0, n) = IF OnGlobally THEN Given(0, 0) \cap (F \cap Ahead(Given(0, n - 1)))
                           ELSE Given(0, 0) \cup (F \cap EuLeft \cap Ahead(Given(0, n - 1)))
  <2> DEFINE G == Given(0, n - 1)
  <2>0. n \in Nat /\ n # 0 /\ 0 \in 0..n /\ G \in SUBSET F
    BY <1>3
  <2>1. Staying(trans, F, EuRight, 0, n)
          = EuRight \cap Before(trans, F, Staying(trans, F, EuRight, 0, n - 1))
    <3>1. StayingStep(trans, F, EuRight, 0, n)
      BY <2>0, StayingSteps
    <3> QED
      BY <3>1 DEF StayingStep
  <2>2. MeetingSome(trans, F, EuLeft, EuRight, 0, n)
          = (F \cap EuRight)
              \cup (EuLeft \cap Before(trans, F, MeetingSome(trans, F, EuLeft, EuRight, 0, n - 1)))
    <3>1. MeetingSomeStep(trans, F, EuLeft, EuRight, 0, n)
      BY <2>0, MeetingSteps
    <3> QED
      BY <3>1 DEF MeetingSomeStep
  <2>3. MeetingAll(trans, F, EuLeft, EuRight, 0, n)
          = (F \cap EuRight)
              \cup (EuLeft \cap BeforeAll(trans, F, MeetingAll(trans, F, EuLeft, EuRight, 0, n - 1)))
    <3>1. MeetingAllStep(trans, F, EuLeft, EuRight, 0, n)
      BY <2>0, MeetingAllSteps
    <3> QED
      BY <3>1 DEF MeetingAllStep
  <2>4. F \cap Ahead(G) = IF OnAll THEN BeforeAll(trans, F, G) ELSE Before(trans, F, G)
    BY <1>5, <2>0
  <2>5. \A P : Before(trans, F, P) \subseteq F /\ BeforeAll(trans, F, P) \subseteq F
    BY DEF Before, BeforeAll
  <2> HIDE DEF F
  <2>6. CASE OnGlobally
    <3>1. Given(0, n) = EuRight \cap Before(trans, F, G)
      BY <2>1, <2>6 DEF Given, F
    <3>2. F \cap Ahead(G) = Before(trans, F, G)
      BY <1>4, <2>4, <2>6
    <3> HIDE DEF G
    <3> QED
      BY <1>2, <2>5, <2>6, <3>1, <3>2 DEF G
  <2>7. CASE ~OnGlobally /\ OnAll
    <3>1. Given(0, n) = (F \cap EuRight) \cup (EuLeft \cap BeforeAll(trans, F, G))
      BY <2>3, <2>7 DEF Given, F
    <3>2. F \cap Ahead(G) = BeforeAll(trans, F, G)
      BY <2>4, <2>7
    <3> HIDE DEF G
    <3> QED
      BY <1>2, <2>5, <2>7, <3>1, <3>2 DEF G
  <2>8. CASE ~OnGlobally /\ ~OnAll
    <3>1. Given(0, n) = (F \cap EuRight) \cup (EuLeft \cap Before(trans, F, G))
      BY <2>2, <2>8 DEF Given, F
    <3>2. F \cap Ahead(G) = Before(trans, F, G)
      BY <2>4, <2>8
    <3> HIDE DEF G
    <3> QED
      BY <1>2, <2>5, <2>8, <3>1, <3>2 DEF G
  <2> QED
    BY <2>6, <2>7, <2>8
<1>8. ASSUME NEW n \in Nat \ {0} PROVE Given(0, n) = F \cap WithinRound(Given(0, n - 1))
  <2> DEFINE A == [m \in Nat |-> Given(0, m)]
             H == [T \in SUBSET F |-> IF OnGlobally THEN F \cap Ahead(T) ELSE F \cap EuLeft \cap Ahead(T)]
  <2>1. \A P, Q \in SUBSET F : P \subseteq Q => H[P] \subseteq H[Q]
    <3>1. \A P, Q : P \subseteq Q => /\ Before(trans, F, P) \subseteq Before(trans, F, Q)
                                     /\ BeforeAll(trans, F, P) \subseteq BeforeAll(trans, F, Q)
      BY DEF Before, BeforeAll
    <3>2. \A P, Q \in SUBSET F : P \subseteq Q => F \cap Ahead(P) \subseteq F \cap Ahead(Q)
      BY <1>5, <3>1
    <3> QED
      BY <3>2
  <2>2. A \in [Nat -> SUBSET F] /\ H \in [SUBSET F -> SUBSET F]
    BY <1>3
  <2>3. \A m \in Nat \ {0} : A[m] = IF OnGlobally THEN A[0] \cap H[A[m - 1]] ELSE A[0] \cup H[A[m - 1]]
    <3>1. \A m \in Nat \ {0} : m \in Nat /\ m - 1 \in Nat /\ Given(0, m - 1) \in SUBSET F
      BY <1>3
    <3>2. \A m \in Nat \ {0} : A[m] = Given(0, m) /\ A[m - 1] = Given(0, m - 1) /\ A[0] = Given(0, 0)
      BY <3>1
    <3> QED
      BY <1>7, <3>1, <3>2
  <2>4. n - 1 \in Nat /\ Given(0, n - 1) \in SUBSET F /\ A[n] = Given(0, n) /\ A[n - 1] = Given(0, n - 1)
        /\ H[Given(0, n - 1)] = IF OnGlobally THEN F \cap Ahead(Given(0, n - 1))
                                ELSE F \cap EuLeft \cap Ahead(Given(0, n - 1))
    BY <1>3
  <2> HIDE DEF A, H
  <2>5. CASE OnGlobally
    <3>2. \A m \in Nat \ {0} : A[m] = A[0] \cap H[A[m - 1]]
      BY <2>3, <2>5
    <3>1. \A m \in Nat \ {0} : A[m] = A[m - 1] \cap H[A[m - 1]]
      <4>1. Downward(F, A, H)
        BY <2>1, <2>2, <3>2 DEF Downward
      <4> QED
        BY <4>1, Restricts
    <3> QED
      BY <2>4, <2>5, <3>1 DEF WithinRound
  <2>6. CASE ~OnGlobally
    <3>2. \A m \in Nat \ {0} : A[m] = A[0] \cup H[A[m - 1]]
      BY <2>3, <2>6
    <3>1. \A m \in Nat \ {0} : A[m] = A[m - 1] \cup H[A[m - 1]]
      <4>1. Upward(F, A, H)
        BY <2>1, <2>2, <3>2 DEF Upward
      <4> QED
        BY <4>1, Accumulates
    <3> QED
      BY <2>4, <2>6, <3>1 DEF WithinRound
  <2> QED
    BY <2>5, <2>6
<1> QED
  BY <1>2, <1>3, <1>6, <1>8

\* A round of the bounded loops depends on the states allowed only.
LEMMA RoundsInside ==
    ASSUME Typed, Allowed \in SUBSET reach, NEW T \in SUBSET State
    PROVE  /\ Allowed \cap WithinRound(T) = Allowed \cap WithinRound(T \cap Allowed)
           /\ Allowed \cap BeforeRound(T) = Allowed \cap BeforeRound(T \cap Allowed)
<1>1. Allowed \cap Ahead(T) = Allowed \cap Ahead(T \cap Allowed)
  BY AheadIs
<1> QED
  BY <1>1 DEF WithinRound, BeforeRound

\* The sets of the bounded loops are those after one round more; a round that
\* changes nothing is the last one that matters.
LEMMA WithinGoesOn ==
    ASSUME Typed, Lasting(trans, Allowed, reach), NEW T \in SUBSET State,
           NEW n \in Nat, NEW m \in Nat, m = n + 1, T \cap Allowed = Given(0, n)
    PROVE  /\ WithinRound(T) \cap Allowed = Given(0, m)
           /\ WithinRound(T) = T => \A k \in Nat : k >= m => T \cap Allowed = Given(0, k)
<1>0. Allowed \in SUBSET reach
  BY DEF Lasting
<1>1. m \in Nat \ {0} /\ m - 1 = n /\ m - 1 \in Nat
  OBVIOUS
<1>2. Given(0, m) = Allowed \cap WithinRound(Given(0, m - 1))
  BY <1>1, GivenRounds
<1>3. WithinRound(T) \cap Allowed = Given(0, m)
  BY <1>0, <1>1, <1>2, RoundsInside
<1>4. ASSUME WithinRound(T) = T, NEW k \in Nat, k >= m PROVE T \cap Allowed = Given(0, k)
  <2> DEFINE A == [j \in Nat |-> Given(0, j)]
             G == [S \in SUBSET Allowed |-> Allowed \cap WithinRound(S)]
  <2>1. ASSUME NEW j \in Nat \ {0} PROVE A[j] = G[A[j - 1]]
    <3>1. j \in Nat /\ j - 1 \in Nat /\ 0 \in 0..(j - 1)
      OBVIOUS
    <3>2. Given(0, j - 1) \in SUBSET Allowed
      BY <3>1, GivenRounds
    <3>3. Given(0, j) = Allowed \cap WithinRound(Given(0, j - 1))
      BY GivenRounds
    <3> QED
      BY <3>1, <3>2, <3>3
  <2>2. A[m] = A[m - 1]
    BY <1>1, <1>3, <1>4
  <2> HIDE DEF A, G
  <2>3. A[k] = A[m]
    BY <1>1, <1>4, <2>1, <2>2, Settles
  <2> QED
    BY <1>3, <1>4, <2>3 DEF A
<1> QED
  BY <1>3, <1>4

\* The set of the second loop after n rounds, d being the length of the range.
Shifted(d, n) == Given(n, d + n)

LEMMA BeforeGoesOn ==
    ASSUME Typed, Lasting(trans, Allowed, reach), NEW T \in SUBSET State,
           NEW d \in Nat, NEW n \in Nat, NEW m \in Nat, m = n + 1, T \cap Allowed = Shifted(d, n)
    PROVE  /\ BeforeRound(T) \cap Allowed = Shifted(d, m)
           /\ BeforeRound(T) = T => \A k \in Nat : k >= m => T \cap Allowed = Shifted(d, k)
<1>0. Allowed \in SUBSET reach
  BY DEF Lasting
<1> DEFINE A == [j \in Nat |-> Shifted(d, j)]
           G == [S \in SUBSET Allowed |-> Allowed \cap BeforeRound(S)]
<1>1. ASSUME NEW j \in Nat \ {0} PROVE A[j] = G[A[j - 1]]
  <2>1. /\ j \in Nat /\ j - 1 \in Nat /\ d + j \in Nat \ {0} /\ j \in 1..(d + j)
        /\ (d + j) - 1 = d + (j - 1) /\ d + (j - 1) \in Nat /\ j - 1 \in 0..(d + (j - 1))
    OBVIOUS
  <2>2. Given(j - 1, d + (j - 1)) \in SUBSET Allowed
    BY <2>1, GivenRounds
  <2>3. Given(j, d + j) = Allowed \cap BeforeRound(Given(j - 1, (d + j) - 1))
    BY <2>1, GivenRounds
  <2> QED
    BY <2>1, <2>2, <2>3 DEF Shifted
<1>2. m \in Nat \ {0} /\ m - 1 = n
  OBVIOUS
<1>3. T \cap Allowed = A[n] /\ T \cap Allowed \in SUBSET Allowed
  OBVIOUS
<1>4. BeforeRound(T) \cap Allowed = A[m]
  <2>1. BeforeRound(T) \cap Allowed = Allowed \cap BeforeRound(T \cap Allowed)
    BY <1>0, RoundsInside
  <2>2. G[T \cap Allowed] = Allowed \cap BeforeRound(T \cap Allowed)
    BY <1>3
  <2> HIDE DEF A, G
  <2> QED
    BY <1>1, <1>2, <1>3, <2>1, <2>2
<1>5. ASSUME BeforeRound(T) = T, NEW k \in Nat, k >= m PROVE T \cap Allowed = A[k]
  <2> HIDE DEF A, G
  <2>1. A[m] = A[m - 1]
    BY <1>2, <1>3, <1>4, <1>5
  <2>2. A[k] = A[m]
    BY <1>1, <1>2, <1>5, <2>1, Settles
  <2> QED
    BY <1>4, <1>5, <2>2
<1> QED
  BY <1>4, <1>5

LEMMA MeaningBounded ==
    ASSUME Typed, MeaningInv, BoundedLoop
    PROVE  MeaningInv'
<1> USE DEF BoundedLoop
<1>1. /\ UNCHANGED <<fsmVars, nodeVars>> /\ type' = type /\ tool' = tool /\ inf' = inf /\ sup' = sup
      /\ ~Searching /\ ~Searching'
  BY DEF BoundedRefuse, BoundedCall, WithinIterate, WithinExit, BeforeIterate, BeforeExit,
         nodeVars, Searching
<1>2. type \in Bounded /\ type # "FAIR" /\ tool # Tool /\ type \in Types[tool]
  <2>1. type \in Bounded
    BY DEF BoundedRefuse, BoundedCall, WithinIterate, WithinExit, BeforeIterate, BeforeExit,
           MeaningInv, NodeInv
  <2>2. type # "FAIR" /\ type \in Types[tool]
    BY <2>1, Kinds DEF MeaningInv, NodeInv
  <2> QED
    BY <2>1, <2>2, BoundedByNusmv DEF Typed
<1>3. FairInv'
  BY <1>1, <1>2, FairKept
<1>4. /\ Lasting(trans, Allowed, reach) /\ Allowed \in SUBSET State
      /\ EuRight \in SUBSET State /\ Y \in SUBSET State
  BY <1>2, AllowedIs, Sets DEF Typed
<1>5. /\ Allowed' = Allowed /\ EuLeft' = EuLeft /\ EmptyRange' = EmptyRange
      /\ \A lo, n : Given(lo, n)' = Given(lo, n)
  BY <1>1, PartsKept
<1>6. ASSUME BoundedInv', saved' = {}, pc' \in {"within", "before"} PROVE NodeInv'
  BY <1>1, <1>2, <1>6, Kinds DEF NodeInv
<1>7. ASSUME pc' = "return", saved' = {}, EmptyRange \/ Y' \cap Allowed = Given(inf, sup)
      PROVE  NodeInv'
  <2>1. Returned'
    BY <1>1, <1>2, <1>5, <1>7, Kinds DEF Returned
  <2> QED
    BY <1>1, <1>2, <1>7, <2>1, Kinds DEF NodeInv
<1>8. inf \in Int /\ sup \in Int /\ i \in Int /\ Next1 = Ahead(Y)
  BY DEF Typed, Next1, Ahead
<1>9. CASE BoundedRefuse
  <2>1. pc = "bounded" /\ pc' = "return" /\ saved' = saved /\ (inf > sup \/ inf < 0)
    BY <1>9 DEF BoundedRefuse
  <2>2. saved = {} /\ EmptyRange
    BY <1>2, <2>1 DEF MeaningInv, NodeInv, EmptyRange
  <2> QED
    BY <1>3, <1>7, <2>1, <2>2 DEF MeaningInv
<1>10. CASE BoundedCall
  <2>1. /\ pc = "bounded" /\ pc' = "within" /\ saved' = saved /\ i' = sup /\ ~(inf > sup \/ inf < 0)
        /\ Y' = EuRight \cap Allowed
    BY <1>10 DEF BoundedCall
  <2>2. saved = {}
    BY <2>1 DEF MeaningInv, NodeInv
  <2>3. /\ inf \in 0..sup /\ sup \in Nat /\ i' \in inf..sup /\ sup - i' = 0
    BY <1>8, <2>1
  <2>4. Given(0, 0) = Allowed \cap EuRight
    BY <1>4, GivenRounds
  <2>5. Y' \cap Allowed = Given(0, sup - i')
    BY <2>1, <2>3, <2>4
  <2>6. BoundedInv'
    BY <1>1, <1>5, <2>1, <2>3, <2>5 DEF BoundedInv
  <2> QED
    BY <1>3, <1>6, <2>1, <2>2, <2>6 DEF MeaningInv
<1>11. CASE WithinIterate
  <2>1. /\ pc = "within" /\ pc' = "within" /\ saved' = saved /\ i > inf
        /\ Y' = WithinRound(Y) /\ i' = IF Y' = Y THEN inf ELSE i - 1
    BY <1>8, <1>11 DEF WithinIterate, WithinRound
  <2>2. saved = {} /\ BoundedInv
    BY <2>1 DEF MeaningInv, NodeInv
  <2>3. inf \in 0..sup /\ sup \in Nat /\ i \in inf..sup /\ Y \cap Allowed = Given(0, sup - i)
    BY <2>1, <2>2 DEF BoundedInv
  <2> DEFINE n == sup - i
             m == n + 1
  <2>4. /\ n \in Nat /\ m \in Nat /\ m = n + 1 /\ i - 1 \in inf..sup /\ sup - (i - 1) = m
        /\ sup - inf \in Nat /\ sup - inf >= m /\ inf \in inf..sup
    BY <1>8, <2>1, <2>3
  <2>5. Y \cap Allowed = Given(0, n)
    BY <2>3
  <2>6. /\ Y' \cap Allowed = Given(0, m)
        /\ Y' = Y => \A k \in Nat : k >= m => Y \cap Allowed = Given(0, k)
    <3> HIDE DEF n, m
    <3> QED
      BY <1>4, <2>1, <2>4, <2>5, WithinGoesOn
  <2>7. i' \in inf..sup /\ Y' \cap Allowed = Given(0, sup - i')
    <3> HIDE DEF n, m
    <3>1. CASE Y' = Y
      BY <2>1, <2>4, <2>6, <3>1
    <3>2. CASE Y' # Y
      BY <2>1, <2>4, <2>6, <3>2
    <3> QED
      BY <3>1, <3>2
  <2>8. BoundedInv'
    BY <1>1, <1>5, <2>1, <2>3, <2>7 DEF BoundedInv
  <2> QED
    BY <1>3, <1>6, <2>1, <2>2, <2>8 DEF MeaningInv
<1>12. CASE WithinExit
  <2>1. pc = "within" /\ pc' = "before" /\ saved' = saved /\ i <= inf /\ Y' = Y /\ i' = inf
    BY <1>12 DEF WithinExit
  <2>2. saved = {} /\ BoundedInv
    BY <2>1 DEF MeaningInv, NodeInv
  <2>3. inf \in 0..sup /\ sup \in Nat /\ i \in inf..sup /\ Y \cap Allowed = Given(0, sup - i)
    BY <2>1, <2>2 DEF BoundedInv
  <2>4. i = inf /\ i' \in 0..inf /\ inf - i' = 0
    BY <1>8, <2>1, <2>3
  <2>5. Y' \cap Allowed = Given(inf - i', sup - i')
    BY <2>1, <2>3, <2>4
  <2>6. BoundedInv'
    BY <1>1, <1>5, <2>1, <2>3, <2>4, <2>5 DEF BoundedInv
  <2> QED
    BY <1>3, <1>6, <2>1, <2>2, <2>6 DEF MeaningInv
<1>13. CASE BeforeIterate
  <2>1. /\ pc = "before" /\ pc' = "before" /\ saved' = saved /\ i > 0
        /\ Y' = BeforeRound(Y) /\ i' = IF Y' = Y THEN 0 ELSE i - 1
    BY <1>8, <1>13 DEF BeforeIterate, BeforeRound
  <2>2. saved = {} /\ BoundedInv
    BY <2>1 DEF MeaningInv, NodeInv
  <2>3. inf \in 0..sup /\ sup \in Nat /\ i \in 0..inf /\ Y \cap Allowed = Given(inf - i, sup - i)
    BY <2>1, <2>2 DEF BoundedInv
  <2> DEFINE d == sup - inf
             n == inf - i
             m == n + 1
  <2>4. /\ d \in Nat /\ n \in Nat /\ m \in Nat /\ m = n + 1 /\ i - 1 \in 0..inf /\ 0 \in 0..inf
        /\ inf - (i - 1) = m /\ sup - (i - 1) = d + m /\ sup - i = d + n
        /\ inf \in Nat /\ inf >= m /\ inf - 0 = inf /\ sup - 0 = d + inf
    BY <1>8, <2>1, <2>3
  <2>5. Y \cap Allowed = Shifted(d, n)
    BY <2>3, <2>4 DEF Shifted
  <2>6. /\ Y' \cap Allowed = Shifted(d, m)
        /\ Y' = Y => \A k \in Nat : k >= m => Y \cap Allowed = Shifted(d, k)
    <3> HIDE DEF d, n, m
    <3> QED
      BY <1>4, <2>1, <2>4, <2>5, BeforeGoesOn
  <2>7. i' \in 0..inf /\ Y' \cap Allowed = Given(inf - i', sup - i')
    <3> HIDE DEF d, n, m
    <3>1. CASE Y' = Y
      <4>1. Y \cap Allowed = Shifted(d, inf)
        BY <2>4, <2>6, <3>1
      <4> QED
        BY <2>1, <2>4, <3>1, <4>1 DEF Shifted
    <3>2. CASE Y' # Y
      BY <2>1, <2>4, <2>6, <3>2 DEF Shifted
    <3> QED
      BY <3>1, <3>2
  <2>8. BoundedInv'
    BY <1>1, <1>5, <2>1, <2>3, <2>7 DEF BoundedInv
  <2> QED
    BY <1>3, <1>6, <2>1, <2>2, <2>8 DEF MeaningInv
<1>14. CASE BeforeExit
  <2>1. pc = "before" /\ pc' = "return" /\ saved' = saved /\ i <= 0 /\ Y' = Y
    BY <1>14 DEF BeforeExit, euVars
  <2>2. saved = {} /\ BoundedInv
    BY <2>1 DEF MeaningInv, NodeInv
  <2>3. inf \in 0..sup /\ sup \in Nat /\ i \in 0..inf /\ Y \cap Allowed = Given(inf - i, sup - i)
    BY <2>1, <2>2 DEF BoundedInv
  <2>4. inf - i = inf /\ sup - i = sup
    BY <1>8, <2>1, <2>3
  <2>5. Y' \cap Allowed = Given(inf, sup)
    BY <2>1, <2>3, <2>4
  <2> QED
    BY <1>3, <1>7, <2>1, <2>2, <2>5 DEF MeaningInv
<1> QED
  BY <1>9, <1>10, <1>11, <1>12, <1>13, <1>14

-----------------------------------------------------------------------------
(* What is returned: the sets above, complemented for the types whose dual *)
(* was computed.                                                           *)

\* The runs of n steps are made of states.
LEMMA RunStates ==
    ASSUME NEW s \in State, NEW n \in Nat, NEW w \in RunsOf(trans, Allowed, s, n)
    PROVE  \A k \in 1..(n + 1) : w[k] \in State
<1>1. w \in PathsOf(trans, s, n) /\ Len(w) = n + 1
  BY RunsOfAre
<1>2. w \in Seq(State)
  BY <1>1 DEF PathsOf
<1> QED
  BY <1>1, <1>2

\* The evaluation of the types without bounds.
Meant(s) == Satisfies(trans, Fairness, Allowed, type, s, a, b, inf, sup)

LEMMA StepsMeant ==
    ASSUME Typed, MeaningInv, pc = "return", type \in {"EX", "AX"},
           NEW s \in State, s \in Allowed, s \in reach
    PROVE  s \in Signed(saved \cup Y) <=> Meant(s)
<1>1. saved = {} /\ Y = Ex(Signed(a))
  BY DEF MeaningInv, NodeInv, Returned
<1>2. s \in Ex(Signed(a)) <=> Successors(trans, s) \cap Signed(a) \cap Allowed # {}
  BY ExIs
<1>3. CASE type = "EX"
  <2>1. Signed(a) = a /\ Signed(saved \cup Y) = saved \cup Y
    BY <1>3 DEF Signed, Negated, Always
  <2> QED
    BY <1>1, <1>2, <1>3, <2>1 DEF Meant, Satisfies
<1>4. CASE type = "AX"
  <2>1. Signed(a) = State \ a /\ Signed(saved \cup Y) = State \ (saved \cup Y)
    BY <1>4 DEF Signed, Negated, Always, Not
  <2>2. Successors(trans, s) \in SUBSET State
    BY SuccessorsIn
  <2>3. Meant(s) <=> Successors(trans, s) \cap Allowed \subseteq a
    BY <1>4 DEF Meant, Satisfies
  <2> QED
    BY <1>1, <1>2, <2>1, <2>2, <2>3
<1> QED
  BY <1>3, <1>4

LEMMA UnboundedMeant ==
    ASSUME Typed, MeaningInv, pc = "return", type \in HasEg \cup HasEu,
           NEW s \in State, s \in Allowed, s \in reach
    PROVE  s \in Signed(saved \cup Y) <=> Meant(s)
<1> DEFINE F == Allowed
<1>1. saved = EgPart /\ Y = EuPart
  BY DEF MeaningInv, NodeInv, Returned
<1>2. /\ reach \in SUBSET State /\ \A p \in reach : Successors(trans, p) \subseteq reach
      /\ a \in SUBSET State /\ b \in SUBSET State
  BY ReachKept DEF Typed
<1>3. \A p \in reach : Successors(trans, p) \cap F # {} => p \in F
  <2>1. type # "FAIR"
    BY Kinds
  <2> QED
    BY <2>1, AllowedIs
<1>4. \A f, g : s \in Untils(trans, F, f, g) <=> Until(trans, F, s, f, g)
  BY DEF Untils
<1>5. \A f, g : Unless(trans, F, s, f, g)
                  <=> s \notin Untils(trans, F, State \ g, State \ (f \cup g))
  BY <1>2, <1>3, UnlessIs
<1>6. /\ s \in saved <=> type \in HasEg /\ s \in Forever(trans, Fairness, EgArg)
      /\ s \in Y <=> type \in HasEu /\ s \in Untils(trans, F, EuLeft, EuRight)
  BY <1>1 DEF EgPart, EuPart
<1>7. type \in Negated => (s \in Signed(saved \cup Y) <=> s \notin saved /\ s \notin Y)
  BY DEF Signed, Not
<1>8. type \notin Negated => (s \in Signed(saved \cup Y) <=> s \in saved \/ s \in Y)
  BY DEF Signed
<1> HIDE DEF F
<1>9. CASE type = "EF"
  <2>1. type \notin HasEg /\ type \in HasEu /\ type \notin Negated /\ EuLeft = State /\ EuRight = a
    BY <1>9 DEF HasEg, HasEu, Negated, Always, EuLeft, EuRight, Signed
  <2>2. Meant(s) <=> Until(trans, F, s, State, a)
    BY <1>9 DEF Meant, Satisfies, F
  <2> QED
    BY <1>4, <1>6, <1>8, <2>1, <2>2
<1>10. CASE type = "AG"
  <2>1. type \notin HasEg /\ type \in HasEu /\ type \in Negated
        /\ EuLeft = State \ {} /\ EuRight = State \ (a \cup {})
    BY <1>10 DEF HasEg, HasEu, Negated, Always, EuLeft, EuRight, Signed, Not
  <2>2. Meant(s) <=> Unless(trans, F, s, a, {})
    BY <1>10 DEF Meant, Satisfies, F
  <2> QED
    BY <1>5, <1>6, <1>7, <2>1, <2>2
<1>11. CASE type = "EG"
  <2>1. type \in HasEg /\ type \notin HasEu /\ type \notin Negated /\ EgArg = a
    BY <1>11 DEF HasEg, HasEu, Negated, Always, EgArg, Signed
  <2>2. Meant(s) <=> s \in Forever(trans, Fairness, a)
    BY <1>11 DEF Meant, Satisfies
  <2> QED
    BY <1>6, <1>8, <2>1, <2>2
<1>12. CASE type = "AF"
  <2>1. type \in HasEg /\ type \notin HasEu /\ type \in Negated /\ EgArg = State \ a
    BY <1>12 DEF HasEg, HasEu, Negated, Always, EgArg, Signed, Not
  <2>2. Meant(s) <=> s \notin Forever(trans, Fairness, State \ a)
    BY <1>12 DEF Meant, Satisfies
  <2> QED
    BY <1>6, <1>7, <2>1, <2>2
<1>13. CASE type = "EU"
  <2>1. type \notin HasEg /\ type \in HasEu /\ type \notin Negated /\ EuLeft = a /\ EuRight = b
    BY <1>13 DEF HasEg, HasEu, Negated, Always, EuLeft, EuRight
  <2>2. Meant(s) <=> Until(trans, F, s, a, b)
    BY <1>13 DEF Meant, Satisfies, F
  <2> QED
    BY <1>4, <1>6, <1>8, <2>1, <2>2
<1>14. CASE type = "AU"
  <2>1. type \in HasEg /\ type \in HasEu /\ type \in Negated /\ EgArg = State \ b
        /\ EuLeft = State \ b /\ EuRight = State \ (a \cup b)
    BY <1>14 DEF HasEg, HasEu, Negated, Always, EgArg, EuLeft, EuRight, Not
  <2>2. Meant(s) <=> Unless(trans, F, s, a, b) /\ s \notin Forever(trans, Fairness, State \ b)
    BY <1>14 DEF Meant, Satisfies, F
  <2> QED
    BY <1>5, <1>6, <1>7, <2>1, <2>2
<1>15. CASE type = "EW"
  <2>1. type \in HasEg /\ type \in HasEu /\ type \notin Negated /\ EgArg = a
        /\ EuLeft = a /\ EuRight = b
    BY <1>15 DEF HasEg, HasEu, Negated, Always, EgArg, EuLeft, EuRight, Signed
  <2>2. Meant(s) <=> Until(trans, F, s, a, b) \/ s \in Forever(trans, Fairness, a)
    BY <1>15 DEF Meant, Satisfies, F
  <2> QED
    BY <1>4, <1>6, <1>8, <2>1, <2>2
<1>16. CASE type = "AW"
  <2>1. type \notin HasEg /\ type \in HasEu /\ type \in Negated
        /\ EuLeft = State \ b /\ EuRight = State \ (a \cup b)
    BY <1>16 DEF HasEg, HasEu, Negated, Always, EuLeft, EuRight, Not
  <2>2. Meant(s) <=> Unless(trans, F, s, a, b)
    BY <1>16 DEF Meant, Satisfies, F
  <2> QED
    BY <1>5, <1>6, <1>7, <2>1, <2>2
<1> QED
  BY <1>9, <1>10, <1>11, <1>12, <1>13, <1>14, <1>15, <1>16 DEF HasEg, HasEu

LEMMA BoundedMeant ==
    ASSUME Typed, MeaningInv, pc = "return", type \in Bounded, ~EmptyRange,
           NEW s \in State, s \in Allowed, s \in reach
    PROVE  s \in Signed(saved \cup Y) <=> Meant(s)
<1> DEFINE F == Allowed
           W == RunsOf(trans, F, s, sup)
<1>1. saved = {} /\ Y \cap F = Given(inf, sup)
  BY DEF MeaningInv, NodeInv, Returned
<1>2. inf \in Nat /\ sup \in Nat /\ \A k \in inf..sup : k + 1 \in 1..(sup + 1)
  <2>1. inf \in Int /\ sup \in Int /\ inf <= sup /\ inf >= 0
    BY DEF Typed, EmptyRange
  <2> QED
    BY <2>1
<1>3. \A w \in W : \A k \in 1..(sup + 1) : w[k] \in State
  BY <1>2, RunStates
<1>4. /\ type \in Negated => (s \in Signed(saved \cup Y) <=> s \notin Given(inf, sup))
      /\ type \notin Negated => (s \in Signed(saved \cup Y) <=> s \in Given(inf, sup))
  BY <1>1 DEF Signed, Not
<1>5. ASSUME NEW w \in W, NEW S \in SUBSET State
      PROVE  /\ ~Holding(State \ S, w, inf + 1, sup + 1) <=> Meets(w, State, S, inf, sup)
             /\ ~Meets(w, State, State \ S, inf, sup) <=> Holding(S, w, inf + 1, sup + 1)
  <2>1. \A k \in 1..(sup + 1) : w[k] \in State
    BY <1>3
  <2>2. \A k \in inf..sup : Holding(State, w, 1, k) /\ k + 1 \in (inf + 1)..(sup + 1) /\ w[k + 1] \in State
    <3>1. ASSUME NEW k \in inf..sup PROVE k \in Nat /\ k <= sup
      BY <1>2
    <3>2. ASSUME NEW k \in inf..sup, NEW j \in 1..k PROVE w[j] \in State
      BY <1>2, <2>1, <3>1
    <3> QED
      BY <1>2, <2>1, <3>2 DEF Holding
  <2>3. \A j \in (inf + 1)..(sup + 1) : j - 1 \in inf..sup /\ (j - 1) + 1 = j /\ w[j] \in State
    BY <1>2, <2>1
  <2> HIDE DEF W
  <2>4. ASSUME NEW P PROVE Holding(P, w, inf + 1, sup + 1) <=> \A k \in inf..sup : w[k + 1] \in P
    <3>1. ASSUME NEW j \in (inf + 1)..(sup + 1), \A k \in inf..sup : w[k + 1] \in P PROVE w[j] \in P
      <4>1. j - 1 \in inf..sup /\ (j - 1) + 1 = j
        BY <2>3
      <4>2. w[(j - 1) + 1] \in P
        BY <3>1, <4>1
      <4> QED
        BY <4>1, <4>2
    <3> QED
      BY <2>2, <3>1 DEF Holding
  <2>5. \A P : Meets(w, State, P, inf, sup) <=> \E k \in inf..sup : w[k + 1] \in P
    BY <2>2 DEF Meets
  <2> QED
    BY <2>2, <2>4, <2>5
<1>6. a \in SUBSET State /\ b \in SUBSET State /\ s \in F
  BY DEF Typed
<1> HIDE DEF F, W
<1>7. CASE type = "EBU"
  <2>1. type \notin Negated /\ ~OnGlobally /\ ~OnAll /\ EuLeft = a /\ EuRight = b
    BY <1>7 DEF Negated, Always, OnGlobally, OnAll, EuLeft, EuRight
  <2>2. Meant(s) <=> \E w \in W : Meets(w, a, b, inf, sup)
    BY <1>7 DEF Meant, Satisfies, W, F
  <2> QED
    BY <1>4, <1>6, <2>1, <2>2 DEF Given, MeetingSome, W, F
<1>8. CASE type = "EBF"
  <2>1. type \notin Negated /\ ~OnGlobally /\ ~OnAll /\ EuLeft = State /\ EuRight = a
    BY <1>8 DEF Negated, Always, OnGlobally, OnAll, EuLeft, EuRight, Signed
  <2>2. Meant(s) <=> \E w \in W : Meets(w, State, a, inf, sup)
    BY <1>8 DEF Meant, Satisfies, W, F
  <2> QED
    BY <1>4, <1>6, <2>1, <2>2 DEF Given, MeetingSome, W, F
<1>9. CASE type = "EBG"
  <2>1. type \notin Negated /\ OnGlobally /\ EuRight = a
    BY <1>9 DEF Negated, Always, OnGlobally, EuRight, Signed
  <2>2. Meant(s) <=> \E w \in W : Holding(a, w, inf + 1, sup + 1)
    BY <1>9 DEF Meant, Satisfies, W, F
  <2> QED
    BY <1>4, <1>6, <2>1, <2>2 DEF Given, Staying, W, F
<1>10. CASE type = "ABU"
  <2>1. type \notin Negated /\ ~OnGlobally /\ OnAll /\ EuLeft = a /\ EuRight = b
    BY <1>10 DEF Negated, Always, OnGlobally, OnAll, EuLeft, EuRight
  <2>2. Meant(s) <=> \A w \in W : Meets(w, a, b, inf, sup)
    BY <1>10 DEF Meant, Satisfies, W, F
  <2> QED
    BY <1>4, <1>6, <2>1, <2>2 DEF Given, MeetingAll, W, F
<1>11. CASE type = "ABF"
  <2>1. type \in Negated /\ OnGlobally /\ EuRight = State \ a
    BY <1>11 DEF Negated, Always, OnGlobally, EuRight, Signed, Not
  <2>2. Meant(s) <=> \A w \in W : Meets(w, State, a, inf, sup)
    BY <1>11 DEF Meant, Satisfies, W, F
  <2>3. s \in Given(inf, sup) <=> \E w \in W : Holding(State \ a, w, inf + 1, sup + 1)
    BY <1>6, <2>1 DEF Given, Staying, W, F
  <2> QED
    BY <1>4, <1>5, <1>6, <2>1, <2>2, <2>3
<1>12. CASE type = "ABG"
  <2>1. type \in Negated /\ ~OnGlobally /\ ~OnAll /\ EuLeft = State /\ EuRight = State \ a
    BY <1>12 DEF Negated, Always, OnGlobally, OnAll, EuLeft, EuRight, Signed, Not
  <2>2. Meant(s) <=> \A w \in W : Holding(a, w, inf + 1, sup + 1)
    BY <1>12 DEF Meant, Satisfies, W, F
  <2>3. s \in Given(inf, sup) <=> \E w \in W : Meets(w, State, State \ a, inf, sup)
    BY <1>6, <2>1 DEF Given, MeetingSome, W, F
  <2> QED
    BY <1>4, <1>5, <1>6, <2>1, <2>2, <2>3
<1> QED
  BY <1>7, <1>8, <1>9, <1>10, <1>11, <1>12 DEF Bounded

LEMMA ReturnMeant ==
    ASSUME Typed, MeaningInv, Return
    PROVE  ResultIsMeant'
<1>1. /\ pc = "return" /\ UNCHANGED <<fsmVars, nodeVars>>
      /\ result' = LET sat == Signed(saved \cup Y) IN IF tool = Tool THEN sat \cap reach ELSE sat
  BY DEF Return
<1>2. type \notin Lengths /\ type # "FAIR" /\ Returned
  BY <1>1 DEF MeaningInv, NodeInv, Searching
<1>3. /\ Allowed \in SUBSET reach /\ Allowed \in SUBSET State
      /\ tool = Tool => Allowed = reach
      /\ tool # Tool => Allowed = fair
  BY <1>2, AllowedIs
<1>4. Start \subseteq reach /\ reach \in SUBSET State
  BY ReachKept
<1>5. Signed(saved \cup Y) \in SUBSET State
  <2>1. saved \cup Y \in SUBSET State
    BY DEF Typed
  <2> QED
    BY <2>1, Sets
<1>6. type \in Types[tool]
  BY <1>2 DEF MeaningInv, NodeInv
<1>7. type \in {"EX", "AX"} \cup HasEg \cup HasEu \cup Bounded
  <2>1. Entry(type) \in {"ex", "eg", "eu", "bounded", "minu", "maxu"}
    BY <1>6, Entries DEF Typed
  <2> QED
    BY <1>2, <1>6, <2>1, Kind DEF Typed
<1>8. ASSUME ~EmptyRange, NEW s \in Allowed PROVE s \in Signed(saved \cup Y) <=> Meant(s)
  <2>1. s \in State /\ s \in reach /\ s \in Allowed
    BY <1>3
  <2>2. CASE type \in {"EX", "AX"}
    BY <1>1, <2>1, <2>2, StepsMeant
  <2>3. CASE type \in HasEg \cup HasEu
    BY <1>1, <2>1, <2>3, UnboundedMeant
  <2>4. CASE type \in Bounded
    BY <1>1, <1>8, <2>1, <2>4, BoundedMeant
  <2> QED
    BY <1>7, <2>2, <2>3, <2>4
<1> DEFINE sat == {s \in Judged : Satisfies(trans, Fairness, Judged, type, s, a, b, inf, sup)}
<1>9. sat = {s \in Allowed : Meant(s)} /\ Judged = Allowed
  BY DEF Judged, Meant
<1>10. result' \cap Allowed = Signed(saved \cup Y) \cap Allowed
  BY <1>1, <1>3
<1>11. ~EmptyRange => result' \cap Judged = sat
  BY <1>8, <1>9, <1>10
<1>12. Verdict' <=> Start \cap Judged \subseteq result'
  <2>1. Verdict' <=> Initial \cap Invar \cap (IF tool = Tool THEN State ELSE fair) \cap Not(result') = {}
    BY <1>1 DEF Verdict, fsmVars, nodeVars, Not
  <2>2. CASE tool = Tool
    BY <1>3, <1>4, <1>9, <2>1, <2>2 DEF Start, Not
  <2>3. CASE tool # Tool
    BY <1>3, <1>4, <1>9, <2>1, <2>3 DEF Start, Not
  <2> QED
    BY <2>2, <2>3
<1>13. EmptyRange' = EmptyRange /\ type' = type /\ Judged' = Judged
  BY <1>1, PartsKept DEF nodeVars, Judged
<1>14. sat' = sat
  BY <1>1, <1>13 DEF nodeVars, fsmVars, Fairness
<1>15. ~EmptyRange => (Start \cap Judged \subseteq result' <=> Start \cap Judged \subseteq sat)
  BY <1>11
<1> HIDE DEF sat
<1>16. ~EmptyRange' => /\ result' \cap Judged' = sat'
                       /\ Verdict' <=> (Start \cap Judged)' \subseteq sat'
  BY <1>11, <1>12, <1>13, <1>14, <1>15
<1> QED
  BY <1>16 DEF ResultIsMeant, sat

\* The other steps.
LEMMA MeaningRequest == ASSUME Typed, MeaningInv, Request PROVE MeaningInv'
<1>0. PICK to \in {NuSMV, Tool, Mc} : \E ty \in Types[to] : \E x, y \in SUBSET State :
         \E lo, hi \in Int : Call(to, ty, x, y, lo, hi)
  BY Requests
<1>1. PICK ty \in Types[to], x \in SUBSET State, y \in SUBSET State, lo \in Int, hi \in Int :
         Call(to, ty, x, y, lo, hi)
  BY <1>0
<1>2. /\ pc = "idle" /\ tool' = to /\ type' = ty /\ pc' = Entry(ty)
      /\ UNCHANGED fsmVars /\ saved' = saved /\ Y' = Y
  BY <1>1 DEF Call, euVars
<1>3. ty # "FAIR" /\ Entry(ty) \in {"ex", "eg", "eu", "bounded", "minu", "maxu"}
  BY Kind
<1>4. FairInv'
  <2>1. ~Searching
    BY <1>2 DEF Searching
  <2>2. fairsi = Lasts(State) /\ fair = reach \cap Forever(trans, Justice, State)
    BY <2>1 DEF MeaningInv, FairInv
  <2>3. Lasts(State)' = Lasts(State)
    BY <1>2 DEF Lasts, fsmVars
  <2> QED
    BY <1>2, <1>3, <2>2, <2>3 DEF FairInv, fsmVars
<1>5. Y = {} /\ saved = {}
  BY <1>2 DEF MeaningInv, NodeInv
<1>6. ~Searching'
  BY <1>2, <1>3 DEF Searching
<1>7. /\ Entry(ty) = "ex" => ty \in {"EX", "AX"}
      /\ Entry(ty) = "eg" => ty \in HasEg
      /\ Entry(ty) = "eu" => ty \in HasEu /\ ty \notin HasEg
      /\ Entry(ty) = "bounded" => ty \in Bounded
      /\ Entry(ty) \in {"minu", "maxu"} => ty \in Lengths
  BY Kind
<1>8. NodeInv'
  BY <1>2, <1>3, <1>5, <1>6, <1>7 DEF NodeInv, EgPart
<1> QED
  BY <1>4, <1>8 DEF MeaningInv

LEMMA MeaningRest ==
    ASSUME Typed, MeaningInv, Taken \/ Compute \/ Return \/ UNCHANGED vars
    PROVE  MeaningInv'
<1>1. CASE Taken
  <2>1. /\ pc = "done" /\ pc' = "idle" /\ type' = "FAIR" /\ Y' = {} /\ saved' = {} /\ UNCHANGED fsmVars
    BY <1>1 DEF Taken
  <2>2. fairsi = Lasts(State) /\ fair = reach \cap Forever(trans, Justice, State)
    BY <2>1 DEF MeaningInv, FairInv, Searching
  <2>3. Lasts(State)' = Lasts(State)
    BY <2>1 DEF Lasts, fsmVars
  <2>4. FairInv'
    BY <2>1, <2>2, <2>3 DEF FairInv, fsmVars, Searching
  <2>5. NodeInv'
    BY <2>1 DEF NodeInv, Searching
  <2> QED
    BY <2>4, <2>5 DEF MeaningInv
<1>2. CASE Compute
  <2>1. /\ UNCHANGED <<fsmVars, nodeVars>> /\ type' = type /\ tool' = tool
        /\ pc \in {"minu", "minu_loop", "maxu", "maxu_loop"}
        /\ pc' \in {"minu_loop", "maxu_loop", "done"}
    BY <1>2 DEF Compute, MinuCall, MinuFound, MinuIterate, MinuExit, MaxuRefuse, MaxuCall, MaxuFound,
                MaxuIterate, MaxuExit, Answer, nodeVars
  <2>2. type \in Lengths /\ type # "FAIR" /\ type \in Types[tool] /\ ~Searching /\ ~Searching'
    BY <2>1, Kinds DEF MeaningInv, NodeInv, Searching
  <2>3. FairInv'
    BY <2>1, <2>2, FairKept
  <2>4. NodeInv'
    BY <2>1, <2>2 DEF NodeInv
  <2> QED
    BY <2>3, <2>4 DEF MeaningInv
<1>3. CASE Return
  <2>1. /\ UNCHANGED <<fsmVars, nodeVars>> /\ type' = type /\ tool' = tool
        /\ pc = "return" /\ pc' = "done"
    BY <1>3 DEF Return, nodeVars
  <2>2. type # "FAIR" /\ type \in Types[tool] /\ ~Searching /\ ~Searching'
    BY <2>1 DEF MeaningInv, NodeInv, Searching
  <2>3. FairInv'
    BY <2>1, <2>2, FairKept
  <2>4. NodeInv'
    BY <2>1, <2>2 DEF NodeInv
  <2> QED
    BY <2>3, <2>4 DEF MeaningInv
<1>4. CASE UNCHANGED vars
  <2>1. UNCHANGED <<fsmVars, nodeVars>> /\ pc' = pc /\ type' = type /\ tool' = tool /\ saved' = saved
        /\ Y' = Y /\ prev' = prev /\ bound' = bound /\ fairsi' = fairsi /\ fair' = fair /\ i' = i
        /\ a' = a /\ inf' = inf /\ sup' = sup /\ trans' = trans /\ reach' = reach
    BY <1>4 DEF vars, nodeVars, fsmVars, euVars, egVars
  <2>2. /\ EgPart' = EgPart /\ EuPart' = EuPart /\ EgArg' = EgArg /\ Allowed' = Allowed
        /\ EmptyRange' = EmptyRange
        /\ \A lo, n : Given(lo, n)' = Given(lo, n)
        /\ \A S : Ex(S)' = Ex(S)
        /\ \A S : Signed(S)' = Signed(S)
        /\ \A g : Lasts(g)' = Lasts(g)
    BY <2>1, PartsKept
  <2>3. FairInv'
    BY <2>1, <2>2 DEF MeaningInv, FairInv, Searching
  <2>4. ToolEgInv' = ToolEgInv /\ BoundedInv' = BoundedInv /\ Returned' = Returned
    BY <2>1, <2>2 DEF ToolEgInv, BoundedInv, Returned
  <2>5. NodeInv'
    BY <2>1, <2>2, <2>4 DEF MeaningInv, NodeInv, Searching
  <2> QED
    BY <2>3, <2>5 DEF MeaningInv
<1> QED
  BY <1>1, <1>2, <1>3, <1>4

LEMMA MeaningNext ==
    ASSUME Typed, EgInv, EuInv, MeaningInv, [Next]_vars
    PROVE  MeaningInv'
<1>1. \/ EgIterate \/ EgAccumulate \/ EuSiIterate \/ EuSiExit \/ (\E p \in Justice : EgTry(p))
      \/ FairExit \/ EgExit
      \/ Unbounded \/ BoundedLoop \/ Request
      \/ (Taken \/ Compute \/ Return \/ UNCHANGED vars)
  BY DEF Next, Evaluate, EgLoop
<1> QED
  BY <1>1, MeaningSearch, MeaningEgExits, MeaningUnbounded, MeaningBounded, MeaningRequest, MeaningRest

LEMMA ResultNext ==
    ASSUME Typed, MeaningInv, ResultIsMeant, [Next]_vars
    PROVE  ResultIsMeant'
<1>1. CASE Return
  BY <1>1, ReturnMeant
<1>2. CASE UNCHANGED vars
  <2>1. ResultIsMeant' = ResultIsMeant
    <3> USE <1>2 DEF vars, fsmVars, nodeVars
    <3>1. pc' = pc /\ type' = type /\ result' = result /\ Judged' = Judged /\ EmptyRange' = EmptyRange
          /\ Verdict' = Verdict /\ Fairness' = Fairness
      BY DEF Judged, Allowed, EmptyRange, Verdict, Fairness
    <3>2. trans' = trans /\ a' = a /\ b' = b /\ inf' = inf /\ sup' = sup
      OBVIOUS
    <3> QED
      BY <3>1, <3>2 DEF ResultIsMeant
  <2> QED
    BY <2>1
<1>3. CASE pc' # "done"
  BY <1>3 DEF ResultIsMeant
<1>4. CASE Compute
  <2>1. pc \in {"minu", "minu_loop", "maxu", "maxu_loop"} /\ type' = type
    BY <1>4 DEF Compute, MinuCall, MinuFound, MinuIterate, MinuExit, MaxuRefuse, MaxuCall, MaxuFound,
                MaxuIterate, MaxuExit, Answer, nodeVars
  <2>2. type' \in Lengths
    BY <2>1 DEF MeaningInv, NodeInv
  <2> QED
    BY <2>2 DEF ResultIsMeant
<1>5. CASE Next /\ ~Return /\ ~Compute
  <2>1. CASE Unbounded
    <3>1. pc' # "done"
      BY <2>1 DEF Unbounded, ExCall, EgTrue, EgCall, ToolEgCall, ToolEgIterate, ToolEgExit,
                  EuCall, EuIterate, EuExit, Rest
    <3> QED
      BY <1>3, <3>1
  <2>2. CASE BoundedLoop
    <3>1. pc' # "done"
      BY <2>2 DEF BoundedLoop, BoundedRefuse, BoundedCall, WithinIterate, WithinExit, BeforeIterate,
                  BeforeExit
    <3> QED
      BY <1>3, <3>1
  <2>3. CASE EgLoop \/ \E p \in Justice : EgTry(p)
    <3>1. pc' # "done"
      BY <2>3 DEF EgLoop, EgIterate, EgAccumulate, FairExit, EgExit, EuSiIterate, EuSiExit, EgTry, Rest
    <3> QED
      BY <1>3, <3>1
  <2>4. CASE Taken
    <3>1. pc' # "done"
      BY <2>4 DEF Taken
    <3> QED
      BY <1>3, <3>1
  <2>5. CASE Request
    <3>0. PICK to \in {NuSMV, Tool, Mc} : \E ty \in Types[to] : \E x, y \in SUBSET State :
             \E lo, hi \in Int : Call(to, ty, x, y, lo, hi)
      BY <2>5, Requests
    <3>1. PICK ty \in Types[to], x \in SUBSET State, y \in SUBSET State, lo \in Int, hi \in Int :
             Call(to, ty, x, y, lo, hi)
      BY <3>0
    <3>2. pc' = Entry(ty) /\ Entry(ty) \in {"ex", "eg", "eu", "bounded", "minu", "maxu"}
      BY <3>1, Kind DEF Call
    <3> QED
      BY <1>3, <3>2
  <2> QED
    BY <1>5, <2>1, <2>2, <2>3, <2>4, <2>5 DEF Next, Evaluate
<1> QED
  BY <1>1, <1>2, <1>4, <1>5

\* What an evaluation returns is the set of the states that satisfy the
\* operator by its definition on paths, and the verdict that of the initial
\* states: for NuSMV on the fair states, for the ctl tool on the reachable
\* ones, for every relation, operands, bounds and constraints.
THEOREM ResultCorrect == Spec => []ResultIsMeant
<1>1. Init => Typed /\ EgInv /\ EuInv /\ MeaningInv /\ ResultIsMeant
  <2> SUFFICES ASSUME Init PROVE Typed /\ EgInv /\ EuInv /\ MeaningInv /\ ResultIsMeant
    OBVIOUS
  <2>1. Typed /\ MeaningInv
    BY TypedInit, MeaningInit
  <2>2. EuInv /\ ResultIsMeant
    BY DEF Init, EuInv, ResultIsMeant
  <2>3. EgInv
    BY <2>1 DEF Init, EgInv, GreatestRecurring, Typed
  <2> QED
    BY <2>1, <2>2, <2>3
<1>2. /\ Typed /\ EgInv /\ EuInv /\ MeaningInv /\ ResultIsMeant
      /\ [Next]_vars
      => (Typed /\ EgInv /\ EuInv /\ MeaningInv /\ ResultIsMeant)'
  BY TypedNext, EgInvNext, EuInvNext, MeaningNext, ResultNext
<1> QED
  BY <1>1, <1>2, PTL DEF Spec

-----------------------------------------------------------------------------
(* COMPUTE: after i rounds the loop of MIN holds what i steps lead to, that *)
(* of MAX where i steps can be made outside b.                              *)

Avoiding(n) == Staying(trans, Allowed, Not(b), 0, n)

MinInv ==
    /\ i \in Nat /\ Y = Arrived(trans, Allowed, a, i)
    /\ i > 0 => prev = Arrived(trans, Allowed, a, i - 1)
    /\ \A j \in Nat : j < i => Arrived(trans, Allowed, a, j) \cap b = {}

MaxInv ==
    /\ i \in Nat /\ Y = Avoiding(i)
    /\ i > 0 => prev = Avoiding(i - 1)
    /\ \A j \in Nat : j < i => Avoiding(j) \cap a # {}
    /\ fair # {} => a \cap fair # {} /\ b \cap fair # {}

LengthInv ==
    /\ pc \in {"minu", "minu_loop"} => type = "MINU"
    /\ pc \in {"maxu", "maxu_loop"} => type = "MAXU"
    /\ pc = "minu_loop" => MinInv
    /\ pc = "maxu_loop" => MaxInv

LEMMA LengthsByNusmv ==
    ASSUME Typed, MeaningInv, type \in Lengths
    PROVE  /\ tool # Tool /\ Lasting(trans, Allowed, reach)
           /\ Allowed = fair /\ Allowed \in SUBSET reach /\ reach \in SUBSET Invar
           /\ Allowed \in SUBSET State
<1>1. type # "FAIR"
  BY Kinds
<1>2. type \in Types[tool]
  BY <1>1 DEF MeaningInv, NodeInv
<1>3. tool # Tool
  BY <1>2 DEF Typed, Types, Tool, NuSMV, Mc, Lengths, Sometimes, Always
<1> QED
  BY <1>1, <1>3, AllowedIs, ReachKept

\* The rounds of the two loops.
LEMMA MinuRounds ==
    ASSUME Typed, MeaningInv, type \in Lengths
    PROVE  /\ Arrived(trans, Allowed, a, 0) = a \cap fair \cap reach \cap Invar
           /\ \A n \in Nat, m \in Nat : n = m + 1 =>
                 LET S == Arrived(trans, Allowed, a, m)
                 IN Arrived(trans, Allowed, a, n) = S \cup (ForwardImage(trans, S) \cap fair)
<1>1. /\ Lasting(trans, Allowed, reach) /\ Allowed = fair
      /\ Allowed \in SUBSET reach /\ reach \in SUBSET Invar /\ Allowed \in SUBSET State
  BY LengthsByNusmv
<1>2. Arrived(trans, Allowed, a, 0) = Allowed \cap a
  BY <1>1, ArrivedStart
<1>3. ASSUME NEW S \in SUBSET Allowed
      PROVE  StepsOn(trans, Allowed, S) = ForwardImage(trans, S) \cap fair
  BY <1>1 DEF StepsOn, ForwardImage, Successors
<1>4. ASSUME NEW n \in Nat, NEW m \in Nat, n = m + 1, NEW S, S = Arrived(trans, Allowed, a, m)
      PROVE  Arrived(trans, Allowed, a, n) = S \cup (ForwardImage(trans, S) \cap fair)
  <2>1. n # 0 /\ n - 1 = m
    BY <1>4
  <2>2. ArrivedStep(trans, Allowed, a, n)
    BY <1>1, <2>1, ArrivedNext
  <2>3. Arrived(trans, Allowed, a, n) = S \cup StepsOn(trans, Allowed, S)
    BY <1>4, <2>1, <2>2 DEF ArrivedStep
  <2>4. S \in SUBSET Allowed
    BY <1>4 DEF Arrived
  <2> QED
    BY <1>3, <2>3, <2>4
<1> QED
  BY <1>1, <1>2, <1>4

LEMMA MaxuRounds ==
    ASSUME Typed, MeaningInv, type \in Lengths
    PROVE  /\ Avoiding(0) = Not(b) \cap Invar \cap fair \cap reach
           /\ \A n \in Nat, m \in Nat : n = m + 1 =>
                 Avoiding(n) = BackwardImage(trans, Avoiding(m)) \cap reach \cap fair \cap Not(b) \cap Invar
           /\ \A n \in Nat, m \in Nat : n = m + 1 => Avoiding(n) \subseteq Avoiding(m)
<1>1. /\ Lasting(trans, Allowed, reach) /\ Allowed = fair
      /\ Allowed \in SUBSET reach /\ reach \in SUBSET Invar /\ Allowed \in SUBSET State
  BY LengthsByNusmv
<1> DEFINE B(S) == Not(b) \cap Before(trans, Allowed, S)
<1>2. Avoiding(0) = Allowed \cap Not(b)
  <2>1. /\ MeetingSome(trans, Allowed, b, Not(b), 0, 0) = Allowed \cap Not(b)
        /\ MeetingAll(trans, Allowed, b, Not(b), 0, 0) = Allowed \cap Not(b)
        /\ Staying(trans, Allowed, Not(b), 0, 0) = Allowed \cap Not(b)
    BY <1>1, MeetingStart
  <2> QED
    BY <2>1 DEF Avoiding
<1>3. ASSUME NEW S \in SUBSET Allowed
      PROVE  B(S) = BackwardImage(trans, S) \cap reach \cap fair \cap Not(b) \cap Invar
  BY <1>1 DEF Before, BackwardImage, Successors
<1>4. \A n : Avoiding(n) \in SUBSET Allowed
  BY DEF Avoiding, Staying
<1>5. ASSUME NEW n \in Nat, NEW m \in Nat, n = m + 1 PROVE Avoiding(n) = B(Avoiding(m))
  <2>1. n # 0 /\ n - 1 = m /\ 0 \in 0..n
    BY <1>5
  <2>2. StayingStep(trans, Allowed, Not(b), 0, n)
    BY <1>1, <2>1, StayingSteps
  <2> QED
    BY <2>1, <2>2 DEF StayingStep, Avoiding
<1> DEFINE A == [n \in Nat |-> Avoiding(n)]
           G == [S \in SUBSET Allowed |-> B(S)]
<1>6. Downward(Allowed, A, G)
  <2>1. A \in [Nat -> SUBSET Allowed] /\ G \in [SUBSET Allowed -> SUBSET Allowed]
    BY <1>4 DEF Before
  <2>2. \A P, Q \in SUBSET Allowed : P \subseteq Q => G[P] \subseteq G[Q]
    BY DEF Before
  <2>3. ASSUME NEW n \in Nat \ {0} PROVE A[n] = A[0] \cap G[A[n - 1]]
    <3>1. n - 1 \in Nat /\ n = (n - 1) + 1 /\ n \in Nat /\ 0 \in Nat
      OBVIOUS
    <3>2. Avoiding(n) = B(Avoiding(n - 1))
      BY <1>5, <3>1
    <3>3. B(Avoiding(n - 1)) \subseteq Avoiding(0)
      BY <1>2 DEF Before
    <3>4. A[0] = Avoiding(0) /\ A[n] = Avoiding(n) /\ G[A[n - 1]] = B(Avoiding(n - 1))
      BY <1>4, <3>1
    <3> HIDE DEF A, G, B
    <3> QED
      BY <3>2, <3>3, <3>4
  <2> HIDE DEF A, G
  <2> QED
    BY <2>1, <2>2, <2>3 DEF Downward
<1>7. ASSUME NEW n \in Nat, NEW m \in Nat, n = m + 1 PROVE Avoiding(n) \subseteq Avoiding(m)
  <2>1. n \in Nat \ {0} /\ n - 1 = m
    BY <1>7
  <2>2. A[n] = A[n - 1] \cap G[A[n - 1]]
    <3> HIDE DEF A, G
    <3> QED
      BY <1>6, <2>1, Restricts
  <2>3. A[n] = Avoiding(n) /\ A[n - 1] = Avoiding(m)
    BY <2>1
  <2> HIDE DEF A, G
  <2> QED
    BY <2>2, <2>3
<1>8. ASSUME NEW n \in Nat, NEW m \in Nat, n = m + 1
      PROVE  Avoiding(n) = BackwardImage(trans, Avoiding(m)) \cap reach \cap fair \cap Not(b) \cap Invar
  BY <1>3, <1>4, <1>5, <1>8
<1> HIDE DEF B
<1> QED
  BY <1>1, <1>2, <1>7, <1>8

\* A round that changes nothing is the last one that matters, in both loops.
LEMMA LengthsSettle ==
    ASSUME Typed, MeaningInv, type \in Lengths, NEW n \in Nat, NEW m \in Nat, n = m + 1,
           NEW k \in Nat, k >= n
    PROVE  /\ Arrived(trans, Allowed, a, n) = Arrived(trans, Allowed, a, m)
                => Arrived(trans, Allowed, a, k) = Arrived(trans, Allowed, a, n)
           /\ Avoiding(n) = Avoiding(m) => Avoiding(k) = Avoiding(n)
           /\ Avoiding(k) \subseteq Avoiding(n)
<1>1. n \in Nat \ {0} /\ n - 1 = m
  OBVIOUS
<1>2. ASSUME NEW j \in Nat \ {0} PROVE j \in Nat /\ j - 1 \in Nat /\ j = (j - 1) + 1
  OBVIOUS
<1>3. ASSUME Arrived(trans, Allowed, a, n) = Arrived(trans, Allowed, a, m)
      PROVE  Arrived(trans, Allowed, a, k) = Arrived(trans, Allowed, a, n)
  <2> DEFINE A == [j \in Nat |-> Arrived(trans, Allowed, a, j)]
             G == [S \in SUBSET Allowed |-> S \cup (ForwardImage(trans, S) \cap fair)]
  <2>1. ASSUME NEW j \in Nat \ {0} PROVE A[j] = G[A[j - 1]]
    <3>1. Arrived(trans, Allowed, a, j - 1) \in SUBSET Allowed
      BY DEF Arrived
    <3>2. Arrived(trans, Allowed, a, j) =
             Arrived(trans, Allowed, a, j - 1)
               \cup (ForwardImage(trans, Arrived(trans, Allowed, a, j - 1)) \cap fair)
      BY <1>2, MinuRounds
    <3> QED
      BY <1>2, <3>1, <3>2
  <2>2. A[n] = A[n - 1]
    BY <1>1, <1>3
  <2> HIDE DEF A, G
  <2>3. A[k] = A[n]
    BY <1>1, <2>1, <2>2, Settles
  <2> QED
    BY <2>3 DEF A
<1>4. ASSUME Avoiding(n) = Avoiding(m) PROVE Avoiding(k) = Avoiding(n)
  <2> DEFINE A == [j \in Nat |-> Avoiding(j)]
             G == [S \in SUBSET Allowed |->
                      BackwardImage(trans, S) \cap reach \cap fair \cap Not(b) \cap Invar]
  <2>1. ASSUME NEW j \in Nat \ {0} PROVE A[j] = G[A[j - 1]]
    <3>1. Avoiding(j - 1) \in SUBSET Allowed
      BY DEF Avoiding, Staying
    <3>2. Avoiding(j) =
             BackwardImage(trans, Avoiding(j - 1)) \cap reach \cap fair \cap Not(b) \cap Invar
      BY <1>2, MaxuRounds
    <3> QED
      BY <1>2, <3>1, <3>2
  <2>2. A[n] = A[n - 1]
    BY <1>1, <1>4
  <2> HIDE DEF A, G
  <2>3. A[k] = A[n]
    BY <1>1, <2>1, <2>2, Settles
  <2> QED
    BY <2>3 DEF A
<1>5. Avoiding(k) \subseteq Avoiding(n)
  <2> DEFINE T == {j \in Nat : j >= n => Avoiding(j) \subseteq Avoiding(n)}
  <2>1. ASSUME NEW j \in Nat, \A l \in Nat : l < j => l \in T, j >= n PROVE Avoiding(j) \subseteq Avoiding(n)
    <3> SUFFICES ASSUME j # n PROVE Avoiding(j) \subseteq Avoiding(n)
      OBVIOUS
    <3>1. j \in Nat \ {0} /\ j - 1 \in Nat /\ j - 1 < j /\ j - 1 >= n /\ j = (j - 1) + 1
      BY <2>1
    <3>2. Avoiding(j) \subseteq Avoiding(j - 1)
      BY <3>1, MaxuRounds
    <3>3. Avoiding(j - 1) \subseteq Avoiding(n)
      BY <2>1, <3>1
    <3> QED
      BY <3>2, <3>3
  <2>2. \A j \in Nat : (\A l \in Nat : l < j => l \in T) => j \in T
    BY <2>1
  <2>3. T \in SUBSET Nat
    OBVIOUS
  <2> HIDE DEF T
  <2>4. T = Nat
    BY <2>2, <2>3, Induction
  <2> QED
    BY <2>4 DEF T
<1> QED
  BY <1>3, <1>4, <1>5

\* The paths COMPUTE is about: from a to b, and from a outside b.
Computed == UNION {Runs(trans, Allowed, s, Cardinality(State)) : s \in a \cap fair \cap reach}
Hits == {w \in Computed : w[Len(w)] \in b}
Misses == {w \in Computed : Holding(Not(b), w, 1, Len(w))}

LEMMA ComputedAre ==
    ASSUME Typed, MeaningInv, type \in Lengths
    PROVE  /\ \A w \in Computed : \E s \in Allowed \cap a : \E k \in Nat :
                 k <= Cardinality(State) /\ w \in PathsOf(trans, s, k) /\ Len(w) = k + 1
                 /\ w[Len(w)] \in Allowed
           /\ \A s \in Allowed \cap a : \A k \in Nat : \A w \in PathsOf(trans, s, k) :
                 k <= Cardinality(State) /\ w[Len(w)] \in Allowed => w \in Computed
           /\ \A s \in Allowed \cap a : \A k \in Nat : \A w \in PathsOf(trans, s, k) :
                 Len(w) # k + 1 => \E j \in Nat : j < k /\ w \in PathsOf(trans, s, j)
<1> DEFINE c == Cardinality(State)
<1>1. /\ Allowed = fair /\ Allowed \in SUBSET reach /\ Allowed \in SUBSET State /\ c \in Nat
  BY LengthsByNusmv, FsmAssumption, FS_CardinalityType
<1>2. \A s \in Allowed : Paths(trans, s, c) = PathsOf(trans, s, c)
  BY <1>1, PathsAre
<1>3. Computed = UNION {Runs(trans, Allowed, s, c) : s \in Allowed \cap a}
  <2>1. a \cap fair \cap reach = Allowed \cap a
    BY <1>1
  <2> QED
    BY <2>1 DEF Computed
<1> HIDE DEF c
<1>4. ASSUME NEW s \in Allowed
      PROVE  Runs(trans, Allowed, s, c) = {w \in PathsOf(trans, s, c) : w[Len(w)] \in Allowed}
  BY <1>2 DEF Runs
<1>5. ASSUME NEW s \in Allowed, NEW k \in Nat, NEW w \in PathsOf(trans, s, k)
      PROVE  /\ Len(w) - 1 \in Nat /\ Len(w) = (Len(w) - 1) + 1 /\ Len(w) - 1 <= k
             /\ \A m \in Nat : m >= Len(w) - 1 => w \in PathsOf(trans, s, m)
  BY DEF PathsOf
<1>6. ASSUME NEW w \in Computed
      PROVE  \E s \in Allowed \cap a : \E k \in Nat :
                k <= c /\ w \in PathsOf(trans, s, k) /\ Len(w) = k + 1 /\ w[Len(w)] \in Allowed
  <2>1. PICK s \in Allowed \cap a : w \in Runs(trans, Allowed, s, c)
    BY <1>3
  <2>2. w \in PathsOf(trans, s, c) /\ w[Len(w)] \in Allowed
    BY <1>4, <2>1
  <2> DEFINE k == Len(w) - 1
  <2>3. k \in Nat /\ Len(w) = k + 1 /\ k <= c /\ w \in PathsOf(trans, s, k)
    BY <1>1, <1>5, <2>2
  <2> HIDE DEF k
  <2> QED
    BY <2>2, <2>3
<1>7. ASSUME NEW s \in Allowed \cap a, NEW k \in Nat, NEW w \in PathsOf(trans, s, k),
             k <= c, w[Len(w)] \in Allowed
      PROVE  w \in Computed
  <2>1. w \in PathsOf(trans, s, c)
    BY <1>1, <1>5, <1>7
  <2>2. w \in Runs(trans, Allowed, s, c)
    BY <1>4, <1>7, <2>1
  <2> QED
    BY <1>3, <2>2
<1>8. ASSUME NEW s \in Allowed \cap a, NEW k \in Nat, NEW w \in PathsOf(trans, s, k), Len(w) # k + 1
      PROVE  \E j \in Nat : j < k /\ w \in PathsOf(trans, s, j)
  <2> DEFINE j == Len(w) - 1
  <2>1. j \in Nat /\ j < k /\ w \in PathsOf(trans, s, j)
    BY <1>5, <1>8
  <2> HIDE DEF j
  <2> QED
    BY <2>1
<1> QED
  BY <1>6, <1>7, <1>8 DEF c

LEMMA HitsAre ==
    ASSUME Typed, MeaningInv, type \in Lengths
    PROVE  /\ \A w \in Hits : \E k \in Nat :
                 /\ k <= Cardinality(State) /\ Len(w) = k + 1
                 /\ Arrived(trans, Allowed, a, k) \cap b # {}
           /\ \A k \in Nat :
                 /\ k <= Cardinality(State)
                 /\ Arrived(trans, Allowed, a, k) \cap b # {}
                 /\ \A j \in Nat : j < k => Arrived(trans, Allowed, a, j) \cap b = {}
                 => \E w \in Hits : Len(w) = k + 1
<1>1. ASSUME NEW w \in Hits
      PROVE  \E k \in Nat : /\ k <= Cardinality(State) /\ Len(w) = k + 1
                            /\ Arrived(trans, Allowed, a, k) \cap b # {}
  <2>1. w \in Computed /\ w[Len(w)] \in b
    BY DEF Hits
  <2>2. PICK s \in Allowed \cap a : \E k \in Nat :
                 k <= Cardinality(State) /\ w \in PathsOf(trans, s, k) /\ Len(w) = k + 1
                 /\ w[Len(w)] \in Allowed
    BY <2>1, ComputedAre
  <2>3. PICK k \in Nat : k <= Cardinality(State) /\ w \in PathsOf(trans, s, k) /\ Len(w) = k + 1
                         /\ w[Len(w)] \in Allowed
    BY <2>2
  <2>4. w[Len(w)] \in Arrived(trans, Allowed, a, k) \cap b
    BY <2>1, <2>3 DEF Arrived
  <2> QED
    BY <2>3, <2>4
<1>2. ASSUME NEW k \in Nat, k <= Cardinality(State), Arrived(trans, Allowed, a, k) \cap b # {},
             \A j \in Nat : j < k => Arrived(trans, Allowed, a, j) \cap b = {}
      PROVE  \E w \in Hits : Len(w) = k + 1
  <2>1. PICK q \in Arrived(trans, Allowed, a, k) : q \in b
    BY <1>2
  <2>2. PICK s \in Allowed \cap a : \E w \in PathsOf(trans, s, k) : w[Len(w)] = q
    BY DEF Arrived
  <2>3. PICK w \in PathsOf(trans, s, k) : w[Len(w)] = q
    BY <2>2
  <2>4. q \in Allowed
    BY DEF Arrived
  <2>5. w \in Hits
    <3>1. w \in Computed
      BY <1>2, <2>3, <2>4, ComputedAre
    <3> QED
      BY <2>1, <2>3, <3>1 DEF Hits
  <2>6. Len(w) = k + 1
    <3> SUFFICES ASSUME Len(w) # k + 1 PROVE FALSE
      OBVIOUS
    <3>1. PICK j \in Nat : j < k /\ w \in PathsOf(trans, s, j)
      BY ComputedAre
    <3>2. q \in Arrived(trans, Allowed, a, j)
      BY <2>3, <2>4, <3>1 DEF Arrived
    <3> QED
      BY <1>2, <2>1, <3>1, <3>2
  <2> QED
    BY <2>5, <2>6
<1> QED
  BY <1>1, <1>2

LEMMA MissesAre ==
    ASSUME Typed, MeaningInv, type \in Lengths, NEW k \in Nat, k <= Cardinality(State)
    PROVE  (\E w \in Misses : Len(w) = k + 1) <=> Avoiding(k) \cap a # {}
<1>0. Allowed \in SUBSET State
  BY LengthsByNusmv
<1>1. ASSUME NEW w \in Misses, Len(w) = k + 1 PROVE Avoiding(k) \cap a # {}
  <2>1. w \in Computed /\ Holding(Not(b), w, 1, Len(w))
    BY DEF Misses
  <2>2. PICK s \in Allowed \cap a : \E l \in Nat :
                 l <= Cardinality(State) /\ w \in PathsOf(trans, s, l) /\ Len(w) = l + 1
                 /\ w[Len(w)] \in Allowed
    BY <2>1, ComputedAre
  <2>3. w \in PathsOf(trans, s, k) /\ w[Len(w)] \in Allowed
    BY <1>1, <2>2
  <2>4. w \in RunsOf(trans, Allowed, s, k)
    BY <1>0, <1>1, <2>3, RunsOfAre
  <2>5. Holding(Not(b), w, 0 + 1, k + 1)
    BY <1>1, <2>1 DEF Holding
  <2>6. s \in Avoiding(k)
    BY <2>4, <2>5 DEF Avoiding, Staying
  <2> QED
    BY <2>6
<1>2. ASSUME Avoiding(k) \cap a # {} PROVE \E w \in Misses : Len(w) = k + 1
  <2>1. PICK s \in Allowed \cap a : s \in Avoiding(k)
    BY <1>2 DEF Avoiding, Staying
  <2>2. PICK w \in RunsOf(trans, Allowed, s, k) : Holding(Not(b), w, 0 + 1, k + 1)
    BY <2>1 DEF Avoiding, Staying
  <2>3. w \in PathsOf(trans, s, k) /\ Len(w) = k + 1 /\ w[Len(w)] \in Allowed
    BY <1>0, RunsOfAre
  <2>4. w \in Computed
    BY <2>3, ComputedAre
  <2>5. Holding(Not(b), w, 1, Len(w))
    BY <2>2, <2>3 DEF Holding
  <2> QED
    BY <2>3, <2>4, <2>5 DEF Misses
<1> QED
  BY <1>1, <1>2

\* What LengthIsMeant says of the number returned.
MinMeant(n) ==
    IF Hits = {} THEN n = Infinite
    ELSE (\E w \in Hits : n + 1 = Len(w)) /\ (\A w \in Hits : n < Len(w))

MaxMeant(n) ==
    IF a \cap fair = {} \/ b \cap fair = {} THEN n = Undefined
    ELSE IF \E w \in Misses : Cardinality(State) + 1 = Len(w) THEN n = Infinite
    ELSE n \in Nat /\ \A l \in 1..(Cardinality(State) + 1) : (\E w \in Misses : l = Len(w)) <=> l <= n

LEMMA MinuFoundMeant == ASSUME Typed, MeaningInv, LengthInv, MinuFound PROVE MinMeant(i)
<1>1. pc = "minu_loop" /\ Y \cap b \cap fair \cap reach # {}
  BY DEF MinuFound
<1>2. type \in Lengths /\ MinInv
  BY <1>1 DEF MeaningInv, NodeInv, LengthInv
<1>3. Arrived(trans, Allowed, a, i) \cap b # {} /\ i \in Nat
      /\ \A j \in Nat : j < i => Arrived(trans, Allowed, a, j) \cap b = {}
  BY <1>1, <1>2 DEF MinInv
<1>4. Lasting(trans, Allowed, reach) /\ Cardinality(State) \in Nat
  BY <1>2, LengthsByNusmv, FsmAssumption, FS_CardinalityType
<1>5. i <= Cardinality(State)
  <2> SUFFICES ASSUME i > Cardinality(State) PROVE FALSE
    BY <1>3, <1>4
  <2>1. Arrived(trans, Allowed, a, i) = Arrived(trans, Allowed, a, Cardinality(State))
    BY <1>3, <1>4, ArrivedAll
  <2> QED
    BY <1>3, <1>4, <2>1
<1>6. \E w \in Hits : Len(w) = i + 1
  BY <1>2, <1>3, <1>5, HitsAre
<1>7. ASSUME NEW w \in Hits PROVE i < Len(w)
  <2>1. PICK k \in Nat : Len(w) = k + 1 /\ Arrived(trans, Allowed, a, k) \cap b # {}
    BY <1>2, HitsAre
  <2>2. ~(k < i)
    BY <1>3, <2>1
  <2> QED
    BY <1>3, <2>1, <2>2
<1> QED
  BY <1>6, <1>7 DEF MinMeant

LEMMA MinuExitMeant == ASSUME Typed, MeaningInv, LengthInv, MinuExit PROVE MinMeant(Infinite)
<1>1. pc = "minu_loop" /\ Y \cap b \cap fair \cap reach = {} /\ i > 0 /\ Y = prev
  BY DEF MinuExit
<1>2. type \in Lengths /\ MinInv
  BY <1>1 DEF MeaningInv, NodeInv, LengthInv
<1>3. /\ i \in Nat /\ i - 1 \in Nat /\ i = (i - 1) + 1
      /\ Y = Arrived(trans, Allowed, a, i) /\ Y = Arrived(trans, Allowed, a, i - 1)
      /\ \A j \in Nat : j < i => Arrived(trans, Allowed, a, j) \cap b = {}
  BY <1>1, <1>2 DEF MinInv
<1>4. Arrived(trans, Allowed, a, i) \cap b = {}
  BY <1>3
<1>5. ASSUME NEW k \in Nat, k >= i PROVE Arrived(trans, Allowed, a, k) \cap b = {}
  <2>1. Arrived(trans, Allowed, a, k) = Arrived(trans, Allowed, a, i)
    BY <1>2, <1>3, <1>5, LengthsSettle
  <2> QED
    BY <1>4, <2>1
<1>6. \A k \in Nat : Arrived(trans, Allowed, a, k) \cap b = {}
  BY <1>3, <1>5
<1> QED
  BY <1>2, <1>6, HitsAre DEF MinMeant

LEMMA MaxuRefuseMeant ==
    ASSUME Typed, MeaningInv, LengthInv, MaxuRefuse, fair # {} PROVE MaxMeant(Undefined)
<1>1. pc = "maxu" /\ (Considered(a) = {} \/ Considered(b) = {})
  BY DEF MaxuRefuse
<1>2. type \in Lengths
  BY <1>1 DEF MeaningInv, NodeInv
<1>3. Allowed = fair /\ Allowed \in SUBSET reach /\ reach \in SUBSET Invar
  BY <1>2, LengthsByNusmv
<1>4. Considered(a) = a \cap fair /\ Considered(b) = b \cap fair
  BY <1>3 DEF Considered
<1> QED
  BY <1>1, <1>4 DEF MaxMeant

\* The states that can stay outside b grow fewer with every round but the last.
LEMMA MaxuFoundSoon == ASSUME Typed, MeaningInv, LengthInv, MaxuFound PROVE i <= Cardinality(State)
<1>1. pc = "maxu_loop" /\ Y \cap a = {}
  BY DEF MaxuFound
<1>2. type \in Lengths /\ MaxInv
  BY <1>1 DEF MeaningInv, NodeInv, LengthInv
<1>3. i \in Nat /\ Avoiding(i) \cap a = {} /\ \A j \in Nat : j < i => Avoiding(j) \cap a # {}
  BY <1>1, <1>2 DEF MaxInv
<1>4. Cardinality(State) \in Nat /\ IsFiniteSet(State)
  BY FsmAssumption, FS_CardinalityType
<1>5. \A j \in Nat : Avoiding(j) \in SUBSET State
  BY <1>2, LengthsByNusmv DEF Avoiding, Staying
<1>6. ASSUME NEW m \in Nat, NEW n \in Nat, n = m + 1, n < i
      PROVE  Avoiding(n) \subseteq Avoiding(m) /\ Avoiding(n) # Avoiding(m)
  <2>1. Avoiding(n) \subseteq Avoiding(m)
    BY <1>2, <1>6, MaxuRounds
  <2>2. CASE Avoiding(n) = Avoiding(m)
    <3>1. Avoiding(i) = Avoiding(n)
      BY <1>2, <1>3, <1>6, <2>2, LengthsSettle
    <3> QED
      BY <1>3, <1>6, <3>1
  <2> QED
    BY <2>1, <2>2
<1> DEFINE T == {j \in Nat : j < i => Cardinality(Avoiding(j)) + j <= Cardinality(State)}
<1>7. ASSUME NEW j \in Nat, \A l \in Nat : l < j => l \in T, j < i
      PROVE  Cardinality(Avoiding(j)) + j <= Cardinality(State)
  <2>1. CASE j = 0
    <3>1. Avoiding(0) \subseteq State
      BY <1>5
    <3>2. Cardinality(Avoiding(0)) <= Cardinality(State) /\ Cardinality(Avoiding(0)) \in Nat
      BY <1>4, <3>1, FS_Subset, FS_CardinalityType
    <3> QED
      BY <1>4, <2>1, <3>2
  <2>2. CASE j # 0
    <3>1. PICK m \in Nat : j = m + 1
      <4>1. j - 1 \in Nat /\ j = (j - 1) + 1
        BY <2>2
      <4> QED
        BY <4>1
    <3>2. m < j /\ m < i
      BY <1>3, <1>7, <3>1
    <3>3. Cardinality(Avoiding(m)) + m <= Cardinality(State)
      BY <1>7, <3>2
    <3>4. Avoiding(j) \subseteq Avoiding(m) /\ Avoiding(j) # Avoiding(m)
      BY <1>6, <1>7, <3>1
    <3>5. IsFiniteSet(Avoiding(m)) /\ Cardinality(Avoiding(m)) \in Nat
      BY <1>4, <1>5, FS_Subset, FS_CardinalityType
    <3>6. Cardinality(Avoiding(j)) < Cardinality(Avoiding(m)) /\ Cardinality(Avoiding(j)) \in Nat
      <4>1. IsFiniteSet(Avoiding(j)) /\ Cardinality(Avoiding(j)) <= Cardinality(Avoiding(m))
        BY <3>4, <3>5, FS_Subset
      <4>2. Cardinality(Avoiding(j)) # Cardinality(Avoiding(m))
        BY <3>4, <3>5, FS_Subset
      <4>3. Cardinality(Avoiding(j)) \in Nat
        BY <4>1, FS_CardinalityType
      <4> QED
        BY <3>5, <4>1, <4>2, <4>3
    <3> QED
      BY <1>4, <3>1, <3>3, <3>5, <3>6
  <2> QED
    BY <2>1, <2>2
<1>8. \A j \in Nat : (\A l \in Nat : l < j => l \in T) => j \in T
  BY <1>7
<1>9. T \in SUBSET Nat
  OBVIOUS
<1> HIDE DEF T
<1>10. T = Nat
  BY <1>8, <1>9, Induction
<1>11. CASE i = 0
  BY <1>4, <1>11
<1>12. CASE i # 0
  <2>1. PICK m \in Nat : i = m + 1
    <3>1. i - 1 \in Nat /\ i = (i - 1) + 1
      BY <1>3, <1>12
    <3> QED
      BY <3>1
  <2>2. m < i
    BY <2>1
  <2>3. Cardinality(Avoiding(m)) + m <= Cardinality(State)
    BY <1>10, <2>2 DEF T
  <2>4. IsFiniteSet(Avoiding(m)) /\ Avoiding(m) # {}
    BY <1>3, <1>4, <1>5, <2>2, FS_Subset
  <2>5. Cardinality(Avoiding(m)) \in Nat /\ Cardinality(Avoiding(m)) # 0
    BY <2>4, FS_CardinalityType, FS_EmptySet
  <2> QED
    BY <1>4, <2>1, <2>3, <2>5
<1> QED
  BY <1>11, <1>12

LEMMA MaxuFoundMeant ==
    ASSUME Typed, MeaningInv, LengthInv, MaxuFound, fair # {} PROVE MaxMeant(i)
<1>1. pc = "maxu_loop" /\ Y \cap a = {}
  BY DEF MaxuFound
<1>2. type \in Lengths /\ MaxInv
  BY <1>1 DEF MeaningInv, NodeInv, LengthInv
<1>3. i \in Nat /\ Avoiding(i) \cap a = {} /\ \A j \in Nat : j < i => Avoiding(j) \cap a # {}
  BY <1>1, <1>2 DEF MaxInv
<1>4. Cardinality(State) \in Nat
  BY FsmAssumption, FS_CardinalityType
<1>5. ASSUME NEW k \in Nat, k >= i PROVE Avoiding(k) \cap a = {}
  <2>1. Avoiding(k) \subseteq Avoiding(i)
    <3>1. CASE k = i
      BY <3>1
    <3>2. CASE k # i
      <4> DEFINE n == i + 1
      <4>1. n \in Nat /\ n = i + 1 /\ k >= n
        BY <1>3, <1>5, <3>2
      <4> HIDE DEF n
      <4>2. Avoiding(k) \subseteq Avoiding(n)
        BY <1>2, <1>3, <4>1, LengthsSettle
      <4>3. Avoiding(n) \subseteq Avoiding(i)
        BY <1>2, <1>3, <4>1, MaxuRounds
      <4> QED
        BY <4>2, <4>3
    <3> QED
      BY <3>1, <3>2
  <2> QED
    BY <1>3, <2>1
<1>6. ASSUME NEW l \in 1..(Cardinality(State) + 1)
      PROVE  (\E w \in Misses : l = Len(w)) <=> l <= i
  <2> DEFINE k == l - 1
  <2>1. k \in Nat /\ k <= Cardinality(State) /\ l = k + 1 /\ (l <= i <=> k < i)
    BY <1>3, <1>4
  <2> HIDE DEF k
  <2>2. (\E w \in Misses : Len(w) = k + 1) <=> Avoiding(k) \cap a # {}
    BY <1>2, <2>1, MissesAre
  <2>3. Avoiding(k) \cap a # {} <=> k < i
    BY <1>3, <1>5, <2>1
  <2> QED
    BY <2>1, <2>2, <2>3
<1>7. Cardinality(State) + 1 \in 1..(Cardinality(State) + 1) /\ ~(Cardinality(State) + 1 <= i)
  BY <1>3, <1>4, MaxuFoundSoon
<1>8. ~\E w \in Misses : Cardinality(State) + 1 = Len(w)
  BY <1>6, <1>7
<1>9. a \cap fair # {} /\ b \cap fair # {}
  BY <1>2 DEF MaxInv
<1> QED
  BY <1>3, <1>6, <1>8, <1>9 DEF MaxMeant

LEMMA MaxuExitMeant ==
    ASSUME Typed, MeaningInv, LengthInv, MaxuExit, fair # {} PROVE MaxMeant(Infinite)
<1>1. pc = "maxu_loop" /\ i > 0 /\ Y = prev
  BY DEF MaxuExit
<1>2. type \in Lengths /\ MaxInv
  BY <1>1 DEF MeaningInv, NodeInv, LengthInv
<1>3. /\ i \in Nat /\ i - 1 \in Nat /\ i = (i - 1) + 1 /\ i - 1 < i
      /\ Avoiding(i) = Avoiding(i - 1)
      /\ \A j \in Nat : j < i => Avoiding(j) \cap a # {}
  BY <1>1, <1>2 DEF MaxInv
<1>4. \A k \in Nat : k >= i => Avoiding(k) = Avoiding(i)
  BY <1>2, <1>3, LengthsSettle
<1>5. \A k \in Nat : Avoiding(k) \cap a # {}
  BY <1>3, <1>4
<1>6. Cardinality(State) \in Nat /\ Cardinality(State) <= Cardinality(State)
  BY FsmAssumption, FS_CardinalityType
<1>7. \E w \in Misses : Len(w) = Cardinality(State) + 1
  BY <1>2, <1>5, <1>6, MissesAre
<1>8. a \cap fair # {} /\ b \cap fair # {}
  BY <1>2 DEF MaxInv
<1> QED
  BY <1>7, <1>8 DEF MaxMeant

\* The sets above depend on the FSM and the node only.
LEMMA LengthsKept ==
    ASSUME UNCHANGED <<fsmVars, nodeVars>>
    PROVE  /\ \A n : Arrived(trans, Allowed, a, n)' = Arrived(trans, Allowed, a, n)
           /\ \A n : Avoiding(n)' = Avoiding(n)
           /\ Hits' = Hits /\ Misses' = Misses
           /\ \A n : MinMeant(n)' = MinMeant(n)
           /\ \A n : MaxMeant(n)' = MaxMeant(n)
<1>1. /\ trans' = trans /\ reach' = reach /\ fair' = fair /\ a' = a /\ b' = b /\ type' = type
      /\ Allowed' = Allowed
  BY DEF fsmVars, nodeVars, Allowed
<1>2. Computed' = Computed
  BY <1>1 DEF Computed
<1>3. Hits' = Hits /\ Misses' = Misses
  BY <1>1, <1>2 DEF Hits, Misses
<1>4. \A n : Avoiding(n)' = Avoiding(n)
  BY <1>1 DEF Avoiding
<1>5. \A n : Arrived(trans, Allowed, a, n)' = Arrived(trans, Allowed, a, n)
  BY <1>1
<1>6. \A n : MinMeant(n)' = MinMeant(n)
  BY <1>3 DEF MinMeant
<1>7. \A n : MaxMeant(n)' = MaxMeant(n)
  BY <1>1, <1>3 DEF MaxMeant
<1> QED
  BY <1>3, <1>4, <1>5, <1>6, <1>7

LEMMA LengthIs ==
    /\ type \notin Lengths => LengthIsMeant
    /\ pc # "done" \/ fair = {} => LengthIsMeant
    /\ type = "MINU" /\ MinMeant(answer) => LengthIsMeant
    /\ type = "MAXU" /\ MaxMeant(answer) => LengthIsMeant
<1> DEFINE lengths(W) == {Len(w) : w \in W}
<1>1. ASSUME type = "MINU", MinMeant(answer) PROVE LengthIsMeant
  <2>1. IF Hits = {} THEN answer = Infinite
        ELSE answer + 1 \in lengths(Hits) /\ \A n \in lengths(Hits) : answer < n
    BY <1>1 DEF MinMeant
  <2> QED
    BY <1>1, <2>1 DEF LengthIsMeant, Hits, Computed
<1>2. ASSUME type = "MAXU", MaxMeant(answer) PROVE LengthIsMeant
  <2>1. IF {} \in {a \cap fair, b \cap fair} THEN answer = Undefined
        ELSE IF Cardinality(State) + 1 \in lengths(Misses) THEN answer = Infinite
        ELSE answer \in Nat /\ \A n \in 1..(Cardinality(State) + 1) : n \in lengths(Misses) <=> n <= answer
    <3> HIDE DEF Undefined, Infinite
    <3> QED
      BY <1>2 DEF MaxMeant
  <2> QED
    BY <1>2, <2>1 DEF LengthIsMeant, Misses, Computed
<1>3. ASSUME type \notin Lengths PROVE LengthIsMeant
  BY <1>3 DEF LengthIsMeant, Lengths
<1>4. ASSUME pc # "done" \/ fair = {} PROVE LengthIsMeant
  BY <1>4 DEF LengthIsMeant
<1> QED
  BY <1>1, <1>2, <1>3, <1>4

LEMMA LengthLoops ==
    ASSUME Typed, MeaningInv, LengthInv, MinuCall \/ MinuIterate \/ MaxuCall \/ MaxuIterate
    PROVE  LengthInv' /\ LengthIsMeant'
<1>1. /\ UNCHANGED <<fsmVars, nodeVars>> /\ type' = type /\ a' = a /\ b' = b
      /\ pc \in {"minu", "minu_loop", "maxu", "maxu_loop"} /\ pc' # "done"
  BY DEF MinuCall, MinuIterate, MaxuCall, MaxuIterate, nodeVars
<1>2. type \in Lengths
  BY <1>1 DEF MeaningInv, NodeInv
<1>3. /\ \A n : Arrived(trans, Allowed, a, n)' = Arrived(trans, Allowed, a, n)
      /\ \A n : Avoiding(n)' = Avoiding(n)
  BY <1>1, LengthsKept
<1>4. /\ Allowed = fair /\ Allowed \in SUBSET reach /\ reach \in SUBSET Invar /\ Allowed \in SUBSET State
  BY <1>2, LengthsByNusmv
<1>5. LengthIsMeant'
  BY <1>1 DEF LengthIsMeant
<1>6. CASE MinuCall
  <2>1. type = "MINU" /\ pc' = "minu_loop" /\ i' = 0 /\ Y' = a \cap fair \cap reach \cap Invar
    BY <1>6 DEF MinuCall, LengthInv
  <2>2. Arrived(trans, Allowed, a, 0) = a \cap fair \cap reach \cap Invar
    BY <1>2, MinuRounds
  <2>3. MinInv'
    BY <1>1, <1>3, <2>1, <2>2 DEF MinInv
  <2> QED
    BY <1>1, <1>5, <2>1, <2>3 DEF LengthInv
<1>7. CASE MinuIterate
  <2>1. /\ pc = "minu_loop" /\ pc' = pc /\ Y \cap b \cap fair \cap reach = {}
        /\ prev' = Y /\ Y' = Y \cup (ForwardImage(trans, Y) \cap fair) /\ i' = i + 1
    BY <1>7 DEF MinuIterate
  <2>2. type = "MINU" /\ MinInv
    BY <2>1 DEF LengthInv
  <2>3. /\ i \in Nat /\ i' \in Nat /\ i' - 1 = i /\ Y = Arrived(trans, Allowed, a, i)
        /\ \A j \in Nat : j < i' => j < i \/ j = i
    BY <2>1, <2>2 DEF MinInv
  <2>4. Y' = Arrived(trans, Allowed, a, i')
    BY <1>2, <2>1, <2>3, MinuRounds
  <2>5. Arrived(trans, Allowed, a, i) \in SUBSET Allowed
    BY DEF Arrived
  <2>6. \A j \in Nat : j < i' => Arrived(trans, Allowed, a, j) \cap b = {}
    BY <1>4, <2>1, <2>2, <2>3, <2>5 DEF MinInv
  <2>7. prev' = Arrived(trans, Allowed, a, i' - 1)
    BY <2>1, <2>3
  <2>8. MinInv'
    BY <1>1, <1>3, <2>3, <2>4, <2>6, <2>7 DEF MinInv
  <2> QED
    BY <1>1, <1>5, <2>1, <2>2, <2>8 DEF LengthInv
<1>8. CASE MaxuCall
  <2>1. type = "MAXU" /\ pc' = "maxu_loop" /\ i' = 0 /\ Y' = Not(b) \cap Invar \cap fair \cap reach
    BY <1>8 DEF MaxuCall, LengthInv
  <2>2. Avoiding(0) = Not(b) \cap Invar \cap fair \cap reach
    BY <1>2, MaxuRounds
  <2>a. fair # {} => a \cap fair # {} /\ b \cap fair # {}
    BY <1>8 DEF MaxuCall, Considered
  <2>3. MaxInv'
    BY <1>1, <1>3, <2>1, <2>2, <2>a DEF MaxInv, fsmVars
  <2> QED
    BY <1>1, <1>5, <2>1, <2>3 DEF LengthInv
<1>9. CASE MaxuIterate
  <2>1. /\ pc = "maxu_loop" /\ pc' = pc /\ Y \cap a # {} /\ prev' = Y /\ i' = i + 1
        /\ Y' = BackwardImage(trans, Y) \cap reach \cap fair \cap Not(b) \cap Invar
    BY <1>9 DEF MaxuIterate
  <2>2. type = "MAXU" /\ MaxInv
    BY <2>1 DEF LengthInv
  <2>3. /\ i \in Nat /\ i' \in Nat /\ i' - 1 = i /\ Y = Avoiding(i)
        /\ \A j \in Nat : j < i' => j < i \/ j = i
    BY <2>1, <2>2 DEF MaxInv
  <2>4. Y' = Avoiding(i')
    BY <1>2, <2>1, <2>3, MaxuRounds
  <2>6. \A j \in Nat : j < i' => Avoiding(j) \cap a # {}
    BY <2>1, <2>2, <2>3 DEF MaxInv
  <2>7. prev' = Avoiding(i' - 1)
    BY <2>1, <2>3
  <2>a. fair' = fair /\ (fair # {} => a \cap fair # {} /\ b \cap fair # {})
    BY <1>1, <2>2 DEF MaxInv, fsmVars
  <2>8. MaxInv'
    BY <1>1, <1>3, <2>3, <2>4, <2>6, <2>7, <2>a DEF MaxInv
  <2> QED
    BY <1>1, <1>5, <2>1, <2>2, <2>8 DEF LengthInv
<1> QED
  BY <1>6, <1>7, <1>8, <1>9

LEMMA LengthAnswers ==
    ASSUME Typed, MeaningInv, LengthInv,
           MinuFound \/ MinuExit \/ MaxuRefuse \/ MaxuFound \/ MaxuExit
    PROVE  LengthInv' /\ LengthIsMeant'
<1>1. /\ UNCHANGED <<fsmVars, nodeVars>> /\ type' = type /\ fair' = fair /\ pc' = "done"
      /\ a' = a /\ b' = b
  BY DEF MinuFound, MinuExit, MaxuRefuse, MaxuFound, MaxuExit, Answer, nodeVars, fsmVars
<1>2. Hits' = Hits /\ Misses' = Misses
  BY <1>1, LengthsKept
<1>3. LengthInv'
  BY <1>1 DEF LengthInv
<1>4. /\ (type = "MINU" /\ MinMeant(answer) => LengthIsMeant)'
      /\ (type = "MAXU" /\ MaxMeant(answer) => LengthIsMeant)'
      /\ (pc # "done" \/ fair = {} => LengthIsMeant)'
  BY LengthIs, PTL
<1>5. ASSUME type = "MINU", MinMeant(answer') PROVE LengthIsMeant'
  <2>1. MinMeant(answer)'
    BY <1>2, <1>5 DEF MinMeant
  <2> QED
    BY <1>1, <1>4, <1>5, <2>1
<1>6. ASSUME type = "MAXU", MaxMeant(answer') PROVE LengthIsMeant'
  <2>1. MaxMeant(answer)'
    BY <1>1, <1>2, <1>6 DEF MaxMeant
  <2> QED
    BY <1>1, <1>4, <1>6, <2>1
<1>7. CASE MinuFound
  <2>1. answer' = i /\ type = "MINU" /\ MinMeant(i)
    BY <1>7, MinuFoundMeant DEF MinuFound, Answer, LengthInv
  <2> QED
    BY <1>3, <1>5, <2>1
<1>8. CASE MinuExit
  <2>1. answer' = Infinite /\ type = "MINU" /\ MinMeant(Infinite)
    BY <1>8, MinuExitMeant DEF MinuExit, Answer, LengthInv
  <2> QED
    BY <1>3, <1>5, <2>1
<1>9. CASE MaxuRefuse
  <2>1. answer' = Undefined /\ type = "MAXU"
    BY <1>9 DEF MaxuRefuse, Answer, LengthInv
  <2>2. CASE fair = {}
    BY <1>1, <1>3, <1>4, <2>2
  <2>3. CASE fair # {}
    <3>1. MaxMeant(Undefined)
      BY <1>9, <2>3, MaxuRefuseMeant
    <3> QED
      BY <1>3, <1>6, <2>1, <3>1
  <2> QED
    BY <2>2, <2>3
<1>10. CASE MaxuFound
  <2>1. answer' = i /\ type = "MAXU" /\ (fair # {} => MaxMeant(i))
    BY <1>10, MaxuFoundMeant DEF MaxuFound, Answer, LengthInv
  <2> QED
    BY <1>1, <1>3, <1>4, <1>6, <2>1
<1>11. CASE MaxuExit
  <2>1. answer' = Infinite /\ type = "MAXU" /\ (fair # {} => MaxMeant(Infinite))
    BY <1>11, MaxuExitMeant DEF MaxuExit, Answer, LengthInv
  <2> QED
    BY <1>1, <1>3, <1>4, <1>6, <2>1
<1> QED
  BY <1>7, <1>8, <1>9, <1>10, <1>11

\* The other steps.
LEMMA LengthElsewhere ==
    ASSUME Typed, MeaningInv, LengthInv, LengthIsMeant,
           Request \/ Taken \/ Return \/ Unbounded \/ BoundedLoop \/ EgLoop
             \/ (\E p \in Justice : EgTry(p)) \/ UNCHANGED vars
    PROVE  LengthInv' /\ LengthIsMeant'
<1>1. CASE Request
  <2>0. PICK to \in {NuSMV, Tool, Mc} : \E ty \in Types[to] : \E x, y \in SUBSET State :
           \E lo, hi \in Int : Call(to, ty, x, y, lo, hi)
    BY <1>1, Requests
  <2>1. PICK ty \in Types[to], x \in SUBSET State, y \in SUBSET State, lo \in Int, hi \in Int :
           Call(to, ty, x, y, lo, hi)
    BY <2>0
  <2>2. pc' = Entry(ty) /\ type' = ty /\ Entry(ty) \in {"ex", "eg", "eu", "bounded", "minu", "maxu"}
    BY <2>1, Kind DEF Call
  <2>3. (Entry(ty) = "minu" => ty = "MINU") /\ (Entry(ty) = "maxu" => ty = "MAXU")
    <3>1. Entry(ty) \in {"minu", "maxu"} => ty \in Lengths
      BY Kind
    <3>2. ty = "MINU" => Entry(ty) = "minu"
      BY DEF Entry, HasEg, HasEu, Bounded
    <3>3. ty = "MAXU" => Entry(ty) = "maxu"
      BY DEF Entry, HasEg, HasEu, Bounded
    <3> QED
      BY <3>1, <3>2, <3>3 DEF Lengths
  <2> QED
    BY <2>2, <2>3 DEF LengthInv, LengthIsMeant
<1>2. CASE Taken \/ Unbounded \/ BoundedLoop \/ EgLoop \/ \E p \in Justice : EgTry(p)
  <2>1. pc' \notin {"minu", "minu_loop", "maxu", "maxu_loop", "done"}
    <3>1. CASE Taken
      BY <3>1 DEF Taken
    <3>2. CASE Unbounded
      BY <3>2 DEF Unbounded, ExCall, EgTrue, EgCall, ToolEgCall, ToolEgIterate, ToolEgExit,
                  EuCall, EuIterate, EuExit, Rest
    <3>3. CASE BoundedLoop
      BY <3>3 DEF BoundedLoop, BoundedRefuse, BoundedCall, WithinIterate, WithinExit, BeforeIterate,
                  BeforeExit
    <3>4. CASE EgLoop \/ \E p \in Justice : EgTry(p)
      BY <3>4 DEF EgLoop, EgIterate, EgAccumulate, FairExit, EgExit, EuSiIterate, EuSiExit, EgTry, Rest
    <3> QED
      BY <1>2, <3>1, <3>2, <3>3, <3>4
  <2> QED
    BY <2>1 DEF LengthInv, LengthIsMeant
<1>3. CASE Return
  <2>1. pc = "return" /\ pc' = "done" /\ type' = type
    BY <1>3 DEF Return, nodeVars
  <2>2. type' \notin Lengths
    BY <2>1 DEF MeaningInv, NodeInv
  <2>3. (type \notin Lengths => LengthIsMeant)'
    BY LengthIs, PTL
  <2> QED
    BY <2>1, <2>2, <2>3 DEF LengthInv
<1>4. CASE UNCHANGED vars
  <2>1. /\ UNCHANGED <<fsmVars, nodeVars>> /\ pc' = pc /\ type' = type /\ Y' = Y /\ prev' = prev /\ i' = i
        /\ trans' = trans /\ a' = a /\ b' = b /\ fair' = fair /\ reach' = reach /\ answer' = answer
    BY <1>4 DEF vars, fsmVars, nodeVars, euVars
  <2>2. /\ \A n : Arrived(trans, Allowed, a, n)' = Arrived(trans, Allowed, a, n)
        /\ \A n : Avoiding(n)' = Avoiding(n)
    BY <2>1, LengthsKept
  <2>3. MinInv' = MinInv /\ MaxInv' = MaxInv
    BY <2>1, <2>2 DEF MinInv, MaxInv
  <2>4. LengthInv'
    BY <2>1, <2>3 DEF LengthInv
  <2>5. Allowed' = Allowed
    BY <2>1 DEF Allowed, fsmVars, nodeVars
  <2>6. LengthIsMeant'
    BY <2>1, <2>5 DEF LengthIsMeant
  <2> QED
    BY <2>4, <2>6
<1> QED
  BY <1>1, <1>2, <1>3, <1>4

LEMMA LengthNext ==
    ASSUME Typed, MeaningInv, LengthInv, LengthIsMeant, [Next]_vars
    PROVE  LengthInv' /\ LengthIsMeant'
<1>1. \/ MinuCall \/ MinuIterate \/ MaxuCall \/ MaxuIterate
      \/ MinuFound \/ MinuExit \/ MaxuRefuse \/ MaxuFound \/ MaxuExit
      \/ (Request \/ Taken \/ Return \/ Unbounded \/ BoundedLoop \/ EgLoop
             \/ (\E p \in Justice : EgTry(p)) \/ UNCHANGED vars)
  BY DEF Next, Evaluate, Compute
<1> QED
  BY <1>1, LengthLoops, LengthAnswers, LengthElsewhere

\* COMPUTE returns the length of a shortest fair path from a to b, or of a
\* longest one from a outside b, or the code for none, for every relation and
\* operands: no path longer than the number of states is needed.
THEOREM LengthCorrect == Spec => []LengthIsMeant
<1> DEFINE Inv == Typed /\ EgInv /\ EuInv /\ MeaningInv /\ LengthInv /\ LengthIsMeant
<1>1. Init => Inv
  <2> SUFFICES ASSUME Init PROVE Inv
    OBVIOUS
  <2>1. LengthInv /\ LengthIsMeant
    BY DEF Init, LengthInv, LengthIsMeant
  <2>2. EuInv
    BY DEF Init, EuInv
  <2>3. Typed /\ MeaningInv
    BY TypedInit, MeaningInit
  <2>4. EgInv
    BY <2>3 DEF Init, EgInv, GreatestRecurring, Typed
  <2> QED
    BY <2>1, <2>2, <2>3, <2>4
<1>2. Inv /\ [Next]_vars => Inv'
  BY TypedNext, EgInvNext, EuInvNext, MeaningNext, LengthNext
<1> QED
  BY <1>1, <1>2, PTL DEF Spec

=============================================================================
