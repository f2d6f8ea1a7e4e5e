------------------------------ MODULE CtlEval --------------------------------
(***************************************************************************)
(* The evaluation of one temporal operator, loop by loop: by NuSMV         *)
(* (mcEval.c, mcMc.c), which only follows fair paths, by the functions of  *)
(* pynusmv/mc.py that call NuSMV's on sets of states, and by the ctl tool  *)
(* (tools/ctl/eval.py), which follows every path between reachable states. *)
(*                                                                         *)
(* A session starts with the computation of the fair pairs, then evaluates *)
(* nodes of a formula one at a time; the operands are the sets computed    *)
(* for the subformulas.  Every while loop is a pair of actions, one for an *)
(* iteration and one for the exit.                                         *)
(***************************************************************************)
EXTENDS CtlSemantics

CONSTANTS
    Edges,        \* the transitions a relation is made of
    Args,         \* the operands tried
    Infs, Sups    \* the bounds tried

ASSUME EvalAssumption ==
    /\ Edges \subseteq Transition
    /\ Args \subseteq SUBSET State
    /\ Infs \subseteq Int /\ Sups \subseteq Int

VARIABLES
    trans, reach,      \* the relation, and BddFsm_get_reachable_states
    fairsi, fair,      \* BddFsm_get_fair_states_inputs, .._fair_states
    pc,                \* the loop that runs
    tool, type,        \* who evaluates, and the type of the node
    a, b, inf, sup,    \* the operands and bounds of the node
    given,             \* the second operand, as the client gave it
    Y, new,            \* eu: the states found, and those of the last round
    prev,              \* the value of Y a round earlier
    saved,             \* the result of eg, while eu runs
    i,                 \* the counter of the bounded loops, minu and maxu
    bound,             \* eg: the pairs it works in
    res, old,          \* eg: the pairs left, and those of the round before
    partial, todo,     \* eg: the pairs that passed the constraints tried
    resY, newY,        \* eu_si: the pairs found, and those of the last round
    result, answer     \* the set, or the number, returned

fsmVars == <<trans, reach, fairsi, fair>>
nodeVars == <<tool, type, a, b, inf, sup, given>>
euVars == <<Y, new, prev, saved, i>>
egVars == <<bound, res, old, partial, todo, resY, newY>>
vars == <<fsmVars, nodeVars, euVars, egVars, pc, result, answer>>

NuSMV == "nusmv"
Tool == "ctl"
Mc == "mc"

Sometimes == {"EX", "EF", "EG", "EU"}
Always == {"AX", "AF", "AG", "AU"}
Bounded == {"EBU", "EBF", "EBG", "ABU", "ABF", "ABG"}
Lengths == {"MINU", "MAXU"}
Types == [nusmv |-> Sometimes \cup Always \cup Bounded \cup Lengths,
          mc |-> Sometimes \cup {"AU"},
          ctl |-> Sometimes \cup Always \cup {"EW", "AW"}]

\* The types with two operands.
Binary == {"EU", "AU", "EW", "AW", "EBU", "ABU"} \cup Lengths

-----------------------------------------------------------------------------
(* The tables of eval_ctl_spec_recur and of eval_ctl: which operator is    *)
(* computed, on which operands, and whether its complement is the result.  *)

Not(S) == State \ S

Negated == Always \cup {"AW", "ABF", "ABG"}

Signed(S) == IF type \in Negated THEN Not(S) ELSE S

HasEg == {"EG", "AF", "AU", "EW"}
HasEu == {"EF", "AG", "EU", "AU", "EW", "AW"}

EgArg == IF type = "AU" THEN Not(b) ELSE Signed(a)

\* f and g of E[f U g].
EuLeft == CASE type \in {"EF", "AG", "EBF", "ABG"} -> State
            [] type \in {"AU", "AW"} -> Not(b)
            [] OTHER -> a
EuRight == CASE type \in {"EU", "EW", "EBU", "ABU"} -> b
             [] type \in {"AU", "AW"} -> Not(a) \cap Not(b)
             [] OTHER -> Signed(a)

\* Mutant of Allowed: the restriction to the fair states is forgotten.
AllowedUnfair == reach

\* NuSMV restricts itself to the fair states, the ctl tool does not.
Allowed == IF tool = Tool THEN reach ELSE fair \cap reach

Ex(S) == BackwardImage(trans, S \cap Allowed) \cap reach

Entry(ty) == CASE ty \in {"EX", "AX"} -> "ex"
               [] ty \in HasEg -> "eg"
               [] ty \in HasEu \ HasEg -> "eu"
               [] ty \in Bounded -> "bounded"
               [] ty = "MINU" -> "minu"
               [] ty = "MAXU" -> "maxu"

\* What an evaluation is left with when eg has returned, or eu.
Rest == IF type \in HasEu THEN "eu" ELSE "return"

-----------------------------------------------------------------------------
(* Emerson-Lei, on pairs: mcMc.c repeats for eg what BddFsm.c does for the *)
(* fair states, inside the pairs of g.                                     *)

ExSi(si) == EX(trans, reach, si)

\* while (res != old): one iteration tries every constraint.
EgIterate ==
    /\ pc = "gfp" /\ res # old
    /\ old' = res
    /\ partial' = res
    /\ todo' = Justice
    /\ pc' = "justice"
    /\ UNCHANGED <<fsmVars, nodeVars, euVars, bound, res, resY, newY, result, answer>>

\* Mutant of EgTry: the constraint is not intersected.
EgTryAnywhere(p) ==
    /\ pc = "justice" /\ p \in todo
    /\ todo' = todo \ {p}
    /\ resY' = Within(reach, res)
    /\ newY' = Within(reach, res)
    /\ pc' = "eu_si"
    /\ UNCHANGED <<fsmVars, nodeVars, euVars, bound, res, old, partial, result, answer>>

\* eu_si starts from the pairs of res that meet the next constraint.
EgTry(p) ==
    /\ pc = "justice" /\ p \in todo
    /\ todo' = todo \ {p}
    /\ resY' = Within(reach, res \cap p)
    /\ newY' = Within(reach, res \cap p)
    /\ pc' = "eu_si"
    /\ UNCHANGED <<fsmVars, nodeVars, euVars, bound, res, old, partial, result, answer>>

EuSiIterate ==
    /\ pc = "eu_si" /\ newY # {}
    /\ resY' = resY \cup (bound \cap ExSi(newY))
    /\ newY' = resY' \ resY
    /\ UNCHANGED <<fsmVars, nodeVars, euVars, bound, res, old, partial, todo, pc, result, answer>>

EuSiExit ==
    /\ pc = "eu_si" /\ newY = {}
    /\ partial' = partial \cap resY
    /\ resY' = {}
    /\ pc' = "justice"
    /\ UNCHANGED <<fsmVars, nodeVars, euVars, bound, res, old, todo, newY, result, answer>>

EgAccumulate ==
    /\ pc = "justice" /\ todo = {}
    /\ res' = res \cap ExSi(partial) \cap bound
    /\ partial' = {}
    /\ pc' = "gfp"
    /\ UNCHANGED <<fsmVars, nodeVars, euVars, bound, old, todo, resY, newY, result, answer>>

EgFree == /\ bound' = {} /\ res' = {} /\ old' = {}
          /\ UNCHANGED <<partial, todo, resY, newY>>

\* Mutant of FairExit: the inputs are not quantified away.
FairExitPairs ==
    /\ pc = "gfp" /\ res = old /\ type = "FAIR"
    /\ fairsi' = res
    /\ fair' = res
    /\ EgFree
    /\ pc' = "idle"
    /\ UNCHANGED <<trans, reach, nodeVars, euVars, result, answer>>

\* The first computation of a session is that of the fair pairs.
FairExit ==
    /\ pc = "gfp" /\ res = old /\ type = "FAIR"
    /\ fairsi' = res
    /\ fair' = StatesOf(res)
    /\ EgFree
    /\ pc' = "idle"
    /\ UNCHANGED <<trans, reach, nodeVars, euVars, result, answer>>

EgExit ==
    /\ pc = "gfp" /\ res = old /\ type # "FAIR"
    /\ saved' = StatesOf(res)
    /\ EgFree
    /\ pc' = Rest
    /\ UNCHANGED <<fsmVars, nodeVars, Y, new, prev, i, result, answer>>

-----------------------------------------------------------------------------
\* A node is evaluated once its operands are.  eval_ctl returns reachable
\* states only, eval_ctl_spec any; the functions eu and au of mc.py pass their
\* first argument twice.
Operand(to, S) == IF to = Tool THEN S \cap reach ELSE S

Call(to, ty, x, y, lo, hi) ==
    /\ pc = "idle"
    /\ tool' = to /\ type' = ty /\ inf' = lo /\ sup' = hi
    /\ a' = Operand(to, x)
    /\ b' = Operand(to, IF to = Mc THEN x ELSE y)
    /\ given' = y
    /\ pc' = Entry(ty)
    /\ UNCHANGED <<fsmVars, euVars, egVars, result, answer>>

ExCall ==
    /\ pc = "ex"
    /\ Y' = Ex(Signed(a))
    /\ pc' = "return"
    /\ UNCHANGED <<fsmVars, nodeVars, new, prev, saved, i, egVars, result, answer>>

\* Lazy evaluation for EG TRUE.
EgTrue ==
    /\ pc = "eg" /\ tool # Tool /\ EgArg = State
    /\ saved' = fair
    /\ pc' = Rest
    /\ UNCHANGED <<fsmVars, nodeVars, Y, new, prev, i, egVars, result, answer>>

EgCall ==
    /\ pc = "eg" /\ tool # Tool /\ EgArg # State
    /\ bound' = Within(EgArg, fairsi \cap StatesInputsConstraints(trans, reach))
    /\ res' = StateInput
    /\ old' = {}
    /\ pc' = "gfp"
    /\ UNCHANGED <<fsmVars, nodeVars, euVars, partial, todo, resY, newY, result, answer>>

\* The ctl tool ignores fairness and iterates on states.
ToolEgCall ==
    /\ pc = "eg" /\ tool = Tool
    /\ Y' = State
    /\ prev' = {}
    /\ pc' = "tool_eg"
    /\ UNCHANGED <<fsmVars, nodeVars, new, saved, i, egVars, result, answer>>

ToolEgIterate ==
    /\ pc = "tool_eg" /\ Y # prev
    /\ prev' = Y
    /\ Y' = Y \cap Ex(Y) \cap EgArg \cap reach
    /\ UNCHANGED <<fsmVars, nodeVars, new, saved, i, egVars, pc, result, answer>>

ToolEgExit ==
    /\ pc = "tool_eg" /\ Y = prev
    /\ saved' = Y
    /\ Y' = {}
    /\ pc' = Rest
    /\ UNCHANGED <<fsmVars, nodeVars, new, prev, i, egVars, result, answer>>

EuCall ==
    /\ pc = "eu"
    /\ Y' = EuRight \cap Allowed
    /\ new' = EuRight \cap Allowed
    /\ pc' = "eu_loop"
    /\ UNCHANGED <<fsmVars, nodeVars, prev, saved, i, egVars, result, answer>>

\* Mutant of EuIterate: the states found so far are overwritten.
EuOverwrites ==
    /\ pc = "eu_loop" /\ new # {}
    /\ Y' = EuLeft \cap Ex(new)
    /\ new' = Y' \ Y
    /\ UNCHANGED <<fsmVars, nodeVars, prev, saved, i, egVars, pc, result, answer>>

\* Mutant of EuIterate: the states of earlier rounds are not taken out.
EuRepeats ==
    /\ pc = "eu_loop" /\ new # {}
    /\ Y' = Y \cup (EuLeft \cap Ex(new))
    /\ new' = Y'
    /\ UNCHANGED <<fsmVars, nodeVars, prev, saved, i, egVars, pc, result, answer>>

EuIterate ==
    /\ pc = "eu_loop" /\ new # {}
    /\ Y' = Y \cup (EuLeft \cap Ex(new))
    /\ new' = Y' \ Y
    /\ UNCHANGED <<fsmVars, nodeVars, prev, saved, i, egVars, pc, result, answer>>

EuExit ==
    /\ pc = "eu_loop" /\ new = {}
    /\ pc' = "return"
    /\ UNCHANGED <<fsmVars, nodeVars, euVars, egVars, result, answer>>

-----------------------------------------------------------------------------
(* The bounded operators: a loop for the steps within the bounds, then one *)
(* for the steps before them; each stops early at a fixpoint.              *)

OnAll == type = "ABU"
OnGlobally == type \in {"EBG", "ABF"}

\* ax, written with ex as in the code.
Next1 == IF OnAll THEN Not(Ex(Not(Y))) ELSE Ex(Y)

BoundedRefuse ==
    /\ pc = "bounded" /\ (inf > sup \/ inf < 0)
    /\ Y' = IF OnGlobally THEN State ELSE {}
    /\ pc' = "return"
    /\ UNCHANGED <<fsmVars, nodeVars, new, prev, saved, i, egVars, result, answer>>

BoundedCall ==
    /\ pc = "bounded" /\ ~(inf > sup \/ inf < 0)
    /\ Y' = EuRight \cap Allowed
    /\ i' = sup
    /\ pc' = "within"
    /\ UNCHANGED <<fsmVars, nodeVars, new, prev, saved, egVars, result, answer>>

WithinIterate ==
    /\ pc = "within" /\ i > inf
    /\ Y' = IF OnGlobally THEN Y \cap Next1 ELSE Y \cup (EuLeft \cap Next1)
    /\ i' = IF Y' = Y THEN inf ELSE i - 1
    /\ UNCHANGED <<fsmVars, nodeVars, new, prev, saved, egVars, pc, result, answer>>

WithinExit ==
    /\ pc = "within" /\ i <= inf
    /\ i' = inf
    /\ pc' = "before"
    /\ UNCHANGED <<fsmVars, nodeVars, Y, new, prev, saved, egVars, result, answer>>

BeforeIterate ==
    /\ pc = "before" /\ i > 0
    /\ Y' = IF OnGlobally THEN Next1 ELSE EuLeft \cap Next1
    /\ i' = IF Y' = Y THEN 0 ELSE i - 1
    /\ UNCHANGED <<fsmVars, nodeVars, new, prev, saved, egVars, pc, result, answer>>

BeforeExit ==
    /\ pc = "before" /\ i <= 0
    /\ pc' = "return"
    /\ UNCHANGED <<fsmVars, nodeVars, euVars, egVars, result, answer>>

-----------------------------------------------------------------------------
\* The complement is taken on the way out; eval_ctl keeps the reachable states.
Return ==
    /\ pc = "return"
    /\ result' = LET sat == Signed(saved \cup Y)
                 IN IF tool = Tool THEN sat \cap reach ELSE sat
    /\ pc' = "done"
    /\ UNCHANGED <<fsmVars, nodeVars, egVars, euVars, answer>>

-----------------------------------------------------------------------------
(* COMPUTE MIN and MAX: Y is Rp, prev is R.                                *)

Infinite == -1
Undefined == -2

Answer(n) == /\ answer' = n
             /\ pc' = "done"
             /\ UNCHANGED <<fsmVars, nodeVars, egVars, euVars, result>>

MinuCall ==
    /\ pc = "minu"
    /\ Y' = a \cap fair \cap reach \cap Invar
    /\ prev' = {} /\ i' = 0
    /\ pc' = "minu_loop"
    /\ UNCHANGED <<fsmVars, nodeVars, new, saved, egVars, result, answer>>

MinuFound == pc = "minu_loop" /\ Y \cap b \cap fair \cap reach # {} /\ Answer(i)

\* The do loop tests its condition at the end: a first iteration is made.
MinuIterate ==
    /\ pc = "minu_loop" /\ Y \cap b \cap fair \cap reach = {} /\ ~(i > 0 /\ Y = prev)
    /\ prev' = Y
    /\ Y' = Y \cup (ForwardImage(trans, Y) \cap fair)
    /\ i' = i + 1
    /\ UNCHANGED <<fsmVars, nodeVars, new, saved, egVars, pc, result, answer>>

MinuExit ==
    /\ pc = "minu_loop" /\ Y \cap b \cap fair \cap reach = {} /\ i > 0 /\ Y = prev
    /\ Answer(Infinite)

\* An empty set of fair states is left out of the test for emptiness.
Considered(S) == S \cap Invar \cap reach \cap (IF fair = {} THEN State ELSE fair)

MaxuRefuse ==
    /\ pc = "maxu" /\ (Considered(a) = {} \/ Considered(b) = {})
    /\ Answer(Undefined)

MaxuCall ==
    /\ pc = "maxu" /\ Considered(a) # {} /\ Considered(b) # {}
    /\ Y' = Not(b) \cap Invar \cap fair \cap reach
    /\ prev' = State /\ i' = 0
    /\ pc' = "maxu_loop"
    /\ UNCHANGED <<fsmVars, nodeVars, new, saved, egVars, result, answer>>

MaxuFound == pc = "maxu_loop" /\ ~(i > 0 /\ Y = prev) /\ Y \cap a = {} /\ Answer(i)

\* Mutant of MaxuIterate: the states of b are not left out again.
MaxuThroughB ==
    /\ pc = "maxu_loop" /\ ~(i > 0 /\ Y = prev) /\ Y \cap a # {}
    /\ prev' = Y
    /\ Y' = BackwardImage(trans, Y) \cap reach \cap fair \cap Invar
    /\ i' = i + 1
    /\ UNCHANGED <<fsmVars, nodeVars, new, saved, egVars, pc, result, answer>>

MaxuIterate ==
    /\ pc = "maxu_loop" /\ ~(i > 0 /\ Y = prev) /\ Y \cap a # {}
    /\ prev' = Y
    /\ Y' = BackwardImage(trans, Y) \cap reach \cap fair \cap Not(b) \cap Invar
    /\ i' = i + 1
    /\ UNCHANGED <<fsmVars, nodeVars, new, saved, egVars, pc, result, answer>>

MaxuExit == pc = "maxu_loop" /\ i > 0 /\ Y = prev /\ Answer(Infinite)

-----------------------------------------------------------------------------
\* The client has taken the result.
Taken ==
    /\ pc = "done"
    /\ tool' = NuSMV /\ type' = "FAIR" /\ inf' = 0 /\ sup' = 0
    /\ a' = {} /\ b' = {} /\ given' = {}
    /\ Y' = {} /\ new' = {} /\ prev' = {} /\ saved' = {} /\ i' = 0
    /\ result' = {} /\ answer' = 0
    /\ pc' = "idle"
    /\ UNCHANGED <<fsmVars, egVars>>

Init ==
    /\ trans \in SUBSET Edges
    /\ reach = Reach(trans)
    /\ fairsi = {} /\ fair = {}
    /\ tool = NuSMV /\ type = "FAIR" /\ a = {} /\ b = {} /\ given = {} /\ inf = 0 /\ sup = 0
    /\ Y = {} /\ new = {} /\ prev = {} /\ saved = {} /\ i = 0
    /\ bound = StatesInputsConstraints(trans, reach)
    /\ res = StateInput /\ old = {}
    /\ partial = {} /\ todo = {} /\ resY = {} /\ newY = {}
    /\ result = {} /\ answer = 0
    /\ pc = "gfp"

EgLoop == EgIterate \/ EgAccumulate \/ FairExit \/ EgExit \/ EuSiIterate \/ EuSiExit

Unbounded == \/ ExCall \/ EgTrue \/ EgCall
             \/ ToolEgCall \/ ToolEgIterate \/ ToolEgExit
             \/ EuCall \/ EuIterate \/ EuExit

BoundedLoop == \/ BoundedRefuse \/ BoundedCall
               \/ WithinIterate \/ WithinExit \/ BeforeIterate \/ BeforeExit

Compute == \/ MinuCall \/ MinuFound \/ MinuIterate \/ MinuExit
           \/ MaxuRefuse \/ MaxuCall \/ MaxuFound \/ MaxuIterate \/ MaxuExit

Evaluate == \/ EgLoop \/ (\E p \in Justice : EgTry(p))
            \/ Unbounded \/ BoundedLoop \/ Compute \/ Return

\* Bounds and second operands are those of the types that have them.
Request ==
    /\ pc = "idle"
    /\ \E to \in {NuSMV, Tool, Mc} : \E ty \in Types[to] : \E x \in Args :
       \E y \in (IF ty \in Binary THEN Args ELSE {{}}) :
       \E lo \in (IF ty \in Bounded THEN Infs ELSE {0}) :
       \E hi \in (IF ty \in Bounded THEN Sups ELSE {0}) :
           Call(to, ty, x, y, lo, hi)

Next == Request \/ Taken \/ Evaluate

\* A function that has been called runs.
Spec == Init /\ [][Next]_vars /\ WF_vars(Evaluate)

-----------------------------------------------------------------------------
Loops == {"idle", "gfp", "justice", "eu_si", "ex", "eg", "tool_eg", "eu", "eu_loop",
          "bounded", "within", "before", "minu", "minu_loop", "maxu", "maxu_loop",
          "return", "done"}

\* Every register holds a set of states, a set of pairs or a number.
TypeOK ==
    /\ trans \subseteq Edges /\ reach = Reach(trans)
    /\ fairsi \subseteq StateInput /\ fair \subseteq State
    /\ pc \in Loops
    /\ tool \in {NuSMV, Tool, Mc} /\ type \in Types.nusmv \cup Types.ctl \cup {"FAIR"}
    /\ {a, b, given, Y, new, prev, saved, result} \subseteq SUBSET State
    /\ {inf, sup, i, answer} \subseteq Int
    /\ {bound, res, old, partial, resY, newY} \subseteq SUBSET StateInput
    /\ todo \subseteq Justice

\* The least set with Right, and with the predecessors of its members in Left.
LeastUntil(Left, Right) ==
    {s \in State : \A S \in SUBSET State :
        (Right \subseteq S /\ Left \cap Ex(S) \subseteq S) => s \in S}

\* Whichever set a round of eu starts from, the loop ends with the least
\* fixpoint of Z |-> g or (f and ex Z): no state is lost by working on the
\* states of the last round alone (mcMc.c:323-390, tools/ctl/eval.py:118-125).
UntilIsLeast ==
    pc = "eu_loop" /\ new = {} => Y = LeastUntil(EuLeft, EuRight \cap Allowed)

\* The same, for pairs.
LeastUntilSi(Left, Right) ==
    {x \in StateInput : \A S \in SUBSET StateInput :
        (Right \subseteq S /\ Left \cap ExSi(S) \subseteq S) => x \in S}

\* The pairs with a step to a pair of Z from which Z meets every constraint.
Recurring(Z) ==
    ExSi({x \in Z : \A p \in Justice : x \in LeastUntilSi(bound, Within(reach, Z \cap p))})

GreatestRecurring == UNION {Z \in SUBSET bound : Z \subseteq Recurring(Z)}

\* The nested loops of eg end with the greatest set of pairs of g from which
\* every constraint can be met without leaving g, whatever the order in which
\* the constraints are tried (mcMc.c:1226-1318, BddFsm.c:2838-2953).
GloballyIsGreatest == pc = "gfp" /\ res = old => res = GreatestRecurring

-----------------------------------------------------------------------------
\* The states the verdict of a check depends on: those of fair paths for
\* NuSMV, every reachable one for the ctl tool.
Judged == Allowed

Fairness == IF tool = Tool THEN {} ELSE Justice

\* check_ctl_spec and check: no legal initial state violates the formula; for
\* check_ctl_spec, only the fair ones count.
Verdict ==
    Initial \cap Invar \cap (IF tool = Tool THEN State ELSE fair) \cap Not(result) = {}

EmptyRange == type \in Bounded /\ (inf > sup \/ inf < 0)

\* A set returned is that of the states satisfying the operator, by its
\* definition on paths: on every fair reachable state for NuSMV, on every
\* reachable state for the ctl tool, which ignores fairness; so the verdict is
\* that of the initial states. Bounded operators whose range is empty or starts
\* below zero are left out: ebu and ebg give up with no state and with all
\* (mcEval.c:208-255, mcMc.c:277-910, tools/ctl/eval.py:8-125).
ResultIsMeant ==
    LET sat == {s \in Judged :
                    Satisfies(trans, Fairness, Judged, type, s, a, b, inf, sup)}
    IN pc = "done" /\ type \notin Lengths /\ ~EmptyRange =>
        /\ result \cap Judged = sat
        /\ Verdict <=> Start \cap Judged \subseteq sat

\* eu(fsm, s1, s2) is the set of states satisfying E[s1 U s2], au(fsm, s1, s2)
\* that of those satisfying A[s1 U s2] (docstrings, mc.py:114, 129).
UntilOfBothArguments ==
    pc = "done" /\ tool = Mc /\ type \in {"EU", "AU"} =>
        \A s \in Judged :
            s \in result <=> Satisfies(trans, Fairness, Judged, type, s, a, given, inf, sup)

\* What COMPUTE returns: MIN the length of a shortest fair path from a to b, -1
\* when there is none; MAX that of a longest one from a outside b, 0 when a is
\* inside b, -1 when there is no longest one and -2 when a or b has no fair
\* state (mcMc.c:923-1168).
LengthIsMeant ==
    LET runs(s) == Runs(trans, Allowed, s, Cardinality(State))
        from(S) == UNION {runs(s) : s \in S \cap fair \cap reach}
        hits == {w \in from(a) : w[Len(w)] \in b}
        misses == {w \in from(a) : Holding(Not(b), w, 1, Len(w))}
        lengths(W) == {Len(w) : w \in W}
    IN pc = "done" /\ fair # {} =>
        CASE type = "MINU" -> IF hits = {} THEN answer = Infinite
                              ELSE answer + 1 \in lengths(hits)
                                   /\ \A n \in lengths(hits) : answer < n
          [] type = "MAXU" -> IF {} \in {a \cap fair, b \cap fair} THEN answer = Undefined
                              ELSE IF Cardinality(State) + 1 \in lengths(misses) THEN answer = Infinite
                              ELSE answer \in Nat /\ \A n \in 1..(Cardinality(State) + 1) :
                                                       n \in lengths(misses) <=> n <= answer
          [] OTHER -> TRUE

\* The loops on the states of the last round, on whole sets under a
\* conjunction, and nested in one another all stop (tools/ctl/eval.py:109-125,
\* mcMc.c:344, 564, 1297).
EvaluationEnds == pc \notin {"idle", "done"} ~> pc \in {"idle", "done"}

=============================================================================
