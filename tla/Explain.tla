------------------------------- MODULE Explain -------------------------------
(***************************************************************************)
(* The search for a path that explains a formula (mcExplain.c), for the    *)
(* functions explain, explainEX, explainEU and explainEG of pynusmv/mc.py  *)
(* and for the counterexamples of Mc_CheckCTLSpec.                         *)
(*                                                                         *)
(* explain_recur follows the formula down, each temporal operator extends  *)
(* the path found so far with a search of its own, and a failing search    *)
(* leaves the path as it was.  During a search the path is made of sets of *)
(* states and of inputs, instantiated backwards once the goal is reached.  *)
(* The path is in the order of time; the code keeps it reversed.           *)
(***************************************************************************)
EXTENDS CtlSemantics

CONSTANTS
    Edges,      \* the transitions a relation is made of
    Node,       \* the nodes of formulas, numbered after their operands
    Syntax,     \* the operator, operands, bounds and atomic set of a node
    Explained,  \* the nodes mc.explain is asked to explain
    Witnessed,  \* the nodes explainEX, explainEU or explainEG is called for
    Checked     \* the nodes Mc_CheckCTLSpec gives a counterexample for

None == 0

ASSUME ExplainAssumption ==
    /\ Edges \subseteq Transition
    /\ Node \subseteq Nat \ {None}
    /\ Explained \cup Witnessed \cup Checked \subseteq Node
    /\ \A n \in Node :
        /\ {Syntax[n].car, Syntax[n].cdr} \subseteq (Node \cup {None}) \cap 0..(n - 1)
        /\ {Syntax[n].inf, Syntax[n].sup} \subseteq Nat
        /\ Syntax[n].set \subseteq State

VARIABLES
    trans, reach,     \* the relation and the reachable states
    fairsi, fair,     \* the fair pairs and the fair states
    sat,              \* the states each node is true in
    egs,              \* what eg_si and eg return for the operands of EG
    pc,               \* the function that runs
    caller, given,    \* the function called by the client, and on which state
    asked, node,      \* the node it is called for, the node being explained
    stack,            \* the calls of explain_recur that wait for an answer
    states, inputs,   \* the path
    ok,               \* FALSE when the last search returned Nil
    f, g, Z, new,     \* eu_explain: operands, states seen, frontier
    base, mark, at,   \* positions in the path searches start or work from
    then,             \* the function that continues after a search
    i,                \* the counter of the bounded searches
    hulk, eg, target, \* eg_explain: eg_si_g, eg_g and the pairs to meet
    starting, todo,   \* the state to come back to, the constraints to meet
    answer            \* the tuple returned to the client

fsmVars == <<trans, reach, fairsi, fair, sat, egs>>
callVars == <<caller, given, asked>>
pathVars == <<states, inputs>>
euVars == <<f, g, Z, new, base, at, then>>
egVars == <<hulk, eg, target, starting, todo>>
vars == <<fsmVars, callVars, pathVars, euVars, egVars,
          pc, node, stack, ok, mark, i, answer>>

Op(n) == Syntax[n].op

-----------------------------------------------------------------------------
(* The set algebra the searches use, on the relation of the FSM.           *)

\* BddEnc_pick_one_state and .._pick_one_input: any element may be the one
\* picked, and the empty set stays empty.
Pick(S) == IF S = {} THEN {S} ELSE {{x} : x \in S}

\* BddFsm_states_to_states_get_inputs.
Between(P, Q) ==
    {k \in InvarInput : \E p \in P \cap Invar, q \in Q \cap Invar : <<p, k, q>> \in trans}

ForwardBy(P, I) ==
    {q \in Invar : \E p \in P \cap Invar, k \in I \cap InvarInput : <<p, k, q>> \in trans}

BackwardBy(Q, I) ==
    {p \in Invar : \E q \in Q \cap Invar, k \in I \cap InvarInput : <<p, k, q>> \in trans}

Ex(S) == BackwardImage(trans, S \cap fair \cap reach) \cap reach

\* eg_si: the pairs of si that begin a fair path in si.
EgSi(t, R, si) ==
    LET subspace == Within(R, si \cap StatesInputsConstraints(t, R))
        Loop[res \in SUBSET StateInput] ==
            LET next == res \cap FairStep(t, R, res, subspace) \cap subspace
            IN IF next = res THEN res ELSE Loop[next]
    IN Loop[StateInput]

Eg(t, R, si, S) == IF S = State THEN StatesOf(si) ELSE StatesOf(EgSi(t, R, si \cap (S \X Input)))

\* eval_ctl_spec, for every node of the formulas.
SatOf(t, R, F) ==
    LET Value[n \in Node] ==
            LET a == IF Syntax[n].car = None THEN {} ELSE Value[Syntax[n].car]
                b == IF Syntax[n].cdr = None THEN {} ELSE Value[Syntax[n].cdr]
            IN CASE Op(n) = "ATOM" -> Syntax[n].set
                 [] Op(n) = "NOT" -> State \ a
                 [] Op(n) = "AND" -> a \cap b
                 [] Op(n) = "OR" -> a \cup b
                 [] OTHER -> {s \in R : Satisfies(t, Justice, F, Op(n), s, a, b,
                                                 Syntax[n].inf, Syntax[n].sup)}
    IN Value

EgsOf(t, R, si, sats) ==
    [S \in {sats[Syntax[n].car] : n \in {m \in Node : Op(m) = "EG"}} |->
        [si |-> EgSi(t, R, S \X Input), states |-> Eg(t, R, si, S)]]

-----------------------------------------------------------------------------
(* The path: Last is the car of the list, where it is extended.            *)

Length == Len(states)
Last == states[Length]

Cut(n) == /\ states' = SubSeq(states, 1, n)
          /\ inputs' = SubSeq(inputs, 1, n - 1)

\* n times the same set, each with the inputs that lead there.
ExtendBy(S, n) ==
    /\ states' = states \o [k \in 1..n |-> S]
    /\ inputs' = inputs \o [k \in 1..n |-> Between(IF k = 1 THEN Last ELSE S, S)]

Extend(S) == ExtendBy(S, 1)

\* Extend_trace_with_state_input_pair: one state of S, and one input.
ExtendWithOne(S) ==
    \E s \in Pick(S) : \E k \in Pick(Between(Last, s)) :
        /\ states' = Append(states, s)
        /\ inputs' = Append(inputs, k)

\* The last search failed or succeeded; then goes on.
Ended(found, next) == ok' = found /\ pc' = next

Forget == /\ Z' = {} /\ new' = {}
          /\ UNCHANGED <<f, g, base, at, then>>

-----------------------------------------------------------------------------
(* ex_explain, for the target g.                                           *)

Target == g \cap fair \cap ForwardImage(trans, Last)

ExAbort ==
    /\ pc = "ex" /\ ~(Last \subseteq fair)
    /\ pc' = "aborted"
    /\ UNCHANGED <<fsmVars, callVars, pathVars, euVars, egVars, node, stack, ok, mark, i, answer>>

ExFail ==
    /\ pc = "ex" /\ Last \subseteq fair /\ Target = {}
    /\ Ended(FALSE, then)
    /\ UNCHANGED <<fsmVars, callVars, pathVars, euVars, egVars, node, stack, mark, i, answer>>

ExExplain ==
    /\ pc = "ex" /\ Last \subseteq fair /\ Target # {}
    /\ ExtendWithOne(Target)
    /\ Ended(TRUE, then)
    /\ UNCHANGED <<fsmVars, callVars, euVars, egVars, node, stack, mark, i, answer>>

-----------------------------------------------------------------------------
(* eu_explain, for E[f U g]: a search forwards, by the states not seen     *)
(* yet, then the choice of one state per set, backwards.                   *)

Accepting == g \cap fair

EuAtOnce ==
    /\ pc = "eu" /\ Last \cap Accepting # {}
    /\ \E s \in Pick(Last \cap Accepting) : states' = [states EXCEPT ![Length] = s]
    /\ Ended(TRUE, then)
    /\ base' = Length
    /\ UNCHANGED <<fsmVars, callVars, inputs, f, g, Z, new, at, then, egVars, node, stack, mark, i, answer>>

EuRefuse ==
    /\ pc = "eu" /\ Last \cap Accepting = {} /\ Last \cap f = {}
    /\ Ended(FALSE, then)
    /\ UNCHANGED <<fsmVars, callVars, pathVars, euVars, egVars, node, stack, mark, i, answer>>

EuCall ==
    /\ pc = "eu" /\ Last \cap Accepting = {} /\ Last \cap f # {}
    /\ Z' = Last \cap f
    /\ new' = Last \cap f
    /\ base' = Length
    /\ pc' = "eu_loop"
    /\ UNCHANGED <<fsmVars, callVars, pathVars, f, g, at, then, egVars, node, stack, ok, mark, i, answer>>

Image == ForwardImage(trans, new)

EuFound ==
    /\ pc = "eu_loop" /\ Image \cap Accepting # {}
    /\ \E s \in Pick(Image \cap Accepting) : Extend(s)
    /\ at' = Length + 1
    /\ Z' = {} /\ new' = {}
    /\ pc' = "eu_back"
    /\ UNCHANGED <<fsmVars, callVars, f, g, base, then, egVars, node, stack, ok, mark, i, answer>>

\* Mutant of EuIterate: the states seen are not taken out of the frontier.
EuRevisits ==
    /\ pc = "eu_loop" /\ Image \cap Accepting = {} /\ (Image \cap f) # {}
    /\ Z' = Z \cup (Image \cap f)
    /\ new' = Image \cap f
    /\ states' = IF Length < 9 THEN Append(states, new') ELSE states
    /\ inputs' = IF Length < 9 THEN Append(inputs, Between(Last, new')) ELSE inputs
    /\ UNCHANGED <<fsmVars, callVars, f, g, base, at, then, egVars, pc, node, stack, ok, mark, i, answer>>

\* Mutant of EuIterate: it does not look for the goal first.
EuGoesOn ==
    /\ pc = "eu_loop" /\ (Image \cap f) \ Z # {}
    /\ Z' = Z \cup (Image \cap f)
    /\ new' = (Image \cap f) \ Z
    /\ Extend(new')
    /\ UNCHANGED <<fsmVars, callVars, f, g, base, at, then, egVars, pc, node, stack, ok, mark, i, answer>>

EuIterate ==
    /\ pc = "eu_loop" /\ Image \cap Accepting = {} /\ (Image \cap f) \ Z # {}
    /\ Z' = Z \cup (Image \cap f)
    /\ new' = (Image \cap f) \ Z
    /\ Extend(new')
    /\ UNCHANGED <<fsmVars, callVars, f, g, base, at, then, egVars, pc, node, stack, ok, mark, i, answer>>

\* Mutant of EuFail: the frontiers stay in the path.
EuFailKeeps ==
    /\ pc = "eu_loop" /\ Image \cap Accepting = {} /\ (Image \cap f) \ Z = {}
    /\ Forget
    /\ Ended(FALSE, then)
    /\ UNCHANGED <<fsmVars, callVars, pathVars, egVars, node, stack, mark, i, answer>>

EuFail ==
    /\ pc = "eu_loop" /\ Image \cap Accepting = {} /\ (Image \cap f) \ Z = {}
    /\ Cut(base)
    /\ Forget
    /\ Ended(FALSE, then)
    /\ UNCHANGED <<fsmVars, callVars, egVars, node, stack, mark, i, answer>>

\* Mutant of Instantiate: the inputs are left as they are.
InstantiateStates(Filter) ==
    \E s \in Pick(BackwardBy(states[at], inputs[at - 1]) \cap states[at - 1] \cap Filter) :
        /\ states' = [states EXCEPT ![at - 1] = s]
        /\ inputs' = inputs

\* One state that leads to the one chosen after it, and one input; Filter is
\* what the search adds to the set kept in the path.
Instantiate(Filter) ==
    \E s \in Pick(BackwardBy(states[at], inputs[at - 1]) \cap states[at - 1] \cap Filter) :
    \E k \in Pick(Between(s, states[at])) :
        /\ states' = [states EXCEPT ![at - 1] = s]
        /\ inputs' = [inputs EXCEPT ![at - 1] = k]

\* mc_eu_explain_restrict_state_input_to_minterms
EuBack ==
    /\ pc = "eu_back" /\ at > base
    /\ Instantiate(State)
    /\ at' = at - 1
    /\ UNCHANGED <<fsmVars, callVars, f, g, Z, new, base, then, egVars, pc, node, stack, ok, mark, i, answer>>

EuDone ==
    /\ pc = "eu_back" /\ at = base
    /\ Ended(TRUE, then)
    /\ UNCHANGED <<fsmVars, callVars, pathVars, euVars, egVars, node, stack, mark, i, answer>>

-----------------------------------------------------------------------------
(* eg_explain: meet every constraint without leaving eg_g, then come back  *)
(* to the state one started from; if that cannot be done, go one step      *)
(* further and start again.                                                *)

EgRefuse ==
    /\ pc = "eg" /\ ~(Last \subseteq egs[g].states)
    /\ Ended(FALSE, "based")
    /\ UNCHANGED <<fsmVars, callVars, pathVars, euVars, egVars, node, stack, mark, i, answer>>

EgCall ==
    /\ pc = "eg" /\ Last \subseteq egs[g].states
    /\ hulk' = egs[g].si
    /\ eg' = egs[g].states
    /\ pc' = "round"
    /\ UNCHANGED <<fsmVars, callVars, pathVars, euVars, target, starting, todo, node, stack, ok, mark, i, answer>>

StartRound ==
    /\ pc = "round"
    /\ starting' = Last
    /\ todo' = Justice
    /\ pc' = "meet"
    /\ UNCHANGED <<fsmVars, callVars, pathVars, euVars, hulk, eg, target, node, stack, ok, mark, i, answer>>

\* fairness_explain: the path goes to the next constraint.
Meet(p) ==
    /\ pc = "meet" /\ p \in todo
    /\ todo' = todo \ {p}
    /\ target' = hulk \cap p \cap fairsi
    /\ f' = StatesOf(hulk) /\ g' = StatesOf(target')
    /\ pc' = "eu" /\ then' = "met"
    /\ UNCHANGED <<fsmVars, callVars, pathVars, Z, new, base, at, hulk, eg, starting, node, stack, ok, mark, i, answer>>

OnStates(si) == si = StatesOf(si) \X Input

\* Mutant of MetByStep: the step may leave the states of eg_si_g.
MetAnywhere ==
    /\ pc = "met" /\ ok
    /\ ~OnStates(target) /\ ~(Last \X Input \subseteq target)
    /\ \E k \in Pick({x[2] : x \in (Last \X Input) \cap target}) :
       \E s \in Pick(ForwardBy(Last, k)) :
        /\ states' = Append(states, s)
        /\ inputs' = Append(inputs, k)
    /\ pc' = "meet"
    /\ UNCHANGED <<fsmVars, callVars, euVars, egVars, node, stack, ok, mark, i, answer>>

\* eu_si_explain: a constraint on the inputs takes one more step.
MetByStep ==
    /\ pc = "met" /\ ok
    /\ ~OnStates(target) /\ ~(Last \X Input \subseteq target)
    /\ \E k \in Pick({x[2] : x \in (Last \X Input) \cap target}) :
       \E s \in Pick(ForwardBy(Last, k) \cap StatesOf(hulk)) :
        /\ states' = Append(states, s)
        /\ inputs' = Append(inputs, k)
    /\ pc' = "meet"
    /\ UNCHANGED <<fsmVars, callVars, euVars, egVars, node, stack, ok, mark, i, answer>>

MetByState ==
    /\ pc = "met" /\ ok
    /\ OnStates(target) \/ (Last \X Input \subseteq target)
    /\ pc' = "meet"
    /\ UNCHANGED <<fsmVars, callVars, pathVars, euVars, egVars, node, stack, ok, mark, i, answer>>

\* Mutant of Return: the successors of the starting state are looked for.
ReturnForward ==
    /\ pc = "meet" /\ todo = {}
    /\ f' = eg /\ g' = eg \cap ForwardImage(trans, starting)
    /\ mark' = Length
    /\ pc' = "eu" /\ then' = "returned"
    /\ UNCHANGED <<fsmVars, callVars, pathVars, Z, new, base, at, egVars, node, stack, ok, i, answer>>

\* Every constraint is met: back to a predecessor of the starting state.
Return ==
    /\ pc = "meet" /\ todo = {}
    /\ f' = eg /\ g' = eg \cap Ex(starting)
    /\ mark' = Length
    /\ pc' = "eu" /\ then' = "returned"
    /\ UNCHANGED <<fsmVars, callVars, pathVars, Z, new, base, at, egVars, node, stack, ok, i, answer>>

\* Mutant of Close: any state of eg_g will do.
CloseAnywhere ==
    /\ pc = "returned" /\ ok
    /\ g' = eg
    /\ pc' = "ex" /\ then' = "closed"
    /\ UNCHANGED <<fsmVars, callVars, pathVars, f, Z, new, base, at, egVars, node, stack, ok, mark, i, answer>>

Close ==
    /\ pc = "returned" /\ ok
    /\ g' = starting
    /\ pc' = "ex" /\ then' = "closed"
    /\ UNCHANGED <<fsmVars, callVars, pathVars, f, Z, new, base, at, egVars, node, stack, ok, mark, i, answer>>

EgFree == hulk' = {} /\ eg' = {} /\ target' = {} /\ starting' = {} /\ todo' = {}

Closed1 ==
    /\ pc = "closed" /\ ok
    /\ EgFree
    /\ Ended(TRUE, "based")
    /\ UNCHANGED <<fsmVars, callVars, pathVars, euVars, node, stack, mark, i, answer>>

\* The starting state is out of reach: one step further, inside eg_g.
Reopen ==
    /\ pc \in {"returned", "closed"} /\ ~ok
    /\ Cut(mark)
    /\ g' = eg
    /\ pc' = "ex" /\ then' = "reopened"
    /\ UNCHANGED <<fsmVars, callVars, f, Z, new, base, at, egVars, node, stack, ok, mark, i, answer>>

Reopened ==
    /\ pc = "reopened" /\ ok
    /\ pc' = "round"
    /\ UNCHANGED <<fsmVars, callVars, pathVars, euVars, egVars, node, stack, ok, mark, i, answer>>

-----------------------------------------------------------------------------
(* ebu_explain and ebg_explain: inf steps forwards, then a search.         *)

Inf == Syntax[node].inf
Sup == Syntax[node].sup

\* A step of the first loop from the states of From; when the set comes back,
\* the path is filled with it.
Advance(From, Into, last) ==
    LET image == ForwardImage(trans, Last \cap From) \cap Into
        n == IF image = Last THEN last - i ELSE 1
    IN /\ image # {}
       /\ ExtendBy(image, n)
       /\ i' = i + n

Stuck(From, Into) == ForwardImage(trans, Last \cap From) \cap Into = {}

BoundedFail ==
    /\ Cut(mark)
    /\ Ended(FALSE, "based")
    /\ UNCHANGED <<fsmVars, callVars, euVars, egVars, node, stack, mark, i, answer>>

EbuAdvance ==
    /\ pc = "ebu" /\ i < Inf
    /\ Advance(f, State, Inf)
    /\ UNCHANGED <<fsmVars, callVars, euVars, egVars, pc, node, stack, ok, mark, answer>>

EbuStuck == pc = "ebu" /\ i < Inf /\ Stuck(f, State) /\ BoundedFail

EbuSearch ==
    /\ pc = "ebu" /\ i = Inf
    /\ pc' = "eu" /\ then' = "ebu_found"
    /\ UNCHANGED <<fsmVars, callVars, pathVars, f, g, Z, new, base, at, egVars, node, stack, ok, mark, i, answer>>

EbuFound ==
    /\ pc = "ebu_found" /\ ok /\ Length - base <= Sup - Inf
    /\ at' = base
    /\ pc' = "ebu_back"
    /\ UNCHANGED <<fsmVars, callVars, pathVars, f, g, Z, new, base, then, egVars, node, stack, ok, mark, i, answer>>

EbuLate == pc = "ebu_found" /\ ~(ok /\ Length - base <= Sup - Inf) /\ BoundedFail

EbuBack ==
    /\ pc = "ebu_back" /\ at > mark
    /\ Instantiate(f)
    /\ at' = at - 1
    /\ UNCHANGED <<fsmVars, callVars, f, g, Z, new, base, then, egVars, pc, node, stack, ok, mark, i, answer>>

EbgAdvance ==
    /\ pc = "ebg" /\ i < Inf
    /\ Advance(State, State, Inf)
    /\ UNCHANGED <<fsmVars, callVars, euVars, egVars, pc, node, stack, ok, mark, answer>>

EbgStuck == pc = "ebg" /\ i < Inf /\ Stuck(State, State) /\ BoundedFail

EbgSearch ==
    /\ pc = "ebg" /\ i = Inf
    /\ base' = Length
    /\ pc' = "ebg_hold"
    /\ UNCHANGED <<fsmVars, callVars, pathVars, f, g, Z, new, at, then, egVars, node, stack, ok, mark, i, answer>>

EbgHold ==
    /\ pc = "ebg_hold" /\ i < Sup
    /\ Advance(Accepting, Accepting, Sup)
    /\ UNCHANGED <<fsmVars, callVars, euVars, egVars, pc, node, stack, ok, mark, answer>>

EbgLost == pc = "ebg_hold" /\ i < Sup /\ Stuck(Accepting, Accepting) /\ BoundedFail

EbgFound ==
    /\ pc = "ebg_hold" /\ i = Sup
    /\ \E s \in Pick(Accepting \cap Last) : states' = [states EXCEPT ![Length] = s]
    /\ at' = Length
    /\ pc' = "ebg_back"
    /\ UNCHANGED <<fsmVars, callVars, inputs, f, g, Z, new, base, then, egVars, node, stack, ok, mark, i, answer>>

EbgBack ==
    /\ pc = "ebg_back" /\ at > mark
    /\ Instantiate(IF at > base THEN Accepting ELSE State)
    /\ at' = at - 1
    /\ UNCHANGED <<fsmVars, callVars, f, g, Z, new, base, then, egVars, pc, node, stack, ok, mark, i, answer>>

BoundedDone ==
    /\ pc \in {"ebu_back", "ebg_back"} /\ at = mark
    /\ Ended(TRUE, "based")
    /\ UNCHANGED <<fsmVars, callVars, pathVars, euVars, egVars, node, stack, mark, i, answer>>

-----------------------------------------------------------------------------
(* explain_recur: the formula is followed down.                            *)

\* find_node: nodes are shared, a rewritten formula is a node of its own.
Find(op, x, y, inf, sup) ==
    CHOOSE n \in Node :
        Syntax[n] = [op |-> op, car |-> x, cdr |-> y, inf |-> inf, sup |-> sup, set |-> {}]

FindNot(x) == Find("NOT", x, None, 0, 0)
True == CHOOSE n \in Node : Op(n) = "ATOM" /\ Syntax[n].set = State

Rewritings == {"AX", "EF", "AG", "AF", "AU", "EBF", "ABG", "ABF"}

Rewritten == [n \in {m \in Node : Op(m) \in Rewritings} |->
    LET x == Syntax[n].car
        y == Syntax[n].cdr
        Of(op, z) == Find(op, z, None, Syntax[n].inf, Syntax[n].sup)
    IN CASE Op(n) = "AX" -> FindNot(Of("EX", FindNot(x)))
         [] Op(n) = "EF" -> Find("EU", True, x, 0, 0)
         [] Op(n) = "AG" -> FindNot(Find("EU", True, FindNot(x), 0, 0))
         [] Op(n) = "AF" -> FindNot(Of("EG", FindNot(x)))
         [] Op(n) = "AU" ->
                FindNot(Find("OR",
                    Find("EU", FindNot(y), Find("AND", FindNot(x), FindNot(y), 0, 0), 0, 0),
                    Of("EG", FindNot(y)), 0, 0))
         [] Op(n) = "EBF" -> Find("EBU", True, x, Syntax[n].inf, Syntax[n].sup)
         [] Op(n) = "ABG" -> FindNot(Of("EBF", FindNot(x)))
         [] Op(n) = "ABF" -> FindNot(Of("EBG", FindNot(x)))]

\* The parser gives every operator its operands, and Mc_Explain rewrites into
\* formulas; the three functions of mc.py build an EX, an EU and an EG.
ASSUME FormulaAssumption ==
    /\ \A n \in Node :
        /\ Op(n) # "ATOM" => Syntax[n].car \in Node
        /\ Op(n) \in {"AND", "OR", "EU", "EBU"} => Syntax[n].cdr \in Node
    /\ \A n \in DOMAIN Rewritten : Rewritten[n] \in Node
    /\ \A n \in Witnessed : Op(n) \in {"EX", "EU", "EG"}

Search == [EX |-> "ex", EU |-> "eu", EG |-> "eg", EBU |-> "ebu", EBG |-> "ebg"]

\* The operand the explanation goes on with.
Continued(n) == CASE Op(n) = "EX" -> Syntax[n].car
                  [] Op(n) \in {"EU", "EBU"} -> Syntax[n].cdr
                  [] OTHER -> None

Top == stack[Len(stack)]
Pop == SubSeq(stack, 1, Len(stack) - 1)

Frame(kind) == [kind |-> kind, node |-> node, length |-> Length, fresh |-> FALSE,
                left |-> "Nil", states |-> <<>>, inputs |-> <<>>]

ExplainNot ==
    /\ pc = "recur" /\ Op(node) = "NOT"
    /\ node' = Syntax[node].car
    /\ UNCHANGED <<fsmVars, callVars, pathVars, euVars, egVars, pc, stack, ok, mark, i, answer>>

ExplainRewritten ==
    /\ pc = "recur" /\ Op(node) \in Rewritings
    /\ node' = Rewritten[node]
    /\ UNCHANGED <<fsmVars, callVars, pathVars, euVars, egVars, pc, stack, ok, mark, i, answer>>

ExplainAtom ==
    /\ pc = "recur" /\ Op(node) = "ATOM"
    /\ Ended(FALSE, "return")
    /\ UNCHANGED <<fsmVars, callVars, pathVars, euVars, egVars, node, stack, mark, i, answer>>

ExplainOr ==
    /\ pc = "recur" /\ Op(node) = "OR"
    /\ stack' = Append(stack, Frame("or"))
    /\ node' = Syntax[node].car
    /\ UNCHANGED <<fsmVars, callVars, pathVars, euVars, egVars, pc, ok, mark, i, answer>>

\* explain_and, explain_eval: the conjunction must hold where the path ends.
ExplainAndRefuse ==
    /\ pc = "recur" /\ Op(node) = "AND" /\ Last \cap sat[node] = {}
    /\ Ended(FALSE, "return")
    /\ UNCHANGED <<fsmVars, callVars, pathVars, euVars, egVars, node, stack, mark, i, answer>>

ExplainAnd ==
    /\ pc = "recur" /\ Op(node) = "AND" /\ Last \cap sat[node] # {}
    /\ stack' = Append(stack, Frame("left"))
    /\ node' = Syntax[node].car
    /\ UNCHANGED <<fsmVars, callVars, pathVars, euVars, egVars, pc, ok, mark, i, answer>>

ExplainSearch ==
    /\ pc = "recur" /\ Op(node) \in DOMAIN Search
    /\ IF Op(node) \in {"EU", "EBU"}
       THEN f' = sat[Syntax[node].car] /\ g' = sat[Syntax[node].cdr]
       ELSE f' = State /\ g' = sat[Syntax[node].car]
    /\ mark' = Length /\ i' = 0
    /\ pc' = Search[Op(node)] /\ then' = "based"
    /\ UNCHANGED <<fsmVars, callVars, pathVars, Z, new, base, at, egVars, node, stack, ok, answer>>

EndSearch == /\ f' = {} /\ g' = {} /\ base' = 0 /\ at' = 0 /\ then' = ""
             /\ mark' = 0 /\ i' = 0
             /\ UNCHANGED <<Z, new>>

Recursive == caller \in {"explain", "check"}

\* The path found is the answer, unless the operand extends it.
Continue ==
    /\ pc = "based" /\ ok /\ Recursive /\ Continued(node) # None
    /\ stack' = Append(stack, Frame("keep"))
    /\ node' = Continued(node)
    /\ EndSearch
    /\ pc' = "recur"
    /\ UNCHANGED <<fsmVars, callVars, pathVars, egVars, ok, answer>>

EndBase ==
    /\ pc = "based" /\ ~(ok /\ Recursive /\ Continued(node) # None)
    /\ EndSearch
    /\ pc' = "return"
    /\ UNCHANGED <<fsmVars, callVars, pathVars, egVars, node, stack, ok, answer>>

Returns(kind) == pc = "return" /\ stack # <<>> /\ Top.kind = kind

Keep ==
    /\ Returns("keep")
    /\ stack' = Pop
    /\ ok' = TRUE
    /\ UNCHANGED <<fsmVars, callVars, pathVars, euVars, egVars, pc, node, mark, i, answer>>

OrFound ==
    /\ Returns("or") /\ ok
    /\ stack' = Pop
    /\ UNCHANGED <<fsmVars, callVars, pathVars, euVars, egVars, pc, node, ok, mark, i, answer>>

OrRight ==
    /\ Returns("or") /\ ~ok
    /\ stack' = Pop
    /\ node' = Syntax[Top.node].cdr
    /\ pc' = "recur"
    /\ UNCHANGED <<fsmVars, callVars, pathVars, euVars, egVars, ok, mark, i, answer>>

\* How the list a conjunct has returned compares with the copy it was given.  A
\* search that takes a step returns another one; so does a conjunction in it, of
\* any length, unless its two sides have come back as they were: it is fresh.
Came(fr) == IF ~ok THEN "Nil" ELSE IF fr.fresh \/ Length # fr.length THEN "other" ELSE "same"

Sides == {"left", "right"}

\* The list returned is not the one the innermost conjunct in st was given.
Marked(st) ==
    [m \in DOMAIN st |->
        IF st[m].kind \in Sides /\ \A j \in (m + 1)..Len(st) : st[j].kind \notin Sides
        THEN [st[m] EXCEPT !.fresh = TRUE]
        ELSE st[m]]

\* Each conjunct extends the path as it was.
AndRight ==
    /\ Returns("left")
    /\ stack' = Append(Pop, [Top EXCEPT !.kind = "right", !.left = Came(Top), !.fresh = FALSE,
                                        !.states = states, !.inputs = inputs])
    /\ Cut(Top.length)
    /\ node' = Syntax[Top.node].cdr
    /\ pc' = "recur"
    /\ UNCHANGED <<fsmVars, callVars, euVars, egVars, ok, mark, i, answer>>

\* The list of the left conjunct is returned when that of the right one has
\* come back as it was; the result of the right one is in every other case but
\* when both have: then the list of the conjunction is.
AndJoin ==
    /\ Returns("right")
    /\ IF Top.left = "other" /\ Came(Top) = "same"
       THEN states' = Top.states /\ inputs' = Top.inputs
       ELSE UNCHANGED pathVars
    /\ stack' = IF ~ok \/ (Top.left = "same" /\ Came(Top) = "same") THEN Pop ELSE Marked(Pop)
    /\ UNCHANGED <<fsmVars, callVars, euVars, egVars, pc, node, ok, mark, i, answer>>

-----------------------------------------------------------------------------
(* The clients.                                                            *)

\* The states a function may be called for: those where the formula holds,
\* and for Mc_CheckCTLSpec the fair initial ones where it does not.
Subjects(by, n) == IF by = "check" THEN (Start \cap fair) \ sat[n] ELSE sat[n] \cap reach

Nodes == [explain |-> Explained, check |-> Checked, explainXX |-> Witnessed]

NoAnswer == [states |-> <<>>, inputs |-> <<>>, loop |-> <<>>]

Request(by, n, s) ==
    /\ pc = "idle"
    /\ caller' = by /\ asked' = n /\ given' = s
    /\ node' = n
    /\ states' = <<{s}>> /\ inputs' = <<>>
    /\ pc' = "recur"
    /\ UNCHANGED <<fsmVars, euVars, egVars, stack, ok, mark, i, answer>>

\* Nil is replaced by the state alone.  explainEG takes the last state and
\* inputs off the path, for the loop.
Answer ==
    /\ pc = "return" /\ stack = <<>>
    /\ answer' = IF ~ok THEN [states |-> <<{given}>>, inputs |-> <<>>, loop |-> <<>>]
                 ELSE IF caller = "explainXX" /\ Op(asked) = "EG"
                 THEN [states |-> SubSeq(states, 1, Length - 1),
                       inputs |-> SubSeq(inputs, 1, Length - 2),
                       loop |-> <<inputs[Length - 1], Last>>]
                 ELSE [states |-> states, inputs |-> inputs, loop |-> <<>>]
    /\ states' = <<>> /\ inputs' = <<>>
    /\ node' = None /\ ok' = FALSE
    /\ pc' = "done"
    /\ UNCHANGED <<fsmVars, callVars, euVars, egVars, stack, mark, i>>

Taken ==
    /\ pc = "done"
    /\ caller' = "" /\ asked' = None /\ given' = <<>>
    /\ answer' = NoAnswer
    /\ pc' = "idle"
    /\ UNCHANGED <<fsmVars, pathVars, euVars, egVars, node, stack, ok, mark, i>>

\* The assertion has ended the process: the client starts another.
Restart ==
    /\ pc = "aborted"
    /\ caller' = "" /\ asked' = None /\ given' = <<>>
    /\ node' = None /\ stack' = <<>> /\ states' = <<>> /\ inputs' = <<>>
    /\ EndSearch
    /\ pc' = "idle"
    /\ UNCHANGED <<fsmVars, egVars, ok, answer>>

Init ==
    /\ trans \in SUBSET Edges
    /\ reach = Reach(trans)
    /\ fairsi = FairStatesInputs(trans, reach)
    /\ fair = StatesOf(fairsi)
    /\ sat = SatOf(trans, reach, fair)
    /\ egs = EgsOf(trans, reach, fairsi, sat)
    /\ pc = "idle" /\ caller = "" /\ given = <<>> /\ asked = None /\ node = None
    /\ stack = <<>> /\ states = <<>> /\ inputs = <<>> /\ ok = FALSE
    /\ f = {} /\ g = {} /\ Z = {} /\ new = {} /\ base = 0 /\ mark = 0 /\ at = 0
    /\ then = "" /\ i = 0
    /\ hulk = {} /\ eg = {} /\ target = {} /\ starting = {} /\ todo = {}
    /\ answer = NoAnswer

ExSearch == ExAbort \/ ExFail \/ ExExplain

EuSearch == \/ EuAtOnce \/ EuRefuse \/ EuCall \/ EuFound \/ EuIterate \/ EuFail
            \/ EuBack \/ EuDone

EgSearch == \/ EgRefuse \/ EgCall \/ StartRound \/ (\E p \in Justice : Meet(p))
            \/ MetByStep \/ MetByState \/ Return \/ Close \/ Closed1
            \/ Reopen \/ Reopened

BoundedSearch == \/ EbuAdvance \/ EbuStuck \/ EbuSearch \/ EbuFound \/ EbuLate \/ EbuBack
                 \/ EbgAdvance \/ EbgStuck \/ EbgSearch \/ EbgHold \/ EbgLost
                 \/ EbgFound \/ EbgBack \/ BoundedDone

ExplainRecur == \/ ExplainNot \/ ExplainRewritten \/ ExplainAtom \/ ExplainOr
                \/ ExplainAndRefuse \/ ExplainAnd \/ ExplainSearch
                \/ Continue \/ EndBase \/ Keep \/ OrFound \/ OrRight
                \/ AndRight \/ AndJoin

Run == ExSearch \/ EuSearch \/ EgSearch \/ BoundedSearch \/ ExplainRecur \/ Answer

Next ==
    \/ \E by \in DOMAIN Nodes : \E n \in Nodes[by] : \E s \in Subjects(by, n) : Request(by, n, s)
    \/ Taken
    \/ Restart
    \/ Run

\* A function that has been called runs.
Spec == Init /\ [][Next]_vars /\ WF_vars(Run)

-----------------------------------------------------------------------------
\* Each set of a path is a single state, and each step a transition of the FSM.
Step(s, k, u) == \E x \in s, j \in k, y \in u :
    /\ s = {x} /\ k = {j} /\ u = {y}
    /\ <<x, j, y>> \in trans /\ {x, y} \subseteq Invar /\ j \in InvarInput

Steps(w) == \A k \in 1..(Len(w.states) - 1) : Step(w.states[k], w.inputs[k], w.states[k + 1])

\* An answer is a path of the FSM from the state it was asked for; what
\* explainEG returns beside the path leads from its end back to one of its
\* states (docstrings of mc.py; mcExplain.c:374-378, 1709-1775).
AnswerIsPath ==
    pc = "done" =>
        /\ answer.states[1] = {given}
        /\ Steps(answer)
        /\ answer.loop # <<>> =>
              /\ Step(answer.states[Len(answer.states)], answer.loop[1], answer.loop[2])
              /\ \E k \in DOMAIN answer.states : answer.states[k] = answer.loop[2]

\* The answer, with the last step explainEG returns apart.
Whole(w) == IF w.loop = <<>> THEN w
            ELSE [w EXCEPT !.states = Append(@, w.loop[2]), !.inputs = Append(@, w.loop[1])]

\* From position k the path stays in S, and it comes back to a state after
\* having met every constraint since.
Lasso(w, k, S) ==
    LET last == Len(w.states)
    IN /\ \A j \in k..last : w.states[j] \subseteq S
       /\ \E j \in k..(last - 1) :
            /\ w.states[j] = w.states[last]
            /\ \A p \in Justice :
                \E m \in j..(last - 1) : w.states[m] \X w.inputs[m] \subseteq p

\* Where the explanation of n takes no step.
OnTheSpot(n) == CASE Op(n) = "ATOM" -> sat[n]
                  [] Op(n) = "EU" -> sat[Syntax[n].cdr]
                  [] OTHER -> {}

\* What a path shows from position k on: that the formula n holds, or, when
\* pol is FALSE, that it does not.  No path shows a universal formula true or
\* an existential one false: it holds, or not, where the path stands.  Of a
\* bounded until the state after inf steps is looked at if strict is TRUE.
Shows(w, n0, pol0, strict) ==
    LET last == Len(w.states)
        In(j, S) == w.states[j] \subseteq S
        Signed(n, pol) == IF pol THEN sat[n] ELSE State \ sat[n]
        S[n \in Node, k \in 1..last, pol \in BOOLEAN] ==
            LET x == Syntax[n].car
                y == Syntax[n].cdr
                lo == k + Syntax[n].inf
                hi == IF k + Syntax[n].sup < last THEN k + Syntax[n].sup ELSE last
                is(op) == pol /\ Op(n) = op
                isNot(op) == ~pol /\ Op(n) = op
            IN CASE Op(n) = "NOT" -> S[x, k, ~pol]
                 [] is("AND") -> /\ In(k, sat[n])
                                 /\ S[y, k, TRUE]
                                 /\ S[x, k, TRUE] \/ ~In(k, OnTheSpot(y))
                 [] is("OR") -> S[x, k, TRUE] \/ S[y, k, TRUE]
                 [] is("EX") \/ isNot("AX") ->
                        k < last /\ In(k + 1, fair) /\ S[x, k + 1, pol]
                 [] is("EF") \/ isNot("AG") ->
                        \E m \in k..last : In(m, fair) /\ S[x, m, pol]
                 [] is("EU") ->
                        \E m \in k..last : /\ In(m, fair) /\ S[y, m, TRUE]
                                           /\ \A j \in k..(m - 1) : In(j, sat[x])
                 [] is("EG") \/ isNot("AF") -> Lasso(w, k, Signed(x, pol))
                 [] isNot("AU") ->
                        \/ Lasso(w, k, State \ sat[y])
                        \/ \E m \in k..last : /\ In(m, fair \ (sat[x] \cup sat[y]))
                                              /\ \A j \in k..(m - 1) : In(j, State \ sat[y])
                 [] is("EBF") \/ isNot("ABG") ->
                        \E m \in lo..hi : In(m, fair) /\ S[x, m, pol]
                 [] is("EBU") ->
                        \E m \in lo..hi : /\ In(m, fair) /\ S[y, m, TRUE]
                                         /\ \A j \in k..(m - 1) : (j = lo /\ ~strict) \/ In(j, sat[x])
                 [] is("EBG") \/ isNot("ABF") ->
                        /\ hi = k + Syntax[n].sup
                        /\ \A j \in lo..hi : In(j, fair \cap Signed(x, pol))
                 [] OTHER -> In(k, Signed(n, pol))
    IN S[n0, 1, pol0]

\* Formulas no path is built for.
Plain[n \in Node] ==
    \/ Op(n) = "ATOM"
    \/ Op(n) = "NOT" /\ Plain[Syntax[n].car]
    \/ Op(n) \in {"AND", "OR"} /\ Plain[Syntax[n].car] /\ Plain[Syntax[n].cdr]

\* Formulas for which a path is found only where they hold.
Positive[n \in Node] ==
    \/ Plain[n]
    \/ Op(n) \in {"EX", "EU", "EG", "EBU", "EBG", "EF", "EBF", "AND"}
    \/ Op(n) = "OR" /\ Positive[Syntax[n].car] /\ Positive[Syntax[n].cdr]

\* A conjunction whose explanation is the state alone: explain_and leaves its
\* left side out when the right side is an atom.
Bare(n) == /\ Op(n) = "AND" /\ Op(Syntax[n].cdr) = "ATOM"
           /\ ~Plain[Syntax[n].car]

\* The formulas whose path is expected to show them.  explain_recur returns the
\* path of the left side of a disjunction whenever there is one: of a formula
\* that a path refutes, as AG is, that is a counterexample, whichever side holds.
\* explain_and returns the path of its left side only if that of its right side
\* comes back as it was, which must be all there is to show of an until.
Explainable ==
    /\ \A n \in Node :
        /\ Op(n) = "OR" => Positive[Syntax[n].car]
        /\ Op(n) = "AND" /\ Op(Syntax[n].cdr) = "EU" => Plain[Syntax[Syntax[n].cdr].cdr]
        /\ \A m \in Node : Bare(m) => m \notin {Syntax[n].car, Syntax[n].cdr}
    /\ \A n \in Witnessed : Op(n) # "EG" => Plain[Continued(n)]

\* The path returned is a witness of the formula where it holds, and of its
\* negation for Mc_CheckCTLSpec: it goes to what the formula promises through
\* the states it requires, ends in a fair state and, for EG, in a loop that
\* meets every constraint.  The state after inf steps of a bounded until is
\* left to BoundedUntilInF (mcExplain.c:167-980, mc.py:143-315).
AnswerExplains ==
    pc = "done" /\ Explainable /\ ~Bare(asked) =>
        Shows(Whole(answer), asked, caller # "check", FALSE)

\* "looking for a path ... from p to a state where g is valid using only
\* transitions from states satisfying f" (ebu_explain, mcExplain.c:568-571).
BoundedUntilInF ==
    pc = "done" /\ Op(asked) = "EBU" => Shows(answer, asked, TRUE, TRUE)

\* "This must be possible, otherwise we have an error" (mcExplain.c:536-538):
\* the constraints and a step inside eg_g are always found.
LoopIsFound == pc \in {"met", "reopened"} => ok

\* The assertion of ex_explain (mcExplain.c:174) only fails where the client
\* asked about a state that is not fair: every search ends in a fair one.
AbortsOnUnfairSubject == pc = "aborted" => caller = "explain" /\ given \notin fair

\* A search is a shortest one (the comment of ebu_explain, mcExplain.c:653-654,
\* and its test of the length depend on it).
SearchIsShortest ==
    pc = "eu_back" /\ at = base =>
        \A s \in states[base] : \A w \in Paths(trans, s, Length - base - 1) :
            ~(w[Len(w)] \in g \cap fair /\ Holding(f, w, 1, Len(w) - 1))

\* A loop is given up only when there is none: where the search goes on, no path
\* inside eg_g leads back to the state it had started from, so that it never
\* looks for the same loop again (mcExplain.c:506-548).
GivesUpForGood ==
    pc = "reopened" /\ ok =>
        \A s \in Last : \A w \in Paths(trans, s, Cardinality(State)) :
            Holding(eg, w, 1, Len(w)) => w[Len(w)] \notin starting

Resting == {"idle", "done", "aborted"}

\* Every call returns, or ends the process: no search goes on for ever, neither
\* the frontier of eu_explain nor the loop of eg_explain, which has no bound.
ExplanationEnds == pc \notin Resting ~> pc \in Resting

=============================================================================
