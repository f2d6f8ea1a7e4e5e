---------------------------- MODULE CtlSemantics -----------------------------
(***************************************************************************)
(* What the branching-time operators mean, in terms of the paths of the    *)
(* FSM: the reference that CtlEval is compared with.  A logic is given by  *)
(* the justice constraints J a path must meet for ever (none for the       *)
(* logics that ignore fairness) and the states F such paths start from.    *)
(***************************************************************************)
EXTENDS FsmImages, Sequences

Successors(t, p) == {q \in Invar : \E i \in InvarInput : <<p, i, q>> \in t}

\* The finite paths from s, of at most n steps.
Paths(t, s, n) ==
    LET Longer(w) == {Append(w, q) : q \in Successors(t, w[Len(w)])}
        From[k \in 0..n] ==
            IF k = 0 THEN {<<s>>} ELSE From[k - 1] \cup UNION {Longer(w) : w \in From[k - 1]}
    IN From[n]

Holding(S, w, first, last) == \A k \in first..last : w[k] \in S

\* The pairs of legal steps inside S.
Moves(t, S) == {<<e[1], e[2]>> : e \in t \cap ((S \cap Invar) \X InvarInput \X (S \cap Invar))}

\* A set of pairs one can go round for ever, meeting every constraint of J.
Round(t, J, C) == /\ C # {}
                  /\ \A x \in C : Beyond(t, C, x) = C
                  /\ \A p \in J : p \cap C # {}

\* The states that some infinite path inside S starts from, meeting J.
Forever(t, J, S) ==
    LET moves == Moves(t, S)
        rounds == UNION {C \in SUBSET moves : Round(t, J, C)}
    IN {x[1] : x \in {y \in moves : y \in rounds \/ Beyond(t, moves, y) \cap rounds # {}}}

-----------------------------------------------------------------------------
\* The paths the operators quantify over: each can be continued for ever.
Runs(t, F, s, n) == {w \in Paths(t, s, n) : w[Len(w)] \in F}

Until(t, F, s, a, b) ==
    \E w \in Runs(t, F, s, Cardinality(State)) :
        w[Len(w)] \in b /\ Holding(a, w, 1, Len(w) - 1)

\* On every path, a as long as b has not come.
Unless(t, F, s, a, b) ==
    \A w \in Runs(t, F, s, Cardinality(State)) :
        Holding(State \ b, w, 1, Len(w)) => Holding(a, w, 1, Len(w))

\* The runs of exactly n steps.
RunsOf(t, F, s, n) == {w \in Runs(t, F, s, n) : Len(w) = n + 1}

\* b between inf and sup steps from now on the path w, and a until then.
Meets(w, a, b, inf, sup) ==
    \E k \in inf..sup : w[k + 1] \in b /\ Holding(a, w, 1, k)

\* s satisfies the operator, with operands a and b and bounds inf and sup.
Satisfies(t, J, F, type, s, a, b, inf, sup) ==
    CASE type = "EX" -> Successors(t, s) \cap F \cap a # {}
      [] type = "AX" -> Successors(t, s) \cap F \subseteq a
      [] type = "EF" -> Until(t, F, s, State, a)
      [] type = "AG" -> Unless(t, F, s, a, {})
      [] type = "EG" -> s \in Forever(t, J, a)
      [] type = "AF" -> s \notin Forever(t, J, State \ a)
      [] type = "EU" -> Until(t, F, s, a, b)
      [] type = "AU" -> Unless(t, F, s, a, b) /\ s \notin Forever(t, J, State \ b)
      [] type = "EW" -> Until(t, F, s, a, b) \/ s \in Forever(t, J, a)
      [] type = "AW" -> Unless(t, F, s, a, b)
      [] type = "EBU" -> \E w \in RunsOf(t, F, s, sup) : Meets(w, a, b, inf, sup)
      [] type = "EBF" -> \E w \in RunsOf(t, F, s, sup) : Meets(w, State, a, inf, sup)
      [] type = "EBG" -> \E w \in RunsOf(t, F, s, sup) : Holding(a, w, inf + 1, sup + 1)
      [] type = "ABU" -> \A w \in RunsOf(t, F, s, sup) : Meets(w, a, b, inf, sup)
      [] type = "ABF" -> \A w \in RunsOf(t, F, s, sup) : Meets(w, State, a, inf, sup)
      [] type = "ABG" -> \A w \in RunsOf(t, F, s, sup) : Holding(a, w, inf + 1, sup + 1)

=============================================================================
