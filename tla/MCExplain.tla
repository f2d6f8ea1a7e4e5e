----------------------------- MODULE MCExplain -------------------------------
(* Explain over three legal states and one illegal, on every relation made  *)
(* of nine transitions.  Some cycles meet both constraints, one of which is *)
(* on the inputs; where no way leads back to p, the search of eg_explain    *)
(* must give up p.                                                          *)
EXTENDS Explain

CONSTANTS p, q, r, out, k, l

MCState == {p, q, r, out}
MCInput == {k, l}
MCInitial == {p, out}
MCInvar == {p, q, r}
MCInvarInput == {k, l}
MCJustice == {{q} \X MCInput, MCState \X {l}}
MCEdges == {<<p, k, p>>, <<p, l, q>>, <<p, k, r>>, <<q, k, q>>, <<q, l, q>>, <<q, l, r>>,
            <<r, k, q>>, <<r, l, p>>, <<q, l, out>>}

Atom(S) == [op |-> "ATOM", car |-> None, cdr |-> None, inf |-> 0, sup |-> 0, set |-> S]
Within2(op, x, y, lo, hi) == [op |-> op, car |-> x, cdr |-> y, inf |-> lo, sup |-> hi, set |-> {}]
Of(op, x, y) == Within2(op, x, y, 0, 0)

MCSyntax == <<
    Atom(MCState),                 \*  1  true
    Atom({p}),                     \*  2  a
    Atom({q, out}),                \*  3  b
    Atom({p, r}),                  \*  4  c
    Atom({r}),                     \*  5  d
    Of("NOT", 2, None),            \*  6  !a
    Of("NOT", 3, None),            \*  7  !b
    Of("NOT", 4, None),            \*  8  !c
    Of("NOT", 5, None),            \*  9  !d
    Of("EX", 3, None),             \* 10  EX b
    Of("EX", 5, None),             \* 11  EX d
    Of("EU", 4, 3),                \* 12  E[c U b]
    Of("EU", 2, 5),                \* 13  E[a U d]
    Of("EG", 1, None),             \* 14  EG true
    Of("EG", 7, None),             \* 15  EG !b
    Of("EU", 1, 3),                \* 16  E[true U b]
    Of("EF", 3, None),             \* 17  EF b
    Of("EG", 9, None),             \* 18  EG !d
    Of("EU", 4, 18),               \* 19  E[c U EG !d]
    Of("EX", 13, None),            \* 20  EX E[a U d]
    Of("OR", 11, 15),              \* 21  EX d | EG !b
    Of("OR", 10, 5),               \* 22  EX b | d
    Of("EU", 4, 22),               \* 23  E[c U EX b | d]
    Of("OR", 13, 10),              \* 24  E[a U d] | EX b
    Of("EX", 6, None),             \* 25  EX !a
    Of("NOT", 25, None),           \* 26  !EX !a
    Of("AX", 2, None),             \* 27  AX a
    Of("EU", 1, 6),                \* 28  E[true U !a]
    Of("NOT", 28, None),           \* 29  !E[true U !a]
    Of("AG", 2, None),             \* 30  AG a
    Of("NOT", 15, None),           \* 31  !EG !b
    Of("AF", 3, None),             \* 32  AF b
    Of("AND", 6, 7),               \* 33  !a & !b
    Of("EU", 7, 33),               \* 34  E[!b U !a & !b]
    Of("OR", 34, 15),              \* 35  E[!b U !a & !b] | EG !b
    Of("NOT", 35, None),           \* 36  !(E[!b U !a & !b] | EG !b)
    Of("AU", 2, 3),                \* 37  A[a U b]
    Within2("EBU", 4, 5, 1, 2),    \* 38  E[c U 1..2 d]
    Within2("EBU", 2, 3, 1, 2),    \* 39  E[a U 1..2 b]
    Within2("EBU", 2, 5, 2, 2),    \* 40  E[a U 2..2 d]
    Within2("EBU", 1, 6, 1, 2),    \* 41  E[true U 1..2 !a]
    Within2("EBF", 6, None, 1, 2), \* 42  EF 1..2 !a
    Of("NOT", 42, None),           \* 43  !EF 1..2 !a
    Within2("ABG", 2, None, 1, 2), \* 44  AG 1..2 a
    Within2("EBG", 7, None, 1, 3), \* 45  EG 1..3 !b
    Of("NOT", 45, None),           \* 46  !EG 1..3 !b
    Within2("ABF", 3, None, 1, 3), \* 47  AF 1..3 b
    Of("OR", 45, 10),              \* 48  EG 1..3 !b | EX b
    Of("OR", 39, 11),              \* 49  E[a U 1..2 b] | EX d
    Of("OR", 40, 11),              \* 50  E[a U 2..2 d] | EX d
    Of("AND", 5, 10),              \* 51  d & EX b
    Of("AND", 10, 13),             \* 52  EX b & E[a U d]
    Of("AND", 10, 4),              \* 53  EX b & c
    Of("OR", 45, 5),               \* 54  EG 1..3 !b | d
    Of("OR", 51, 11),              \* 55  (d & EX b) | EX d
    Of("EU", 4, 5),                \* 56  E[c U d]
    Of("OR", 56, 10),              \* 57  E[c U d] | EX b
    Of("EU", 3, 4),                \* 58  E[b U c]
    Of("AND", 7, 58),              \* 59  !b & E[b U c]
    Of("AND", 10, 59)              \* 60  EX b & (!b & E[b U c])
    >>

MCNode == DOMAIN MCSyntax
MCWitnessed == {10, 12, 14, 18}
MCChecked == {27, 30, 32, 37, 44, 47}
MCExplained == {1, 10, 12, 15, 17, 19, 20, 21, 23, 24, 27, 32, 38, 42, 48, 49, 50, 51, 52, 53, 54, 55, 57, 60}

\* AnswerExplains says something of these formulas.
ASSUME FormulasExplainable == Explainable

=============================================================================
