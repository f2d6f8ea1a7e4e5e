------------------------------ MODULE MCCtlEval ------------------------------
(* CtlEval over three legal states and one illegal, two legal inputs and    *)
(* one illegal; the relations have cycles that meet the constraint and      *)
(* cycles that do not, dead ends and illegal steps.                         *)
EXTENDS CtlEval

CONSTANTS p, q, r, out, k, l, forbidden

MCState == {p, q, r, out}
MCInput == {k, l, forbidden}
MCInitial == {p, out}
MCInvar == {p, q, r}
MCInvarInput == {k, l}
MCJustice == {{q} \X MCInput, MCState \X {k}}
MCEdges == {<<p, k, p>>, <<p, l, q>>, <<q, k, p>>, <<q, l, r>>, <<r, k, r>>,
            <<r, forbidden, q>>}
MCArgs == {{}, {p}, {q}, {p, q}, {q, r}, {p, r, out}, MCState}
MCInfs == {-1, 0, 1, 2}
MCSups == {0, 1, 3}

=============================================================================
