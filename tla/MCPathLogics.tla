----------------------------- MODULE MCPathLogics ----------------------------
(* PathLogics over three legal states and one illegal, two legal inputs     *)
(* and one illegal; the transitions allow nested and disjoint cycles, dead  *)
(* ends, and cycles that only close through what the constraints forbid.    *)
EXTENDS PathLogics

CONSTANTS p, q, r, out, a, b, forbidden

MCState == {p, q, r, out}
MCInput == {a, b, forbidden}
MCInitial == {p}
MCInvar == {p, q, r}
MCInvarInput == {a, b}
MCJustice == {{q} \X MCInput, MCState \X {b}}
MCEdges == {<<p, a, q>>, <<q, a, p>>, <<q, b, r>>, <<r, a, p>>, <<r, b, r>>,
            <<q, a, q>>, <<q, a, out>>, <<out, b, q>>, <<r, forbidden, q>>}
MCArgs == {{p}, {q, out}, {p, r}}
MCAlphas == {{a}, {a, b}}

=============================================================================
