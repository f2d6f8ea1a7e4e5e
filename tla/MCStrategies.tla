----------------------------- MODULE MCStrategies ----------------------------
(* Strategies over two agents with two actions each and three states: the   *)
(* first agent does not tell p from q, the second q from r.  The systems    *)
(* differ in where some moves lead, one of them to one or to either of two  *)
(* states, and in the actions the first agent has in r, which it tells from *)
(* the other states.                                                        *)
EXTENDS Strategies

CONSTANTS p, q, r

MCState == {p, q, r}
MCAgents == {1, 2}
MCAction == {"x", "y"}
MCInput == [MCAgents -> MCAction]
MCSees == <<[s \in MCState |-> s = r], [s \in MCState |-> s = p]>>

Joint(u, v) == <<u, v>>
Edge(s, u, v, d) == <<s, Joint(u, v), d>>

Fixed == {Edge(p, "x", "x", q), Edge(p, "x", "y", q), Edge(q, "x", "x", q),
          Edge(q, "y", "x", p), Edge(q, "y", "y", r), Edge(r, "y", "x", r), Edge(r, "y", "y", q)}
Choices == {{Edge(p, "y", "x", r)}, {Edge(p, "y", "x", p)}}
    \X {{Edge(p, "y", "y", p)}, {Edge(p, "y", "y", p), Edge(p, "y", "y", r)}}
    \X {{Edge(q, "x", "y", r)}, {Edge(q, "x", "y", p)}}
    \X {{}, {Edge(r, "x", "x", r), Edge(r, "x", "y", p)}}
MCSystems == {Fixed \cup c[1] \cup c[2] \cup c[3] \cup c[4] : c \in Choices}

\* What the theorem about these runs supposes of the systems.
ASSUME MCSystemsAssumption == Lively /\ Mixed

MCFairnesses == {{}, {{q}}, {{q}, {p, r}}}

Formula(op, group, a, b) == [op |-> op, group |-> group, a |-> a, b |-> b]
MCSpecs == {
    Formula("CEX", {1}, {q}, {}), Formula("CAX", {2}, {p, r}, {}),
    Formula("CEG", {1}, {p, q}, {}), Formula("CEX", {1, 2}, {r}, {}),
    Formula("CAF", {2}, {p}, {}),
    Formula("CEF", {1}, {r}, {}), Formula("CEF", {2}, {p}, {}), Formula("CAG", {2}, {p, q}, {}),
    Formula("CEU", {1}, {p, q}, {r}), Formula("CAW", {2}, {q, r}, {p}),
    Formula("CEW", {2}, {q}, {p}), Formula("CAU", {1}, {p, q}, {r})}

=============================================================================
