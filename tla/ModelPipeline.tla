--------------------------- MODULE ModelPipeline ---------------------------
(***************************************************************************)
(* What PyNuSMV promises of the way from an SMV source to the structures a *)
(* client works on (module docstring of glob.py:1-11, compute_model's      *)
(* docstring at glob.py:446-449), without a word on flags, wrappers, parse *)
(* trees or exceptions: a session works on at most one accepted source;    *)
(* every product is made from that source, after the products it needs,    *)
(* and at most once; products only disappear all together.                 *)
(***************************************************************************)
CONSTANTS
    Sources,    \* what a session may accept as its model
    Sound,      \* the subset of Sources that is good for every product
    Products,   \* what is built from a source
    Root,       \* the product made first
    Needs,      \* [Products -> SUBSET Products]
    None        \* no accepted source: not one of Sources

VARIABLES source, products

pipelineVars == <<source, products>>

PipelineTypeOK ==
    /\ source \in Sources \cup {None}
    /\ products \subseteq Products

Init ==
    /\ source = None
    /\ products = {}

\* A source is accepted only when there is none yet.
Accept ==
    /\ source = None
    /\ source' \in Sources
    /\ UNCHANGED products

\* A product is made once, when everything it needs is there; a source that
\* is not sound never gets past the root.
Make(p) ==
    /\ source # None
    /\ p \notin products
    /\ Needs[p] \subseteq products
    /\ p = Root \/ source \in Sound
    /\ products' = products \cup {p}
    /\ UNCHANGED source

\* A source is given up only while nothing is built from it...
Reject ==
    /\ source # None
    /\ products = {}
    /\ source' = None
    /\ UNCHANGED products

\* ... unless the whole session ends.
Restart ==
    /\ source' = None
    /\ products' = {}

Next ==
    \/ Accept
    \/ \E p \in Products : Make(p)
    \/ Reject
    \/ Restart

Spec == Init /\ [][Next]_pipelineVars

=============================================================================
