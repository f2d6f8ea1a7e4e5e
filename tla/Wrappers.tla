------------------------------ MODULE Wrappers ------------------------------
(***************************************************************************)
(* Who frees what: Python wrappers of reference-counted BDD nodes.         *)
(*                                                                         *)
(* A BDD wrapper (dd.py) owns one reference of a CUDD node, a BDDList one  *)
(* per element; _freeit says whether the wrapper is the owner.  A wrapper  *)
(* dies when Python drops it, later when it is part of a cycle, or has its *)
(* reference taken back by deinit_nusmv, which frees every wrapper the     *)
(* collector of init.py still knows before the DD manager goes away.       *)
(*                                                                         *)
(* The references NuSMV itself holds are left out: refs counts those taken *)
(* for Python.                                                             *)
(***************************************************************************)
EXTENDS Naturals, Sequences, FiniteSets

CONSTANTS
    Objects,       \* identities of the wrapper objects
    Nodes,         \* BDD nodes
    None,          \* the element None of a list
    MaxLen,        \* bound on the length of a list
    MaxSessions    \* bound on the number of initialisations

ASSUME WrappersAssumption ==
    /\ IsFiniteSet(Objects)
    /\ None \notin Nodes
    /\ MaxLen \in Nat \ {0}
    /\ MaxSessions \in Nat \ {0}

VARIABLES
    up,          \* __collector is not None
    collecting,  \* init.py: __collecting
    session,     \* number of initialisations so far
    life,        \* of each object: absent, held by Python, or in a cycle
    content,     \* of each object: the nodes it wraps, in order
    freeit,      \* the objects whose _freeit is set
    born,        \* of each object: the session whose manager it belongs to
    collector,   \* the objects __collector refers to weakly
    refs,        \* of each node: CUDD's count of Python's references
    fault,       \* history: a free of a dead manager's node, or one too many
    leaked,      \* history: a collecting session ended with references left
    trusting     \* history: some session ran without collecting

vars == <<up, collecting, session, life, content, freeit, born, collector,
          refs, fault, leaked, trusting>>

managerVars == <<up, collecting, session, leaked, trusting>>

Contents == UNION {[1..n -> Nodes \cup {None}] : n \in 0..MaxLen}

\* The references to n in object o, were its content c; and in all of S.
Places(o, c, n) == {<<o, i>> : i \in {j \in DOMAIN c : c[j] = n}}
Held(S, n) == Cardinality(UNION {Places(o, content[o], n) : o \in S})

NoReference == [n \in Nodes |-> 0]

\* The objects of S that free their nodes in the running manager.
Current(S) == {o \in S \cap freeit : up /\ born[o] = session}

-----------------------------------------------------------------------------
\* A new wrapper for the nodes c: PointerWrapper.__init__ and
\* _register_wrapper; it takes a reference of each node when it owns them.
RegistersNothing(o) == UNCHANGED collector   \* mutant of Registers
Registers(o) == collector' = IF collecting THEN collector \cup {o} ELSE collector

Wraps(o, c, owns) ==
    /\ up /\ life[o] = "none"
    /\ life' = [life EXCEPT ![o] = "held"]
    /\ content' = [content EXCEPT ![o] = c]
    /\ born' = [born EXCEPT ![o] = session]
    /\ freeit' = IF owns THEN freeit \cup {o} ELSE freeit
    /\ Registers(o)
    /\ UNCHANGED <<managerVars, fault>>

Takes(o, c) ==
    refs' = [n \in Nodes |-> refs[n] + Cardinality(Places(o, c, n))]

\* Any operation that returns a BDD: dup, and_, not_, BDD.true ...
Operate(o, n) ==
    /\ Wraps(o, <<n>>, TRUE)
    /\ Takes(o, <<n>>)

\* A wrapper for a pointer that NuSMV keeps: freeit=False.
Borrow(o, n) ==
    /\ Wraps(o, <<n>>, FALSE)
    /\ UNCHANGED refs

\* BDDList.from_tuple duplicates the nodes of the tuple's BDDs.
IsHeldBdd(p) == life[p] = "held" /\ born[p] = session /\ Len(content[p]) = 1
\* Mutant of ListOf: the list holds the wrappers, not what they wrap.
ListOfWrappers(tuple) == tuple
ListOf(tuple) == [i \in DOMAIN tuple |->
                     IF tuple[i] = None THEN None ELSE content[tuple[i]][1]]

FromTuple(o, tuple) ==
    /\ \A i \in DOMAIN tuple : tuple[i] # None => IsHeldBdd(tuple[i])
    /\ Wraps(o, ListOf(tuple), TRUE)
    /\ Takes(o, ListOf(tuple))

\* Mutant of GetItem: the element is handed out without bdd_dup.
GetItemUncopied(o, l, i) ==
    /\ life[l] = "held" /\ born[l] = session
    /\ i \in DOMAIN content[l] /\ content[l][i] # None
    /\ Wraps(o, <<content[l][i]>>, TRUE)
    /\ UNCHANGED refs

\* BDDList.__getitem__, and each step of __iter__ and to_tuple: a copy.
GetItem(o, l, i) ==
    /\ life[l] = "held" /\ born[l] = session
    /\ i \in DOMAIN content[l] /\ content[l][i] # None
    /\ Wraps(o, <<content[l][i]>>, TRUE)
    /\ Takes(o, <<content[l][i]>>)

-----------------------------------------------------------------------------
\* _free on every object of S: bdd_free for each node of those that own
\* theirs.  It goes wrong when the manager is gone, or on a node nobody
\* refers to any more.
Misfrees(S) ==
    \/ S \cap freeit # Current(S)
    \/ \E n \in Nodes : Held(Current(S), n) > refs[n]

Frees(S) ==
    /\ fault' = (fault \/ Misfrees(S))
    /\ refs' = [n \in Nodes |->
                   IF Held(Current(S), n) <= refs[n]
                   THEN refs[n] - Held(Current(S), n)
                   ELSE 0]

\* _freeit = False once freed; its mutant forgets to.
StillOwners(S) == freeit
NoLongerOwners(S) == freeit \ S

\* __del__, and the weak reference's callback _unref.
Dies(o) ==
    /\ Frees({o})
    /\ life' = [life EXCEPT ![o] = "none"]
    /\ content' = [content EXCEPT ![o] = <<>>]
    /\ born' = [born EXCEPT ![o] = 0]
    /\ freeit' = freeit \ {o}
    /\ collector' = collector \ {o}
    /\ UNCHANGED managerVars

\* The client drops its last reference...
Drop(o) == life[o] = "held" /\ Dies(o)

\* ... or only the cycle the object is in still refers to it...
Tangle(o) ==
    /\ life[o] = "held"
    /\ life' = [life EXCEPT ![o] = "cycle"]
    /\ UNCHANGED <<managerVars, content, born, freeit, collector, refs, fault>>

\* ... until Python's collector runs.
Collect(o) == life[o] = "cycle" /\ Dies(o)

-----------------------------------------------------------------------------
(* init.py *)

Starts(collect) ==
    /\ session < MaxSessions
    /\ up' = TRUE
    /\ session' = session + 1
    /\ collecting' = collect
    /\ trusting' = (trusting \/ ~collect)

InitNusmv(collect) ==
    /\ ~up
    /\ Starts(collect)
    /\ refs' = NoReference
    /\ UNCHANGED <<life, content, freeit, born, collector, fault, leaked>>

\* deinit_nusmv: gc.collect(), then _free on what the collector still
\* knows; NuSMVCore_quit destroys the manager with all its nodes.
InCycles == {o \in Objects : life[o] = "cycle"}
Swept == InCycles \cup collector

Sweeps ==
    /\ fault' = (fault \/ Misfrees(Swept))
    /\ leaked' = \/ leaked
                 \/ collecting /\ \E n \in Nodes : refs[n] # Held(Current(Swept), n)
    /\ refs' = NoReference
    /\ life' = [o \in Objects |-> IF o \in InCycles THEN "none" ELSE life[o]]
    /\ content' = [o \in Objects |-> IF o \in InCycles THEN <<>> ELSE content[o]]
    /\ born' = [o \in Objects |-> IF o \in InCycles THEN 0 ELSE born[o]]
    /\ freeit' = NoLongerOwners(Swept)
    /\ collector' = {}

DeinitNusmv ==
    /\ up
    /\ Sweeps
    /\ up' = FALSE
    /\ UNCHANGED <<session, collecting, trusting>>

\* reset_nusmv: deinit_nusmv, then init_nusmv with its default argument.
ResetNusmv ==
    /\ up
    /\ Sweeps
    /\ Starts(TRUE)

-----------------------------------------------------------------------------
Init ==
    /\ up = FALSE
    /\ collecting = TRUE
    /\ session = 0
    /\ life = [o \in Objects |-> "none"]
    /\ content = [o \in Objects |-> <<>>]
    /\ freeit = {}
    /\ born = [o \in Objects |-> 0]
    /\ collector = {}
    /\ refs = NoReference
    /\ fault = FALSE
    /\ leaked = FALSE
    /\ trusting = FALSE

\* The arguments of from_tuple.
Tuples == UNION {[1..n -> Objects \cup {None}] : n \in 0..MaxLen}

Create(o) ==
    \/ \E n \in Nodes : Operate(o, n) \/ Borrow(o, n)
    \/ \E tuple \in Tuples : FromTuple(o, tuple)
    \/ \E l \in Objects, i \in 1..MaxLen : GetItem(o, l, i)

Next ==
    \/ \E o \in Objects : Create(o) \/ Drop(o) \/ Tangle(o) \/ Collect(o)
    \/ \E collect \in BOOLEAN : InitNusmv(collect)
    \/ DeinitNusmv
    \/ ResetNusmv

Spec == Init /\ [][Next]_vars

-----------------------------------------------------------------------------
(* Properties *)

\* Every variable has its type; the only property of this kind.
TypeOK ==
    /\ up \in BOOLEAN
    /\ collecting \in BOOLEAN
    /\ session \in 0..MaxSessions
    /\ life \in [Objects -> {"none", "held", "cycle"}]
    /\ content \in [Objects -> Contents]
    /\ freeit \subseteq Objects
    /\ born \in [Objects -> 0..MaxSessions]
    /\ collector \subseteq Objects
    /\ refs \in [Nodes -> Nat]
    /\ fault \in BOOLEAN
    /\ leaked \in BOOLEAN
    /\ trusting \in BOOLEAN

\* As long as no free went wrong, the references CUDD counts for Python are
\* exactly those of the living wrappers that own theirs, through copies,
\* lists, drops, cycles and sessions: no node dies under a wrapper and none
\* is kept for ever (comments at dd.py:194-195 and 624-626).
RefsConserved ==
    up /\ ~fault =>
        \A n \in Nodes :
            refs[n] = Held({o \in freeit : born[o] = session}, n)

\* The collector can reach every wrapper that owns nodes of the running
\* manager, the ones in cycles included (init.py:156-170).
CollectorHoldsOwners ==
    up /\ collecting =>
        \A o \in freeit : born[o] = session => o \in collector

\* "PyNuSMV ensures that a pointer is freed only once" (utils.py:30-33) and
\* deinit_nusmv frees every wrapper before NuSMV is quit: with collecting
\* on, whenever Python drops its wrappers, no bdd_free reaches a manager
\* that is gone or a node that is free, and no session ends with nodes
\* still referenced.
CollectedSessionsAreSafe == ~trusting => ~fault /\ ~leaked

=============================================================================
