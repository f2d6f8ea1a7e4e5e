------------------------------- MODULE MasGlob -------------------------------
(***************************************************************************)
(* tools/mas/glob.py on top of the life of NuSMV: mas() is a client that   *)
(* reads the parser's global parsed_tree, runs compute_model, parses       *)
(* expressions of its own and caches a wrapper of the FSM in a global that *)
(* deinit_nusmv knows nothing of.                                          *)
(*                                                                         *)
(* Every step is a step of Lifecycle or leaves its variables alone, so what *)
(* holds of Lifecycle holds here (LifecycleProofs).                        *)
(***************************************************************************)
EXTENDS Lifecycle

VARIABLES
    mas,      \* the session of the FSM that the global __mas wraps, or 0
    asking,   \* where a call of mas() is, "no" outside of it
    answer,   \* how the last call of mas() ended, "over" when it is over
    handed,   \* the session of the MAS it returned, or 0
    kept,     \* history: the sessions that ended with __mas set
    parsed    \* history: what was parsed last, since the model was read

masVars == <<mas, asking, answer, handed, kept, parsed>>
allVars == <<vars, masVars>>

Where == {"no", "model", "parse", "fsm", "crashed"}
Results == {"over", "MAS", "NoReadModel", "None", "segfault", "raised"}
Answers(res, of) == answer' = res /\ handed' = of

-----------------------------------------------------------------------------
Idle == Callable /\ asking = "no"

\* reset_globals
ResetMas ==
    /\ Idle
    /\ mas' = 0
    /\ Answers("over", 0)
    /\ UNCHANGED <<vars, asking, kept, parsed>>

\* The global is set: what it wraps is not looked at, not even whether NuSMV
\* is up.
MasCached ==
    /\ Idle /\ mas # 0
    /\ Answers("MAS", mas)
    /\ UNCHANGED <<vars, mas, asking, kept, parsed>>

\* Without a session, mas() reads a flag like the functions of glob.py.
MasDown ==
    /\ Idle /\ mas = 0
    /\ CallDown /\ last'.op = "mas"
    /\ Answers("over", 0)
    /\ UNCHANGED <<mas, asking, kept, parsed>>

MasNoModel ==
    /\ Idle /\ up /\ mas = 0 /\ "read" \notin cmps
    /\ Answers("NoReadModel", 0)
    /\ UNCHANGED <<vars, mas, asking, kept, parsed>>

\* Is the module main found in the list of modules of the tree?
FindsMain(t) == CASE t \in {"good", "badSpec"} -> {TRUE}
                  [] t \in {"undefined", "partial"} -> BOOLEAN
                  [] OTHER -> {FALSE}

\* Without agents, the tree is read as a list of modules: an expression is
\* not, and following its nodes finds nothing or does not come back.
MasNoMain ==
    /\ Idle /\ up /\ mas = 0 /\ "read" \in cmps
    /\ FALSE \in FindsMain(tree)
    /\ \/ Answers("None", 0) /\ asking' = "no"
       \/ tree = "expr" /\ Answers("segfault", 0) /\ asking' = "crashed"
    /\ UNCHANGED <<vars, mas, kept, parsed>>

\* compute_model is called, for the agents found or for those given.
MasCompute(given) ==
    /\ Idle /\ up /\ mas = 0 /\ "read" \in cmps
    /\ given \/ TRUE \in FindsMain(tree)
    /\ ComputeModel
    /\ asking' = "model"
    /\ Answers("over", 0)
    /\ UNCHANGED <<mas, kept, parsed>>

\* A step of compute_model, for mas() or for another client.
MasComputeStep ==
    /\ asking \in {"no", "model"}
    /\ ComputeStep
    /\ IF asking = "model" /\ last'.res # "ok"
       THEN asking' = "no" /\ Answers("raised", 0)
       ELSE UNCHANGED <<asking, answer, handed>>
    /\ UNCHANGED <<mas, kept, parsed>>

\* The model is computed: the epistemic relations are parsed, if an agent
\* observes a variable.
MasParse ==
    /\ asking = "model" /\ todo = "none" /\ proc = "alive"
    /\ \/ ParseExpression("expr") /\ parsed' = "expression"
       \/ UNCHANGED <<vars, parsed>>
    /\ asking' = "fsm"
    /\ UNCHANGED <<mas, answer, handed, kept>>

\* Mutant of MasCreate: the FSM is taken from the first session.
MasCreateOld ==
    /\ asking = "fsm"
    /\ GetPropDatabase
    /\ mas' = 1
    /\ Answers("MAS", 1)
    /\ asking' = "no"
    /\ UNCHANGED <<kept, parsed>>

\* The FSM of the master property, through prop_database().
MasCreate ==
    /\ asking = "fsm"
    /\ GetPropDatabase
    /\ mas' = session
    /\ Answers("MAS", session)
    /\ asking' = "no"
    /\ UNCHANGED <<kept, parsed>>

\* deinit_nusmv and reset_nusmv; none of the calls of Lifecycle knows of __mas.
EndsSession == up /\ (~up' \/ session' # session)

MasCall ==
    /\ asking = "no"
    /\ Call /\ last'.op # "mas"
    /\ kept' = IF EndsSession /\ mas # 0 THEN kept \cup {session} ELSE kept
    /\ parsed' = CASE "read" \in cmps' \ cmps -> "model"
                 [] last'.op = "parse" -> "expression"
                 [] OTHER -> parsed
    /\ Answers("over", 0)
    /\ UNCHANGED <<mas, asking>>

MasEnded == (Ended \/ (asking = "crashed" /\ UNCHANGED vars)) /\ UNCHANGED masVars

MasInit ==
    /\ Init
    /\ mas = 0 /\ asking = "no" /\ answer = "over" /\ handed = 0
    /\ kept = {} /\ parsed = "model"

MasStep == MasComputeStep \/ MasParse \/ MasCreate

MasNext ==
    \/ ResetMas
    \/ MasCached
    \/ MasDown
    \/ MasNoModel
    \/ MasNoMain
    \/ \E given \in BOOLEAN : MasCompute(given)
    \/ MasStep
    \/ MasCall
    \/ MasEnded

\* The interpreter runs compute_model and mas() to their end.
MasSpec == MasInit /\ [][MasNext]_allVars /\ WF_allVars(MasStep)

-----------------------------------------------------------------------------
\* mas() hands out the MAS of an earlier session, whose FSM is freed, only when
\* that very session was ended without the reset the docstring asks for
\* (glob.py:32-34); and the MAS of this session wraps the FSM of a sound model.
MasIsCurrent ==
    /\ {mas, handed} \subseteq {0, session} \cup kept
    /\ mas # 0 /\ mas = session /\ up => "bddFsm" \in built /\ source = "good"

\* A read model is lost only to a parse: mas() finds no agents, or crashes on
\* the tree, and flattening finds no main module only when an expression was
\* parsed since the model was read, or the model does not compile
\* (mas/glob.py:201-213, parser.py:97, glob.py:203-205).
MainIsFound ==
    answer \in {"None", "segfault"} \/ jumped =>
        parsed = "expression" \/ source \in {"partial", "undefined"}

\* A call on the tree of a model that compiles, whatever has been computed of
\* it, ends with its MAS or with the process.
MasDelivers ==
    (asking = "model" /\ todo = "flatten" /\ tree = "good" /\ ~jumped)
        ~> (mas = session \/ proc = "exited")

=============================================================================
