----------------------------- MODULE Lifecycle -----------------------------
(***************************************************************************)
(* The life of NuSMV under PyNuSMV: init.py starts and stops it, glob.py   *)
(* takes a model through read, flatten, encode and build, and both rely on *)
(* C globals they do not own: the flags of cmps, the parser's parsed_tree  *)
(* and its list of syntax errors, and the structures of the compile, enc   *)
(* and prop packages.  glob.py caches wrappers of these structures in four *)
(* module globals.                                                         *)
(*                                                                         *)
(* One action is one call a client can make (compute_model, which makes    *)
(* several, is taken step by step through `todo').                         *)
(***************************************************************************)
EXTENDS Naturals, FiniteSets

CONSTANT MaxSessions   \* bound on the number of times NuSMV is initialised

ASSUME MaxSessionsAssumption == MaxSessions \in Nat \ {0}

VARIABLES
    proc,     \* the Python process: alive, or how it ended
    up,       \* init.py: __collector is not None
    session,  \* how many times NuSMV was initialised: names its structures
    cmps,     \* the flags of cmps that are set
    tree,     \* what the parser's global parsed_tree holds
    errors,   \* are syntax errors registered in the parser?
    built,    \* the C structures that exist
    cache,    \* glob.py's globals: the session of the wrapped structure or 0
    todo,     \* the step compute_model takes next, "none" outside of it
    last,     \* the last call and how it ended
    source,   \* history: the model the session accepted, "none" if none
    jumped    \* history: did a longjmp leave a flattening half done?

vars == <<proc, up, session, cmps, tree, errors, built, cache, todo, last,
          source, jumped>>

nusmvVars == <<cmps, tree, errors, built>>
history   == <<source, jumped>>

\* Models the parser accepts: one that compiles, one with an undefined
\* identifier, one with a badly typed specification.
Model == {"good", "undefined", "badSpec"}
\* Files the parser does not accept: with an error it recovers from in lax
\* mode (it keeps a partial tree), with one it does not, with a character
\* the lexer does not know.
Broken == {"partial", "syntax", "lexer"}

Flags      == {"read", "hrc", "flat", "enc", "sexp", "bdd"}
Structures == {"flattener", "layer", "hierarchy", "boolEnc", "bddEnc",
               "sexpFsm", "bddFsm"}
Slots      == {"symbTable", "bddEncoding", "propDatabase", "flatHierarchy"}
Steps      == {"none", "flatten", "encode", "flatModel", "model"}
Orders     == {"default", "missing"}   \* the variables_ordering argument

Calls == {"init", "deinit", "load", "parse", "flatten", "symb_table",
          "encode", "bdd_encoding", "flat_model", "build_model",
          "flat_hierarchy", "prop_database", "compute", "mas", "command"}
Outcomes == {"ok", "failed", "exit", "abort", "segfault", "IOError",
             "InitError", "ModelAlreadyRead", "ParsingError", "NoReadModel",
             "AlreadyFlattened", "CannotFlatten", "NeedFlatHierarchy",
             "AlreadyEncoded", "FlatModelAlreadyBuilt", "NeedFlatModel",
             "NeedVariablesEncoded", "ModelAlreadyBuilt"}

NoCache == [s \in Slots |-> 0]
\* A module global set to a wrapper of the current session's structure.
Cached(s) == [cache EXCEPT ![s] = session]

-----------------------------------------------------------------------------
(* How a call ends.  `k' is what compute_model does after the call, "none" *)
(* for a call made by the client itself.                                   *)

Callable == proc = "alive" /\ todo = "none"
\* A session is running; the calls made without one are CallDown.
Ready == Callable /\ up

Ends(op, res, p) ==
    /\ last' = [op |-> op, res |-> res]
    /\ proc' = p

\* The call returns to compute_model or to the client.
Returns(op, k) == Ends(op, "ok", "alive") /\ todo' = k
\* The call raises: compute_model, if it was the caller, is abandoned.
Raises(op, exc) == Ends(op, exc, "alive") /\ todo' = "none"
\* The process ends under the call.
Dies(op, how) ==
    /\ Ends(op, how, IF how = "exit" THEN "exited" ELSE "crashed")
    /\ todo' = "none"

Same == UNCHANGED <<up, session>>
RaisesOnly(op, exc) ==
    /\ Raises(op, exc)
    /\ UNCHANGED <<nusmvVars, cache, history>> /\ Same

-----------------------------------------------------------------------------
(* init.py *)

\* Mutant of Started: a session finds the flags of the previous one.
StartedKeepingFlags ==
    /\ up' = TRUE
    /\ session' = session + 1
    /\ cmps' = cmps

\* NuSMVCore_init: every package starts empty; the pointer parsed_tree is
\* the one thing no package resets.
Started ==
    /\ up' = TRUE
    /\ session' = session + 1
    /\ cmps' = {}

\* NuSMVCore_quit: the packages free what they own, the parser its errors.
QuitTree == IF tree = "nil" THEN "nil" ELSE "dangling"
Stopped ==
    /\ tree' = QuitTree
    /\ errors' = FALSE
    /\ built' = {}
    /\ source' = "none"
    /\ jumped' = FALSE

\* Mutant of ResetGlobals: one of the four globals is forgotten.
ResetThreeGlobals == [NoCache EXCEPT !.flatHierarchy = cache.flatHierarchy]
\* _reset_globals: the four module globals (and the flags of cmps).
ResetGlobals == NoCache

InitNusmv ==
    /\ Callable
    /\ \/ /\ up
          /\ RaisesOnly("init", "InitError")
       \/ /\ ~up /\ session < MaxSessions
          /\ Started
          /\ Returns("init", "none")
          /\ UNCHANGED <<tree, errors, built, cache, history>>

\* deinit_nusmv starts with _reset_globals, which writes through cmps: NULL
\* whenever NuSMV is down.  For the statistics it reads a flag before.
DeinitDown ==
    /\ Callable /\ ~up
    /\ \E ddinfo \in BOOLEAN :
          Dies("deinit", IF ddinfo THEN "abort" ELSE "segfault")
    /\ UNCHANGED <<nusmvVars, cache, history>> /\ Same

\* The statistics are asked of the FSM of the master property, which the
\* database has as soon as the model is flattened: NULL until it is built.
DeinitStatistics ==
    /\ Ready /\ {"flat", "bdd"} \cap cmps = {"flat"}
    /\ cache' = [cache EXCEPT !.propDatabase = session]
    /\ Dies("deinit", "abort")
    /\ UNCHANGED <<nusmvVars, history>> /\ Same

\* Without the statistics, or with those of a model built or not flattened.
DeinitNusmv ==
    /\ Ready
    /\ cache' = ResetGlobals
    /\ cmps' = {}
    /\ Stopped
    /\ up' = FALSE
    /\ Returns("deinit", "none")
    /\ UNCHANGED session

\* reset_nusmv: deinit_nusmv then init_nusmv.
ResetNusmv ==
    /\ Ready /\ session < MaxSessions
    /\ cache' = ResetGlobals
    /\ Stopped
    /\ Started
    /\ Returns("init", "none")

-----------------------------------------------------------------------------
(* Calls without a session.                                                 *)

\* The functions of glob.py that look at a flag before anything else (load, as
\* soon as the file exists): the accessors assert that cmps is not NULL.
FlagReaders == {"load", "flatten", "symb_table", "encode", "bdd_encoding",
                "flat_model", "build_model", "flat_hierarchy",
                "prop_database", "compute", "mas"}
NoFlags(op) == op \in FlagReaders /\ Dies(op, "abort")

\* An option is looked up through the table of strings, NULL.
NoStrings == Dies("parse", "segfault")

\* The tables of commands and aliases are NULL before the first session and
\* freed after it: a command is not found, or whatever is found is run.
NoCommands ==
    \/ Dies("command", "segfault")
    \/ session > 0 /\ (Dies("command", "abort") \/ Raises("command", "failed"))

CallDown ==
    /\ Callable /\ ~up
    /\ (\E op \in FlagReaders : NoFlags(op)) \/ NoStrings \/ NoCommands
    /\ UNCHANGED <<nusmvVars, cache, history>> /\ Same

-----------------------------------------------------------------------------
(* The parser.  Every parse first forgets the previous tree and the errors  *)
(* of the previous parse; `kind' is what the text turns out to be.          *)


\* Mutant of TreeOf: the tree under construction survives a lexer error.
TreeOfJump(kind) == IF kind = "syntax" THEN "nil" ELSE kind
TreeOf(kind)  == CASE kind \in {"syntax", "lexer"} -> "nil" [] OTHER -> kind
ErrorsOf(kind) == kind \in {"partial", "syntax"}
Parses(kind) ==
    /\ tree' = TreeOf(kind)
    /\ errors' = ErrorsOf(kind)

\* cmp_struct_set_read_model, with the history of what was accepted.
Accepts(kind) ==
    /\ cmps' = cmps \cup {"read"}
    /\ source' = kind
    /\ UNCHANGED jumped

\* Mutant of Load: the file is parsed before the flag is looked at.
LoadParsesFirst(kind) ==
    /\ Ready
    /\ Parses(kind)
    /\ UNCHANGED <<built, cache>> /\ Same
    /\ \/ /\ ErrorsOf(kind) \/ "read" \in cmps
          /\ Raises("load", "ParsingError")
          /\ UNCHANGED <<cmps, history>>
       \/ /\ kind \in Model /\ "read" \notin cmps
          /\ Accepts(kind)
          /\ Returns("load", "none")

\* load_from_file: a lexer error jumps out of Parser_ReadSMVFromFile with no
\* CATCH around the call, and NuSMV leaves through exit().
Load(kind) ==
    /\ Ready
    /\ IF "read" \in cmps
       THEN RaisesOnly("load", "ModelAlreadyRead")
       ELSE /\ Parses(kind)
            /\ UNCHANGED <<built, cache>> /\ Same
            /\ \/ /\ kind = "lexer"
                  /\ Dies("load", "exit")
                  /\ UNCHANGED <<cmps, history>>
               \/ /\ ErrorsOf(kind)
                  /\ Raises("load", "ParsingError")
                  /\ UNCHANGED <<cmps, history>>
               \/ /\ kind \in Model
                  /\ Accepts(kind)
                  /\ Returns("load", "none")

LoadMissingFile ==
    /\ Callable
    /\ RaisesOnly("load", "IOError")

\* NuSMV's own read_model, under Cmd_SecureCommandExecute, which catches the
\* jumps; it accepts what the lax parser could keep of a file.
CommandReadModel(kind) ==
    /\ Ready
    /\ IF "read" \in cmps
       THEN RaisesOnly("command", "failed")
       ELSE /\ Parses(kind)
            /\ UNCHANGED <<built, cache>> /\ Same
            /\ \/ /\ TreeOf(kind) = "nil"
                  /\ Raises("command", "failed")
                  /\ UNCHANGED <<cmps, history>>
               \/ /\ TreeOf(kind) # "nil"
                  /\ Accepts(kind)
                  /\ Returns("command", "none")

\* parse_simple_expression, parse_next_expression, parse_identifier and
\* parse_ctl_spec share the parser, hence parsed_tree, with load.
ParseExpression(kind) ==
    /\ Ready
    /\ Parses(kind)
    /\ \/ kind = "expr" /\ Returns("parse", "none")
       \/ kind # "expr" /\ Raises("parse", "ParsingError")
    /\ UNCHANGED <<cmps, built, cache, history>> /\ Same

-----------------------------------------------------------------------------
(* Flattening: compile_flatten_smv, under the CATCH of compile.i.           *)

\* The assertions of CompileFlatten_init_flattener, SymbTable_create_layer
\* and compile_flatten_smv.
FlattenAsserts == built \cap {"flattener", "layer", "hierarchy"} = {}

\* No module main, or an undefined identifier in it: the longjmp leaves the
\* flattener initialised, the layer created and the read flag set.
FlattenJumps ==
    /\ tree \notin {"good", "badSpec"}
    /\ built' = built \cup {"flattener", "layer"}
    /\ jumped' = TRUE
    /\ UNCHANGED <<cmps, tree, errors, source, cache>>

\* Mutants of FlattenRejects: the hierarchy is not destroyed; the layer is
\* not removed.
FlattenRejectsKeepingHierarchy ==
    /\ tree = "badSpec"
    /\ cmps' = cmps \ {"read"}
    /\ source' = "none"
    /\ built' = built \cup {"hierarchy"}
    /\ UNCHANGED <<tree, errors, jumped, cache>>
FlattenRejectsKeepingLayer ==
    /\ tree = "badSpec"
    /\ cmps' = cmps \ {"read"}
    /\ source' = "none"
    /\ built' = built \cup {"layer"}
    /\ UNCHANGED <<tree, errors, jumped, cache>>

\* PropDb_fill fails: everything is undone, the read flag included.
FlattenRejects ==
    /\ tree = "badSpec"
    /\ cmps' = cmps \ {"read"}
    /\ source' = "none"
    /\ UNCHANGED <<built, tree, errors, jumped, cache>>

\* Mutant of FlattenSucceeds: pending syntax errors are not looked at.
FlattenSucceedsAnyway ==
    /\ tree \in {"good", "partial"}
    /\ built' = built \cup {"flattener", "layer", "hierarchy"}
    /\ cmps' = cmps \cup {"hrc", "flat"}
    /\ UNCHANGED <<tree, errors, history>>

\* The hierarchy is built; with syntax errors pending it is a partial one,
\* and the flag flatten_hierarchy stays unset although 0 is returned.
FlattenSucceeds ==
    /\ tree \in {"good", "partial"}
    /\ built' = built \cup {"flattener", "layer", "hierarchy"}
    /\ cmps' = cmps \cup (IF errors THEN {"hrc"} ELSE {"hrc", "flat"})
    /\ UNCHANGED <<tree, errors, history>>

\* glob.flatten_hierarchy; k is where compute_model continues.
FlattenHierarchy(k) ==
    /\ Same
    /\ \/ /\ "read" \notin cmps
          /\ RaisesOnly("flatten", "NoReadModel")
       \/ /\ {"read", "flat"} \subseteq cmps
          /\ RaisesOnly("flatten", "AlreadyFlattened")
       \/ /\ {"read", "flat"} \cap cmps = {"read"}
          /\ \/ /\ ~FlattenAsserts
                /\ Dies("flatten", "abort")
                /\ UNCHANGED <<nusmvVars, cache, history>>
             \/ /\ FlattenAsserts
                /\ \/ /\ FlattenJumps \/ FlattenRejects
                      /\ Raises("flatten", "CannotFlatten")
                   \/ /\ FlattenSucceeds
                      /\ cache' = Cached("symbTable")
                      /\ Returns("flatten", k)

\* NuSMV's own flatten_hierarchy, which also looks at hrc_built.
CommandFlatten ==
    /\ Ready /\ Same
    /\ IF "read" \notin cmps \/ cmps \cap {"flat", "hrc"} # {}
       THEN RaisesOnly("command", "failed")
       ELSE \/ /\ ~FlattenAsserts
               /\ Dies("command", "abort")
               /\ UNCHANGED <<nusmvVars, cache, history>>
            \/ /\ FlattenAsserts
               /\ \/ /\ FlattenJumps \/ FlattenRejects
                     /\ Raises("command", "failed")
                  \/ /\ FlattenSucceeds
                     /\ Returns("command", "none")
                     /\ UNCHANGED cache

\* symb_table: what is cached, or a new wrapper, or flatten_hierarchy.
SymbTable ==
    /\ Ready
    /\ IF cache.symbTable = 0 /\ "flat" \notin cmps
       THEN FlattenHierarchy("none")
       ELSE /\ cache' = IF cache.symbTable = 0 THEN Cached("symbTable") ELSE cache
            /\ Returns("symb_table", "none")
            /\ UNCHANGED <<nusmvVars, history>> /\ Same

-----------------------------------------------------------------------------
(* Encoding *)

\* Enc_init_bool_encoding then Enc_init_bdd_encoding; the ordering file is
\* opened by the latter, and a missing one ends the process.
Encodes == built' = built \cup {"boolEnc", "bddEnc"}
LosesOrderFile == built' = built \cup {"boolEnc"}

EncodeVariables(order, k) ==
    /\ Same
    /\ \/ /\ "flat" \notin cmps
          /\ RaisesOnly("encode", "NeedFlatHierarchy")
       \/ /\ {"flat", "enc"} \subseteq cmps
          /\ RaisesOnly("encode", "AlreadyEncoded")
       \/ /\ {"flat", "enc"} \cap cmps = {"flat"}
          /\ UNCHANGED <<tree, errors, history>>
          /\ \/ /\ order = "missing"
                /\ LosesOrderFile
                /\ Dies("encode", "exit")
                /\ UNCHANGED <<cmps, cache>>
             \/ /\ order # "missing"
                /\ Encodes
                /\ cmps' = cmps \cup {"enc"}
                /\ cache' = Cached("bddEncoding")
                /\ Returns("encode", k)

\* NuSMV's own encode_variables.
CommandEncode ==
    /\ Ready /\ Same
    /\ IF {"flat", "enc"} \cap cmps # {"flat"}
       THEN RaisesOnly("command", "failed")
       ELSE /\ Encodes
            /\ cmps' = cmps \cup {"enc"}
            /\ Returns("command", "none")
            /\ UNCHANGED <<tree, errors, cache, history>>

\* bdd_encoding: what is cached, or a new wrapper, or encode_variables.
BddEncoding ==
    /\ Ready
    /\ IF cache.bddEncoding = 0 /\ "enc" \notin cmps
       THEN EncodeVariables("default", "none")
       ELSE /\ cache' = IF cache.bddEncoding = 0 THEN Cached("bddEncoding") ELSE cache
            /\ Returns("bdd_encoding", "none")
            /\ UNCHANGED <<nusmvVars, history>> /\ Same

-----------------------------------------------------------------------------
(* Building *)

BuildFlatModel(k) ==
    \/ /\ "flat" \notin cmps
       /\ RaisesOnly("flat_model", "NeedFlatHierarchy")
    \/ /\ {"flat", "sexp"} \subseteq cmps
       /\ RaisesOnly("flat_model", "FlatModelAlreadyBuilt")
    \/ /\ {"flat", "sexp"} \cap cmps = {"flat"}
       /\ built' = built \cup {"sexpFsm"}
       /\ cmps' = cmps \cup {"sexp"}
       /\ Returns("flat_model", k)
       /\ UNCHANGED <<tree, errors, cache, history>> /\ Same

\* Mutant of BuildModel: the encoding is taken for granted.
BuildModelUnencoded(k) ==
    \/ /\ "sexp" \notin cmps
       /\ RaisesOnly("build_model", "NeedFlatModel")
    \/ /\ {"sexp", "bdd"} \subseteq cmps
       /\ RaisesOnly("build_model", "ModelAlreadyBuilt")
    \/ /\ {"sexp", "bdd"} \cap cmps = {"sexp"}
       /\ built' = built \cup {"bddFsm"}
       /\ cmps' = cmps \cup {"bdd"}
       /\ Returns("build_model", k)
       /\ UNCHANGED <<tree, errors, cache, history>> /\ Same

BuildModel(k) ==
    \/ /\ "sexp" \notin cmps
       /\ RaisesOnly("build_model", "NeedFlatModel")
    \/ /\ {"sexp", "enc"} \cap cmps = {"sexp"}
       /\ RaisesOnly("build_model", "NeedVariablesEncoded")
    \/ /\ {"sexp", "enc", "bdd"} \subseteq cmps
       /\ RaisesOnly("build_model", "ModelAlreadyBuilt")
    \/ /\ {"sexp", "enc", "bdd"} \cap cmps = {"sexp", "enc"}
       /\ built' = built \cup {"bddFsm"}
       /\ cmps' = cmps \cup {"bdd"}
       /\ Returns("build_model", k)
       /\ UNCHANGED <<tree, errors, cache, history>> /\ Same

\* flat_hierarchy and prop_database wrap what flattening made.
Wraps(op, s) ==
    IF "flat" \notin cmps
    THEN RaisesOnly(op, "NeedFlatHierarchy")
    ELSE /\ cache' = IF cache[s] = 0 THEN Cached(s) ELSE cache
         /\ Returns(op, "none")
         /\ UNCHANGED <<nusmvVars, history>> /\ Same

GetFlatHierarchy == Ready /\ Wraps("flat_hierarchy", "flatHierarchy")
GetPropDatabase  == Ready /\ Wraps("prop_database", "propDatabase")

-----------------------------------------------------------------------------
(* compute_model: each step is skipped when its flag is set.                *)

ComputeModel ==
    /\ Ready
    /\ IF "read" \notin cmps
       THEN RaisesOnly("compute", "NoReadModel")
       ELSE /\ Returns("compute", "flatten")
            /\ UNCHANGED <<nusmvVars, cache, history>> /\ Same

Skips(k) ==
    /\ Returns("compute", k)
    /\ UNCHANGED <<nusmvVars, cache, history>> /\ Same

ComputeFlatten ==
    /\ todo = "flatten"
    /\ IF "flat" \in cmps THEN Skips("encode") ELSE FlattenHierarchy("encode")

\* Mutant of ComputeEncode: encode_variables is called whatever the flag.
ComputeEncodeAlways ==
    /\ todo = "encode"
    /\ \E order \in Orders : EncodeVariables(order, "flatModel")

ComputeEncode ==
    /\ todo = "encode"
    /\ IF "enc" \in cmps
       THEN Skips("flatModel")
       ELSE \E order \in Orders : EncodeVariables(order, "flatModel")

ComputeFlatModel ==
    /\ todo = "flatModel"
    /\ IF "sexp" \in cmps THEN Skips("model") ELSE BuildFlatModel("model")

ComputeBuildModel ==
    /\ todo = "model"
    /\ IF "bdd" \in cmps THEN Skips("none") ELSE BuildModel("none")

ComputeStep ==
    \/ ComputeFlatten
    \/ ComputeEncode
    \/ ComputeFlatModel
    \/ ComputeBuildModel

-----------------------------------------------------------------------------
Init ==
    /\ proc = "alive"
    /\ up = FALSE
    /\ session = 0
    /\ cmps = {}
    /\ tree = "nil"
    /\ errors = FALSE
    /\ built = {}
    /\ cache = NoCache
    /\ todo = "none"
    /\ last = [op |-> "init", res |-> "ok"]
    /\ source = "none"
    /\ jumped = FALSE

\* A process that ended stays so.
Ended == proc # "alive" /\ UNCHANGED vars

Call ==
    \/ InitNusmv
    \/ DeinitDown
    \/ DeinitStatistics
    \/ DeinitNusmv
    \/ ResetNusmv
    \/ CallDown
    \/ \E kind \in Model \cup Broken : Load(kind)
    \/ LoadMissingFile
    \/ \E kind \in Model \cup Broken : CommandReadModel(kind)
    \/ \E kind \in {"expr", "syntax", "lexer"} : ParseExpression(kind)
    \/ Ready /\ FlattenHierarchy("none")
    \/ CommandFlatten
    \/ SymbTable
    \/ \E order \in Orders : Ready /\ EncodeVariables(order, "none")
    \/ CommandEncode
    \/ BddEncoding
    \/ Ready /\ BuildFlatModel("none")
    \/ Ready /\ BuildModel("none")
    \/ GetFlatHierarchy
    \/ GetPropDatabase
    \/ ComputeModel

Next == Call \/ ComputeStep \/ Ended

\* The interpreter runs compute_model to its end; a client need not call
\* anything.
Spec == Init /\ [][Next]_vars /\ WF_vars(ComputeStep)

-----------------------------------------------------------------------------
(* Properties *)

\* Every variable has its type; the only property of this kind.
TypeOK ==
    /\ proc \in {"alive", "exited", "crashed"}
    /\ up \in BOOLEAN
    /\ session \in 0..MaxSessions
    /\ cmps \subseteq Flags
    /\ tree \in {"nil", "expr", "partial", "dangling"} \cup Model
    /\ errors \in BOOLEAN
    /\ built \subseteq Structures
    /\ cache \in [Slots -> 0..MaxSessions]
    /\ todo \in Steps
    /\ last \in [op : Calls, res : Outcomes]
    /\ source \in {"none", "partial"} \cup Model
    /\ jumped \in BOOLEAN

\* What the flags of cmps say is true of the C structures, on the way to a
\* failure too: glob.py decides on the flags alone, and NuSMV aborts by
\* assertion when they are wrong (glob.py:188-194, 249-253, 330-334).
FlagsMatchStructures ==
    /\ "hierarchy" \in built <=> "hrc" \in cmps
    /\ "flat" \in cmps => "hrc" \in cmps /\ "read" \in cmps
    /\ "hrc" \in cmps => {"flattener", "layer"} \subseteq built
    /\ "bddEnc" \in built <=> "enc" \in cmps
    /\ "sexpFsm" \in built <=> "sexp" \in cmps
    /\ "bddFsm" \in built <=> "bdd" \in cmps
    /\ {"enc", "sexp"} \cap cmps # {} => "flat" \in cmps
    /\ "bdd" \in cmps => {"enc", "sexp"} \subseteq cmps

\* A wrapper cached in a global of glob.py wraps a structure of the running
\* session, through any number of deinit_nusmv, init_nusmv and reset_nusmv:
\* a wrapper of an earlier session points to freed memory.
CachesAreCurrent ==
    \A s \in Slots : cache[s] # 0 =>
        /\ up
        /\ cache[s] = session
        /\ "hierarchy" \in built
        /\ s = "bddEncoding" => "bddEnc" \in built

\* Beyond the hierarchy nothing is ever built from a model the parser kept
\* only a part of, or that does not compile (comment at glob.py:151-154).
OnlySoundModels ==
    built \cap {"boolEnc", "bddEnc", "sexpFsm", "bddFsm"} # {} => source = "good"

\* While a model is read, what flattening and mas() would take from
\* parsed_tree belongs to this session, and syntax errors are pending only
\* with the partial tree they left, or with none.
ReadTreeIsLive ==
    "read" \in cmps =>
        /\ tree # "dangling"
        /\ errors => tree \in {"nil", "partial"}
        /\ source # "none"

\* A crash in a session comes only half way through the pipeline: after a
\* flattening of this very model was left half done, or when deinit_nusmv is
\* asked for the statistics of a model flattened and not built.  No call crashes
\* on a model that flattens, nor after a model was rejected and another one
\* loaded (glob.py:188-208, init.py:98-104).
CrashesOnlyHalfWay ==
    proc = "crashed" =>
        \/ ~up
        \/ jumped \/ source = "partial"
        \/ last.op = "deinit" /\ {"flat", "bdd"} \cap cmps = {"flat"}

\* compute_model, whatever steps were already made by hand, ends with the
\* BDD FSM of a sound model, unless the ordering file is missing.
ComputeDelivers ==
    (todo = "flatten" /\ ("flat" \in cmps \/ (tree = "good" /\ ~jumped)))
        ~> ("bddFsm" \in built \/ proc = "exited")

\* The promise of the pipeline, as ModelPipeline states it.
PipelineProducts == {"hierarchy", "bddEnc", "sexpFsm", "bddFsm"}
PipelineNeeds == [p \in PipelineProducts |->
    CASE p = "hierarchy" -> {}
      [] p \in {"bddEnc", "sexpFsm"} -> {"hierarchy"}
      [] p = "bddFsm" -> {"bddEnc", "sexpFsm"}]

Pipeline == INSTANCE ModelPipeline WITH
    Sources  <- Model \cup {"partial"},
    Sound    <- {"good"},
    Products <- PipelineProducts,
    Root     <- "hierarchy",
    Needs    <- PipelineNeeds,
    None     <- "none",
    source   <- IF "read" \in cmps THEN source ELSE "none",
    products <- built \cap PipelineProducts

PipelineSpec == Pipeline!Spec

-----------------------------------------------------------------------------
(* What a docstring says and the code does not keep (it is refuted).        *)

\* "Cannot deinitialize NuSMV before initialization." (init.py:109-111): a
\* deinit_nusmv with NuSMV down raises NuSMVInitError.
DeinitDownRaises == last.op = "deinit" => last.res # "segfault"

=============================================================================
