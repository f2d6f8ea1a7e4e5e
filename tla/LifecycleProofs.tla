-------------------------- MODULE LifecycleProofs --------------------------
(***************************************************************************)
(* The safety of Lifecycle for any number of sessions.  The properties are *)
(* not inductive on their own: whether a flag, a structure or a cached     *)
(* wrapper may be there depends on which model was accepted and on what    *)
(* the parser holds, so the invariant also relates flags, structures and   *)
(* parse tree to the model (ModelInv), says what a half done flattening    *)
(* looks like (FlattenInv) and that nothing is left while NuSMV is down    *)
(* (DownInv).                                                              *)
(*                                                                         *)
(* Every step of MasGlob is a step of Lifecycle or leaves it alone, so     *)
(* that invariant carries over; on it rests that of mas(): what a call has *)
(* established by the time it wraps the FSM, and what the parse tree is    *)
(* while nothing but the model was parsed (MasInv).                        *)
(***************************************************************************)
EXTENDS MasGlob, TLAPS

\* What is read, and what the flags and the parser say of it.
ModelInv ==
    /\ "read" \in cmps <=> source # "none"
    /\ "flat" \in cmps => source = "good"
    /\ "hrc" \in cmps => "read" \in cmps /\ source \in {"good", "partial"}
    /\ "hrc" \in cmps /\ "flat" \notin cmps => source = "partial"
    /\ "read" \in cmps /\ tree \notin {"nil", "expr"} => tree = source
    /\ errors => tree \in {"nil", "partial"}
    /\ tree = "partial" => errors

\* The flattener is initialised exactly when there is a layer, and without
\* a hierarchy only after a jump.
FlattenInv ==
    /\ "flattener" \in built <=> "layer" \in built
    /\ "flattener" \in built => "hierarchy" \in built \/ jumped
    /\ jumped => "flattener" \in built /\ "read" \in cmps
    /\ "boolEnc" \in built => "flat" \in cmps

\* Nothing of a session outlives it; compute_model runs on a read model.
DownInv ==
    /\ ~up => cmps = {} /\ built = {}
    /\ todo # "none" => up /\ "read" \in cmps

Safe ==
    /\ FlagsMatchStructures
    /\ CachesAreCurrent
    /\ OnlySoundModels
    /\ ReadTreeIsLive
    /\ CrashesOnlyHalfWay
    /\ ModelInv
    /\ FlattenInv
    /\ DownInv

\* The type of the Boolean variables and that of the others, which the
\* provers take apart.
BoolOK == up \in BOOLEAN /\ errors \in BOOLEAN /\ jumped \in BOOLEAN
DataOK ==
    /\ proc \in {"alive", "exited", "crashed"}
    /\ session \in 0..MaxSessions
    /\ cmps \subseteq Flags
    /\ tree \in {"nil", "expr", "partial", "dangling"} \cup Model
    /\ built \subseteq Structures
    /\ cache \in [Slots -> 0..MaxSessions]
    /\ todo \in Steps
    /\ last \in [op : Calls, res : Outcomes]
    /\ source \in {"none", "partial"} \cup Model

IInv == BoolOK /\ DataOK /\ Safe

\* Used in nearly every step below: what the invariant says and the sets its
\* variables range over.
USE MaxSessionsAssumption
    DEF Safe, FlagsMatchStructures, CachesAreCurrent, OnlySoundModels,
        ReadTreeIsLive, CrashesOnlyHalfWay, ModelInv, FlattenInv,
        DownInv, NoCache, Flags, Structures, Slots, Steps, Model

-----------------------------------------------------------------------------
\* The invariant holds initially.
LEMMA InitIInv == Init => IInv
  <1>1. Init => BoolOK
    BY DEF Init, BoolOK
  <1>2. Init => DataOK
    BY DEF Init, DataOK, Calls, Outcomes
  <1>3. Init => Safe
    BY DEF Init
  <1> QED
    BY <1>1, <1>2, <1>3 DEF IInv

-----------------------------------------------------------------------------
(* Facts on the ways a call ends, shared by the actions.                    *)

\* A call that ends leaves a well-typed process and call record.
LEMMA EndsType ==
  ASSUME NEW op \in Calls, NEW res \in Outcomes,
         NEW p \in {"alive", "exited", "crashed"}, Ends(op, res, p)
  PROVE  /\ proc' \in {"alive", "exited", "crashed"}
         /\ last' \in [op : Calls, res : Outcomes]
  BY DEF Ends

\* A call that raises and changes nothing keeps the invariant.
LEMMA RaisesOnlyInv ==
  ASSUME IInv, NEW op \in Calls, NEW exc \in Outcomes \ {"abort"},
         RaisesOnly(op, exc)
  PROVE  IInv'
  <1> USE DEF RaisesOnly, Raises, Ends, nusmvVars, history, Same, IInv
  <1>1. BoolOK'
    BY DEF BoolOK
  <1>2. DataOK'
    BY DEF DataOK
  <1>3. Safe'
    OBVIOUS
  <1> QED
    BY <1>1, <1>2, <1>3

\* A call that ends the process and changes nothing else keeps it.
LEMMA DiesInv ==
  ASSUME IInv, NEW op \in Calls, NEW how \in {"abort", "segfault"},
         Dies(op, how), CrashesOnlyHalfWay',
         UNCHANGED <<up, session, nusmvVars, cache, history>>
  PROVE  IInv'
  <1> USE DEF Dies, Ends, nusmvVars, history, IInv
  <1>1. BoolOK'
    BY DEF BoolOK
  <1>2. DataOK'
    BY DEF DataOK, Outcomes
  <1>3. Safe'
    OBVIOUS
  <1> QED
    BY <1>1, <1>2, <1>3

\* A call that returns and has at most filled a slot of the cache.
LEMMA WrapsInv ==
  ASSUME IInv, NEW op \in Calls, NEW s \in Slots, up, "hierarchy" \in built,
         s = "bddEncoding" => "bddEnc" \in built,
         NEW k \in Steps, k # "none" => "read" \in cmps,
         Returns(op, k), cache' \in {cache, Cached(s)},
         UNCHANGED <<up, session, nusmvVars, history>>
  PROVE  IInv'
  <1> USE DEF Returns, Ends, nusmvVars, history, IInv, Cached
  <1>1. BoolOK'
    BY DEF BoolOK
  <1>2. DataOK'
    <2>1. last' \in [op : Calls, res : Outcomes]
      BY DEF Outcomes
    <2>2. cache' \in [Slots -> 0..MaxSessions]
      BY DEF DataOK
    <2> QED
      BY <2>1, <2>2 DEF DataOK
  <1>3. Safe'
    BY DEF DataOK
  <1> QED
    BY <1>1, <1>2, <1>3

\* compute_model skips a step that is done.
LEMMA SkipsInv ==
  ASSUME IInv, todo # "none", NEW k \in Steps, Skips(k)
  PROVE  IInv'
  <1> USE DEF Skips, Returns, Ends, nusmvVars, history, Same, IInv
  <1>1. BoolOK'
    BY DEF BoolOK
  <1>2. DataOK'
    BY DEF DataOK, Calls, Outcomes
  <1>3. Safe'
    OBVIOUS
  <1> QED
    BY <1>1, <1>2, <1>3

-----------------------------------------------------------------------------
(* Starting and stopping *)

LEMMA InitNusmvInv ==
  ASSUME IInv, InitNusmv PROVE IInv'
  <1>1. CASE RaisesOnly("init", "InitError")
    BY <1>1, RaisesOnlyInv DEF Calls, Outcomes
  <1>2. CASE /\ ~up /\ session < MaxSessions
             /\ Started /\ Returns("init", "none")
             /\ UNCHANGED <<tree, errors, built, cache, history>>
    <2> USE <1>2 DEF Started, Returns, Ends, history, IInv
    <2>1. BoolOK'
      BY DEF BoolOK
    <2>2. DataOK'
      BY DEF DataOK, Calls, Outcomes
    <2>3. Safe'
      BY DEF DataOK
    <2> QED
      BY <2>1, <2>2, <2>3
  <1> QED
    BY <1>1, <1>2 DEF InitNusmv

LEMMA DeinitDownInv ==
  ASSUME IInv, DeinitDown PROVE IInv'
  <1>1. CrashesOnlyHalfWay'
    BY DEF DeinitDown, Same
  <1> QED
    BY <1>1, DiesInv DEF DeinitDown, Same, Calls

\* The database is wrapped on the way to the crash.
LEMMA DeinitStatisticsInv ==
  ASSUME IInv, DeinitStatistics PROVE IInv'
  <1> USE DEF DeinitStatistics, Ready, Callable, Dies, Ends, nusmvVars, history,
              Same, IInv
  <1>1. BoolOK'
    BY DEF BoolOK
  <1>2. DataOK'
    <2>1. last' \in [op : Calls, res : Outcomes]
      BY DEF Calls, Outcomes
    <2>2. cache' \in [Slots -> 0..MaxSessions]
      BY DEF DataOK
    <2> QED
      BY <2>1, <2>2 DEF DataOK
  <1>3. Safe'
    BY DEF DataOK
  <1> QED
    BY <1>1, <1>2, <1>3

\* Without a session there is nothing to leave half done.
LEMMA NoFlagsInv ==
  ASSUME IInv, ~up, NEW op, NoFlags(op),
         UNCHANGED <<up, session, nusmvVars, cache, history>>
  PROVE  IInv'
  <1>1. CrashesOnlyHalfWay' /\ op \in Calls
    BY DEF NoFlags, FlagReaders, Calls
  <1> QED
    BY <1>1, DiesInv DEF NoFlags

LEMMA CallDownInv ==
  ASSUME IInv, CallDown PROVE IInv'
  <1>1. ~up /\ UNCHANGED <<up, session, nusmvVars, cache, history>>
    BY DEF CallDown, Same
  <1>2. CrashesOnlyHalfWay'
    BY <1>1
  <1>3. ASSUME NEW op \in FlagReaders, NoFlags(op) PROVE IInv'
    BY <1>1, <1>3, NoFlagsInv
  <1>4. CASE NoStrings
    BY <1>1, <1>2, <1>4, DiesInv DEF NoStrings, Calls
  <1>5. CASE Dies("command", "segfault") \/ Dies("command", "abort")
    BY <1>1, <1>2, <1>5, DiesInv DEF Calls
  <1>6. CASE Raises("command", "failed")
    BY <1>1, <1>6, RaisesOnlyInv DEF RaisesOnly, Same, Calls, Outcomes
  <1> QED
    BY <1>3, <1>4, <1>5, <1>6 DEF CallDown, NoCommands

LEMMA DeinitNusmvInv ==
  ASSUME IInv, DeinitNusmv PROVE IInv'
  <1> USE DEF DeinitNusmv, Stopped, QuitTree, ResetGlobals, Returns, Ends,
              Ready, Callable, IInv
  <1>1. BoolOK'
    BY DEF BoolOK
  <1>2. DataOK'
    BY DEF DataOK, Calls, Outcomes
  <1>3. Safe'
    OBVIOUS
  <1> QED
    BY <1>1, <1>2, <1>3

LEMMA ResetNusmvInv ==
  ASSUME IInv, ResetNusmv PROVE IInv'
  <1> USE DEF ResetNusmv, Stopped, Started, QuitTree, ResetGlobals, Returns,
              Ends, Ready, Callable, IInv
  <1>1. BoolOK'
    BY DEF BoolOK
  <1>2. DataOK'
    BY DEF DataOK, Calls, Outcomes
  <1>3. Safe'
    OBVIOUS
  <1> QED
    BY <1>1, <1>2, <1>3

-----------------------------------------------------------------------------
(* Parsing *)

\* The parser's tree and errors agree, whatever is parsed.
LEMMA ParsesType ==
  ASSUME NEW kind \in Model \cup Broken \cup {"expr"}, Parses(kind)
  PROVE  /\ tree' \in {"nil", "expr", "partial"} \cup Model
         /\ errors' \in BOOLEAN
         /\ errors' => tree' \in {"nil", "partial"}
         /\ tree' = "partial" <=> kind = "partial"
         /\ kind = "partial" => errors'
         /\ tree' \notin {"nil", "expr"} => tree' = kind
  <1> USE DEF Parses, TreeOf, ErrorsOf, Broken
  <1>1. errors' \in BOOLEAN
    <2>1. errors' = (kind \in {"partial", "syntax"})
      OBVIOUS
    <2>2. (kind \in {"partial", "syntax"}) \in BOOLEAN
      OBVIOUS
    <2> QED
      BY ONLY <2>1, <2>2
  <1>2. tree' = IF kind \in {"syntax", "lexer"} THEN "nil" ELSE kind
    OBVIOUS
  <1> QED
    BY <1>1, <1>2

\* Parsing without accepting: the flags stay as they are, and so must the
\* tree if it is a model's.
LEMMA ParsesOnlyInv ==
  ASSUME IInv, NEW kind \in Model \cup Broken \cup {"expr"}, Parses(kind),
         "read" \in cmps => tree' \in {"nil", "expr"},
         proc' \in {"alive", "exited"}, todo' = "none",
         last' \in [op : Calls, res : Outcomes],
         UNCHANGED <<up, session, cmps, built, cache, history>>
  PROVE  IInv'
  <1> USE ParsesType DEF history, IInv
  <1>1. BoolOK'
    BY DEF BoolOK
  <1>2. DataOK'
    BY DEF DataOK
  <1>3. Safe'
    OBVIOUS
  <1> QED
    BY <1>1, <1>2, <1>3

\* Parsing and accepting, while no model is read.
LEMMA AcceptsInv ==
  ASSUME IInv, NEW kind \in Model \cup {"partial"}, up, proc = "alive",
         "read" \notin cmps, Parses(kind), Accepts(kind),
         NEW op \in Calls, Returns(op, "none"), UNCHANGED <<built, cache>>, Same
  PROVE  IInv'
  <1> USE ParsesType DEF Accepts, Returns, Ends, Same, Broken, IInv
  <1>1. BoolOK'
    BY DEF BoolOK
  <1>2. DataOK'
    BY DEF DataOK, Outcomes
  <1>3. Safe'
    BY DEF DataOK
  <1> QED
    BY <1>1, <1>2, <1>3

LEMMA LoadInv ==
  ASSUME IInv, NEW kind \in Model \cup Broken, Load(kind)
  PROVE  IInv'
  <1>1. CASE "read" \in cmps
    BY <1>1, RaisesOnlyInv DEF Load, Calls, Outcomes
  <1>2. CASE "read" \notin cmps
    <2> USE <1>2 DEF Load
    <2>1. CASE kind = "lexer" /\ Dies("load", "exit") /\ UNCHANGED <<cmps, history>>
      BY <2>1, ParsesOnlyInv DEF Dies, Ends, Calls, Outcomes, Same
    <2>2. CASE Raises("load", "ParsingError") /\ UNCHANGED <<cmps, history>>
      BY <2>2, ParsesOnlyInv DEF Raises, Ends, Calls, Outcomes, Same
    <2>3. CASE kind \in Model /\ Accepts(kind) /\ Returns("load", "none")
      BY <2>3, AcceptsInv DEF Ready, Callable, Calls
    <2> QED
      BY <2>1, <2>2, <2>3
  <1> QED
    BY <1>1, <1>2

LEMMA CommandReadModelInv ==
  ASSUME IInv, NEW kind \in Model \cup Broken, CommandReadModel(kind)
  PROVE  IInv'
  <1>1. CASE "read" \in cmps
    BY <1>1, RaisesOnlyInv DEF CommandReadModel, Calls, Outcomes
  <1>2. CASE "read" \notin cmps
    <2> USE <1>2 DEF CommandReadModel
    <2>1. CASE Raises("command", "failed") /\ UNCHANGED <<cmps, history>>
      BY <2>1, ParsesOnlyInv DEF Raises, Ends, Calls, Outcomes, Same
    <2>2. CASE TreeOf(kind) # "nil" /\ Accepts(kind) /\ Returns("command", "none")
      <3>1. kind \in Model \cup {"partial"}
        BY <2>2 DEF TreeOf, Broken
      <3> QED
        BY <2>2, <3>1, AcceptsInv DEF Ready, Callable, Calls
    <2> QED
      BY <2>1, <2>2
  <1> QED
    BY <1>1, <1>2

LEMMA ParseExpressionInv ==
  ASSUME IInv, NEW kind \in {"expr", "syntax", "lexer"}, ParseExpression(kind)
  PROVE  IInv'
  <1>1. /\ proc' \in {"alive", "exited"} /\ todo' = "none"
        /\ last' \in [op : Calls, res : Outcomes]
    BY DEF ParseExpression, Returns, Raises, Ends, Calls, Outcomes
  <1>2. tree' \in {"nil", "expr"}
    BY DEF ParseExpression, Parses, TreeOf
  <1> QED
    BY <1>1, <1>2, ParsesOnlyInv DEF ParseExpression, Same, Broken

-----------------------------------------------------------------------------
(* Flattening *)

\* A flattening that starts finds no flattener in use unless an earlier one
\* was left half done, or the model is partial.
LEMMA FlattenAssertsHold ==
  ASSUME IInv, "flat" \notin cmps, ~FlattenAsserts
  PROVE  jumped \/ source = "partial"
  BY DEF IInv, FlattenAsserts

\* What the three ways a flattening can go do to the invariant.
LEMMA FlattenFailsInv ==
  ASSUME IInv, up, "read" \in cmps, "flat" \notin cmps, FlattenAsserts,
         FlattenJumps \/ FlattenRejects, UNCHANGED <<up, session>>,
         NEW op \in Calls, NEW exc \in {"failed", "CannotFlatten"},
         Raises(op, exc)
  PROVE  IInv'
  <1> USE DEF Raises, Ends, history, FlattenAsserts, IInv
  <1>1. CASE FlattenJumps
    <2> USE <1>1 DEF FlattenJumps
    <2>1. BoolOK'
      BY DEF BoolOK
    <2>2. DataOK'
      BY DEF DataOK, Outcomes
    <2>3. Safe'
      OBVIOUS
    <2> QED
      BY <2>1, <2>2, <2>3
  <1>2. CASE FlattenRejects
    <2> USE <1>2 DEF FlattenRejects
    <2>1. BoolOK'
      BY DEF BoolOK
    <2>2. DataOK'
      BY DEF DataOK, Outcomes
    <2>3. Safe'
      OBVIOUS
    <2> QED
      BY <2>1, <2>2, <2>3
  <1> QED
    BY <1>1, <1>2

LEMMA FlattenSucceedsInv ==
  ASSUME IInv, up, "read" \in cmps, "flat" \notin cmps, FlattenAsserts,
         FlattenSucceeds, UNCHANGED <<up, session>>,
         cache' \in {cache, Cached("symbTable")},
         NEW op \in Calls, NEW k \in Steps, Returns(op, k)
  PROVE  IInv'
  <1> USE DEF Returns, Ends, history, FlattenAsserts, FlattenSucceeds,
              Cached, IInv
  <1>1. BoolOK'
    BY DEF BoolOK
  <1>2. DataOK'
    <2>1. last' \in [op : Calls, res : Outcomes]
      BY DEF Outcomes
    <2>2. cache' \in [Slots -> 0..MaxSessions]
      BY DEF DataOK
    <2> QED
      BY <2>1, <2>2 DEF DataOK
  <1>3. Safe'
    BY DEF DataOK
  <1> QED
    BY <1>1, <1>2, <1>3

LEMMA FlattenHierarchyInv ==
  ASSUME IInv, up, NEW k \in Steps, FlattenHierarchy(k)
  PROVE  IInv'
  <1>1. CASE \/ RaisesOnly("flatten", "NoReadModel")
             \/ RaisesOnly("flatten", "AlreadyFlattened")
    BY <1>1, RaisesOnlyInv DEF Calls, Outcomes
  <1>2. CASE /\ {"read", "flat"} \cap cmps = {"read"} /\ ~FlattenAsserts
             /\ Dies("flatten", "abort") /\ UNCHANGED <<nusmvVars, cache, history>>
    <2>1. jumped \/ source = "partial"
      BY <1>2, FlattenAssertsHold
    <2>2. CrashesOnlyHalfWay'
      BY <1>2, <2>1 DEF history
    <2> QED
      BY <1>2, <2>2, DiesInv DEF FlattenHierarchy, Same, Calls
  <1>3. CASE {"read", "flat"} \cap cmps = {"read"} /\ FlattenAsserts
    <2>1. CASE (FlattenJumps \/ FlattenRejects) /\ Raises("flatten", "CannotFlatten")
      BY <1>3, <2>1, FlattenFailsInv DEF FlattenHierarchy, Same, Calls
    <2>2. CASE FlattenSucceeds /\ cache' = Cached("symbTable") /\ Returns("flatten", k)
      BY <1>3, <2>2, FlattenSucceedsInv DEF FlattenHierarchy, Same, Calls
    <2> QED
      BY <1>3, <2>1, <2>2 DEF FlattenHierarchy
  <1> QED
    BY <1>1, <1>2, <1>3 DEF FlattenHierarchy

LEMMA CommandFlattenInv ==
  ASSUME IInv, CommandFlatten PROVE IInv'
  <1>1. CASE RaisesOnly("command", "failed")
    BY <1>1, RaisesOnlyInv DEF Calls, Outcomes
  <1>2. CASE "read" \in cmps /\ cmps \cap {"flat", "hrc"} = {}
    <2>1. CASE /\ ~FlattenAsserts /\ Dies("command", "abort")
               /\ UNCHANGED <<nusmvVars, cache, history>>
      <3>1. jumped \/ source = "partial"
        BY <1>2, <2>1, FlattenAssertsHold
      <3>2. CrashesOnlyHalfWay'
        BY <2>1, <3>1 DEF history
      <3> QED
        BY <2>1, <3>2, DiesInv DEF CommandFlatten, Same, Calls
    <2>2. CASE FlattenAsserts
      <3>1. CASE (FlattenJumps \/ FlattenRejects) /\ Raises("command", "failed")
        BY <1>2, <2>2, <3>1, FlattenFailsInv DEF CommandFlatten, Same, Calls, Ready, Callable
      <3>2. CASE FlattenSucceeds /\ Returns("command", "none") /\ UNCHANGED cache
        BY <1>2, <2>2, <3>2, FlattenSucceedsInv
           DEF CommandFlatten, Same, Calls, Ready, Callable
      <3> QED
        BY <1>2, <2>2, <3>1, <3>2 DEF CommandFlatten
    <2> QED
      BY <1>2, <2>1, <2>2 DEF CommandFlatten
  <1> QED
    BY <1>1, <1>2 DEF CommandFlatten

LEMMA SymbTableInv ==
  ASSUME IInv, SymbTable PROVE IInv'
  <1>1. CASE cache.symbTable = 0 /\ "flat" \notin cmps
    BY <1>1, FlattenHierarchyInv DEF SymbTable, Ready, Callable
  <1>2. CASE ~(cache.symbTable = 0 /\ "flat" \notin cmps)
    <2>1. "hierarchy" \in built
      BY <1>2 DEF IInv
    <2> QED
      BY <1>2, <2>1, WrapsInv DEF SymbTable, Ready, Callable, Same, Calls
  <1> QED
    BY <1>1, <1>2

-----------------------------------------------------------------------------
(* Encoding and building *)

\* The flags and structures encode_variables and the two builders add.
LEMMA AddsInv ==
  ASSUME IInv, up, NEW op \in Calls, NEW k \in Steps, Returns(op, k),
         UNCHANGED <<up, session, tree, errors, history>>,
         \/ /\ {"flat", "enc"} \cap cmps = {"flat"}
            /\ Encodes /\ cmps' = cmps \cup {"enc"}
            /\ cache' \in {cache, Cached("bddEncoding")}
         \/ /\ {"flat", "sexp"} \cap cmps = {"flat"}
            /\ built' = built \cup {"sexpFsm"} /\ cmps' = cmps \cup {"sexp"}
            /\ UNCHANGED cache
         \/ /\ {"sexp", "enc", "bdd"} \cap cmps = {"sexp", "enc"}
            /\ built' = built \cup {"bddFsm"} /\ cmps' = cmps \cup {"bdd"}
            /\ UNCHANGED cache
  PROVE  IInv'
  <1> USE DEF Returns, Ends, history, Encodes, Cached, IInv
  <1>1. BoolOK'
    BY DEF BoolOK
  <1>2. DataOK'
    <2>1. last' \in [op : Calls, res : Outcomes]
      BY DEF Outcomes
    <2>2. cache' \in [Slots -> 0..MaxSessions]
      BY DEF DataOK
    <2> QED
      BY <2>1, <2>2 DEF DataOK
  <1>3. Safe'
    BY DEF DataOK
  <1> QED
    BY <1>1, <1>2, <1>3

LEMMA EncodeVariablesInv ==
  ASSUME IInv, up, NEW order \in Orders, NEW k \in Steps,
         EncodeVariables(order, k)
  PROVE  IInv'
  <1>1. CASE \/ RaisesOnly("encode", "NeedFlatHierarchy")
             \/ RaisesOnly("encode", "AlreadyEncoded")
    BY <1>1, RaisesOnlyInv DEF Calls, Outcomes
  <1>2. CASE {"flat", "enc"} \cap cmps = {"flat"}
    <2>1. CASE LosesOrderFile /\ Dies("encode", "exit") /\ UNCHANGED <<cmps, cache>>
      <3> USE <1>2, <2>1 DEF EncodeVariables, LosesOrderFile, Dies, Ends,
                             history, Same, IInv
      <3>1. BoolOK'
        BY DEF BoolOK
      <3>2. DataOK'
        BY DEF DataOK, Calls, Outcomes
      <3>3. Safe'
        OBVIOUS
      <3> QED
        BY <3>1, <3>2, <3>3
    <2>2. CASE Encodes /\ cmps' = cmps \cup {"enc"}
               /\ cache' = Cached("bddEncoding") /\ Returns("encode", k)
      BY <1>2, <2>2, AddsInv DEF EncodeVariables, Same, Calls
    <2> QED
      BY <1>2, <2>1, <2>2 DEF EncodeVariables
  <1> QED
    BY <1>1, <1>2 DEF EncodeVariables

LEMMA CommandEncodeInv ==
  ASSUME IInv, CommandEncode PROVE IInv'
  <1>1. CASE {"flat", "enc"} \cap cmps # {"flat"}
    BY <1>1, RaisesOnlyInv DEF CommandEncode, Calls, Outcomes
  <1>2. CASE {"flat", "enc"} \cap cmps = {"flat"}
    BY <1>2, AddsInv DEF CommandEncode, Same, Calls, Ready, Callable
  <1> QED
    BY <1>1, <1>2

LEMMA BddEncodingInv ==
  ASSUME IInv, BddEncoding PROVE IInv'
  <1>1. CASE cache.bddEncoding = 0 /\ "enc" \notin cmps
    BY <1>1, EncodeVariablesInv DEF BddEncoding, Ready, Callable, Orders
  <1>2. CASE ~(cache.bddEncoding = 0 /\ "enc" \notin cmps)
    <2>1. {"hierarchy", "bddEnc"} \subseteq built
      BY <1>2 DEF IInv
    <2> QED
      BY <1>2, <2>1, WrapsInv DEF BddEncoding, Ready, Callable, Same, Calls
  <1> QED
    BY <1>1, <1>2

LEMMA BuildFlatModelInv ==
  ASSUME IInv, up, NEW k \in Steps, BuildFlatModel(k)
  PROVE  IInv'
  <1>1. CASE \/ RaisesOnly("flat_model", "NeedFlatHierarchy")
             \/ RaisesOnly("flat_model", "FlatModelAlreadyBuilt")
    BY <1>1, RaisesOnlyInv DEF Calls, Outcomes
  <1>2. CASE /\ {"flat", "sexp"} \cap cmps = {"flat"}
             /\ built' = built \cup {"sexpFsm"} /\ cmps' = cmps \cup {"sexp"}
             /\ Returns("flat_model", k)
             /\ UNCHANGED <<tree, errors, cache, history>> /\ Same
    BY <1>2, AddsInv DEF Same, Calls
  <1> QED
    BY <1>1, <1>2 DEF BuildFlatModel

LEMMA BuildModelInv ==
  ASSUME IInv, up, NEW k \in Steps, BuildModel(k)
  PROVE  IInv'
  <1>1. CASE \/ RaisesOnly("build_model", "NeedFlatModel")
             \/ RaisesOnly("build_model", "NeedVariablesEncoded")
             \/ RaisesOnly("build_model", "ModelAlreadyBuilt")
    BY <1>1, RaisesOnlyInv DEF Calls, Outcomes
  <1>2. CASE /\ {"sexp", "enc", "bdd"} \cap cmps = {"sexp", "enc"}
             /\ built' = built \cup {"bddFsm"} /\ cmps' = cmps \cup {"bdd"}
             /\ Returns("build_model", k)
             /\ UNCHANGED <<tree, errors, cache, history>> /\ Same
    BY <1>2, AddsInv DEF Same, Calls
  <1> QED
    BY <1>1, <1>2 DEF BuildModel

LEMMA GetInv ==
  ASSUME IInv, GetFlatHierarchy \/ GetPropDatabase PROVE IInv'
  <1>1. ASSUME Ready, NEW op \in Calls, NEW s \in {"flatHierarchy", "propDatabase"},
               Wraps(op, s)
        PROVE  IInv'
    <2>1. CASE "flat" \notin cmps
      BY <1>1, <2>1, RaisesOnlyInv DEF Wraps, Outcomes
    <2>2. CASE "flat" \in cmps
      <3>1. "hierarchy" \in built
        BY <2>2 DEF IInv
      <3> QED
        BY <1>1, <2>2, <3>1, WrapsInv DEF Wraps, Same, Ready, Callable
    <2> QED
      BY <2>1, <2>2
  <1> QED
    BY <1>1 DEF GetFlatHierarchy, GetPropDatabase, Calls

-----------------------------------------------------------------------------
(* compute_model *)

LEMMA ComputeModelInv ==
  ASSUME IInv, ComputeModel PROVE IInv'
  <1>1. CASE "read" \notin cmps
    BY <1>1, RaisesOnlyInv DEF ComputeModel, Calls, Outcomes
  <1>2. CASE "read" \in cmps
    <2> USE <1>2 DEF ComputeModel, Ready, Callable, Returns, Ends, nusmvVars, history,
                     Same, IInv
    <2>1. BoolOK'
      BY DEF BoolOK
    <2>2. DataOK'
      <3>1. last' \in [op : Calls, res : Outcomes]
        BY DEF Calls, Outcomes
      <3> QED
        BY <3>1 DEF DataOK
    <2>3. Safe'
      OBVIOUS
    <2> QED
      BY <2>1, <2>2, <2>3
  <1> QED
    BY <1>1, <1>2

LEMMA ComputeStepInv ==
  ASSUME IInv, ComputeStep PROVE IInv'
  <1>1. todo # "none" /\ up
    BY DEF ComputeStep, ComputeFlatten, ComputeEncode, ComputeFlatModel,
           ComputeBuildModel, IInv
  <1>2. CASE ComputeFlatten
    BY <1>1, <1>2, SkipsInv, FlattenHierarchyInv DEF ComputeFlatten
  <1>3. CASE ComputeEncode
    BY <1>1, <1>3, SkipsInv, EncodeVariablesInv DEF ComputeEncode
  <1>4. CASE ComputeFlatModel
    BY <1>1, <1>4, SkipsInv, BuildFlatModelInv DEF ComputeFlatModel
  <1>5. CASE ComputeBuildModel
    BY <1>1, <1>5, SkipsInv, BuildModelInv DEF ComputeBuildModel
  <1> QED
    BY <1>2, <1>3, <1>4, <1>5 DEF ComputeStep

-----------------------------------------------------------------------------
\* Every step keeps the invariant.
LEMMA NextIInv == IInv /\ [Next]_vars => IInv'
  <1> SUFFICES ASSUME IInv, [Next]_vars PROVE IInv'
    OBVIOUS
  <1>1. CASE UNCHANGED vars
    <2> USE <1>1 DEF vars, IInv
    <2>1. BoolOK'
      BY DEF BoolOK
    <2>2. DataOK'
      BY DEF DataOK
    <2>3. Safe'
      OBVIOUS
    <2> QED
      BY <2>1, <2>2, <2>3
  <1>2. CASE \/ InitNusmv \/ DeinitDown \/ DeinitStatistics \/ DeinitNusmv
             \/ ResetNusmv \/ CallDown
    BY <1>2, InitNusmvInv, DeinitDownInv, DeinitStatisticsInv, DeinitNusmvInv,
       ResetNusmvInv, CallDownInv
  <1>3. CASE \/ \E kind \in Model \cup Broken : Load(kind)
             \/ LoadMissingFile
             \/ \E kind \in Model \cup Broken : CommandReadModel(kind)
             \/ \E kind \in {"expr", "syntax", "lexer"} : ParseExpression(kind)
    BY <1>3, LoadInv, RaisesOnlyInv, CommandReadModelInv, ParseExpressionInv
       DEF LoadMissingFile, Calls, Outcomes
  <1>4. CASE \/ Ready /\ FlattenHierarchy("none")
             \/ CommandFlatten \/ SymbTable
    BY <1>4, FlattenHierarchyInv, CommandFlattenInv, SymbTableInv DEF Ready, Callable
  <1>5. CASE \/ \E order \in Orders : Ready /\ EncodeVariables(order, "none")
             \/ CommandEncode \/ BddEncoding
    BY <1>5, EncodeVariablesInv, CommandEncodeInv, BddEncodingInv DEF Ready, Callable
  <1>6. CASE \/ Ready /\ BuildFlatModel("none")
             \/ Ready /\ BuildModel("none")
             \/ GetFlatHierarchy \/ GetPropDatabase
    BY <1>6, BuildFlatModelInv, BuildModelInv, GetInv DEF Ready, Callable
  <1>7. CASE ComputeModel \/ ComputeStep
    BY <1>7, ComputeModelInv, ComputeStepInv
  <1> QED
    BY <1>1, <1>2, <1>3, <1>4, <1>5, <1>6, <1>7 DEF Next, Call, Ended

\* The inductive invariant holds in every reachable state.
THEOREM Invariance == Spec => []IInv
  BY InitIInv, NextIInv, PTL DEF Spec

\* Type correctness, for any number of sessions.
THEOREM TypeCorrect == Spec => []TypeOK
  <1>1. IInv => TypeOK
    BY DEF IInv, BoolOK, DataOK, TypeOK
  <1> QED
    BY <1>1, Invariance, PTL

\* The flags glob.py decides on never lie about NuSMV's structures.
THEOREM FlagsCorrect == Spec => []FlagsMatchStructures
  <1>1. IInv => FlagsMatchStructures
    BY DEF IInv
  <1> HIDE DEF FlagsMatchStructures
  <1> QED
    BY <1>1, Invariance, PTL

\* No wrapper cached by glob.py outlives the session of its structure.
THEOREM CachesCorrect == Spec => []CachesAreCurrent
  <1>1. IInv => CachesAreCurrent
    BY DEF IInv
  <1> QED
    BY <1>1, Invariance, PTL

\* Only a model that compiles gets past flattening.
THEOREM ModelsCorrect == Spec => []OnlySoundModels
  <1>1. IInv => OnlySoundModels
    BY DEF IInv
  <1> HIDE DEF OnlySoundModels
  <1> QED
    BY <1>1, Invariance, PTL

\* What is flattened comes from the parse of this session.
THEOREM TreesCorrect == Spec => []ReadTreeIsLive
  <1>1. IInv => ReadTreeIsLive
    BY DEF IInv
  <1> HIDE DEF ReadTreeIsLive
  <1> QED
    BY <1>1, Invariance, PTL

\* A session crashes only on a model whose flattening was left half done, or on
\* the statistics of one that is flattened and not built.
THEOREM CrashesCorrect == Spec => []CrashesOnlyHalfWay
  <1>1. IInv => CrashesOnlyHalfWay
    BY DEF IInv
  <1> HIDE DEF CrashesOnlyHalfWay
  <1> QED
    BY <1>1, Invariance, PTL

-----------------------------------------------------------------------------
(* Refinement *)

AbstractStep == [Pipeline!Next]_(Pipeline!pipelineVars)

\* The five things a step can do to the source and the products: nothing,
\* accept a model, make a product, give the model up, restart.
LEMMA Stutters ==
  ASSUME "read" \in cmps' <=> "read" \in cmps, source' = source,
         built' \cap PipelineProducts = built \cap PipelineProducts
  PROVE  AbstractStep
  BY DEF AbstractStep, Pipeline!pipelineVars

LEMMA Accepted ==
  ASSUME "read" \notin cmps, "read" \in cmps', built' = built,
         source' \in Model \cup {"partial"}
  PROVE  AbstractStep
  BY DEF AbstractStep, Pipeline!Next, Pipeline!Accept

LEMMA Made ==
  ASSUME NEW p \in PipelineProducts,
         "read" \in cmps, source # "none", p \notin built,
         PipelineNeeds[p] \subseteq built,
         p = "hierarchy" \/ source = "good",
         "read" \in cmps', source' = source,
         built' \cap PipelineProducts = (built \cap PipelineProducts) \cup {p}
  PROVE  AbstractStep
  <1>1. PipelineNeeds[p] \subseteq PipelineProducts
    BY DEF PipelineNeeds, PipelineProducts
  <1>2. Pipeline!Make(p)
    BY <1>1 DEF Pipeline!Make
  <1> QED
    BY <1>2 DEF AbstractStep, Pipeline!Next

LEMMA GivenUp ==
  ASSUME "read" \in cmps, source # "none", "read" \notin cmps', built' = built,
         built \cap PipelineProducts = {}
  PROVE  AbstractStep
  BY DEF AbstractStep, Pipeline!Next, Pipeline!Reject

LEMMA Restarted ==
  ASSUME "read" \notin cmps', built' = {}
  PROVE  AbstractStep
  BY DEF AbstractStep, Pipeline!Next, Pipeline!Restart

\* A call that raises, dies or fills the cache is a stutter.
LEMMA NothingMade ==
  ASSUME UNCHANGED <<cmps, built, history>> PROVE AbstractStep
  BY Stutters DEF history

LEMMA FlattenStep ==
  ASSUME IInv, "read" \in cmps, "flat" \notin cmps, FlattenAsserts,
         FlattenJumps \/ FlattenRejects \/ FlattenSucceeds
  PROVE  AbstractStep
  <1> USE DEF IInv, FlattenAsserts
  <1>1. CASE FlattenJumps
    BY <1>1, Stutters DEF FlattenJumps, PipelineProducts
  <1>2. CASE FlattenRejects
    BY <1>2, GivenUp DEF FlattenRejects, PipelineProducts
  <1>3. CASE FlattenSucceeds
    <2>1. PipelineNeeds["hierarchy"] = {} /\ "hierarchy" \in PipelineProducts
      BY DEF PipelineNeeds, PipelineProducts
    <2> QED
      BY <1>3, <2>1, Made DEF FlattenSucceeds, PipelineProducts, history
  <1> QED
    BY <1>1, <1>2, <1>3

LEMMA FlattenHierarchyStep ==
  ASSUME IInv, NEW k \in Steps, FlattenHierarchy(k) PROVE AbstractStep
  BY NothingMade, FlattenStep DEF FlattenHierarchy, RaisesOnly, nusmvVars

LEMMA EncodesStep ==
  ASSUME IInv, {"flat", "enc"} \cap cmps = {"flat"}, Encodes,
         cmps' = cmps \cup {"enc"}, UNCHANGED history
  PROVE  AbstractStep
  <1>1. PipelineNeeds["bddEnc"] = {"hierarchy"} /\ "bddEnc" \in PipelineProducts
    BY DEF PipelineNeeds, PipelineProducts
  <1> QED
    BY <1>1, Made DEF Encodes, PipelineProducts, history, IInv

LEMMA EncodeVariablesStep ==
  ASSUME IInv, NEW order \in Orders, NEW k \in Steps, EncodeVariables(order, k)
  PROVE  AbstractStep
  <1>1. CASE LosesOrderFile /\ UNCHANGED <<cmps, history>>
    BY <1>1, Stutters DEF LosesOrderFile, PipelineProducts, history
  <1>2. CASE UNCHANGED <<cmps, built, history>>
    BY <1>2, NothingMade
  <1> QED
    BY <1>1, <1>2, EncodesStep DEF EncodeVariables, RaisesOnly, nusmvVars

LEMMA BuildFlatModelStep ==
  ASSUME IInv, NEW k \in Steps, BuildFlatModel(k) PROVE AbstractStep
  <1>1. CASE UNCHANGED <<cmps, built, history>>
    BY <1>1, NothingMade
  <1>2. CASE /\ {"flat", "sexp"} \cap cmps = {"flat"} /\ UNCHANGED history
             /\ built' = built \cup {"sexpFsm"} /\ cmps' = cmps \cup {"sexp"}
    <2>1. PipelineNeeds["sexpFsm"] = {"hierarchy"} /\ "sexpFsm" \in PipelineProducts
      BY DEF PipelineNeeds, PipelineProducts
    <2> QED
      BY <1>2, <2>1, Made DEF PipelineProducts, history, IInv
  <1> QED
    BY <1>1, <1>2 DEF BuildFlatModel, RaisesOnly, nusmvVars

LEMMA BuildModelStep ==
  ASSUME IInv, NEW k \in Steps, BuildModel(k) PROVE AbstractStep
  <1>1. CASE UNCHANGED <<cmps, built, history>>
    BY <1>1, NothingMade
  <1>2. CASE /\ {"sexp", "enc", "bdd"} \cap cmps = {"sexp", "enc"}
             /\ UNCHANGED history
             /\ built' = built \cup {"bddFsm"} /\ cmps' = cmps \cup {"bdd"}
    <2>1. /\ PipelineNeeds["bddFsm"] = {"bddEnc", "sexpFsm"}
          /\ "bddFsm" \in PipelineProducts
      BY DEF PipelineNeeds, PipelineProducts
    <2> QED
      BY <1>2, <2>1, Made DEF PipelineProducts, history, IInv
  <1> QED
    BY <1>1, <1>2 DEF BuildModel, RaisesOnly, nusmvVars

LEMMA LoadStep ==
  ASSUME NEW kind \in Model \cup Broken, Load(kind) \/ CommandReadModel(kind)
  PROVE  AbstractStep
  <1>1. CASE UNCHANGED <<cmps, built, history>>
    BY <1>1, NothingMade
  <1>2. CASE "read" \notin cmps /\ Accepts(kind) /\ kind \in Model \cup {"partial"}
             /\ UNCHANGED built
    BY <1>2, Accepted DEF Accepts
  <1> QED
    BY <1>1, <1>2 DEF Load, CommandReadModel, RaisesOnly, nusmvVars, TreeOf, Broken

\* Every step of the life cycle is a step of the pipeline, or a stutter.
LEMMA RefinementStep ==
  ASSUME IInv, [Next]_vars PROVE AbstractStep
  <1>1. CASE UNCHANGED vars
    BY <1>1, NothingMade DEF vars, history
  <1>2. CASE \/ InitNusmv \/ DeinitDown \/ DeinitStatistics \/ DeinitNusmv
             \/ ResetNusmv \/ CallDown
    <2>1. CASE InitNusmv
      BY <2>1, NothingMade, Restarted
         DEF InitNusmv, RaisesOnly, nusmvVars, Started, IInv
    <2>2. CASE DeinitDown \/ DeinitStatistics \/ CallDown
      BY <2>2, NothingMade DEF DeinitDown, DeinitStatistics, CallDown, nusmvVars
    <2>3. CASE DeinitNusmv \/ ResetNusmv
      BY <2>3, Restarted DEF DeinitNusmv, ResetNusmv, Stopped, Started
    <2> QED
      BY <1>2, <2>1, <2>2, <2>3
  <1>3. CASE \/ \E kind \in Model \cup Broken : Load(kind)
             \/ LoadMissingFile
             \/ \E kind \in Model \cup Broken : CommandReadModel(kind)
             \/ \E kind \in {"expr", "syntax", "lexer"} : ParseExpression(kind)
    BY <1>3, LoadStep, NothingMade
       DEF LoadMissingFile, ParseExpression, RaisesOnly, nusmvVars
  <1>4. CASE \/ Ready /\ FlattenHierarchy("none")
             \/ CommandFlatten \/ SymbTable
    <2>1. CASE CommandFlatten
      BY <2>1, NothingMade, FlattenStep DEF CommandFlatten, RaisesOnly, nusmvVars
    <2>2. CASE SymbTable
      BY <2>2, NothingMade, FlattenHierarchyStep DEF SymbTable, nusmvVars
    <2> QED
      BY <1>4, <2>1, <2>2, FlattenHierarchyStep
  <1>5. CASE \/ \E order \in Orders : Ready /\ EncodeVariables(order, "none")
             \/ CommandEncode \/ BddEncoding
    <2>1. CASE CommandEncode
      BY <2>1, NothingMade, EncodesStep DEF CommandEncode, RaisesOnly, nusmvVars
    <2>2. CASE BddEncoding
      BY <2>2, NothingMade, EncodeVariablesStep DEF BddEncoding, nusmvVars, Orders
    <2> QED
      BY <1>5, <2>1, <2>2, EncodeVariablesStep
  <1>6. CASE \/ Ready /\ BuildFlatModel("none")
             \/ Ready /\ BuildModel("none")
             \/ GetFlatHierarchy \/ GetPropDatabase
    BY <1>6, BuildFlatModelStep, BuildModelStep, NothingMade
       DEF GetFlatHierarchy, GetPropDatabase, Wraps, RaisesOnly, nusmvVars
  <1>7. CASE ComputeModel \/ ComputeStep
    BY <1>7, NothingMade, FlattenHierarchyStep, EncodeVariablesStep,
       BuildFlatModelStep, BuildModelStep
       DEF ComputeModel, ComputeStep, ComputeFlatten, ComputeEncode,
           ComputeFlatModel, ComputeBuildModel, Skips, RaisesOnly, nusmvVars
  <1> QED
    BY <1>1, <1>2, <1>3, <1>4, <1>5, <1>6, <1>7 DEF Next, Call, Ended

\* The detailed life cycle keeps the promise of the abstract pipeline.
THEOREM Refinement == Spec => PipelineSpec
  <1>1. Init => Pipeline!Init
    BY DEF Init, Pipeline!Init
  <1>2. IInv /\ [Next]_vars => [Pipeline!Next]_(Pipeline!pipelineVars)
    BY RefinementStep DEF AbstractStep
  <1> QED
    BY <1>1, <1>2, Invariance, PTL DEF Spec, PipelineSpec, Pipeline!Spec

-----------------------------------------------------------------------------
(* The global of mas().                                                    *)

\* What compute_model has made when it is done for mas().
Computed == todo = "none" /\ proc = "alive" => "bdd" \in cmps /\ up

MasTypeOK ==
    /\ answer \in Results
    /\ mas \in Nat /\ mas <= session
    /\ asking \in Where
    /\ handed \in Nat /\ handed <= session
    /\ parsed \in {"model", "expression"}

MasInv ==
    /\ MasTypeOK
    /\ {mas, handed} \subseteq {0, session} \cup kept
    /\ ~up => mas \in {0} \cup kept
    /\ mas # 0 /\ mas = session /\ up => "bdd" \in cmps
    /\ asking \in {"model", "fsm"} => Computed
    /\ asking = "fsm" => todo = "none" /\ proc = "alive"
    /\ "read" \in cmps /\ parsed = "model" => tree = source
    /\ todo # "none" \/ asking \in {"model", "fsm"} => answer = "over"
    /\ MainIsFound

-----------------------------------------------------------------------------
\* A step of mas(), too, is a call Lifecycle knows of, or none.
LEMMA MasStepIsStep == [MasNext]_allVars => [Next]_vars
  <1>1. ASSUME MasNext PROVE [Next]_vars
    <2>1. CASE ResetMas \/ MasCached \/ MasNoModel \/ MasNoMain
      BY <2>1 DEF ResetMas, MasCached, MasNoModel, MasNoMain
    <2>2. CASE \E given \in BOOLEAN : MasCompute(given)
      BY <2>2 DEF MasCompute, Next, Call
    <2>3. CASE MasComputeStep
      BY <2>3 DEF MasComputeStep, Next
    <2>4. CASE MasParse
      BY <2>4 DEF MasParse, Next, Call
    <2>5. CASE MasCreate
      BY <2>5 DEF MasCreate, Next, Call
    <2>6. CASE MasCall
      BY <2>6 DEF MasCall, Next
    <2>7. CASE MasEnded
      BY <2>7 DEF MasEnded, Next
    <2>8. CASE MasDown
      BY <2>8 DEF MasDown, Next, Call
    <2> QED
      BY <1>1, <2>1, <2>2, <2>3, <2>4, <2>5, <2>6, <2>7, <2>8 DEF MasNext, MasStep
  <1> QED
    BY <1>1 DEF allVars

\* mas() adds no behaviour to the life of NuSMV: all that is proved of
\* Lifecycle holds with it.
THEOREM Implements == MasSpec => Init /\ [][Next]_vars
  <1>1. MasInit => Init
    BY DEF MasInit
  <1> QED
    BY <1>1, MasStepIsStep, PTL DEF MasSpec

-----------------------------------------------------------------------------
(* What the steps of Lifecycle do to what MasInv speaks of.                *)

\* The flag of the BDD model stays set, and the tree is that of the model,
\* as long as the session lasts and nothing else is parsed.
Keeps ==
    /\ session' = session /\ up' = up
    /\ "bdd" \in cmps => "bdd" \in cmps'
    /\ "read" \in cmps' => "read" \in cmps
    /\ tree' = tree
    /\ "read" \in cmps' => source' = source
    /\ jumped' => jumped \/ tree \notin {"good", "badSpec"}

ParsesModel ==
    /\ session' = session /\ up' = up
    /\ cmps' = cmps \/ ("read" \notin cmps /\ cmps' = cmps \cup {"read"})
    /\ "read" \in cmps' /\ "read" \notin cmps => tree' = source'
    /\ "read" \in cmps' /\ "read" \in cmps =>
          last'.op = "parse" \/ tree' = tree
    /\ "read" \in cmps' /\ "read" \in cmps => source' = source
    /\ jumped' = jumped

NewSession ==
    \/ up /\ ~up' /\ session' = session /\ cmps' = {}
    \/ up' /\ session' = session + 1 /\ cmps' = {}

LEMMA FailsKeeps ==
  ASSUME NEW op, NEW e, RaisesOnly(op, e)
  PROVE  Keeps
  BY DEF RaisesOnly, nusmvVars, history, Same, Keeps

LEMMA FlattenKeeps ==
  ASSUME FlattenJumps \/ FlattenRejects \/ FlattenSucceeds, Same
  PROVE  Keeps
  BY DEF FlattenJumps, FlattenRejects, FlattenSucceeds, Same, history, Keeps

LEMMA FlattenHierarchyKeeps ==
  ASSUME NEW k, FlattenHierarchy(k)
  PROVE  Keeps
  BY FailsKeeps, FlattenKeeps DEF FlattenHierarchy, nusmvVars, history, Same, Keeps

LEMMA EncodeVariablesKeeps ==
  ASSUME NEW o, NEW k, EncodeVariables(o, k)
  PROVE  Keeps
  BY FailsKeeps DEF EncodeVariables, history, Same, Keeps

LEMMA BuildKeeps ==
  ASSUME NEW k, BuildFlatModel(k) \/ BuildModel(k)
  PROVE  Keeps
  BY FailsKeeps DEF BuildFlatModel, BuildModel, history, Same, Keeps

LEMMA GetKeeps ==
  ASSUME GetFlatHierarchy \/ GetPropDatabase
  PROVE  Keeps
  BY FailsKeeps DEF GetFlatHierarchy, GetPropDatabase, Wraps, nusmvVars, history, Same, Keeps

LEMMA FlattenEnds ==
  ASSUME NEW k, FlattenHierarchy(k), last'.res = "ok"
  PROVE  todo' = k
  <1>1. /\ ~RaisesOnly("flatten", "NoReadModel")
        /\ ~RaisesOnly("flatten", "AlreadyFlattened")
        /\ ~Raises("flatten", "CannotFlatten")
        /\ ~Dies("flatten", "abort")
    BY DEF RaisesOnly, Raises, Dies, Ends
  <1> QED
    BY <1>1 DEF FlattenHierarchy, Returns

\* A step of compute_model that does not succeed is its last.
LEMMA ComputeStepEnds ==
  ASSUME ComputeStep, last'.res # "ok"
  PROVE  todo' = "none"
  <1>1. ASSUME NEW op, NEW k, Returns(op, k) PROVE FALSE
    BY <1>1 DEF Returns, Ends
  <1>2. ASSUME NEW op, NEW e, RaisesOnly(op, e) PROVE todo' = "none"
    BY <1>2 DEF RaisesOnly, Raises
  <1>3. ASSUME NEW op, NEW e, Raises(op, e) \/ Dies(op, e) PROVE todo' = "none"
    BY <1>3 DEF Raises, Dies
  <1> QED
    BY <1>1, <1>2, <1>3
       DEF ComputeStep, ComputeFlatten, ComputeEncode, ComputeFlatModel, ComputeBuildModel,
           Skips, FlattenHierarchy, EncodeVariables, BuildFlatModel, BuildModel

LEMMA ComputeStepKeeps ==
  ASSUME IInv, ComputeStep
  PROVE  /\ Keeps
         /\ todo # "none"
         /\ last'.res = "ok" /\ todo' = "none" => "bdd" \in cmps'
  <1>1. CASE ComputeFlatten
    <2>1. last'.res = "ok" => todo' = "encode"
      BY <1>1, FlattenEnds DEF ComputeFlatten, Skips, Returns, Ends
    <2> QED
      BY <1>1, <2>1, FlattenHierarchyKeeps DEF ComputeFlatten, Skips, nusmvVars, history,
                                               Same, Keeps
  <1>2. CASE ComputeEncode
    <2>1. last'.res = "ok" => todo' = "flatModel"
      BY <1>2 DEF ComputeEncode, Skips, EncodeVariables, RaisesOnly, Raises, Returns,
                  Dies, Ends
    <2> QED
      BY <1>2, <2>1, EncodeVariablesKeeps DEF ComputeEncode, Skips, nusmvVars, history,
                                              Same, Keeps
  <1>3. CASE ComputeFlatModel
    <2>1. last'.res = "ok" => todo' = "model"
      BY <1>3 DEF ComputeFlatModel, Skips, BuildFlatModel, RaisesOnly, Raises, Returns, Ends
    <2> QED
      BY <1>3, <2>1, BuildKeeps DEF ComputeFlatModel, Skips, nusmvVars, history, Same, Keeps
  <1>4. CASE ComputeBuildModel
    <2>1. last'.res = "ok" => "bdd" \in cmps'
      BY <1>4 DEF ComputeBuildModel, Skips, BuildModel, RaisesOnly, Raises, Returns, Ends,
                  nusmvVars
    <2> QED
      BY <1>4, <2>1, BuildKeeps DEF ComputeBuildModel, Skips, nusmvVars, history, Same, Keeps
  <1> QED
    BY <1>1, <1>2, <1>3, <1>4 DEF ComputeStep

LEMMA ParseEffect ==
  ASSUME NEW kind, ParseExpression(kind)
  PROVE  ParsesModel
  BY DEF ParseExpression, ParsesModel, Returns, Raises, Ends, history, Same

LEMMA LoadEffect ==
  ASSUME NEW kind \in Model \cup Broken, Load(kind) \/ CommandReadModel(kind)
  PROVE  ParsesModel
  <1>1. ASSUME NEW op, NEW e, RaisesOnly(op, e) PROVE ParsesModel
    BY <1>1 DEF RaisesOnly, nusmvVars, history, Same, ParsesModel
  <1>2. CASE Load(kind)
    <2>1. kind \in Model => TreeOf(kind) = kind
      BY DEF TreeOf, Model
    <2> QED
      BY <1>1, <1>2, <2>1 DEF Load, Parses, Accepts, history, Same, ParsesModel
  <1>3. CASE CommandReadModel(kind)
    <2>1. TreeOf(kind) # "nil" => TreeOf(kind) = kind
      BY DEF TreeOf
    <2> QED
      BY <1>1, <1>3, <2>1 DEF CommandReadModel, Parses, Accepts, history, Same, ParsesModel
  <1> QED
    BY <1>2, <1>3

LEMMA SessionEffect ==
  ASSUME \/ InitNusmv \/ DeinitDown \/ DeinitStatistics \/ DeinitNusmv
         \/ ResetNusmv \/ CallDown
  PROVE  Keeps \/ NewSession
  <1>1. CASE InitNusmv
    <2>1. CASE ~up
      BY <1>1, <2>1, FailsKeeps DEF InitNusmv, Started, RaisesOnly, Raises, Returns, Ends, NewSession
    <2> QED
      BY <1>1, <2>1, FailsKeeps DEF InitNusmv
  <1>2. CASE DeinitDown \/ DeinitStatistics \/ CallDown
    BY <1>2 DEF DeinitDown, DeinitStatistics, CallDown, nusmvVars, history, Same, Keeps
  <1>3. CASE DeinitNusmv
    BY <1>3 DEF DeinitNusmv, Ready, Callable, NewSession
  <1>4. CASE ResetNusmv
    BY <1>4 DEF ResetNusmv, Started, NewSession
  <1> QED
    BY <1>1, <1>2, <1>3, <1>4

LEMMA CallEffect ==
  ASSUME IInv, Call
  PROVE  Keeps \/ ParsesModel \/ NewSession
  <1>1. CASE \/ InitNusmv \/ DeinitDown \/ DeinitStatistics \/ DeinitNusmv
             \/ ResetNusmv \/ CallDown
    BY <1>1, SessionEffect
  <1>2. CASE \/ \E kind \in Model \cup Broken : Load(kind)
             \/ \E kind \in Model \cup Broken : CommandReadModel(kind)
             \/ \E kind \in {"expr", "syntax", "lexer"} : ParseExpression(kind)
    BY <1>2, LoadEffect, ParseEffect
  <1>3. CASE LoadMissingFile
    BY <1>3, FailsKeeps DEF LoadMissingFile
  <1>4. CASE (Ready /\ FlattenHierarchy("none")) \/ CommandFlatten \/ SymbTable
    BY <1>4, FailsKeeps, FlattenKeeps, FlattenHierarchyKeeps
       DEF CommandFlatten, SymbTable, nusmvVars, history, Same, Keeps
  <1>5. CASE (\E order \in Orders : Ready /\ EncodeVariables(order, "none"))
             \/ CommandEncode \/ BddEncoding
    BY <1>5, FailsKeeps, EncodeVariablesKeeps
       DEF CommandEncode, BddEncoding, nusmvVars, history, Same, Keeps
  <1>6. CASE (Ready /\ BuildFlatModel("none")) \/ (Ready /\ BuildModel("none"))
    BY <1>6, BuildKeeps
  <1>7. CASE GetFlatHierarchy \/ GetPropDatabase
    BY <1>7, GetKeeps
  <1>8. CASE ComputeModel
    BY <1>8, FailsKeeps DEF ComputeModel, nusmvVars, history, Same, Keeps
  <1> QED
    BY <1>1, <1>2, <1>3, <1>4, <1>5, <1>6, <1>7, <1>8 DEF Call

-----------------------------------------------------------------------------
(* The invariant of mas().                                                 *)

LEMMA InitMasInv == MasInit => MasInv
  <1> SUFFICES ASSUME MasInit PROVE MasInv
    OBVIOUS
  <1>1. MasTypeOK
    <2>1. session = 0
      BY DEF MasInit, Init
    <2>2. answer \in Results /\ asking \in Where
      BY DEF MasInit, Results, Where
    <2>3. mas \in Nat /\ mas <= session /\ handed \in Nat /\ handed <= session
      BY <2>1 DEF MasInit
    <2>4. parsed \in {"model", "expression"}
      BY DEF MasInit
    <2> QED
      BY <2>2, <2>3, <2>4 DEF MasTypeOK
  <1>2. ~("read" \in cmps) /\ answer = "over" /\ handed = 0 /\ asking = "no"
    BY DEF MasInit, Init, Answers
  <1> QED
    BY <1>1, <1>2 DEF MasInit, Init, MasInv, Answers, MainIsFound

LEMMA SessionType == IInv => session \in Nat /\ up \in BOOLEAN /\ cmps \subseteq Flags
  BY MaxSessionsAssumption DEF IInv, DataOK, BoolOK

\* The calls that only read: the state of Lifecycle does not change.
LEMMA ReadsInv ==
  ASSUME IInv, MasInv, ResetMas \/ MasCached \/ MasNoModel
  PROVE  MasInv'
  BY SessionType DEF ResetMas, MasCached, MasNoModel, Idle, Callable, Answers, vars,
         MasInv, MasTypeOK, Results, MainIsFound, Computed

\* Without a session there is no model whose main could be lost.
LEMMA MasDownInv ==
  ASSUME IInv, MasInv, MasDown
  PROVE  MasInv'
  <1>1. ~up /\ UNCHANGED <<up, session, cmps, tree, source, jumped>> /\ todo' = "none"
    BY DEF MasDown, CallDown, Same, nusmvVars, history, NoFlags, NoStrings, NoCommands,
           Dies, Raises
  <1>2. ~("read" \in cmps) /\ ~jumped
    BY <1>1 DEF IInv, Safe, DownInv, FlattenInv
  <1> QED
    BY <1>1, <1>2, SessionType DEF MasDown, Idle, Callable, Answers, MasInv, MasTypeOK,
           Results, MainIsFound

\* A flattening that jumps finds the tree of a model that does not compile, or
\* that of an expression.
LEMMA JumpsOnLostTree ==
  ASSUME IInv, IInv', MasInv, Keeps, jumped', ~jumped
  PROVE  parsed = "model" => source \in {"partial", "undefined"}
  <1>1. "read" \in cmps
    BY DEF Keeps, IInv, Safe, FlattenInv
  <1>2. source \in Model \cup {"partial"}
    BY <1>1 DEF IInv, Safe, ReadTreeIsLive, DataOK
  <1> QED
    BY <1>1, <1>2 DEF Keeps, MasInv, Model

\* A step that keeps the session and the tree loses no main module.
LEMMA KeepsFinds ==
  ASSUME IInv, IInv', MasInv, Keeps, answer' \notin {"None", "segfault"},
         parsed' \in {parsed, "expression"}
  PROVE  MainIsFound'
  <1>1. CASE ~jumped'
    BY <1>1 DEF MainIsFound
  <1>2. CASE jumped'
    <2>1. source' = source
      BY <1>2 DEF Keeps, IInv, Safe, FlattenInv
    <2>2. parsed = "expression" \/ source \in {"partial", "undefined"}
      BY <1>2, JumpsOnLostTree DEF MasInv, MasTypeOK, MainIsFound
    <2> QED
      BY <2>1, <2>2 DEF MainIsFound
  <1> QED
    BY <1>1, <1>2

LEMMA NoMainInv ==
  ASSUME IInv, MasInv, MasNoMain
  PROVE  MasInv'
  <1>1. parsed = "model" => source \in {"partial", "undefined"}
    <2>1. tree \notin {"good", "badSpec"}
      BY DEF MasNoMain, FindsMain
    <2>2. parsed = "model" => tree = source
      BY DEF MasNoMain, MasInv
    <2>3. source \in Model \cup {"partial"}
      BY DEF MasNoMain, IInv, Safe, ReadTreeIsLive, DataOK
    <2> QED
      BY <2>1, <2>2, <2>3 DEF Model
  <1> QED
    BY <1>1, SessionType DEF MasNoMain, Idle, Callable, Answers, vars, MasInv, MasTypeOK, Results, Where,
           MainIsFound, Computed

LEMMA MasComputeInv ==
  ASSUME IInv, MasInv, NEW given, MasCompute(given)
  PROVE  MasInv'
  <1>1. todo' = "flatten" /\ UNCHANGED <<up, session, cmps, tree, source, jumped>>
    BY DEF MasCompute, ComputeModel, Returns, nusmvVars, history, Same
  <1> QED
    BY <1>1, SessionType DEF MasCompute, Idle, Callable, Answers, MasInv, MasTypeOK, Results, Where,
           MainIsFound, Computed

LEMMA MasComputeStepInv ==
  ASSUME IInv, IInv', MasInv, MasComputeStep
  PROVE  MasInv'
  <1>1. Keeps /\ todo # "none" /\ (last'.res = "ok" /\ todo' = "none" => "bdd" \in cmps')
    BY ComputeStepKeeps DEF MasComputeStep
  <1>2. up
    BY <1>1 DEF IInv, Safe, DownInv
  <1>3. CASE asking = "model" /\ last'.res # "ok"
    <2>1. asking' = "no" /\ answer' = "raised" /\ handed' = 0 /\ UNCHANGED <<mas, kept, parsed>>
      BY <1>3 DEF MasComputeStep, Answers
    <2>2. MasTypeOK'
      BY <1>1, <2>1, SessionType DEF Keeps, MasInv, MasTypeOK, Results, Where
    <2>3. MainIsFound'
      BY <1>1, <2>1, KeepsFinds
    <2> QED
      BY <1>1, <1>2, <1>3, <2>1, <2>2, <2>3, ComputeStepEnds
         DEF MasComputeStep, Keeps, MasInv
  <1>4. CASE ~(asking = "model" /\ last'.res # "ok")
    <2>1. UNCHANGED <<asking, answer, handed, mas, kept, parsed>>
      BY <1>4 DEF MasComputeStep
    <2>2. asking \in {"no", "model"} /\ answer = "over"
      BY <1>1 DEF MasComputeStep, MasInv
    <2>3. MainIsFound'
      BY <1>1, <2>1, <2>2, KeepsFinds
    <2> QED
      BY <1>1, <1>2, <1>4, <2>1, <2>2, <2>3, SessionType DEF Keeps, Answers, MasInv, MasTypeOK,
             Results, Where, Computed
  <1> QED
    BY <1>3, <1>4

LEMMA MasParseInv ==
  ASSUME IInv, MasInv, MasParse
  PROVE  MasInv'
  <1>1. /\ UNCHANGED <<up, session, cmps, source, jumped, mas, answer, handed, kept>>
        /\ todo' = "none" /\ proc' = "alive"
        /\ parsed' = "expression" \/ (parsed' = parsed /\ tree' = tree)
    BY DEF MasParse, ParseExpression, Returns, Raises, Ends, history, Same, vars
  <1>2. asking = "model" /\ asking' = "fsm" /\ todo = "none" /\ proc = "alive"
    BY DEF MasParse
  <1> QED
    BY <1>1, <1>2, SessionType DEF MasInv, MasTypeOK, Results, Where, MainIsFound, Computed, Answers

LEMMA MasCreateInv ==
  ASSUME IInv, IInv', MasInv, MasCreate
  PROVE  MasInv'
  <1>1. asking = "fsm" /\ asking' = "no" /\ UNCHANGED <<kept, parsed>>
    BY DEF MasCreate
  <1>2. Keeps
    BY GetKeeps DEF MasCreate
  <1>3. "bdd" \in cmps /\ up
    BY <1>1 DEF MasInv, Computed
  <1>4. todo' = "none"
    BY DEF MasCreate, GetPropDatabase, Wraps, RaisesOnly, Raises, Returns
  <1>5. mas' = session /\ answer' = "MAS" /\ handed' = session
    BY DEF MasCreate, Answers
  <1>6. MainIsFound'
    BY <1>1, <1>2, <1>5, KeepsFinds
  <1> QED
    BY <1>1, <1>2, <1>3, <1>4, <1>5, <1>6, SessionType
       DEF Keeps, MasInv, MasTypeOK, Results, Where, Computed

LEMMA MasCallInv ==
  ASSUME IInv, IInv', MasInv, MasCall
  PROVE  MasInv'
  <1>1. /\ asking = "no" /\ UNCHANGED <<mas, asking>> /\ answer' = "over" /\ handed' = 0
        /\ kept' = IF EndsSession /\ mas # 0 THEN kept \cup {session} ELSE kept
        /\ parsed' = CASE "read" \in cmps' \ cmps -> "model"
                       [] last'.op = "parse" -> "expression"
                       [] OTHER -> parsed
    BY DEF MasCall, Answers
  <1>2. Keeps \/ ParsesModel \/ NewSession
    BY CallEffect DEF MasCall, Answers
  <1>3. MainIsFound'
    <2>1. jumped' => "read" \in cmps'
      BY DEF IInv, Safe, FlattenInv
    <2>2. answer' \notin {"None", "segfault"}
      BY <1>1
    <2>3. CASE NewSession \/ ~jumped'
      BY <2>1, <2>2, <2>3 DEF NewSession, MainIsFound
    <2>4. CASE Keeps /\ jumped'
      <3>1. parsed' \in {parsed, "expression"}
        BY <1>1, <2>4 DEF Keeps
      <3> QED
        BY <2>2, <2>4, <3>1, KeepsFinds
    <2>5. CASE ParsesModel /\ jumped'
      <3>1. jumped /\ "read" \in cmps /\ source' = source
        BY <2>1, <2>5 DEF ParsesModel, IInv, Safe, FlattenInv
      <3>2. parsed' \in {parsed, "expression"}
        BY <1>1, <3>1
      <3> QED
        BY <2>2, <3>1, <3>2 DEF MasInv, MainIsFound
    <2> QED
      BY <1>2, <2>3, <2>4, <2>5
  <1>4. MasTypeOK'
    <2>1. session' \in {session, session + 1}
      BY <1>2 DEF Keeps, ParsesModel, NewSession
    <2>2. parsed' \in {"model", "expression"}
      BY <1>1 DEF MasInv, MasTypeOK
    <2> QED
      BY <1>1, <2>1, <2>2, SessionType DEF MasInv, MasTypeOK, Results, Answers
  <1>5. /\ ({mas, handed} \subseteq {0, session} \cup kept)'
        /\ (~up => mas \in {0} \cup kept)'
        /\ (mas # 0 /\ mas = session /\ up => "bdd" \in cmps)'
    <2>1. CASE Keeps \/ ParsesModel
      <3>1. session' = session /\ up' = up /\ ("bdd" \in cmps => "bdd" \in cmps')
        BY <2>1 DEF Keeps, ParsesModel
      <3> QED
        BY <1>1, <3>1, SessionType DEF MasInv, Answers
    <2>2. CASE NewSession
      <3>1. mas <= session /\ mas \in Nat
        BY SessionType DEF MasInv, MasTypeOK
      <3>2. mas \in {0} \cup kept'
        BY <1>1, <2>2, SessionType DEF NewSession, EndsSession, MasInv
      <3> QED
        BY <1>1, <2>2, <3>1, <3>2, SessionType DEF NewSession, Answers
    <2> QED
      BY <1>2, <2>1, <2>2
  <1>6. ("read" \in cmps /\ parsed = "model" => tree = source)'
    BY <1>1, <1>2 DEF Keeps, ParsesModel, NewSession, MasInv
  <1> QED
    BY <1>1, <1>3, <1>4, <1>5, <1>6 DEF MasInv, Answers

LEMMA MasNextIInv == IInv /\ [MasNext]_allVars => IInv'
  BY NextIInv, MasStepIsStep

LEMMA NextMasInv == IInv /\ MasInv /\ [MasNext]_allVars => MasInv'
  <1> SUFFICES ASSUME IInv, MasInv, [MasNext]_allVars PROVE MasInv'
    OBVIOUS
  <1>1. CASE UNCHANGED allVars
    BY <1>1 DEF allVars, vars, masVars, MasInv, MasTypeOK, Computed, MainIsFound
  <1>2. CASE MasEnded
    BY <1>2 DEF MasEnded, Ended, vars, masVars, MasInv, MasTypeOK, Computed, MainIsFound
  <1>3. IInv'
    BY MasNextIInv
  <1> QED
    BY <1>1, <1>2, <1>3, ReadsInv, MasDownInv, NoMainInv, MasComputeInv, MasComputeStepInv,
       MasParseInv, MasCreateInv, MasCallInv DEF MasNext, MasStep

THEOREM MasInvariance == MasSpec => [](IInv /\ MasInv)
  <1>1. MasInit => IInv /\ MasInv
    BY InitIInv, InitMasInv DEF MasInit
  <1>2. IInv /\ MasInv /\ [MasNext]_allVars => IInv' /\ MasInv'
    BY MasNextIInv, NextMasInv
  <1> QED
    BY <1>1, <1>2, PTL DEF MasSpec

\* What mas() returns wraps the FSM of this session, made of a model that
\* compiles, or of one that was ended without the reset.
THEOREM MasCurrent == MasSpec => []MasIsCurrent
  <1>1. IInv /\ MasInv => MasIsCurrent
    <2> SUFFICES ASSUME IInv, MasInv PROVE MasIsCurrent
      OBVIOUS
    <2>1. "bdd" \in cmps => "bddFsm" \in built
      BY DEF IInv, Safe, FlagsMatchStructures
    <2>2. "bddFsm" \in built => source = "good"
      BY DEF IInv, Safe, OnlySoundModels
    <2> QED
      BY <2>1, <2>2 DEF MasInv, MasIsCurrent
  <1> QED
    BY <1>1, MasInvariance, PTL

\* Nothing but a parse of the client's, or of mas() itself, keeps mas() and
\* flattening from finding the main module of a model that compiles.
THEOREM MasMainFound == MasSpec => []MainIsFound
  <1>1. IInv /\ MasInv => MainIsFound
    BY DEF MasInv
  <1> HIDE DEF MainIsFound
  <1> QED
    BY <1>1, MasInvariance, PTL

=============================================================================
