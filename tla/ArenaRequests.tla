---------------------------- MODULE ArenaRequests ----------------------------
(* The requests of the arena transport, byte by byte.                         *)
(*                                                                            *)
(* The client writes the parameters of a call at fixed places in front of the *)
(* buffer and Go reads them there.  Each side has a table of its own that     *)
(* says which parameters a method has and where; the tables are in two        *)
(* languages.  The buffer starts as zeros and is never cleared: where a       *)
(* request writes nothing, an earlier one is still to be read.                *)
(*                                                                            *)
(* A call goes on in ArenaRecords, with the answer.                           *)
(*                                                                            *)
(* The bytes of the texts and of the arrays of ids, which follow one another  *)
(* behind the fixed part, stand with the place that says where they are.      *)
EXTENDS Naturals

CONSTANTS
    Methods,        \* the methods called
    Excepted        \* those whose request RequestExact says nothing about

VARIABLES
    stage,          \* of the call: "idle", "sent", "handled"; ArenaRecords has the others
    request,        \* the method and the parameters the caller gave
    fixed,          \* what is in each byte of the fixed part
    seen            \* the parameters as the handler got them

requestVars == <<request, fixed, seen>>
-----------------------------------------------------------------------------
Param(form, name, off) == [form |-> form, name |-> name, off |-> off]

Byte(name, off) == Param("byte", name, off)
Word(name, off) == Param("word", name, off)
Long(name, off) == Param("long", name, off)
Text(name, off) == Param("text", name, off)         \* where it is, and its length
Handle(name, off) == Param("handle", name, off)     \* index, kind and a text
Ids(name, off) == Param("ids", name, off)           \* where they are, and how many

Width == [byte |-> 1, word |-> 4, long |-> 8, text |-> 8, handle |-> 16, ids |-> 8]

\* What a request puts into byte i of a parameter.  A parameter that is absent,
\* false or zero is written as zeros, a text as one of no length, a
\* verbosityLevel as -1.
Zero == <<>>
Content(p, i, given) == IF p.name \in given THEN <<p.form, p.name, i>> ELSE Zero

FixedPart == 0 .. 55
-----------------------------------------------------------------------------
(* The client                                                                 *)

JsMethods == [
    node |-> {"getTypeAtLocation", "getSymbolAtLocation", "getResolvedSignature",
        "containsArgumentsReference", "getContextualTypeForJsxAttribute",
        "getTypeArgumentConstraint", "getTypeOfAssignmentPattern",
        "isDeclarationVisible", "isImplementationOfOverload", "isOptionalParameter",
        "requiresAddingImplicitUndefined", "getJsxFragmentFactory",
        "getJsxIntrinsicTagNamesAt", "getPropertySymbolOfDestructuringAssignment",
        "getSignatureFromDeclaration", "getExportSpecifierLocalTargetSymbol",
        "resolveExternalModuleName"},
    contextual |-> {"getContextualType"},
    contextualArg |-> {"getContextualTypeForArgumentAtIndex"},
    type |-> {"getApparentType", "getBaseTypeOfLiteralType", "getNonNullableType",
        "getTypeArguments", "getBaseTypes", "getPropertiesOfType", "getSymbolOfType",
        "getTypesOfType", "getFreshTypeOfType", "getRegularTypeOfType",
        "getTargetOfType", "getThisTypeOfType", "getObjectTypeOfType",
        "getCheckTypeOfType", "getExtendsTypeOfType", "getBaseTypeOfType",
        "getTypeParametersOfType", "getOuterTypeParametersOfType",
        "getLocalTypeParametersOfType", "getAliasTypeArgumentsOfType", "isArrayType",
        "collectVisitedTypeParameters", "createArrayType", "createPromiseType",
        "getAugmentedPropertiesOfType", "getAwaitedType", "getBaseConstraintOfType",
        "getConstraintOfTypeParameter", "getDefaultFromTypeParameter",
        "getElementTypeOfArrayType", "getExactOptionalProperties",
        "getIndexedAccessIndexType", "getPromisedTypeOfPromise",
        "getWidenedLiteralType", "isEmptyAnonymousObjectType", "isLibType",
        "isNullableType", "isTupleType", "typeHasCallOrConstructSignatures",
        "getConstraintOfType", "getFalseTypeOfConditionalType",
        "getTrueTypeOfConditionalType", "getAliasSymbolOfType"},
    typeStr |-> {"typeToString"},
    typeKind |-> {"getSignaturesOfType"},
    symbolNode |-> {"getTypeOfSymbolAtLocation"},
    symbol |-> {"getTypeOfSymbol", "getDeclaredTypeOfSymbol", "getAliasedSymbol",
        "getImmediateAliasedSymbol", "getRootSymbols", "getExportsOfModule",
        "getExportsAndPropertiesOfModule", "getExportsOfSymbol", "getMembersOfSymbol",
        "getParentOfSymbol", "getExportSymbolOfSymbol", "getGlobalExportsOfSymbol",
        "getDocumentationComment", "resolveExternalModuleSymbol", "symbolIsValue",
        "getLocalTypeParametersOfClassOrInterfaceOrTypeAlias", "getJsDocTags"},
    filePos |-> {"getSymbolAtPosition", "references", "definitionAndBoundSpan",
        "getTypeAtPosition", "getModuleSymbolForSourceFile"},
    signature |-> {"getReturnTypeOfSignature", "getParametersOfSignature",
        "getRestTypeOfSignature", "getTypeArgumentsForResolvedSignature",
        "getTargetOfSignature", "getThisParameterOfSignature",
        "getTypeParametersOfSignature", "hasEffectiveRestParameter",
        "getExpandedParameters"},
    filePosHover |-> {"quickinfo"},
    intrinsic |-> {"getAnyType", "getBigIntType", "getBooleanType", "getESSymbolType",
        "getErrorType", "getNeverType", "getNonPrimitiveType", "getNullType",
        "getNumberType", "getOptionalType", "getPromiseLikeType", "getPromiseType",
        "getStringType", "getUndefinedType", "getUnknownType", "getVoidType",
        "getAnyAsyncIterableType", "getAmbientModules"},
    typeName |-> {"getPropertyOfType", "getTypeOfPropertyOfType",
        "getTypeOfPropertyOfContextualType"},
    literalStr |-> {"getStringLiteralType", "getBigIntLiteralType"},
    literalNum |-> {"getNumberLiteralType"},
    symbolChain |-> {"getAccessibleSymbolChain"},
    twoHandles |-> {"getCandidateSignaturesForStringLiteralCompletions"},
    thisAt |-> {"tryGetThisTypeAt"},
    symbolArray |-> {"getSymbolsDeclarations", "getParentsOfSymbols"},
    completions |-> {"getCompletionsAtPosition"},
    filePosReason |-> {"signatureHelp"},
    filePosRename |-> {"getRenameInfo", "getEditsForRename"}]

\* The client has no other way to call: request finds a method's shape here.
ASSUME MethodsAssumption ==
    \A method \in Methods : \E shape \in DOMAIN JsMethods : method \in JsMethods[shape]

JsHead == {Long("snapshot", 0), Text("project", 8)}
JsFile == {Text("file", 16), Word("position", 24)}

\* The case of a shape in request, which looks at the method for the two renames.
JsParams(shape, method) ==
    CASE shape = "node" -> {Handle("location", 16)}
      [] shape = "contextual" -> {Handle("location", 16), Word("contextFlags", 32)}
      [] shape = "contextualArg" -> {Handle("location", 16), Word("argIndex", 32)}
      [] shape = "type" -> {Word("type", 16)}
      [] shape = "typeKind" -> {Word("type", 16), Word("kind", 20)}
      [] shape = "typeStr" -> {Word("type", 16), Word("flags", 20), Handle("location", 24)}
      [] shape = "symbol" -> {Long("symbol", 16)}
      [] shape = "symbolNode" -> {Long("symbol", 16), Handle("location", 24)}
      [] shape = "filePos" -> JsFile
      [] shape = "filePosHover" ->
             JsFile \cup {Word("maximumHoverLength", 28), Word("verbosityLevel", 32)}
      [] shape = "intrinsic" -> {}
      [] shape = "typeName" -> {Word("type", 16), Text("name", 20)}
      [] shape = "literalStr" -> {Text("value", 16)}
      [] shape = "literalNum" -> {Long("value", 16)}
      [] shape = "symbolChain" ->
             {Long("symbol", 16), Handle("enclosingDeclaration", 24), Word("meaning", 40),
              Word("useOnlyExternalAliasing", 44)}
      [] shape = "twoHandles" -> {Handle("call", 16), Handle("editingArgument", 32)}
      [] shape = "thisAt" ->
             {Handle("location", 16), Word("includeGlobalThis", 32), Handle("container", 36)}
      [] shape = "symbolArray" -> {Ids("symbols", 16)}
      [] shape = "filePosReason" -> JsFile \cup {Text("triggerReason", 28)}
      [] shape = "filePosRename" /\ method = "getEditsForRename" ->
             JsFile \cup {Byte("findInStrings", 28), Byte("findInComments", 29),
                          Byte("prefixAndSuffix", 30)}
      [] shape = "filePosRename" /\ method # "getEditsForRename" ->
             JsFile \cup {Byte("allowRenameOfImportPath", 28), Byte("prefixAndSuffix", 29)}
      [] shape = "completions" ->
             JsFile \cup {Text("triggerCharacter", 28), Word("includeSymbol", 36),
                          Byte("moduleExports", 40), Byte("importStatements", 41),
                          Byte("optionalChain", 42), Byte("classMemberSnippets", 43),
                          Byte("objectLiteralSnippets", 44)}
      [] shape = "signature" -> {Long("signature", 16)}

JsShape(method) == CHOOSE shape \in DOMAIN JsMethods : method \in JsMethods[shape]
JsWrites(method) == JsHead \cup JsParams(JsShape(method), method)
-----------------------------------------------------------------------------
(* Go                                                                         *)

\* The classes of the first cases, and those of "record-shaped query classes".
HotMethods == [
    node |-> {"getTypeAtLocation", "getSymbolAtLocation", "getResolvedSignature"},
    contextual |-> {"getContextualType"},
    argument |-> {"getContextualTypeForArgumentAtIndex"},
    type |-> {"getApparentType", "getPropertiesOfType", "getSymbolOfType",
        "getBaseTypeOfLiteralType", "getNonNullableType", "getTypeArguments",
        "getBaseTypes", "getTypesOfType", "getFreshTypeOfType", "getRegularTypeOfType",
        "getTargetOfType", "getThisTypeOfType", "getObjectTypeOfType",
        "getCheckTypeOfType", "getExtendsTypeOfType", "getBaseTypeOfType",
        "getTypeParametersOfType", "getOuterTypeParametersOfType",
        "getLocalTypeParametersOfType", "getAliasTypeArgumentsOfType", "isArrayType"},
    symbolNode |-> {"getTypeOfSymbolAtLocation"},
    symbol |-> {"getTypeOfSymbol", "getDeclaredTypeOfSymbol"},
    filePos |-> {"getSymbolAtPosition", "references", "definitionAndBoundSpan"},
    typeKind |-> {"getSignaturesOfType"},
    signature |-> {"getReturnTypeOfSignature", "getParametersOfSignature"},
    typeStr |-> {"typeToString"},
    hover |-> {"quickinfo"}]

RecordMethods == [
    node |-> {"containsArgumentsReference", "getContextualTypeForJsxAttribute",
        "getTypeArgumentConstraint", "getTypeOfAssignmentPattern",
        "isDeclarationVisible", "isImplementationOfOverload", "isOptionalParameter",
        "requiresAddingImplicitUndefined", "getJsxFragmentFactory",
        "getJsxIntrinsicTagNamesAt", "getPropertySymbolOfDestructuringAssignment",
        "getSignatureFromDeclaration", "getExportSpecifierLocalTargetSymbol",
        "resolveExternalModuleName"},
    type |-> {"collectVisitedTypeParameters", "createArrayType", "createPromiseType",
        "getAugmentedPropertiesOfType", "getAwaitedType", "getBaseConstraintOfType",
        "getConstraintOfTypeParameter", "getDefaultFromTypeParameter",
        "getElementTypeOfArrayType", "getExactOptionalProperties",
        "getIndexedAccessIndexType", "getPromisedTypeOfPromise",
        "getWidenedLiteralType", "isEmptyAnonymousObjectType", "isLibType",
        "isNullableType", "isTupleType", "typeHasCallOrConstructSignatures",
        "getConstraintOfType", "getFalseTypeOfConditionalType",
        "getTrueTypeOfConditionalType", "getAliasSymbolOfType"},
    symbol |-> {"getAliasedSymbol", "getImmediateAliasedSymbol", "getRootSymbols",
        "getExportsOfModule", "getExportsAndPropertiesOfModule", "getExportsOfSymbol",
        "getMembersOfSymbol", "getParentOfSymbol", "getExportSymbolOfSymbol",
        "getGlobalExportsOfSymbol", "getDocumentationComment",
        "resolveExternalModuleSymbol", "symbolIsValue",
        "getLocalTypeParametersOfClassOrInterfaceOrTypeAlias", "getJsDocTags"},
    filePos |-> {"getTypeAtPosition"},
    help |-> {"signatureHelp"},
    signature |-> {"getRestTypeOfSignature", "getTypeArgumentsForResolvedSignature",
        "getTargetOfSignature", "getThisParameterOfSignature",
        "getTypeParametersOfSignature", "hasEffectiveRestParameter"},
    intrinsic |-> {"getAnyType", "getBigIntType", "getBooleanType", "getESSymbolType",
        "getErrorType", "getNeverType", "getNonPrimitiveType", "getNullType",
        "getNumberType", "getOptionalType", "getPromiseLikeType", "getPromiseType",
        "getStringType", "getUndefinedType", "getUnknownType", "getVoidType",
        "getAnyAsyncIterableType", "getAmbientModules"},
    expanded |-> {"getExpandedParameters"},
    typeName |-> {"getPropertyOfType", "getTypeOfPropertyOfType",
        "getTypeOfPropertyOfContextualType"},
    literalStr |-> {"getStringLiteralType", "getBigIntLiteralType"},
    literalNum |-> {"getNumberLiteralType"},
    file |-> {"getModuleSymbolForSourceFile"},
    symbolChain |-> {"getAccessibleSymbolChain"},
    twoHandles |-> {"getCandidateSignaturesForStringLiteralCompletions"},
    thisAt |-> {"tryGetThisTypeAt"},
    symbolArray |-> {"getSymbolsDeclarations", "getParentsOfSymbols"},
    renameInfo |-> {"getRenameInfo"},
    rename |-> {"getEditsForRename"},
    completions |-> {"getCompletionsAtPosition"}]

GoHead == {Long("snapshot", 0), Text("project", 8)}
GoFile == {Text("file", 16), Word("position", 24)}

\* The cases of handleArenaRequest, which are one per method, by their reads.
GoParams == [
    node |-> {Handle("location", 16)},
    contextual |-> {Handle("location", 16), Word("contextFlags", 32)},
    argument |-> {Handle("location", 16), Word("argIndex", 32)},
    type |-> {Word("type", 16)},
    symbolNode |-> {Long("symbol", 16), Handle("location", 24)},
    symbol |-> {Long("symbol", 16)},
    filePos |-> GoFile,
    help |-> GoFile \cup {Text("triggerReason", 28)},
    typeKind |-> {Word("type", 16), Word("kind", 20)},
    signature |-> {Long("signature", 16)},
    typeStr |-> {Word("type", 16), Word("flags", 20), Handle("location", 24)},
    hover |-> GoFile \cup {Word("maximumHoverLength", 28), Word("verbosityLevel", 32)},
    intrinsic |-> {},
    expanded |-> {Long("signature", 16), Word("skipUnionExpanding", 24)},
    typeName |-> {Word("type", 16), Text("name", 20)},
    literalStr |-> {Text("value", 16)},
    literalNum |-> {Long("value", 16)},
    file |-> {Text("file", 16)},
    symbolChain |-> {Long("symbol", 16), Handle("enclosingDeclaration", 24),
                     Word("meaning", 40), Word("useOnlyExternalAliasing", 44)},
    twoHandles |-> {Handle("call", 16), Handle("editingArgument", 32)},
    thisAt |-> {Handle("location", 16), Word("includeGlobalThis", 32),
                Handle("container", 36)},
    symbolArray |-> {Ids("symbols", 16)},
    renameInfo |-> GoFile \cup {Byte("allowRenameOfImportPath", 28),
                                Byte("prefixAndSuffix", 29)},
    rename |-> GoFile \cup {Byte("findInStrings", 28), Byte("findInComments", 29),
                            Byte("prefixAndSuffix", 30)},
    completions |-> GoFile \cup {Text("triggerCharacter", 28), Word("includeSymbol", 36),
                                 Byte("moduleExports", 40), Byte("importStatements", 41),
                                 Byte("optionalChain", 42), Byte("classMemberSnippets", 43),
                                 Byte("objectLiteralSnippets", 44)}]

GoFamily(method) ==
    CHOOSE family \in DOMAIN GoParams :
        \/ family \in DOMAIN HotMethods /\ method \in HotMethods[family]
        \/ family \in DOMAIN RecordMethods /\ method \in RecordMethods[family]
GoReads(method) == GoHead \cup GoParams[GoFamily(method)]

\* A parameter as Go finds it.
Found(p) ==
    LET bytes == [i \in 0 .. Width[p.form] - 1 |-> fixed[p.off + i]]
    IN CASE bytes = [i \in DOMAIN bytes |-> Content(p, i, {p.name})] -> "given"
         [] bytes = [i \in DOMAIN bytes |-> Zero] -> "absent"
         [] OTHER -> "garbled"
-----------------------------------------------------------------------------
(* A call                                                                     *)

\* What every caller gives; anything else may be left out, false, zero or empty.
Required == {"snapshot", "project", "file", "type", "symbol", "signature", "call",
             "editingArgument"}

Names(params) == {p.name : p \in params}
Calls(method) ==
    LET names == Names(GoReads(method))
    IN {(names \cap Required) \cup given : given \in SUBSET (names \ Required)}

\* Mutant: a handle or a text that is absent is not written.
Written_OnlyGiven(method, given) ==
    {p \in JsWrites(method) : p.form \in {"handle", "text"} => p.name \in given}

Written(method, given) == JsWrites(method)

NoRequest == [method |-> "", given |-> {}]

Places(p) == p.off .. p.off + Width[p.form] - 1

\* request, up to the call.
Send(method, given) ==
    /\ stage = "idle"
    /\ stage' = "sent"
    /\ request' = [method |-> method, given |-> given]
    /\ fixed' = [b \in FixedPart |->
            LET here == {p \in Written(method, given) : b \in Places(p)}
            IN IF here = {} THEN fixed[b]
               ELSE LET p == CHOOSE p \in here : TRUE IN Content(p, b - p.off, given)]
    /\ UNCHANGED seen

\* handleArenaRequest.
Dispatch ==
    /\ stage = "sent"
    /\ stage' = "handled"
    /\ seen' = {<<p.name, Found(p)>> : p \in GoReads(request.method)}
    /\ UNCHANGED <<request, fixed>>

\* The most that earlier calls can have left: every byte that a request of any
\* method puts something into.  Each of them alone can be there after one call.
Old == <<"old">>
Left == [b \in FixedPart |->
    IF \E method \in Methods : \E p \in JsWrites(method) : b \in Places(p)
    THEN Old ELSE Zero]

\* The handler has returned; the parameters are what is left of this call.
Handled ==
    /\ stage = "handled"
    /\ request' = NoRequest
    /\ seen' = {}
    /\ fixed' = Left

RequestInit ==
    /\ stage = "idle"
    /\ request = NoRequest
    /\ fixed = [b \in FixedPart |-> Zero]
    /\ seen = {}
-----------------------------------------------------------------------------
(* What must hold                                                             *)

\* The handler gets the parameters of this call: those the caller gave, the
\* others as absent, and none of an earlier request.  The client's table "must
\* mirror arena_dispatch.go and the Go handlers' return types exactly"
\* (tsgoTransport.ts:198-199).
RequestExact ==
    stage = "handled" /\ request.method \notin Excepted =>
        seen = {<<name, IF name \in request.given THEN "given" ELSE "absent">>
                   : name \in Names(GoReads(request.method))}

=============================================================================
