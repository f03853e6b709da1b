---------------------------- MODULE ArenaRecords ----------------------------
(* The answers of the arena transport, byte by byte.                          *)
(*                                                                            *)
(* Go writes an answer as records of fixed size; their arrays follow behind   *)
(* all the records.  The client reads it with offsets of its own.  The buffer *)
(* is never cleared: what an answer does not write is left from an earlier    *)
(* one.  The first half of a call is in ArenaRequests.                        *)
(*                                                                            *)
(* A record is described twice, as the encoder in Go writes it and as the     *)
(* reader in the client reads it.  Strings are numbers here, see ArenaStrings;*)
(* padding is left out.                                                       *)
EXTENDS ArenaRequests, Sequences, SequencesExt

CONSTANTS
    Given, None,    \* a value of the answer; zero
    Stale,          \* what an earlier answer left
    Lengths,        \* of a run of records that is not empty
    ArrayLength,    \* of an array that is not empty
    Presents(_)     \* which optional parts the answers of a kind have, as sets
                    \* of <<record, part>>

\* What was left is no value of this answer, no number and not the bits of a byte.
ASSUME ValuesAssumption ==
    /\ Given # None
    /\ Stale \notin {Given, None}
    /\ Stale \notin Nat
    /\ \A bits \in SUBSET (1..8) : Stale # bits
ASSUME LengthsAssumption == Lengths \subseteq Nat \ {0} /\ ArrayLength \in Nat \ {0}

\* Further stages of a call: "encode", "answered", "read".
VARIABLES
    answer,         \* what the handler returned
    todo,           \* the records the encoder is in, the innermost first
    memory,         \* the fields written, what they mean, arena.recOff and packOff
    got             \* what the client read

answerVars == <<answer, todo, memory, got>>
vars == <<stage, requestVars, answerVars>>
-----------------------------------------------------------------------------
(* Descriptions.  A part that is optional is there when the answer has the    *)
(* feature "when".                                                            *)

Part(form, name, off, size, when) ==
    [form |-> form, name |-> name, off |-> off, size |-> size, when |-> when]

Value(name, off, size) == Part("value", name, off, size, "always")
U32(name, off) == Value(name, off, 4)
U64(name, off) == Value(name, off, 8)

\* Go writes, or the client reads, only with the feature; Go writes zero without it.
When(feature, name, off, size) == Part("when", name, off, size, feature)
Zeroed(feature, name, off) == Part("zeroed", name, off, 4, feature)

\* Features as the bits of a field, from bit 0.
Flags(off, size, names) ==
    [form |-> "flags", name |-> "bits", off |-> off, size |-> size, when |-> "always",
     bits |-> names]

\* A pointer and a count; a pointer; a record inside the record.
OfRecords(form, name, off, size, record) ==
    [form |-> form, name |-> name, off |-> off, size |-> size, when |-> name, record |-> record]
Array(name, off, record) == OfRecords("array", name, off, 8, record)
Pointer(name, off, record) == OfRecords("pointer", name, off, 4, record)
PointerWhen(name, off, record) == OfRecords("pointerWhen", name, off, 4, record)
Inline(name, off, size, record) == OfRecords("inline", name, off, size, record)

\* The client takes a record for absent when its key is zero.
Key(name, off, size) == Part("key", name, off, size, "always")

Record(size, parts) == [size |-> size, parts |-> parts]

Number(size) == Record(size, <<Value("number", 0, size)>>)
-----------------------------------------------------------------------------
(* Go                                                                         *)

GoHandle == Record(16, <<U32("index", 0), U32("kind", 4), U32("path", 8)>>)

\* A type has at most one of the three values; those of a number and of a bool share
\* their bytes.
GoType == Record(156, <<
    U32("id", 0), U32("flags", 4), U32("objectFlags", 8), U32("target", 12),
    U32("freshType", 16), U32("regularType", 20), U32("objectType", 24),
    U32("indexType", 28), U32("checkType", 32), U32("extendsType", 36),
    U32("baseType", 40), U32("substConstraint", 44), U64("symbol", 48),
    U64("aliasSymbol", 56), Flags(69, 1, <<"string", "number", "bool">>),
    When("string", "valueString", 72, 4), When("number", "valueNumber", 80, 8),
    When("bool", "valueBool", 80, 1), When("fixedLength", "fixedLength", 64, 4),
    Flags(68, 1, <<"isThisType", "fixedLength", "readonly", "readonlyTrue">>),
    U32("intrinsicName", 88), Array("typeParameters", 92, "u32"),
    Array("outerTypeParameters", 100, "u32"), Array("localTypeParameters", 108, "u32"),
    Array("aliasTypeArguments", 116, "u32"), Array("texts", 124, "u32"),
    Array("elementFlags", 132, "u8"), Array("labeledElementDeclarations", 140, "handle"),
    U32("thisType", 148), U32("escapedName", 152)>>)

GoSymbol == Record(72, <<
    U64("id", 0), U32("project", 8), U32("name", 12), U32("flags", 16),
    U32("checkFlags", 20), Array("declarations", 24, "handle"),
    Inline("valueDeclaration", 32, 16, "handle"), U64("parent", 48), U64("exportSymbol", 56),
    Flags(64, 4, <<"hasGlobalExports">>)>>)

GoSignature == Record(64, <<
    U64("id", 0), U32("flags", 8), Inline("declaration", 12, 16, "handle"),
    Array("typeParameters", 28, "u32"), Array("parameters", 36, "u64"),
    U64("thisParameter", 44), U64("target", 52)>>)

GoDisplayPart == Record(8, <<U32("text", 0), U32("kind", 4)>>)

GoTag == Record(12, <<U32("name", 0), Array("text", 4, "displayPart")>>)

GoQuickinfo == Record(48, <<
    U32("kind", 0), U32("kindModifiers", 4), U32("start", 8), U32("length", 12),
    U32("displayString", 16), Array("documentation", 20, "displayPart"),
    Array("tags", 28, "tag"), Flags(36, 1, <<"canIncrease", "canIncreaseTrue">>),
    Array("displayParts", 40, "displayPart")>>)

GoDefinition == Record(48, <<
    U32("fileName", 0), U32("start", 4), U32("length", 8),
    Zeroed("context", "contextStart", 12), Zeroed("context", "contextLength", 16),
    U32("kind", 20), U32("name", 24), Zeroed("containerKind", "containerKind", 28),
    Zeroed("containerName", "containerName", 32), Array("displayParts", 36, "displayPart"),
    Flags(44, 1, <<"context", "containerKind", "containerName", "unverified", "isLocal",
        "isAmbient", "failedAliasResolution">>),
    Flags(45, 1, <<"unverifiedTrue", "isLocalTrue", "isAmbientTrue",
        "failedAliasResolutionTrue">>)>>)

GoReference == Record(24, <<
    U32("fileName", 0), U32("start", 4), U32("length", 8),
    Zeroed("context", "contextStart", 12), Zeroed("context", "contextLength", 16),
    Flags(20, 1, <<"context", "isWriteAccess", "isDefinition", "isDefinitionTrue",
        "isInString">>)>>)

GoReferencedSymbol == Record(56, <<
    Inline("definition", 0, 48, "definition"), Array("references", 48, "reference")>>)

GoDefinitionAndBoundSpan == Record(16, <<
    U32("start", 0), U32("length", 4), Array("definitions", 8, "definition")>>)

GoJSDocTag == Record(8, <<U32("name", 0), U32("text", 4)>>)

GoLightSymbol == Record(32, <<
    U64("id", 0), U32("project", 8), U32("name", 12), U32("flags", 16),
    U32("checkFlags", 20), U64("parent", 24)>>)

GoAmbientModule == Record(40, <<
    U32("moduleName", 0), Inline("moduleSymbol", 8, 32, "lightSymbol")>>)

GoAmbientModules == Record(8, <<Array("modules", 0, "ambientModule")>>)

GoExpandedParameters == Record(8, <<Array("lists", 0, "symbolIDs")>>)
GoSymbolIDs == Record(8, <<Array("ids", 0, "u64")>>)

GoAutoImportFix == Record(36, <<
    U32("kind", 0), U32("name", 4), U32("importKind", 8), U32("addAsTypeOnly", 12),
    U32("importIndex", 16), U32("namespacePrefix", 20), When("usagePosition", "line", 24, 4),
    When("usagePosition", "character", 28, 4),
    Flags(32, 4, <<"useRequire", "usagePosition">>)>>)

GoCompletionEntry == Record(96, <<
    U32("name", 0), U32("elementKind", 4), U32("kindModifiers", 8), U32("sortText", 12),
    U32("insertText", 16), U32("filterText", 20), U32("source", 24), U32("detail", 28),
    Zeroed("labelDetails", "labelDetail", 32), Zeroed("labelDetails", "labelDescription", 36),
    Zeroed("replacement", "replacementStart", 40),
    Zeroed("replacement", "replacementLength", 44), Array("commitCharacters", 48, "u32"),
    Pointer("symbol", 56, "symbol"), U32("kind", 60),
    Flags(64, 1, <<"hasAction", "isRecommended", "replacement", "labelDetails", "symbol",
        "data", "isPackageJsonImport", "autoImport">>), Zeroed("data", "moduleSpecifier", 68),
    Zeroed("data", "exportName", 72), Zeroed("data", "fileName", 76),
    Array("sourceDisplay", 80, "displayPart"),
    PointerWhen("autoImport", 88, "autoImportFix")>>)

GoCompletions == Record(32, <<
    Flags(0, 1, <<"isGlobal", "isMember", "isNewIdentifier", "isIncomplete">>),
    Flags(1, 1, <<"flags", "optionalSpan", "defaultCommitCharacters">>),
    Zeroed("flags", "flags", 4), Zeroed("optionalSpan", "optionalSpanStart", 8),
    Zeroed("optionalSpan", "optionalSpanLength", 12),
    Array("defaultCommitCharacters", 16, "u32"), Array("entries", 24, "completionEntry")>>)

GoSignatureHelpParameter == Record(24, <<
    U32("name", 0), Array("documentation", 4, "displayPart"),
    Array("displayParts", 12, "displayPart"), Flags(20, 1, <<"isOptional", "isRest">>)>>)

GoSignatureHelpItem == Record(52, <<
    Array("prefix", 0, "displayPart"), Array("suffix", 8, "displayPart"),
    Array("separator", 16, "displayPart"), Array("parameters", 24, "parameter"),
    Array("documentation", 32, "displayPart"), Array("tags", 40, "tag"),
    Flags(48, 1, <<"isVariadic">>)>>)

GoSignatureHelpItems == Record(28, <<
    U32("spanStart", 0), U32("spanLength", 4), U32("selectedItem", 8),
    U32("argumentIndex", 12), U32("argumentCount", 16), Array("items", 20, "item")>>)

\* The handler gives a span exactly when it allows the rename.
GoRenameInfo == Record(36, <<
    Flags(0, 1, <<"canRename", "kindModifiers">>), U32("fileToRename", 4),
    U32("displayName", 8), U32("fullDisplayName", 12), U32("kind", 16),
    Zeroed("kindModifiers", "kindModifiers", 20), Zeroed("canRename", "spanStart", 24),
    Zeroed("canRename", "spanLength", 28), U32("localizedErrorMessage", 32)>>)

GoRenameLocation == Record(32, <<
    U32("fileName", 0), U32("start", 4), U32("length", 8),
    Zeroed("context", "contextStart", 12), Zeroed("context", "contextLength", 16),
    U32("prefixText", 20), U32("suffixText", 24), Flags(28, 1, <<"context">>)>>)

GoLayout == [
    u8 |-> Number(1), u32 |-> Number(4), u64 |-> Number(8), handle |-> GoHandle,
    type |-> GoType, symbol |-> GoSymbol, signature |-> GoSignature,
    displayPart |-> GoDisplayPart, tag |-> GoTag, quickinfo |-> GoQuickinfo,
    definition |-> GoDefinition, reference |-> GoReference,
    referencedSymbol |-> GoReferencedSymbol, boundSpan |-> GoDefinitionAndBoundSpan,
    jsdocTag |-> GoJSDocTag, lightSymbol |-> GoLightSymbol, ambientModule |-> GoAmbientModule,
    ambientModules |-> GoAmbientModules, expandedParams |-> GoExpandedParameters,
    symbolIDs |-> GoSymbolIDs, autoImportFix |-> GoAutoImportFix,
    completionEntry |-> GoCompletionEntry, completionInfo |-> GoCompletions,
    parameter |-> GoSignatureHelpParameter, item |-> GoSignatureHelpItem,
    signatureHelp |-> GoSignatureHelpItems, renameInfo |-> GoRenameInfo,
    renameLocation |-> GoRenameLocation]

\* What a method answers with, by the client's table; the methods that are not here answer
\* with a type.
OtherResults == [
    symbol |-> {"getSymbolAtLocation", "getSymbolOfType", "getSymbolAtPosition",
        "getAliasedSymbol", "getImmediateAliasedSymbol", "getParentOfSymbol",
        "getExportSymbolOfSymbol", "resolveExternalModuleSymbol",
        "getAliasSymbolOfType", "getPropertySymbolOfDestructuringAssignment",
        "getExportSpecifierLocalTargetSymbol", "resolveExternalModuleName",
        "getTargetOfSignature", "getThisParameterOfSignature", "getPropertyOfType",
        "getModuleSymbolForSourceFile"},
    signature |-> {"getResolvedSignature", "getSignatureFromDeclaration"},
    types |-> {"getTypeArguments", "getBaseTypes", "getTypesOfType",
        "getTypeParametersOfType", "getOuterTypeParametersOfType",
        "getLocalTypeParametersOfType", "getAliasTypeArgumentsOfType",
        "getLocalTypeParametersOfClassOrInterfaceOrTypeAlias",
        "collectVisitedTypeParameters", "getTypeArgumentsForResolvedSignature",
        "getTypeParametersOfSignature"},
    symbols |-> {"getPropertiesOfType", "getParametersOfSignature", "getRootSymbols",
        "getExportsOfModule", "getExportsAndPropertiesOfModule", "getExportsOfSymbol",
        "getMembersOfSymbol", "getGlobalExportsOfSymbol",
        "getAugmentedPropertiesOfType", "getExactOptionalProperties",
        "getJsxIntrinsicTagNamesAt", "getAccessibleSymbolChain",
        "getSymbolsDeclarations", "getParentsOfSymbols"},
    bool |-> {"isArrayType", "symbolIsValue", "isEmptyAnonymousObjectType", "isLibType",
        "isNullableType", "isTupleType", "typeHasCallOrConstructSignatures",
        "containsArgumentsReference", "isDeclarationVisible",
        "isImplementationOfOverload", "isOptionalParameter",
        "requiresAddingImplicitUndefined", "hasEffectiveRestParameter"},
    string |-> {"typeToString", "getDocumentationComment", "getJsxFragmentFactory"},
    signatures |-> {"getSignaturesOfType",
        "getCandidateSignaturesForStringLiteralCompletions"},
    quickinfo |-> {"quickinfo"},
    referencedSymbols |-> {"references"},
    definitionAndBoundSpan |-> {"definitionAndBoundSpan"},
    jsdocTags |-> {"getJsDocTags"},
    expandedParams |-> {"getExpandedParameters"},
    ambientModules |-> {"getAmbientModules"},
    completionInfo |-> {"getCompletionsAtPosition"},
    signatureHelpItems |-> {"signatureHelp"},
    renameInfo |-> {"getRenameInfo"},
    renameLocations |-> {"getEditsForRename"}]
JsResult(method) ==
    IF \E kind \in DOMAIN OtherResults : method \in OtherResults[kind]
    THEN CHOOSE kind \in DOMAIN OtherResults : method \in OtherResults[kind]
    ELSE "type"

\* encodeResult: the records of a kind.
GoRecord == [
    type |-> "type", types |-> "type", symbol |-> "symbol", symbols |-> "symbol",
    signature |-> "signature", signatures |-> "signature", quickinfo |-> "quickinfo",
    referencedSymbols |-> "referencedSymbol", definitionAndBoundSpan |-> "boundSpan",
    jsdocTags |-> "jsdocTag", ambientModules |-> "ambientModules",
    completionInfo |-> "completionInfo", signatureHelpItems |-> "signatureHelp",
    renameInfo |-> "renameInfo", renameLocations |-> "renameLocation"]
Runs == {"types", "symbols", "signatures", "referencedSymbols", "jsdocTags", "renameLocations"}

\* The handlers' answers: a type with one value at most; a hole is a symbol of a
\* run, or a handle (an element without a label in labeledElementDeclarations).
Kinds == {JsResult(method) : method \in Methods} \cup {"null", "error"}
Consistent(present) ==
    /\ present \subseteq STRING \X STRING
    /\ ~({<<"type", "number">>, <<"type", "bool">>} \subseteq present)
    /\ \A pair \in present : pair[2] = "nil" => pair[1] \in {"symbol", "handle"}
ASSUME PresentsAssumption == \A kind \in Kinds : \A present \in Presents(kind) : Consistent(present)

\* Where a value stands in an answer: names of parts, and places in arrays.
Into(path, name) == Append(path, <<name, 0>>)
Item(path, i) == Append(path, <<"", i>>)
Top(name) == Into(<<>>, name)

Field(at, size, path, val) == [at |-> at, size |-> size, path |-> path, val |-> val]
Write(fields) == memory' = [memory EXCEPT !.fields = @ \cup fields]

\* The header is 16 bytes; the records start behind it.
HeaderEnd == 16
Buffer(fields, said, recOff, packOff) ==
    [fields |-> fields, said |-> said, recOff |-> recOff, packOff |-> packOff]
Begin == Buffer({}, {}, HeaderEnd, HeaderEnd)

Task(record, at, path, which) ==
    [record |-> record, next |-> 1, at |-> at, path |-> path, which |-> which]

\* Records one after another, the first with other features than the rest.
Run(record, n, at, path, which, others) ==
    [i \in 1..n |-> Task(record, at + GoLayout[record].size * (i - 1), Item(path, i),
                         IF i = 1 THEN which ELSE others)]

\* The arrays start behind all records.
PackOff(n, size) == HeaderEnd + 4 + n * size

\* records.
Records(n, record, which, others) ==
    LET size == GoLayout[record].size
    IN /\ memory' = Buffer({Field(HeaderEnd, 4, Top("count"), n)}, {},
                           HeaderEnd + 4 + n * size, PackOff(n, size))
       /\ todo' = Run(record, n, HeaderEnd + 4, <<>>, which, others)

ExpandedParameters(which) ==
    LET end == HeaderEnd + GoLayout["expandedParams"].size
    IN /\ memory' = Buffer({}, {}, end, end)
       /\ todo' = <<Task("expandedParams", HeaderEnd, <<>>, which)>>

\* One value without a record: a string's place, a byte.
Scalar(sizes, names) ==
    /\ memory' = Buffer({Field(HeaderEnd + (i - 1) * sizes, sizes, Top(names[i]), Given)
                            : i \in DOMAIN names},
                        {Top(names[i]) : i \in DOMAIN names},
                        HeaderEnd + Len(names) * sizes, HeaderEnd)
    /\ todo' = <<>>

\* HandleArenaRequest, from the handler's return, and encodeResult up to the
\* first record.
Respond(kind, n, first, others) ==
    /\ Handled
    /\ stage' = "encode"
    /\ answer' = [kind |-> kind, first |-> first, others |-> others]
    /\ CASE kind = "null" -> memory' = Begin /\ todo' = <<>>
         [] kind \in {"string", "error"} -> Scalar(4, <<"offset", "length">>)
         [] kind = "bool" -> Scalar(1, <<"bool">>)
         [] kind = "expandedParams" -> ExpandedParameters(first)
         [] OTHER -> Records(n, GoRecord[kind], first, others)
    /\ UNCHANGED got

(* The encoders, part by part.                                                *)

Current == Head(todo)
Parts == GoLayout[Current.record].parts
Now == Parts[Current.next]
At == Current.at + Now.off
Path == Into(Current.path, Now.name)
Features == {pair[2] : pair \in {q \in Current.which : q[1] = Current.record}}
Has(feature) == feature = "always" \/ feature \in Features
Rest ==
    IF Current.next = Len(Parts) THEN Tail(todo)
    ELSE <<[Current EXCEPT !.next = @ + 1]>> \o Tail(todo)

Nil == <<Current.record, "nil">> \in Current.which
Encoding(forms) ==
    /\ stage = "encode"
    /\ todo # <<>>
    /\ ~Nil
    /\ Now.form \in forms
    /\ UNCHANGED <<stage, answer, got, requestVars>>

PutWord ==
    /\ Encoding({"value", "zeroed", "when"})
    /\ memory' = [memory EXCEPT
           !.fields = @ \cup (IF Now.form = "when" /\ ~Has(Now.when) THEN {}
                              ELSE {Field(At, Now.size, Path, IF Has(Now.when) THEN Given ELSE None)}),
           !.said = @ \cup (IF Has(Now.when) THEN {Path} ELSE {})]
    /\ todo' = Rest

\* A bit that only says whether another part is there means nothing by itself.
Announces(parts, feature) ==
    \E i \in DOMAIN parts : parts[i].form # "flags" /\ parts[i].when = feature

PutFlags ==
    /\ Encoding({"flags"})
    /\ LET bits == {i \in DOMAIN Now.bits : Has(Now.bits[i])}
           meant == {Now.bits[i] : i \in {j \in bits : ~Announces(Parts, Now.bits[j])}}
       IN memory' = [memory EXCEPT
              !.fields = @ \cup {Field(At, Now.size, Item(Path, Now.off), bits)},
              !.said = @ \cup {Into(Path, feature) : feature \in meant}]
    /\ todo' = Rest

\* Room behind everything so far, then the elements.
PutArray ==
    /\ Encoding({"array"})
    /\ LET n == IF Has(Now.when) THEN ArrayLength ELSE 0
       IN /\ memory' = [memory EXCEPT
                 !.fields = @ \cup {
                     Field(At, 4, Into(Path, "pointer"), IF n = 0 THEN 0 ELSE memory.packOff),
                     Field(At + 4, 4, Into(Path, "count"), n)},
                 !.packOff = @ + n * GoLayout[Now.record].size]
          /\ todo' = Run(Now.record, n, memory.packOff, Path, Current.which,
                         answer.others) \o Rest

PutPointer ==
    /\ Encoding({"pointer", "pointerWhen"})
    /\ IF Has(Now.when)
       THEN /\ memory' = [memory EXCEPT
                   !.fields = @ \cup {Field(At, 4, Into(Path, "pointer"), memory.packOff)},
                   !.packOff = @ + GoLayout[Now.record].size]
            /\ todo' = <<Task(Now.record, memory.packOff, Path, Current.which)>> \o Rest
       ELSE /\ Write(IF Now.form = "pointer"
                     THEN {Field(At, 4, Into(Path, "pointer"), 0)} ELSE {})
            /\ todo' = Rest

PutInline ==
    /\ Encoding({"inline"})
    /\ UNCHANGED memory
    /\ todo' = <<Task(Now.record, At, Path,
                      IF Has(Now.when) THEN Current.which ELSE {<<Now.record, "nil">>})>> \o Rest

\* Mutant: a record that is not there leaves its slot as it was.
ZeroPart_Nothing(part, at, path) == {}

ZeroPart(part, at, path) ==
    CASE part.form = "flags" -> {Field(at, part.size, Item(path, part.off), {})}
      [] part.form = "array" -> {Field(at, 4, Into(path, "pointer"), 0),
                                 Field(at + 4, 4, Into(path, "count"), 0)}
      [] OTHER -> {Field(at, part.size, path, None)}

\* A record that is not there is all zero.
PutNil ==
    /\ stage = "encode"
    /\ todo # <<>>
    /\ Nil
    /\ Write(UNION {ZeroPart(Parts[i], Current.at + Parts[i].off,
                             Into(Current.path, Parts[i].name))
                    : i \in DOMAIN Parts})
    /\ todo' = Tail(todo)
    /\ UNCHANGED <<stage, answer, got, requestVars>>

\* finish: behind everything, the strings that are new to the client.
Finish ==
    /\ stage = "encode"
    /\ todo = <<>>
    /\ LET newStrOff == Max({memory.recOff, memory.packOff})
       IN Write({Field(0, 1, Top("kind"),
                       IF answer.kind \in {"null", "error"} THEN answer.kind ELSE "record"),
                 Field(8, 4, Into(Top("newStrings"), "pointer"), newStrOff),
                 Field(newStrOff, 4, Top("newStrings"), Given)})
    /\ stage' = "answered"
    /\ UNCHANGED <<answer, todo, got, requestVars>>
-----------------------------------------------------------------------------
(* The client                                                                 *)

JsHandle == Record(16, <<U32("index", 0), U32("kind", 4), U32("path", 8)>>)

JsType == Record(156, <<
    U32("id", 0), U32("flags", 4), U32("objectFlags", 8), U32("target", 12),
    U32("freshType", 16), U32("regularType", 20), U32("objectType", 24),
    U32("indexType", 28), U32("checkType", 32), U32("extendsType", 36),
    U32("baseType", 40), U32("substConstraint", 44), U64("symbol", 48),
    U64("aliasSymbol", 56),
    Flags(68, 1, <<"isThisType", "fixedLength", "readonly", "readonlyTrue">>),
    When("fixedLength", "fixedLength", 64, 4), Flags(69, 1, <<"string", "number", "bool">>),
    When("string", "valueString", 72, 4), When("number", "valueNumber", 80, 8),
    When("bool", "valueBool", 80, 1), U32("intrinsicName", 88),
    Array("typeParameters", 92, "u32"), Array("outerTypeParameters", 100, "u32"),
    Array("localTypeParameters", 108, "u32"), Array("aliasTypeArguments", 116, "u32"),
    Array("texts", 124, "u32"), Array("elementFlags", 132, "u8"),
    Array("labeledElementDeclarations", 140, "handle"), U32("thisType", 148),
    U32("escapedName", 152)>>)

JsSymbol == Record(72, <<
    Key("id", 0, 8), U32("project", 8), U32("name", 12), U32("flags", 16),
    U32("checkFlags", 20), Array("declarations", 24, "handle"),
    Inline("valueDeclaration", 32, 16, "handle"), U64("parent", 48), U64("exportSymbol", 56),
    Flags(64, 4, <<"hasGlobalExports">>)>>)

JsSignature == Record(64, <<
    U64("id", 0), U32("flags", 8), Inline("declaration", 12, 16, "handle"),
    Array("typeParameters", 28, "u32"), Array("parameters", 36, "u64"),
    U64("thisParameter", 44), U64("target", 52)>>)

JsDisplayPart == Record(8, <<U32("text", 0), U32("kind", 4)>>)

\* The tags of a quick info and of a signature.
JsTag == Record(12, <<U32("name", 0), Array("text", 4, "displayPart")>>)

JsQuickinfo == Record(48, <<
    U32("kind", 0), U32("kindModifiers", 4), U32("start", 8), U32("length", 12),
    U32("displayString", 16), Array("documentation", 20, "displayPart"),
    Array("tags", 28, "tag"), Flags(36, 1, <<"canIncrease", "canIncreaseTrue">>),
    Array("displayParts", 40, "displayPart")>>)

JsDefinition == Record(48, <<
    U32("fileName", 0), U32("start", 4), U32("length", 8),
    Flags(44, 1, <<"context", "containerKind", "containerName", "unverified", "isLocal",
        "isAmbient", "failedAliasResolution">>),
    Flags(45, 1, <<"unverifiedTrue", "isLocalTrue", "isAmbientTrue",
        "failedAliasResolutionTrue">>), When("context", "contextStart", 12, 4),
    When("context", "contextLength", 16, 4), U32("kind", 20), U32("name", 24),
    When("containerKind", "containerKind", 28, 4),
    When("containerName", "containerName", 32, 4), Array("displayParts", 36, "displayPart")>>)

JsReference == Record(24, <<
    Flags(20, 1, <<"context", "isWriteAccess", "isDefinition", "isDefinitionTrue",
        "isInString">>), U32("fileName", 0), U32("start", 4), U32("length", 8),
    When("context", "contextStart", 12, 4), When("context", "contextLength", 16, 4)>>)

JsReferencedSymbol == Record(56, <<
    Inline("definition", 0, 48, "definition"), Array("references", 48, "reference")>>)

JsDefinitionAndBoundSpan == Record(16, <<
    Array("definitions", 8, "definition"), U32("start", 0), U32("length", 4)>>)

JsJSDocTag == Record(8, <<U32("name", 0), U32("text", 4)>>)

JsLightSymbol == Record(32, <<
    Key("id", 0, 8), U32("project", 8), U32("name", 12), U32("flags", 16),
    U32("checkFlags", 20), U64("parent", 24)>>)

JsAmbientModules == Record(8, <<Array("modules", 0, "ambientModule")>>)
JsAmbientModule == Record(40, <<
    U32("moduleName", 0), Inline("moduleSymbol", 8, 32, "lightSymbol")>>)

JsExpandedParams == Record(8, <<Array("lists", 0, "symbolIDs")>>)
JsSymbolIDs == Record(8, <<Array("ids", 0, "u64")>>)

JsAutoImportFix == Record(36, <<
    Flags(32, 4, <<"useRequire", "usagePosition">>), U32("kind", 0), U32("name", 4),
    U32("importKind", 8), U32("addAsTypeOnly", 12), U32("importIndex", 16),
    U32("namespacePrefix", 20), When("usagePosition", "line", 24, 4),
    When("usagePosition", "character", 28, 4)>>)

JsCompletionEntry == Record(96, <<
    U32("name", 0), U32("elementKind", 4), U32("kindModifiers", 8), U32("sortText", 12),
    U32("insertText", 16), U32("filterText", 20), U32("source", 24), U32("detail", 28),
    U32("kind", 60),
    Flags(64, 1, <<"hasAction", "isRecommended", "replacement", "labelDetails", "symbol",
        "data", "isPackageJsonImport", "autoImport">>),
    When("labelDetails", "labelDetail", 32, 4),
    When("labelDetails", "labelDescription", 36, 4), PointerWhen("symbol", 56, "symbol"),
    When("replacement", "replacementStart", 40, 4),
    When("replacement", "replacementLength", 44, 4), Array("commitCharacters", 48, "u32"),
    When("data", "moduleSpecifier", 68, 4), When("data", "exportName", 72, 4),
    When("data", "fileName", 76, 4), PointerWhen("autoImport", 88, "autoImportFix"),
    Array("sourceDisplay", 80, "displayPart")>>)

JsCompletions == Record(32, <<
    Flags(0, 1, <<"isGlobal", "isMember", "isNewIdentifier", "isIncomplete">>),
    Flags(1, 1, <<"flags", "optionalSpan">>), Array("entries", 24, "completionEntry"),
    When("flags", "flags", 4, 4), When("optionalSpan", "optionalSpanStart", 8, 4),
    When("optionalSpan", "optionalSpanLength", 12, 4),
    Array("defaultCommitCharacters", 16, "u32")>>)

JsSignatureHelpParameter == Record(24, <<
    Flags(20, 1, <<"isOptional", "isRest">>), U32("name", 0),
    Array("documentation", 4, "displayPart"), Array("displayParts", 12, "displayPart")>>)

JsSignatureHelpItem == Record(52, <<
    Flags(48, 1, <<"isVariadic">>), Array("prefix", 0, "displayPart"),
    Array("suffix", 8, "displayPart"), Array("separator", 16, "displayPart"),
    Array("parameters", 24, "parameter"), Array("documentation", 32, "displayPart"),
    Array("tags", 40, "tag")>>)

JsSignatureHelpItems == Record(28, <<
    Array("items", 20, "item"), U32("spanStart", 0), U32("spanLength", 4),
    U32("selectedItem", 8), U32("argumentIndex", 12), U32("argumentCount", 16)>>)

JsRenameInfo == Record(36, <<
    Flags(0, 1, <<"canRename", "kindModifiers">>), U32("fileToRename", 4),
    U32("displayName", 8), U32("fullDisplayName", 12), U32("kind", 16),
    When("kindModifiers", "kindModifiers", 20, 4), When("canRename", "spanStart", 24, 4),
    When("canRename", "spanLength", 28, 4), U32("localizedErrorMessage", 32)>>)

JsRenameLocation == Record(32, <<
    U32("fileName", 0), U32("start", 4), U32("length", 8), Flags(28, 1, <<"context">>),
    When("context", "contextStart", 12, 4), When("context", "contextLength", 16, 4),
    U32("prefixText", 20), U32("suffixText", 24)>>)

JsLayout == [
    u8 |-> Number(1), u32 |-> Number(4), u64 |-> Number(8), handle |-> JsHandle,
    type |-> JsType, symbol |-> JsSymbol, signature |-> JsSignature,
    displayPart |-> JsDisplayPart, tag |-> JsTag, quickinfo |-> JsQuickinfo,
    definition |-> JsDefinition, reference |-> JsReference,
    referencedSymbol |-> JsReferencedSymbol, boundSpan |-> JsDefinitionAndBoundSpan,
    jsdocTag |-> JsJSDocTag, lightSymbol |-> JsLightSymbol, ambientModule |-> JsAmbientModule,
    ambientModules |-> JsAmbientModules, expandedParams |-> JsExpandedParams,
    symbolIDs |-> JsSymbolIDs, autoImportFix |-> JsAutoImportFix,
    completionEntry |-> JsCompletionEntry, completionInfo |-> JsCompletions,
    parameter |-> JsSignatureHelpParameter, item |-> JsSignatureHelpItem,
    signatureHelp |-> JsSignatureHelpItems, renameInfo |-> JsRenameInfo,
    renameLocation |-> JsRenameLocation]

\* What the client finds in bytes it takes for a value: nothing of this answer,
\* unless one field fills just these bytes and no other one reaches into them.
Look(at, size, path) ==
    LET there == {f \in memory.fields : f.at < at + size /\ at < f.at + f.size}
    IN IF \E f \in there : there = {f} /\ f.at = at /\ f.size = size /\ f.path = path
       THEN (CHOOSE f \in there : TRUE).val ELSE Stale

Read(path, val) == IF val = None THEN {} ELSE {<<path, val>>}

\* The features that a record's bits announce.
Bits(part, at, path) == Look(at + part.off, part.size, Item(Into(path, "bits"), part.off))
AreFlags(parts) == {i \in DOMAIN parts : parts[i].form = "flags"}

Announced(parts, at, path) ==
    UNION {LET bits == Bits(parts[i], at, path)
           IN IF bits = Stale THEN {}
              ELSE {parts[i].bits[b] : b \in bits \cap DOMAIN parts[i].bits}
           : i \in AreFlags(parts)}

Flagged(part, parts, features, path) ==
    {<<Into(path, f), Given>> : f \in
        {g \in features : \E i \in DOMAIN part.bits : g = part.bits[i] /\ ~Announces(parts, g)}}

\* A symbol or a signature without an id is not there.
Absent(parts, at, path) ==
    \E i \in DOMAIN parts :
        /\ parts[i].form = "key"
        /\ Look(at + parts[i].off, parts[i].size, Into(path, parts[i].name)) = None

\* What the read functions say of the record of a name at a place, given what
\* they say of the records in it.
Spot(name, at, path) == [name |-> name, at |-> at, path |-> path]
PartNames == UNION {{JsLayout[name].parts[i].name : i \in DOMAIN JsLayout[name].parts}
                    : name \in DOMAIN JsLayout}
Paths == Seq((PartNames \cup {""}) \X Nat)
Spots == [name : DOMAIN JsLayout, at : Nat, path : Paths]

GetArray(get, record, at, path) ==
    LET n == Look(at + 4, 4, Into(path, "count"))
        first == Look(at, 4, Into(path, "pointer"))
    IN IF n \notin Nat \/ first \notin Nat THEN {<<path, Stale>>}
       ELSE UNION {get[Spot(record, first + JsLayout[record].size * (i - 1), Item(path, i))]
                   : i \in 1..n}

GetPointer(get, record, at, path) ==
    LET first == Look(at, 4, Into(path, "pointer"))
    IN IF first \notin Nat THEN {<<path, Stale>>} ELSE get[Spot(record, first, path)]

GetPart(get, part, parts, features, at, path) ==
    CASE part.form \in {"value", "key", "when"} -> Read(path, Look(at, part.size, path))
      [] part.form = "flags" -> Flagged(part, parts, features, path)
      [] part.form = "array" -> GetArray(get, part.record, at, path)
      [] part.form = "pointerWhen" -> GetPointer(get, part.record, at, path)
      [] part.form = "inline" -> get[Spot(part.record, at, path)]

There(part, features) == part.form \notin {"when", "pointerWhen"} \/ part.when \in features

Reading(get, spot) ==
    LET parts == JsLayout[spot.name].parts
        features == Announced(parts, spot.at, spot.path)
    IN IF Absent(parts, spot.at, spot.path) THEN {}
       ELSE {<<Into(spot.path, "bits"), Stale>> :
                i \in {j \in AreFlags(parts) : Bits(parts[j], spot.at, spot.path) = Stale}}
            \cup UNION {GetPart(get, parts[i], parts, features, spot.at + parts[i].off,
                                Into(spot.path, parts[i].name))
                        : i \in {j \in DOMAIN parts : There(parts[j], features)}}

Get[spot \in Spots] == Reading(Get, spot)

\* arenaReaders.
JsReader == [
    type |-> "type", types |-> "type", symbol |-> "symbol", symbols |-> "symbol",
    signature |-> "signature", signatures |-> "signature", quickinfo |-> "quickinfo",
    referencedSymbols |-> "referencedSymbol", definitionAndBoundSpan |-> "boundSpan",
    jsdocTags |-> "jsdocTag", ambientModules |-> "ambientModules",
    completionInfo |-> "completionInfo", signatureHelpItems |-> "signatureHelp",
    renameInfo |-> "renameInfo", renameLocations |-> "renameLocation"]

ReadText == Read(Top("offset"), Look(16, 4, Top("offset")))
            \cup Read(Top("length"), Look(20, 4, Top("length")))

ReadRecords(name) ==
    LET n == Look(16, 4, Top("count"))
    IN IF n \notin Nat THEN {<<Top("count"), Stale>>}
       ELSE UNION {Get[Spot(name, 20 + JsLayout[name].size * (i - 1), Item(<<>>, i))] : i \in 1..n}

\* The table of strings grows before anything else is read.
NewStrings ==
    LET p == Look(8, 4, Into(Top("newStrings"), "pointer"))
    IN IF p \notin Nat THEN Stale ELSE Look(p, 4, Top("newStrings"))

\* response.
Decoded(kind) ==
    LET found == Look(0, 1, Top("kind"))
    IN CASE found = "null" -> {}
         [] found = "error" -> ReadText
         [] kind = "string" -> ReadText
         [] kind = "bool" -> Read(Top("bool"), Look(16, 1, Top("bool")))
         [] kind = "expandedParams" -> Get[Spot("expandedParams", 16, <<>>)]
         [] OTHER -> ReadRecords(JsReader[kind])
-----------------------------------------------------------------------------
Receive ==
    /\ stage = "answered"
    /\ stage' = "read"
    /\ got' = Decoded(answer.kind) \cup Read(Top("newStrings"), NewStrings)
    /\ UNCHANGED <<answer, todo, memory, requestVars>>

\* The caller has its result; the bytes are left for the next call.
Nothing == [kind |-> "null", first |-> {}, others |-> {}]

Return ==
    /\ stage = "read"
    /\ stage' = "idle"
    /\ answer' = Nothing
    /\ memory' = Begin
    /\ got' = {}
    /\ UNCHANGED <<requestVars, todo>>

Init ==
    /\ RequestInit
    /\ answer = Nothing
    /\ todo = <<>>
    /\ memory = Begin
    /\ got = {}

Next ==
    \/ \E method \in Methods : \E given \in Calls(method) : Send(method, given) /\ UNCHANGED answerVars
    \/ Dispatch /\ UNCHANGED answerVars
    \/ \E kind \in {JsResult(request.method), "null", "error"} :
         \E n \in IF kind \in Runs THEN {0} \cup Lengths ELSE {1} :
           \E first \in Presents(kind) : \E others \in {{}, first} :
             Respond(kind, n, first, others)
    \/ PutWord \/ PutFlags \/ PutArray \/ PutPointer \/ PutInline \/ PutNil
    \/ Finish
    \/ Receive
    \/ Return

Spec == Init /\ [][Next]_vars
-----------------------------------------------------------------------------
(* What must hold                                                             *)

\* The client reads what the handler returned: nothing is lost, nothing of an
\* earlier answer is read, and nothing of one part is taken for another.
AnswerWhole ==
    stage = "read" =>
        got = {<<path, Given>> : path \in memory.said \cup {Top("newStrings")}}
=============================================================================
