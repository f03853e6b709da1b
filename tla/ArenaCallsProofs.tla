--------------------------- MODULE ArenaCallsProofs ---------------------------
(***************************************************************************)
(* For every set of methods the client has, and every sequence of calls:   *)
(* the handler in Go gets the parameters its caller gave, and the caller   *)
(* gets the answer its handler returned.                                   *)
(*                                                                         *)
(* Requests.  The client's table and Go's are compared shape by shape.     *)
(* What Go reads for a method is among what the client writes for it, and  *)
(* what the client writes does not overlap; so each byte that Go looks at  *)
(* was written by this request, and nothing an earlier one left is read.   *)
(*                                                                         *)
(* Answers.  The layouts of the two sides are compared part by part, once. *)
(* While Go encodes an answer, every part still to be written has its room *)
(* to itself (Room), and every record is written or still ahead, with all  *)
(* that was written among what the answer says (Encoded).  Reading goes by *)
(* rank: a record stands in records of a higher rank only, so what holds   *)
(* of the records below holds of the records that contain them.            *)
(***************************************************************************)
EXTENDS ArenaRecords, TLAPS

-----------------------------------------------------------------------------
(* The two tables. *)

\* No method stands in two classes of the client's table.
LEMMA ShapeOf ==
    ASSUME NEW shape \in DOMAIN JsMethods, NEW method \in JsMethods[shape]
    PROVE  JsShape(method) = shape
  BY DEF JsMethods, JsShape

Shapes == {"node", "contextual", "contextualArg", "type", "typeStr", "typeKind", "typeName",
           "symbolNode", "symbol", "signature", "filePos", "filePosHover", "filePosReason",
           "filePosRename", "intrinsic", "literalStr", "literalNum", "symbolArray", "symbolChain",
           "twoHandles", "thisAt", "completions"}

\* The shapes for which Go's table has another name, or more than one case.
Renamed == {"contextualArg", "filePos", "filePosHover", "filePosReason", "filePosRename"}

\* Every method the client has is known to Go, and Go's class of it follows from
\* the client's.
LEMMA FamilyOf ==
    ASSUME NEW shape \in DOMAIN JsMethods, NEW method \in JsMethods[shape],
           method # "getExpandedParameters"
    PROVE  /\ shape \in Shapes
           /\ shape \notin Renamed => GoFamily(method) = shape
           /\ shape = "contextualArg" => GoFamily(method) = "argument"
           /\ shape = "filePos" => GoFamily(method) \in {"filePos", "file"}
           /\ shape = "filePosHover" => GoFamily(method) = "hover"
           /\ shape = "filePosReason" => GoFamily(method) = "help"
           /\ shape = "filePosRename" =>
                 GoFamily(method) = IF method = "getEditsForRename" THEN "rename" ELSE "renameInfo"
  <1> USE DEF JsMethods, GoParams, GoFamily, HotMethods, RecordMethods
  <1>1. shape \in Shapes
    BY DEF Shapes
  <1>2. shape \notin Renamed => GoFamily(method) = shape
    BY DEF Renamed
  <1>3. shape = "contextualArg" => GoFamily(method) = "argument"
    OBVIOUS
  <1>4. shape = "filePos" => GoFamily(method) \in {"filePos", "file"}
    OBVIOUS
  <1>5. shape = "filePosHover" => GoFamily(method) = "hover"
    OBVIOUS
  <1>6. shape = "filePosReason" => GoFamily(method) = "help"
    OBVIOUS
  <1>7. shape = "filePosRename" =>
            GoFamily(method) = IF method = "getEditsForRename" THEN "rename" ELSE "renameInfo"
    OBVIOUS
  <1> HIDE DEF JsMethods, GoParams, GoFamily, HotMethods, RecordMethods
  <1> QED  BY <1>1, <1>2, <1>3, <1>4, <1>5, <1>6, <1>7

\* The client writes every parameter that Go reads, at the same place and in the
\* same form, but for the flag of getExpandedParameters.
LEMMA Mirrored ==
    ASSUME NEW method \in Methods, method # "getExpandedParameters"
    PROVE  GoReads(method) \subseteq JsWrites(method)
  <1>1. PICK shape \in DOMAIN JsMethods : method \in JsMethods[shape]
    BY MethodsAssumption
  <1>2. JsShape(method) = shape
    BY <1>1, ShapeOf
  <1>3. \A name \in Shapes \ Renamed : GoParams[name] = JsParams(name, method)
    <2>1. /\ GoParams["node"] = JsParams("node", method)
          /\ GoParams["contextual"] = JsParams("contextual", method)
          /\ GoParams["type"] = JsParams("type", method)
          /\ GoParams["typeStr"] = JsParams("typeStr", method)
      BY DEF GoParams, JsParams
    <2>2. /\ GoParams["typeKind"] = JsParams("typeKind", method)
          /\ GoParams["typeName"] = JsParams("typeName", method)
          /\ GoParams["symbolNode"] = JsParams("symbolNode", method)
          /\ GoParams["symbol"] = JsParams("symbol", method)
      BY DEF GoParams, JsParams
    <2>3. /\ GoParams["signature"] = JsParams("signature", method)
          /\ GoParams["intrinsic"] = JsParams("intrinsic", method)
          /\ GoParams["literalStr"] = JsParams("literalStr", method)
          /\ GoParams["literalNum"] = JsParams("literalNum", method)
      BY DEF GoParams, JsParams
    <2>4. /\ GoParams["symbolArray"] = JsParams("symbolArray", method)
          /\ GoParams["symbolChain"] = JsParams("symbolChain", method)
          /\ GoParams["twoHandles"] = JsParams("twoHandles", method)
          /\ GoParams["thisAt"] = JsParams("thisAt", method)
      BY DEF GoParams, JsParams
    <2>5. GoParams["completions"] = JsParams("completions", method)
      BY DEF GoParams, JsParams, GoFile, JsFile
    <2> QED  BY <2>1, <2>2, <2>3, <2>4, <2>5 DEF Shapes, Renamed
  <1>4. GoParams["argument"] = JsParams("contextualArg", method)
    BY DEF GoParams, JsParams
  <1>5. GoParams["filePos"] = JsFile /\ GoParams["file"] \subseteq JsFile
    BY DEF GoParams, GoFile, JsFile
  <1>6. JsParams("filePos", method) = JsFile
    BY DEF JsParams
  <1>7. /\ GoParams["hover"] = JsParams("filePosHover", method)
        /\ GoParams["help"] = JsParams("filePosReason", method)
    BY DEF GoParams, GoFile, JsParams, JsFile
  <1>8. GoParams[IF method = "getEditsForRename" THEN "rename" ELSE "renameInfo"]
            = JsParams("filePosRename", method)
    BY DEF GoParams, GoFile, JsParams, JsFile
  <1>9. GoParams[GoFamily(method)] \subseteq JsParams(shape, method)
    <2>1. CASE shape \notin Renamed
      BY <1>1, <1>3, <2>1, FamilyOf
    <2>2. CASE shape \in Renamed
      BY <1>1, <1>4, <1>5, <1>6, <1>7, <1>8, <2>2, FamilyOf DEF Renamed
    <2> QED  BY <2>1, <2>2
  <1> QED  BY <1>2, <1>9 DEF JsWrites, JsHead, GoReads, GoHead

\* Every parameter has its place in the fixed part.
LEMMA Placed ==
    ASSUME NEW method \in Methods, NEW p \in JsWrites(method)
    PROVE  /\ p = [form |-> p.form, name |-> p.name, off |-> p.off]
           /\ p.form \in DOMAIN Width /\ p.off \in Nat /\ p.off + Width[p.form] <= 56
  <1>1. PICK shape \in DOMAIN JsMethods : method \in JsMethods[shape]
    BY MethodsAssumption
  <1>2. JsShape(method) = shape
    BY <1>1, ShapeOf
  <1> QED  BY <1>1, <1>2 DEF JsMethods, JsWrites, JsParams, JsHead, JsFile, Width,
                             Param, Byte, Word, Long, Text, Handle, Ids

\* No two parameters of a request share a byte.
LEMMA Apart ==
    ASSUME NEW method \in Methods, NEW p \in JsWrites(method), NEW q \in JsWrites(method),
           NEW b, b \in Places(p), b \in Places(q)
    PROVE  p = q
  <1>1. PICK shape \in DOMAIN JsMethods : method \in JsMethods[shape]
    BY MethodsAssumption
  <1>2. JsShape(method) = shape
    BY <1>1, ShapeOf
  <1>3. \A x \in {p, q} : b \in x.off .. x.off + Width[x.form] - 1
    BY DEF Places
  <1> USE <1>1, <1>2, <1>3 DEF JsWrites, JsParams, JsHead, JsFile, Width, Param, Byte, Word,
                               Long, Text, Handle, Ids
  <1>4. CASE shape \in {"node", "contextual", "contextualArg", "type", "typeStr", "typeKind"}
    BY <1>4
  <1>5. CASE shape \in {"symbolNode", "symbol", "signature", "intrinsic", "typeName",
                        "literalStr", "literalNum", "symbolArray"}
    BY <1>5
  <1>6. CASE shape \in {"filePos", "filePosHover", "filePosReason"}
    BY <1>6
  <1>7. CASE shape \in {"symbolChain", "twoHandles", "thisAt"}
    BY <1>7
  <1>8. CASE shape = "filePosRename"
    BY <1>8
  <1>9. CASE shape = "completions"
    BY <1>9
  <1> QED  BY <1>4, <1>5, <1>6, <1>7, <1>8, <1>9 DEF JsMethods

-----------------------------------------------------------------------------
(* A call. *)

\* Every byte of every parameter that is written is this request's.
Delivered ==
    stage = "sent" =>
        /\ request.method \in Methods
        /\ \A p \in JsWrites(request.method) :
              \A i \in 0 .. Width[p.form] - 1 : fixed[p.off + i] = Content(p, i, request.given)

\* request writes whole parameters.
LEMMA SendDelivers ==
    ASSUME NEW method \in Methods, NEW given, Send(method, given)
    PROVE  Delivered'
  <1> SUFFICES ASSUME NEW p \in JsWrites(method), NEW i \in 0 .. Width[p.form] - 1
               PROVE  fixed'[p.off + i] = Content(p, i, given)
    <2>1. request'.method = method /\ request'.given = given
      BY DEF Send
    <2> QED  BY <2>1 DEF Delivered
  <1> DEFINE b == p.off + i
  <1>1. b \in FixedPart /\ b \in Places(p) /\ b - p.off = i
    BY Placed DEF FixedPart, Places, Width
  <1>2. {q \in Written(method, given) : b \in Places(q)} = {p}
    BY <1>1, Apart DEF Written
  <1>3. fixed'[b] = LET q == CHOOSE q \in {p} : TRUE IN Content(q, b - q.off, given)
    BY <1>1, <1>2 DEF Send
  <1> QED  BY <1>1, <1>3

\* What Go finds of a parameter that has been written.
LEMMA FoundWhole ==
    ASSUME NEW p, NEW given, p.form \in DOMAIN Width,
           \A i \in 0 .. Width[p.form] - 1 : fixed[p.off + i] = Content(p, i, given)
    PROVE  Found(p) = IF p.name \in given THEN "given" ELSE "absent"
  <1> DEFINE bytes == [i \in 0 .. Width[p.form] - 1 |-> fixed[p.off + i]]
  <1>1. bytes = [i \in DOMAIN bytes |-> Content(p, i, given)]
    OBVIOUS
  <1>2. 0 \in DOMAIN bytes
    BY DEF Width
  <1>3. Content(p, 0, {p.name}) # Zero
    BY DEF Content, Zero
  <1>4. CASE p.name \in given
    <2>1. bytes = [i \in DOMAIN bytes |-> Content(p, i, {p.name})]
      BY <1>1, <1>4 DEF Content
    <2>2. bytes # [i \in DOMAIN bytes |-> Zero]
      BY <2>1, <1>2, <1>3
    <2> QED  BY <2>1, <2>2, <1>4 DEF Found
  <1>5. CASE p.name \notin given
    <2>1. bytes = [i \in DOMAIN bytes |-> Zero]
      BY <1>1, <1>5 DEF Content
    <2>2. bytes # [i \in DOMAIN bytes |-> Content(p, i, {p.name})]
      BY <2>1, <1>2, <1>3
    <2> QED  BY <2>1, <2>2, <1>5 DEF Found
  <1> QED  BY <1>4, <1>5

\* The handler is given what was sent.
LEMMA DispatchExact ==
    ASSUME "getExpandedParameters" \in Excepted, Delivered, Dispatch
    PROVE  RequestExact'
  <1> SUFFICES ASSUME request.method \notin Excepted
               PROVE  seen' = {<<name, IF name \in request.given THEN "given" ELSE "absent">>
                                  : name \in Names(GoReads(request.method))}
    BY DEF RequestExact, Dispatch
  <1>1. request.method \in Methods /\ GoReads(request.method) \subseteq JsWrites(request.method)
    BY Mirrored DEF Dispatch, Delivered
  <1>2. \A p \in GoReads(request.method) :
            Found(p) = IF p.name \in request.given THEN "given" ELSE "absent"
    BY <1>1, Placed, FoundWhole DEF Delivered, Dispatch
  <1> QED  BY <1>2 DEF Dispatch, Names

\* A request is never garbled: for every set of methods of the client, with
\* getExpandedParameters excepted (the client has no way to send its flag, which
\* tsgoTransport.ts:198-199 says its table would mirror), every handler gets
\* the parameters given to the call, whatever was called before.
THEOREM RequestsExact ==
    ASSUME "getExpandedParameters" \in Excepted
    PROVE  Spec => []RequestExact
  <1>1. Init => Delivered /\ RequestExact
    BY DEF Init, RequestInit, Delivered, RequestExact
  <1>2. Delivered /\ RequestExact /\ [Next]_vars => (Delivered /\ RequestExact)'
    <2> SUFFICES ASSUME Delivered, RequestExact, [Next]_vars
                 PROVE  (Delivered /\ RequestExact)'
      OBVIOUS
    <2>1. CASE UNCHANGED vars
      BY <2>1 DEF vars, requestVars, Delivered, RequestExact, Found
    <2>2. ASSUME NEW method \in Methods, NEW given \in Calls(method), Send(method, given)
          PROVE  (Delivered /\ RequestExact)'
      BY <2>2, SendDelivers DEF Send, RequestExact
    <2>3. CASE Dispatch
      BY <2>3, DispatchExact DEF Dispatch, Delivered
    <2>4. ASSUME NEW kind, NEW n, NEW first, NEW others, Respond(kind, n, first, others)
          PROVE  stage' \notin {"sent", "handled"}
      BY <2>4 DEF Respond
    <2>5. CASE PutWord \/ PutFlags \/ PutArray \/ PutPointer \/ PutInline \/ PutNil \/ Finish
      BY <2>5 DEF PutWord, PutFlags, PutArray, PutPointer, PutInline, PutNil, Finish, Encoding,
                  Delivered, RequestExact
    <2>6. CASE Receive \/ Return
      BY <2>6 DEF Receive, Return, Delivered, RequestExact
    <2> QED  BY <2>1, <2>2, <2>3, <2>4, <2>5, <2>6 DEF Next, Delivered, RequestExact
  <1> QED  BY <1>1, <1>2, PTL DEF Spec

-----------------------------------------------------------------------------
(* The layouts, compared part by part. *)

\* The records, and how deep records stand in records below each.
RecordNames == {"u8", "u32", "u64", "handle", "type", "symbol", "signature", "displayPart", "tag",
    "quickinfo", "definition", "reference", "referencedSymbol", "boundSpan", "jsdocTag",
    "lightSymbol", "ambientModule", "ambientModules", "expandedParams", "symbolIDs",
    "autoImportFix", "completionEntry", "completionInfo", "parameter", "item", "signatureHelp",
    "renameInfo", "renameLocation"}
Rank == [
    u8 |-> 0, u32 |-> 0, u64 |-> 0, handle |-> 1, type |-> 2, symbol |-> 2, signature |-> 2,
    displayPart |-> 1, tag |-> 2, quickinfo |-> 3, definition |-> 2, reference |-> 1,
    referencedSymbol |-> 3, boundSpan |-> 3, jsdocTag |-> 1, lightSymbol |-> 1,
    ambientModule |-> 2, ambientModules |-> 3, expandedParams |-> 2, symbolIDs |-> 1,
    autoImportFix |-> 1, completionEntry |-> 3, completionInfo |-> 4, parameter |-> 2,
    item |-> 3, signatureHelp |-> 4, renameInfo |-> 1, renameLocation |-> 1]

\* No record has more parts. Written out: the provers compare tables entry by entry.
AtMost30(i) ==
    \/ i = 1 \/ i = 2 \/ i = 3 \/ i = 4 \/ i = 5 \/ i = 6 \/ i = 7 \/ i = 8 \/ i = 9 \/ i = 10
    \/ i = 11 \/ i = 12 \/ i = 13 \/ i = 14 \/ i = 15 \/ i = 16 \/ i = 17 \/ i = 18 \/ i = 19
    \/ i = 20 \/ i = 21 \/ i = 22 \/ i = 23 \/ i = 24 \/ i = 25 \/ i = 26 \/ i = 27 \/ i = 28
    \/ i = 29 \/ i = 30
In(i, parts) == AtMost30(i) /\ i \in DOMAIN parts
Nested == {"array", "pointer", "pointerWhen", "inline"}

\* What is true of every part Go writes.
Sound(p, size, rank) ==
    /\ p.off \in Nat /\ p.size \in Nat \ {0} /\ p.off + p.size <= size
    /\ p.form \in {"value", "zeroed", "when", "flags"} \cup Nested
    /\ p.form = "value" => p.when = "always"
    /\ p.form = "flags" => p.name = "bits" /\ DOMAIN p.bits \subseteq 1..8
    /\ p.form = "array" => p.size = 8
    /\ p.form \in {"pointer", "pointerWhen"} => p.size = 4
    /\ p.form = "inline" =>
         <<p.record, p.size>> \in {<<"handle", 16>>, <<"definition", 48>>, <<"lightSymbol", 32>>}
    /\ p.form \in Nested => p.record \in DOMAIN Rank /\ Rank[p.record] < rank
Laid(go, rank) ==
    /\ go.size \in Nat
    /\ Len(go.parts) \in 1..30 /\ DOMAIN go.parts = 1..Len(go.parts)
    /\ \A i, p : In(i, go.parts) /\ p = go.parts[i] => Sound(p, go.size, rank)

\* Two parts of a record do not share a byte, unless they are never both written.
Clear(name, p, q) ==
    \/ p.off + p.size <= q.off
    \/ q.off + q.size <= p.off
    \/ /\ name = "type" /\ p.form = "when" /\ q.form = "when"
       /\ <<p.when, q.when>> \in {<<"number", "bool">>, <<"bool", "number">>}
Tidy(name, parts) ==
    \A i, j : In(i, parts) /\ In(j, parts) /\ i # j => Clear(name, parts[i], parts[j])

\* A part as Go writes it and as the client reads it.
Agrees(p, q) ==
    /\ <<p.form, q.form>> \in {
          <<"value", "value">>, <<"value", "key">>, <<"zeroed", "when">>, <<"when", "when">>,
          <<"flags", "flags">>, <<"array", "array">>, <<"pointer", "pointerWhen">>,
          <<"pointerWhen", "pointerWhen">>, <<"inline", "inline">>}
    /\ p.name = q.name /\ p.off = q.off /\ p.size = q.size /\ p.when = q.when
    /\ p.form \in Nested => p.record = q.record
JsMatches(go, js) ==
    /\ js.size = go.size
    /\ Len(js.parts) \in 1..30 /\ DOMAIN js.parts = 1..Len(js.parts)
    /\ \A j : In(j, js.parts) => \E i \in DOMAIN go.parts : Agrees(go.parts[i], js.parts[j])
GoMatches(go, js) ==
    \A i : In(i, go) => \E j \in DOMAIN js : Agrees(go[i], js[j])

\* Flags at the same place.
SameBits(go, js) ==
    \A i, j, p, q :
        /\ In(i, go) /\ In(j, js) /\ p = go[i] /\ q = js[j]
        /\ p.form = "flags" /\ q.form = "flags" /\ p.off = q.off
        => /\ \A b \in DOMAIN q.bits : b \in DOMAIN p.bits /\ p.bits[b] = q.bits[b]
           /\ \A b \in DOMAIN p.bits : b \in DOMAIN q.bits \/ Announces(go, p.bits[b])
Told(parts) ==
    \A i, p : In(i, parts) /\ p = parts[i] /\ p.form \in {"when", "pointerWhen"}
        => \E j \in DOMAIN parts :
              /\ parts[j].form = "flags"
              /\ \E b \in DOMAIN parts[j].bits : parts[j].bits[b] = p.when

\* Every part Go writes lies in its record, and a record in it has a lower rank.
LEMMA GoLaid == \A name \in RecordNames : Laid(GoLayout[name], Rank[name])
  <1> USE DEF Record, Number, Value, U32, U64, When, Zeroed, Flags, Array, Pointer, PointerWhen,
              Inline, OfRecords, Key, Part, In, AtMost30, Laid, Sound, Nested, Rank
  <1>1. /\ Laid(Number(1), 0) /\ Laid(Number(4), 0) /\ Laid(Number(8), 0)
    OBVIOUS
  <1>2. /\ Laid(GoHandle, 1) /\ Laid(GoDisplayPart, 1) /\ Laid(GoTag, 2) /\ Laid(GoJSDocTag, 1)
    BY SMTT(60) DEF GoHandle, GoDisplayPart, GoTag, GoJSDocTag
  <1>3. /\ Laid(GoSymbolIDs, 1) /\ Laid(GoExpandedParameters, 2) /\ Laid(GoLightSymbol, 1)
        /\ Laid(GoAmbientModule, 2) /\ Laid(GoAmbientModules, 3)
    BY SMTT(60) DEF GoSymbolIDs, GoExpandedParameters, GoLightSymbol, GoAmbientModule, GoAmbientModules
  <1>4. Laid(GoType, 2)
    BY SMTT(60) DEF GoType
  <1>5. /\ Laid(GoSymbol, 2) /\ Laid(GoSignature, 2)
    BY SMTT(60) DEF GoSymbol, GoSignature
  <1>6. /\ Laid(GoQuickinfo, 3) /\ Laid(GoDefinition, 2)
    BY SMTT(60) DEF GoQuickinfo, GoDefinition
  <1>7. /\ Laid(GoReference, 1) /\ Laid(GoReferencedSymbol, 3)
        /\ Laid(GoDefinitionAndBoundSpan, 3)
    BY SMTT(60) DEF GoReference, GoReferencedSymbol, GoDefinitionAndBoundSpan
  <1>8. Laid(GoAutoImportFix, 1)
    BY SMTT(60) DEF GoAutoImportFix
  <1>9. Laid(GoCompletionEntry, 3)
    BY SMTT(60) DEF GoCompletionEntry
  <1>10. Laid(GoCompletions, 4)
    BY SMTT(60) DEF GoCompletions
  <1>11. /\ Laid(GoSignatureHelpParameter, 2) /\ Laid(GoSignatureHelpItem, 3)
         /\ Laid(GoSignatureHelpItems, 4)
    BY SMTT(60) DEF GoSignatureHelpParameter, GoSignatureHelpItem, GoSignatureHelpItems
  <1>12. /\ Laid(GoRenameInfo, 1) /\ Laid(GoRenameLocation, 1)
    BY SMTT(60) DEF GoRenameInfo, GoRenameLocation
  <1> HIDE DEF Record, Number, Value, U32, U64, When, Zeroed, Flags, Array, Pointer, PointerWhen,
              Inline, OfRecords, Key, Part, In, AtMost30, Laid, Sound, Nested, Rank
  <1> QED  BY <1>1, <1>2, <1>3, <1>4, <1>5, <1>6, <1>7, <1>8, <1>9, <1>10, <1>11, <1>12
           DEF RecordNames, Rank, GoLayout

\* No two parts of a record lie over each other, but for the values of a type.
LEMMA GoTidy == \A name \in RecordNames : Tidy(name, GoLayout[name].parts)
  <1> USE DEF Record, Number, Value, U32, U64, When, Zeroed, Flags, Array, Pointer, PointerWhen,
              Inline, OfRecords, Key, Part, In, AtMost30, Tidy, Clear
  <1>1. /\ Tidy("u8", Number(1).parts) /\ Tidy("u32", Number(4).parts)
        /\ Tidy("u64", Number(8).parts)
    OBVIOUS
  <1>2. /\ Tidy("handle", GoHandle.parts) /\ Tidy("displayPart", GoDisplayPart.parts)
        /\ Tidy("tag", GoTag.parts) /\ Tidy("jsdocTag", GoJSDocTag.parts)
    BY DEF GoHandle, GoDisplayPart, GoTag, GoJSDocTag
  <1>3. /\ Tidy("symbolIDs", GoSymbolIDs.parts)
        /\ Tidy("expandedParams", GoExpandedParameters.parts)
        /\ Tidy("lightSymbol", GoLightSymbol.parts)
        /\ Tidy("ambientModule", GoAmbientModule.parts)
        /\ Tidy("ambientModules", GoAmbientModules.parts)
    BY DEF GoSymbolIDs, GoExpandedParameters, GoLightSymbol, GoAmbientModule, GoAmbientModules
  <1>4. Tidy("type", GoType.parts)
    BY DEF GoType
  <1>5. /\ Tidy("symbol", GoSymbol.parts) /\ Tidy("signature", GoSignature.parts)
    BY DEF GoSymbol, GoSignature
  <1>6. /\ Tidy("quickinfo", GoQuickinfo.parts) /\ Tidy("definition", GoDefinition.parts)
    BY DEF GoQuickinfo, GoDefinition
  <1>7. /\ Tidy("reference", GoReference.parts)
        /\ Tidy("referencedSymbol", GoReferencedSymbol.parts)
        /\ Tidy("boundSpan", GoDefinitionAndBoundSpan.parts)
    BY DEF GoReference, GoReferencedSymbol, GoDefinitionAndBoundSpan
  <1>8. Tidy("autoImportFix", GoAutoImportFix.parts)
    BY DEF GoAutoImportFix
  <1>9. Tidy("completionEntry", GoCompletionEntry.parts)
    BY DEF GoCompletionEntry
  <1>10. Tidy("completionInfo", GoCompletions.parts)
    BY DEF GoCompletions
  <1>11. /\ Tidy("parameter", GoSignatureHelpParameter.parts)
         /\ Tidy("item", GoSignatureHelpItem.parts)
         /\ Tidy("signatureHelp", GoSignatureHelpItems.parts)
    BY DEF GoSignatureHelpParameter, GoSignatureHelpItem, GoSignatureHelpItems
  <1>12. /\ Tidy("renameInfo", GoRenameInfo.parts)
         /\ Tidy("renameLocation", GoRenameLocation.parts)
    BY DEF GoRenameInfo, GoRenameLocation
  <1> HIDE DEF Record, Number, Value, U32, U64, When, Zeroed, Flags, Array, Pointer, PointerWhen,
              Inline, OfRecords, Key, Part, In, AtMost30, Tidy, Clear
  <1> QED  BY <1>1, <1>2, <1>3, <1>4, <1>5, <1>6, <1>7, <1>8, <1>9, <1>10, <1>11, <1>12
           DEF RecordNames, GoLayout

\* What the client reads is what Go writes there,
LEMMA JsOfGo == \A name \in RecordNames : JsMatches(GoLayout[name], JsLayout[name])
  <1> USE DEF Record, Number, Value, U32, U64, When, Zeroed, Flags, Array, Pointer, PointerWhen,
              Inline, OfRecords, Key, Part, In, AtMost30, JsMatches, Agrees, Nested
  <1>1. /\ JsMatches(Number(1), Number(1)) /\ JsMatches(Number(4), Number(4))
        /\ JsMatches(Number(8), Number(8))
    OBVIOUS
  <1>2. /\ JsMatches(GoHandle, JsHandle) /\ JsMatches(GoDisplayPart, JsDisplayPart)
        /\ JsMatches(GoTag, JsTag) /\ JsMatches(GoJSDocTag, JsJSDocTag)
    <2>1. JsMatches(GoHandle, JsHandle)
      BY SMTT(60) DEF GoHandle, JsHandle
    <2>2. JsMatches(GoDisplayPart, JsDisplayPart)
      BY SMTT(60) DEF GoDisplayPart, JsDisplayPart
    <2>3. JsMatches(GoTag, JsTag)
      BY SMTT(60) DEF GoTag, JsTag
    <2>4. JsMatches(GoJSDocTag, JsJSDocTag)
      BY SMTT(60) DEF GoJSDocTag, JsJSDocTag
    <2> HIDE DEF JsMatches
    <2> QED  BY <2>1, <2>2, <2>3, <2>4
  <1>3. /\ JsMatches(GoSymbolIDs, JsSymbolIDs)
        /\ JsMatches(GoExpandedParameters, JsExpandedParams)
        /\ JsMatches(GoLightSymbol, JsLightSymbol) /\ JsMatches(GoAmbientModule, JsAmbientModule)
        /\ JsMatches(GoAmbientModules, JsAmbientModules)
    <2>1. JsMatches(GoSymbolIDs, JsSymbolIDs)
      BY SMTT(60) DEF GoSymbolIDs, JsSymbolIDs
    <2>2. JsMatches(GoExpandedParameters, JsExpandedParams)
      BY SMTT(60) DEF GoExpandedParameters, JsExpandedParams
    <2>3. JsMatches(GoLightSymbol, JsLightSymbol)
      BY SMTT(60) DEF GoLightSymbol, JsLightSymbol
    <2>4. JsMatches(GoAmbientModule, JsAmbientModule)
      BY SMTT(60) DEF GoAmbientModule, JsAmbientModule
    <2>5. JsMatches(GoAmbientModules, JsAmbientModules)
      BY SMTT(60) DEF GoAmbientModules, JsAmbientModules
    <2> HIDE DEF JsMatches
    <2> QED  BY <2>1, <2>2, <2>3, <2>4, <2>5
  <1>4. JsMatches(GoType, JsType)
    BY SMTT(60) DEF GoType, JsType
  <1>5. JsMatches(GoSymbol, JsSymbol)
    BY SMTT(60) DEF GoSymbol, JsSymbol
  <1>6. JsMatches(GoSignature, JsSignature)
    BY SMTT(60) DEF GoSignature, JsSignature
  <1>7. JsMatches(GoQuickinfo, JsQuickinfo)
    BY SMTT(60) DEF GoQuickinfo, JsQuickinfo
  <1>8. JsMatches(GoDefinition, JsDefinition)
    BY SMTT(60) DEF GoDefinition, JsDefinition
  <1>9. JsMatches(GoReference, JsReference)
    BY SMTT(60) DEF GoReference, JsReference
  <1>10. JsMatches(GoReferencedSymbol, JsReferencedSymbol)
    BY SMTT(60) DEF GoReferencedSymbol, JsReferencedSymbol
  <1>11. JsMatches(GoDefinitionAndBoundSpan, JsDefinitionAndBoundSpan)
    BY SMTT(60) DEF GoDefinitionAndBoundSpan, JsDefinitionAndBoundSpan
  <1>12. JsMatches(GoAutoImportFix, JsAutoImportFix)
    BY SMTT(60) DEF GoAutoImportFix, JsAutoImportFix
  <1>13. JsMatches(GoCompletionEntry, JsCompletionEntry)
    BY SMTT(60) DEF GoCompletionEntry, JsCompletionEntry
  <1>14. JsMatches(GoCompletions, JsCompletions)
    BY SMTT(60) DEF GoCompletions, JsCompletions
  <1>15. JsMatches(GoSignatureHelpParameter, JsSignatureHelpParameter)
    BY SMTT(60) DEF GoSignatureHelpParameter, JsSignatureHelpParameter
  <1>16. JsMatches(GoSignatureHelpItem, JsSignatureHelpItem)
    BY SMTT(60) DEF GoSignatureHelpItem, JsSignatureHelpItem
  <1>17. JsMatches(GoSignatureHelpItems, JsSignatureHelpItems)
    BY SMTT(60) DEF GoSignatureHelpItems, JsSignatureHelpItems
  <1>18. JsMatches(GoRenameInfo, JsRenameInfo)
    BY SMTT(60) DEF GoRenameInfo, JsRenameInfo
  <1>19. JsMatches(GoRenameLocation, JsRenameLocation)
    BY SMTT(60) DEF GoRenameLocation, JsRenameLocation
  <1> HIDE DEF Record, Number, Value, U32, U64, When, Zeroed, Flags, Array, Pointer, PointerWhen,
              Inline, OfRecords, Key, Part, In, AtMost30, JsMatches, Agrees, Nested
  <1> QED  BY <1>1, <1>2, <1>3, <1>4, <1>5, <1>6, <1>7, <1>8, <1>9, <1>10, <1>11, <1>12, <1>13,
              <1>14, <1>15, <1>16, <1>17, <1>18, <1>19
           DEF RecordNames, GoLayout, JsLayout

\* and what Go writes the client reads.
LEMMA GoOfJs == \A name \in RecordNames : GoMatches(GoLayout[name].parts, JsLayout[name].parts)
  <1> USE DEF Record, Number, Value, U32, U64, When, Zeroed, Flags, Array, Pointer, PointerWhen,
              Inline, OfRecords, Key, Part, In, AtMost30, GoMatches, Agrees, Nested
  <1>1. /\ GoMatches(Number(1).parts, Number(1).parts)
        /\ GoMatches(Number(4).parts, Number(4).parts)
        /\ GoMatches(Number(8).parts, Number(8).parts)
    OBVIOUS
  <1>2. /\ GoMatches(GoHandle.parts, JsHandle.parts)
        /\ GoMatches(GoDisplayPart.parts, JsDisplayPart.parts)
        /\ GoMatches(GoTag.parts, JsTag.parts) /\ GoMatches(GoJSDocTag.parts, JsJSDocTag.parts)
    <2>1. GoMatches(GoHandle.parts, JsHandle.parts)
      BY SMTT(60) DEF GoHandle, JsHandle
    <2>2. GoMatches(GoDisplayPart.parts, JsDisplayPart.parts)
      BY SMTT(60) DEF GoDisplayPart, JsDisplayPart
    <2>3. GoMatches(GoTag.parts, JsTag.parts)
      BY SMTT(60) DEF GoTag, JsTag
    <2>4. GoMatches(GoJSDocTag.parts, JsJSDocTag.parts)
      BY SMTT(60) DEF GoJSDocTag, JsJSDocTag
    <2> HIDE DEF GoMatches
    <2> QED  BY <2>1, <2>2, <2>3, <2>4
  <1>3. /\ GoMatches(GoSymbolIDs.parts, JsSymbolIDs.parts)
        /\ GoMatches(GoExpandedParameters.parts, JsExpandedParams.parts)
        /\ GoMatches(GoLightSymbol.parts, JsLightSymbol.parts)
        /\ GoMatches(GoAmbientModule.parts, JsAmbientModule.parts)
        /\ GoMatches(GoAmbientModules.parts, JsAmbientModules.parts)
    <2>1. GoMatches(GoSymbolIDs.parts, JsSymbolIDs.parts)
      BY SMTT(60) DEF GoSymbolIDs, JsSymbolIDs
    <2>2. GoMatches(GoExpandedParameters.parts, JsExpandedParams.parts)
      BY SMTT(60) DEF GoExpandedParameters, JsExpandedParams
    <2>3. GoMatches(GoLightSymbol.parts, JsLightSymbol.parts)
      BY SMTT(60) DEF GoLightSymbol, JsLightSymbol
    <2>4. GoMatches(GoAmbientModule.parts, JsAmbientModule.parts)
      BY SMTT(60) DEF GoAmbientModule, JsAmbientModule
    <2>5. GoMatches(GoAmbientModules.parts, JsAmbientModules.parts)
      BY SMTT(60) DEF GoAmbientModules, JsAmbientModules
    <2> HIDE DEF GoMatches
    <2> QED  BY <2>1, <2>2, <2>3, <2>4, <2>5
  <1>4. GoMatches(GoType.parts, JsType.parts)
    BY SMTT(60) DEF GoType, JsType
  <1>5. GoMatches(GoSymbol.parts, JsSymbol.parts)
    BY SMTT(60) DEF GoSymbol, JsSymbol
  <1>6. GoMatches(GoSignature.parts, JsSignature.parts)
    BY SMTT(60) DEF GoSignature, JsSignature
  <1>7. GoMatches(GoQuickinfo.parts, JsQuickinfo.parts)
    BY SMTT(60) DEF GoQuickinfo, JsQuickinfo
  <1>8. GoMatches(GoDefinition.parts, JsDefinition.parts)
    BY SMTT(60) DEF GoDefinition, JsDefinition
  <1>9. GoMatches(GoReference.parts, JsReference.parts)
    BY SMTT(60) DEF GoReference, JsReference
  <1>10. GoMatches(GoReferencedSymbol.parts, JsReferencedSymbol.parts)
    BY SMTT(60) DEF GoReferencedSymbol, JsReferencedSymbol
  <1>11. GoMatches(GoDefinitionAndBoundSpan.parts, JsDefinitionAndBoundSpan.parts)
    BY SMTT(60) DEF GoDefinitionAndBoundSpan, JsDefinitionAndBoundSpan
  <1>12. GoMatches(GoAutoImportFix.parts, JsAutoImportFix.parts)
    BY SMTT(60) DEF GoAutoImportFix, JsAutoImportFix
  <1>13. GoMatches(GoCompletionEntry.parts, JsCompletionEntry.parts)
    BY SMTT(60) DEF GoCompletionEntry, JsCompletionEntry
  <1>14. GoMatches(GoCompletions.parts, JsCompletions.parts)
    BY SMTT(60) DEF GoCompletions, JsCompletions
  <1>15. GoMatches(GoSignatureHelpParameter.parts, JsSignatureHelpParameter.parts)
    BY SMTT(60) DEF GoSignatureHelpParameter, JsSignatureHelpParameter
  <1>16. GoMatches(GoSignatureHelpItem.parts, JsSignatureHelpItem.parts)
    BY SMTT(60) DEF GoSignatureHelpItem, JsSignatureHelpItem
  <1>17. GoMatches(GoSignatureHelpItems.parts, JsSignatureHelpItems.parts)
    BY SMTT(60) DEF GoSignatureHelpItems, JsSignatureHelpItems
  <1>18. GoMatches(GoRenameInfo.parts, JsRenameInfo.parts)
    BY SMTT(60) DEF GoRenameInfo, JsRenameInfo
  <1>19. GoMatches(GoRenameLocation.parts, JsRenameLocation.parts)
    BY SMTT(60) DEF GoRenameLocation, JsRenameLocation
  <1> HIDE DEF Record, Number, Value, U32, U64, When, Zeroed, Flags, Array, Pointer, PointerWhen,
              Inline, OfRecords, Key, Part, In, AtMost30, GoMatches, Agrees, Nested
  <1> QED  BY <1>1, <1>2, <1>3, <1>4, <1>5, <1>6, <1>7, <1>8, <1>9, <1>10, <1>11, <1>12, <1>13,
              <1>14, <1>15, <1>16, <1>17, <1>18, <1>19
           DEF RecordNames, GoLayout, JsLayout

\* A bit means the same to both. The client may have fewer: the others announce a part.
LEMMA BitsMatched == \A name \in RecordNames : SameBits(GoLayout[name].parts, JsLayout[name].parts)
  <1> USE DEF Record, Number, Value, U32, U64, When, Zeroed, Flags, Array, Pointer, PointerWhen,
              Inline, OfRecords, Key, Part, In, AtMost30, SameBits, Announces
  <1>1. /\ SameBits(Number(1).parts, Number(1).parts)
        /\ SameBits(Number(4).parts, Number(4).parts)
        /\ SameBits(Number(8).parts, Number(8).parts)
    OBVIOUS
  <1>2. /\ SameBits(GoHandle.parts, JsHandle.parts)
        /\ SameBits(GoDisplayPart.parts, JsDisplayPart.parts)
        /\ SameBits(GoTag.parts, JsTag.parts) /\ SameBits(GoJSDocTag.parts, JsJSDocTag.parts)
    <2>1. SameBits(GoHandle.parts, JsHandle.parts)
      BY SMTT(60) DEF GoHandle, JsHandle
    <2>2. SameBits(GoDisplayPart.parts, JsDisplayPart.parts)
      BY SMTT(60) DEF GoDisplayPart, JsDisplayPart
    <2>3. SameBits(GoTag.parts, JsTag.parts)
      BY SMTT(60) DEF GoTag, JsTag
    <2>4. SameBits(GoJSDocTag.parts, JsJSDocTag.parts)
      BY SMTT(60) DEF GoJSDocTag, JsJSDocTag
    <2> HIDE DEF SameBits
    <2> QED  BY <2>1, <2>2, <2>3, <2>4
  <1>3. /\ SameBits(GoSymbolIDs.parts, JsSymbolIDs.parts)
        /\ SameBits(GoExpandedParameters.parts, JsExpandedParams.parts)
        /\ SameBits(GoLightSymbol.parts, JsLightSymbol.parts)
        /\ SameBits(GoAmbientModule.parts, JsAmbientModule.parts)
        /\ SameBits(GoAmbientModules.parts, JsAmbientModules.parts)
    <2>1. SameBits(GoSymbolIDs.parts, JsSymbolIDs.parts)
      BY SMTT(60) DEF GoSymbolIDs, JsSymbolIDs
    <2>2. SameBits(GoExpandedParameters.parts, JsExpandedParams.parts)
      BY SMTT(60) DEF GoExpandedParameters, JsExpandedParams
    <2>3. SameBits(GoLightSymbol.parts, JsLightSymbol.parts)
      BY SMTT(60) DEF GoLightSymbol, JsLightSymbol
    <2>4. SameBits(GoAmbientModule.parts, JsAmbientModule.parts)
      BY SMTT(60) DEF GoAmbientModule, JsAmbientModule
    <2>5. SameBits(GoAmbientModules.parts, JsAmbientModules.parts)
      BY SMTT(60) DEF GoAmbientModules, JsAmbientModules
    <2> HIDE DEF SameBits
    <2> QED  BY <2>1, <2>2, <2>3, <2>4, <2>5
  <1>4. SameBits(GoType.parts, JsType.parts)
    BY SMTT(120) DEF GoType, JsType
  <1>5. SameBits(GoSymbol.parts, JsSymbol.parts)
    BY SMTT(60) DEF GoSymbol, JsSymbol
  <1>6. SameBits(GoSignature.parts, JsSignature.parts)
    BY SMTT(60) DEF GoSignature, JsSignature
  <1>7. SameBits(GoQuickinfo.parts, JsQuickinfo.parts)
    BY SMTT(60) DEF GoQuickinfo, JsQuickinfo
  <1>8. SameBits(GoDefinition.parts, JsDefinition.parts)
    BY SMTT(60) DEF GoDefinition, JsDefinition
  <1>9. SameBits(GoReference.parts, JsReference.parts)
    BY SMTT(60) DEF GoReference, JsReference
  <1>10. SameBits(GoReferencedSymbol.parts, JsReferencedSymbol.parts)
    BY SMTT(60) DEF GoReferencedSymbol, JsReferencedSymbol
  <1>11. SameBits(GoDefinitionAndBoundSpan.parts, JsDefinitionAndBoundSpan.parts)
    BY SMTT(60) DEF GoDefinitionAndBoundSpan, JsDefinitionAndBoundSpan
  <1>12. SameBits(GoAutoImportFix.parts, JsAutoImportFix.parts)
    BY SMTT(60) DEF GoAutoImportFix, JsAutoImportFix
  <1>13. SameBits(GoCompletionEntry.parts, JsCompletionEntry.parts)
    BY SMTT(60) DEF GoCompletionEntry, JsCompletionEntry
  <1>14. SameBits(GoCompletions.parts, JsCompletions.parts)
    BY SMTT(60) DEF GoCompletions, JsCompletions
  <1>15. SameBits(GoSignatureHelpParameter.parts, JsSignatureHelpParameter.parts)
    BY SMTT(60) DEF GoSignatureHelpParameter, JsSignatureHelpParameter
  <1>16. SameBits(GoSignatureHelpItem.parts, JsSignatureHelpItem.parts)
    BY SMTT(60) DEF GoSignatureHelpItem, JsSignatureHelpItem
  <1>17. SameBits(GoSignatureHelpItems.parts, JsSignatureHelpItems.parts)
    BY SMTT(60) DEF GoSignatureHelpItems, JsSignatureHelpItems
  <1>18. SameBits(GoRenameInfo.parts, JsRenameInfo.parts)
    BY SMTT(60) DEF GoRenameInfo, JsRenameInfo
  <1>19. SameBits(GoRenameLocation.parts, JsRenameLocation.parts)
    BY SMTT(60) DEF GoRenameLocation, JsRenameLocation
  <1> HIDE DEF Record, Number, Value, U32, U64, When, Zeroed, Flags, Array, Pointer, PointerWhen,
              Inline, OfRecords, Key, Part, In, AtMost30, SameBits, Announces
  <1> QED  BY <1>1, <1>2, <1>3, <1>4, <1>5, <1>6, <1>7, <1>8, <1>9, <1>10, <1>11, <1>12, <1>13,
              <1>14, <1>15, <1>16, <1>17, <1>18, <1>19
           DEF RecordNames, GoLayout, JsLayout

\* The client reads no part that is optional without a bit for it.
LEMMA JsTold == \A name \in RecordNames : Told(JsLayout[name].parts)
  <1> USE DEF Record, Number, Value, U32, U64, When, Zeroed, Flags, Array, Pointer, PointerWhen,
              Inline, OfRecords, Key, Part, In, AtMost30, Told
  <1>1. /\ Told(Number(1).parts) /\ Told(Number(4).parts) /\ Told(Number(8).parts)
    OBVIOUS
  <1>2. /\ Told(JsHandle.parts) /\ Told(JsDisplayPart.parts) /\ Told(JsTag.parts)
        /\ Told(JsJSDocTag.parts)
    BY SMTT(60) DEF JsHandle, JsDisplayPart, JsTag, JsJSDocTag
  <1>3. /\ Told(JsSymbolIDs.parts) /\ Told(JsExpandedParams.parts) /\ Told(JsLightSymbol.parts)
        /\ Told(JsAmbientModule.parts) /\ Told(JsAmbientModules.parts)
    BY SMTT(60) DEF JsSymbolIDs, JsExpandedParams, JsLightSymbol, JsAmbientModule, JsAmbientModules
  <1>4. Told(JsType.parts)
    BY SMTT(60) DEF JsType
  <1>5. /\ Told(JsSymbol.parts) /\ Told(JsSignature.parts)
    BY SMTT(60) DEF JsSymbol, JsSignature
  <1>6. /\ Told(JsQuickinfo.parts) /\ Told(JsDefinition.parts)
    <2>1. Told(JsQuickinfo.parts)
      BY SMTT(60) DEF JsQuickinfo
    <2>2. Told(JsDefinition.parts)
      BY SMTT(60) DEF JsDefinition
    <2> HIDE DEF Told
    <2> QED  BY <2>1, <2>2
  <1>7. /\ Told(JsReference.parts) /\ Told(JsReferencedSymbol.parts)
        /\ Told(JsDefinitionAndBoundSpan.parts)
    BY SMTT(60) DEF JsReference, JsReferencedSymbol, JsDefinitionAndBoundSpan
  <1>8. Told(JsAutoImportFix.parts)
    BY SMTT(60) DEF JsAutoImportFix
  <1>9. Told(JsCompletionEntry.parts)
    BY SMTT(60) DEF JsCompletionEntry
  <1>10. Told(JsCompletions.parts)
    BY SMTT(60) DEF JsCompletions
  <1>11. /\ Told(JsSignatureHelpParameter.parts) /\ Told(JsSignatureHelpItem.parts)
         /\ Told(JsSignatureHelpItems.parts)
    BY SMTT(60) DEF JsSignatureHelpParameter, JsSignatureHelpItem, JsSignatureHelpItems
  <1>12. /\ Told(JsRenameInfo.parts) /\ Told(JsRenameLocation.parts)
    BY SMTT(60) DEF JsRenameInfo, JsRenameLocation
  <1> HIDE DEF Record, Number, Value, U32, U64, When, Zeroed, Flags, Array, Pointer, PointerWhen,
              Inline, OfRecords, Key, Part, In, AtMost30, Told
  <1> QED  BY <1>1, <1>2, <1>3, <1>4, <1>5, <1>6, <1>7, <1>8, <1>9, <1>10, <1>11, <1>12
           DEF RecordNames, JsLayout

LEMMA Domains ==
    DOMAIN GoLayout = RecordNames /\ DOMAIN JsLayout = RecordNames /\ DOMAIN Rank = RecordNames
  BY DEF GoLayout, JsLayout, Rank, RecordNames

\* No chain of records in records is longer than five.
LEMMA Ranked == \A name \in RecordNames : Rank[name] \in 0..4
  BY DEF RecordNames, Rank

\* The same, for any part of any record.
LEMMA GoPlaces ==
    ASSUME NEW name \in RecordNames
    PROVE  /\ GoLayout[name].size \in Nat
           /\ Len(GoLayout[name].parts) \in Nat \ {0}
           /\ DOMAIN GoLayout[name].parts = 1..Len(GoLayout[name].parts)
  <1> DEFINE n == Len(GoLayout[name].parts)
  <1>1. DOMAIN GoLayout[name].parts = 1..n /\ GoLayout[name].size \in Nat
    BY GoLaid DEF Laid
  <1>2. n \in Nat \ {0}
    <2>1. n \in 1..30
      BY GoLaid DEF Laid
    <2> HIDE DEF n
    <2> QED  BY <2>1
  <1> QED  BY <1>1, <1>2

LEMMA GoPart ==
    ASSUME NEW name \in RecordNames, NEW i \in DOMAIN GoLayout[name].parts
    PROVE  Sound(GoLayout[name].parts[i], GoLayout[name].size, Rank[name])
  <1> DEFINE n == Len(GoLayout[name].parts)
  <1>1. n \in 1..30 /\ i \in 1..n
    BY GoLaid DEF Laid
  <1>2. AtMost30(i)
    <2> HIDE DEF n
    <2> QED  BY <1>1 DEF AtMost30
  <1> QED  BY <1>2, GoLaid DEF Laid, In

LEMMA GoClear ==
    ASSUME NEW name \in RecordNames, NEW i \in DOMAIN GoLayout[name].parts,
           NEW j \in DOMAIN GoLayout[name].parts, i # j
    PROVE  Clear(name, GoLayout[name].parts[i], GoLayout[name].parts[j])
  <1> DEFINE n == Len(GoLayout[name].parts)
  <1>1. n \in 1..30 /\ i \in 1..n /\ j \in 1..n
    BY GoLaid DEF Laid
  <1>2. AtMost30(i) /\ AtMost30(j)
    <2> HIDE DEF n
    <2> QED  BY <1>1 DEF AtMost30
  <1> QED  BY <1>2, GoTidy DEF Tidy, In

LEMMA GoOf ==
    ASSUME NEW name \in RecordNames, NEW j \in DOMAIN JsLayout[name].parts
    PROVE  /\ AtMost30(j)
           /\ \E i \in DOMAIN GoLayout[name].parts :
                 Agrees(GoLayout[name].parts[i], JsLayout[name].parts[j])
  <1> DEFINE n == Len(JsLayout[name].parts)
  <1>1. n \in 1..30 /\ j \in 1..n
    BY JsOfGo DEF JsMatches
  <1>2. AtMost30(j)
    <2> HIDE DEF n
    <2> QED  BY <1>1 DEF AtMost30
  <1> QED  BY <1>2, JsOfGo DEF JsMatches, In

LEMMA JsOf ==
    ASSUME NEW name \in RecordNames, NEW i \in DOMAIN GoLayout[name].parts
    PROVE  /\ AtMost30(i)
           /\ \E j \in DOMAIN JsLayout[name].parts :
                 Agrees(GoLayout[name].parts[i], JsLayout[name].parts[j])
  <1> DEFINE n == Len(GoLayout[name].parts)
  <1>1. n \in 1..30 /\ i \in 1..n
    BY GoLaid DEF Laid
  <1>2. AtMost30(i)
    <2> HIDE DEF n
    <2> QED  BY <1>1 DEF AtMost30
  <1> QED  BY <1>2, GoOfJs DEF GoMatches, In

LEMMA BitsAre ==
    ASSUME NEW name \in RecordNames, NEW i \in DOMAIN GoLayout[name].parts,
           NEW j \in DOMAIN JsLayout[name].parts,
           GoLayout[name].parts[i].form = "flags", JsLayout[name].parts[j].form = "flags",
           GoLayout[name].parts[i].off = JsLayout[name].parts[j].off
    PROVE  LET go == GoLayout[name].parts[i].bits
               js == JsLayout[name].parts[j].bits
           IN /\ \A b \in DOMAIN js : b \in DOMAIN go /\ go[b] = js[b]
              /\ \A b \in DOMAIN go : b \in DOMAIN js \/ Announces(GoLayout[name].parts, go[b])
  <1>1. In(i, GoLayout[name].parts) /\ In(j, JsLayout[name].parts)
    BY GoOf, JsOf DEF In
  <1> QED  BY <1>1, BitsMatched DEF SameBits

LEMMA IsTold ==
    ASSUME NEW name \in RecordNames, NEW i \in DOMAIN JsLayout[name].parts,
           JsLayout[name].parts[i].form \in {"when", "pointerWhen"}
    PROVE  \E j \in DOMAIN JsLayout[name].parts :
              /\ JsLayout[name].parts[j].form = "flags"
              /\ \E b \in DOMAIN JsLayout[name].parts[j].bits :
                    JsLayout[name].parts[j].bits[b] = JsLayout[name].parts[i].when
  BY GoOf, JsTold DEF Told, In

\* The records that may be absent, and why nothing is read of them.
Nilable == {"handle", "definition", "symbol", "lightSymbol"}
Plain(parts) == \A i : In(i, parts) => parts[i].form \in {"value", "when", "flags", "array"}
Keyed(parts) == \E i \in DOMAIN parts : parts[i].form = "key"
Zeroable(parts) ==
    \A i : In(i, parts) => parts[i].form \in {"value", "zeroed", "flags", "array", "inline"}

LEMMA NilParts ==
    /\ Plain(JsHandle.parts) /\ Plain(JsDefinition.parts)
    /\ Keyed(JsSymbol.parts) /\ Keyed(JsLightSymbol.parts)
    /\ Zeroable(GoHandle.parts) /\ Zeroable(GoDefinition.parts)
    /\ Zeroable(GoSymbol.parts) /\ Zeroable(GoLightSymbol.parts)
  <1> USE DEF Record, Value, U32, U64, When, Zeroed, Flags, Array, Inline, OfRecords, Key, Part,
              In, AtMost30, Plain, Keyed, Zeroable
  <1>1. Plain(JsHandle.parts) /\ Plain(JsDefinition.parts)
    BY DEF JsHandle, JsDefinition
  <1>2. Keyed(JsSymbol.parts) /\ Keyed(JsLightSymbol.parts)
    BY DEF JsSymbol, JsLightSymbol
  <1>3. Zeroable(GoHandle.parts) /\ Zeroable(GoDefinition.parts)
    BY DEF GoHandle, GoDefinition
  <1>4. Zeroable(GoSymbol.parts) /\ Zeroable(GoLightSymbol.parts)
    BY DEF GoSymbol, GoLightSymbol
  <1> QED  BY <1>1, <1>2, <1>3, <1>4

\* A record that may be absent: how it is zeroed, and how the client notices.
LEMMA NilRecord ==
    ASSUME NEW name \in Nilable
    PROVE  /\ name \in RecordNames
           /\ \A i \in DOMAIN GoLayout[name].parts :
                 GoLayout[name].parts[i].form \in {"value", "zeroed", "flags", "array", "inline"}
           /\ \/ \E j \in DOMAIN JsLayout[name].parts : JsLayout[name].parts[j].form = "key"
              \/ \A j \in DOMAIN JsLayout[name].parts :
                    JsLayout[name].parts[j].form \in {"value", "when", "flags", "array"}
  <1>1. name \in RecordNames
    BY DEF RecordNames, Nilable
  <1>2. Zeroable(GoLayout[name].parts)
    BY NilParts DEF Nilable, GoLayout
  <1>3. Plain(JsLayout[name].parts) \/ Keyed(JsLayout[name].parts)
    BY NilParts DEF Nilable, JsLayout
  <1>4. \A i \in DOMAIN GoLayout[name].parts : In(i, GoLayout[name].parts)
    BY <1>1, JsOf DEF In
  <1>5. \A i \in DOMAIN JsLayout[name].parts : In(i, JsLayout[name].parts)
    BY <1>1, GoOf DEF In
  <1> QED  BY <1>1, <1>2, <1>3, <1>4, <1>5 DEF Zeroable, Plain, Keyed

-----------------------------------------------------------------------------
(* The reader: the recursion of its functions ends. *)

\* The client's parts are as sound as Go's.
LEMMA JsPart ==
    ASSUME NEW name \in RecordNames, NEW j \in DOMAIN JsLayout[name].parts
    PROVE  LET part == JsLayout[name].parts[j]
           IN /\ part.name \in PartNames
              /\ part.off \in Nat /\ part.size \in Nat \ {0}
              /\ part.form \in {"value", "key", "when", "flags", "array", "pointerWhen", "inline"}
              /\ part.form \in Nested =>
                    part.record \in RecordNames /\ Rank[part.record] < Rank[name]
  <1> DEFINE part == JsLayout[name].parts[j]
  <1>1. PICK i \in DOMAIN GoLayout[name].parts : Agrees(GoLayout[name].parts[i], part)
    BY GoOf
  <1>2. Sound(GoLayout[name].parts[i], GoLayout[name].size, Rank[name])
    BY GoPart
  <1>3. part.name \in PartNames
    BY Domains DEF PartNames
  <1>4. part.form \in {"value", "key", "when", "flags", "array", "pointerWhen", "inline"}
    BY <1>1 DEF Agrees
  <1>5. part.form \in Nested => part.record \in RecordNames /\ Rank[part.record] < Rank[name]
    BY <1>1, <1>2, Domains DEF Agrees, Sound, Nested
  <1> QED  BY <1>1, <1>2, <1>3, <1>4, <1>5 DEF Agrees, Sound

LEMMA IntoPath ==
    ASSUME NEW path \in Paths, NEW name \in PartNames
    PROVE  Into(path, name) \in Paths
  <1> DEFINE S == (PartNames \cup {""}) \X Nat
  <1>1. <<name, 0>> \in S
    OBVIOUS
  <1> HIDE DEF S
  <1>2. \A s \in Seq(S), e \in S : Append(s, e) \in Seq(S)
    OBVIOUS
  <1>3. Paths = Seq(S)
    BY DEF Paths, S
  <1> QED  BY <1>1, <1>2, <1>3 DEF Into

LEMMA ItemPath ==
    ASSUME NEW path \in Paths, NEW i \in Nat
    PROVE  Item(path, i) \in Paths
  <1> DEFINE S == (PartNames \cup {""}) \X Nat
  <1>1. <<"", i>> \in S
    OBVIOUS
  <1> HIDE DEF S
  <1>2. \A s \in Seq(S), e \in S : Append(s, e) \in Seq(S)
    OBVIOUS
  <1>3. Paths = Seq(S)
    BY DEF Paths, S
  <1> QED  BY <1>1, <1>2, <1>3 DEF Item

\* What is read of a record follows from what is read of the records of lower rank.
LEMMA Nearby ==
    ASSUME NEW g, NEW h, NEW spot \in Spots,
           \A s \in Spots : Rank[s.name] < Rank[spot.name] => g[s] = h[s]
    PROVE  Reading(g, spot) = Reading(h, spot)
  <1> DEFINE parts == JsLayout[spot.name].parts
             features == Announced(parts, spot.at, spot.path)
             at(j) == spot.at + parts[j].off
             path(j) == Into(spot.path, parts[j].name)
             part(get, j) == GetPart(get, parts[j], parts, features, at(j), path(j))
  <1>1. spot.name \in RecordNames /\ spot.at \in Nat /\ spot.path \in Paths
    BY Domains DEF Spots
  <1>2. ASSUME NEW j \in DOMAIN parts
        PROVE  part(g, j) = part(h, j)
    <2>1. at(j) \in Nat /\ path(j) \in Paths
      BY <1>1, <1>2, JsPart, IntoPath
    <2>2. CASE parts[j].form \in {"value", "key", "when", "flags"}
      BY <2>2 DEF GetPart
    <2>3. ASSUME parts[j].form \in {"array", "pointerWhen", "inline"}
          PROVE  \A a \in Nat, p \in Paths :
                    g[Spot(parts[j].record, a, p)] = h[Spot(parts[j].record, a, p)]
      <3>1. parts[j].record \in RecordNames /\ Rank[parts[j].record] < Rank[spot.name]
        BY <1>1, <1>2, <2>3, JsPart DEF Nested
      <3> QED  BY <3>1, Domains DEF Spots, Spot
    <2>4. CASE parts[j].form = "array"
      <3> DEFINE record == parts[j].record
                 n == Look(at(j) + 4, 4, Into(path(j), "count"))
                 first == Look(at(j), 4, Into(path(j), "pointer"))
                 item(i) == Spot(record, first + JsLayout[record].size * (i - 1), Item(path(j), i))
      <3>1. ASSUME n \in Nat, first \in Nat
            PROVE  \A i \in 1..n : g[item(i)] = h[item(i)]
        <4>1. JsLayout[record].size \in Nat
          <5>1. record \in RecordNames
            BY <1>1, <1>2, <2>4, JsPart DEF Nested
          <5> QED  BY <5>1, JsOfGo, GoPlaces DEF JsMatches
        <4>2. \A i \in 1..n : first + JsLayout[record].size * (i - 1) \in Nat
          <5> HIDE DEF first, n
          <5>1. ASSUME NEW i \in 1..n, NEW s \in Nat PROVE first + s * (i - 1) \in Nat
            <6>1. i - 1 \in Nat
              BY <3>1
            <6> QED  BY <6>1, <3>1
          <5> QED  BY <4>1, <5>1
        <4>3. \A i \in 1..n : Item(path(j), i) \in Paths
          BY <3>1, <2>1, ItemPath
        <4> QED  BY <4>2, <4>3, <2>3, <2>4
      <3>2. GetArray(g, record, at(j), path(j)) = GetArray(h, record, at(j), path(j))
        BY <3>1 DEF GetArray
      <3> QED  BY <3>2, <2>4 DEF GetPart
    <2>5. CASE parts[j].form = "pointerWhen"
      BY <2>1, <2>3, <2>5 DEF GetPart, GetPointer
    <2>6. CASE parts[j].form = "inline"
      BY <2>1, <2>3, <2>6 DEF GetPart
    <2> QED  BY <2>2, <2>4, <2>5, <2>6, <1>1, <1>2, JsPart
  <1> QED  BY <1>2 DEF Reading

\* The function that reads the records of a rank by what is read of those below.
LEMMA GetReads == \A spot \in Spots : Get[spot] = Reading(Get, spot)
  <1> DEFINE Once(g) == [spot \in Spots |-> Reading(g, spot)]
             g1 == Once(<<>>)
             g2 == Once(g1)
             g3 == Once(g2)
             g4 == Once(g3)
             g5 == Once(g4)
             g6 == Once(g5)
             Same(g, h, r) == \A s \in Spots : Rank[s.name] < r => g[s] = h[s]
  <1>1. ASSUME NEW g, NEW h, NEW r \in Nat, Same(g, h, r)
        PROVE  Same(Once(g), Once(h), r + 1)
    <2> SUFFICES ASSUME NEW s \in Spots, Rank[s.name] < r + 1
                 PROVE  Reading(g, s) = Reading(h, s)
      OBVIOUS
    <2>1. \A t \in Spots : Rank[t.name] \in 0..4
      BY Ranked, Domains DEF Spots
    <2>2. \A t \in Spots : Rank[t.name] < Rank[s.name] => g[t] = h[t]
      BY <1>1, <2>1
    <2> QED  BY <2>2, Nearby
  <1> HIDE DEF Once
  <1>2. Same(<<>>, g1, 0)
    BY Ranked, Domains DEF Spots
  <1>3. Same(g1, g2, 1)
    BY <1>1, <1>2
  <1>4. Same(g2, g3, 2)
    BY <1>1, <1>3
  <1>5. Same(g3, g4, 3)
    BY <1>1, <1>4
  <1>6. Same(g4, g5, 4)
    BY <1>1, <1>5
  <1>7. Same(g5, g6, 5)
    BY <1>1, <1>6
  <1>8. g5 = g6
    <2>1. \A t \in Spots : g5[t] = g6[t]
      BY <1>7, Ranked, Domains DEF Spots
    <2> QED  BY <2>1 DEF Once
  <1>9. g5 = Once(g5)
    BY <1>8
  <1>10. Get = CHOOSE g : g = Once(g)
    BY DEF Get, Once
  <1>11. Get = Once(Get)
    <2> HIDE DEF g5
    <2> QED  BY <1>9, <1>10
  <1> QED  BY <1>11 DEF Once

-----------------------------------------------------------------------------
(* Room: nothing that an answer consists of is written over. *)

\* Fields of the memory.
Bytes(f) == f.at .. f.at + f.size - 1
Sized(f) == f.at \in Nat /\ f.size \in Nat \ {0}
Disjoint(fields) == \A f, g \in fields : f # g => Bytes(f) \cap Bytes(g) = {}

\* What has been written whole is read whole.
LEMMA LookFinds ==
    ASSUME NEW f \in memory.fields, Disjoint(memory.fields), \A g \in memory.fields : Sized(g)
    PROVE  Look(f.at, f.size, f.path) = f.val
  <1> DEFINE there == {g \in memory.fields : g.at < f.at + f.size /\ f.at < g.at + g.size}
  <1>1. f \in there
    BY DEF Sized
  <1>2. ASSUME NEW g \in there PROVE g = f
    <2> DEFINE b == IF g.at <= f.at THEN f.at ELSE g.at
    <2>1. Sized(f) /\ Sized(g)
      OBVIOUS
    <2>2. b \in Bytes(f) \cap Bytes(g)
      BY <2>1 DEF Sized, Bytes
    <2> QED  BY <2>2 DEF Disjoint
  <1>3. there = {f}
    BY <1>1, <1>2
  <1> HIDE DEF there
  <1>4. (CHOOSE g \in there : TRUE) = f
    BY <1>3
  <1>5. Look(f.at, f.size, f.path) = (CHOOSE g \in there : TRUE).val
    BY <1>1, <1>3 DEF Look, there
  <1> QED  BY <1>4, <1>5

\* What a record can have, and the records the encoder can be in.
Whiches == {answer.first, answer.others} \cup {{<<name, "nil">>} : name \in Nilable}
Tasks == {t \in [record : RecordNames, next : Nat, at : Nat, path : Paths, which : Whiches] :
            /\ t.next \in DOMAIN GoLayout[t.record].parts
            /\ <<t.record, "nil">> \in t.which => t.next = 1}
PartsOf(t) == GoLayout[t.record].parts
FeaturesOf(t) == {pair[2] : pair \in {q \in t.which : q[1] = t.record}}
HasIn(t, feature) == feature = "always" \/ feature \in FeaturesOf(t)
Nilled(t) == <<t.record, "nil">> \in t.which

\* The bytes of a part of a record, and those the encoder has still to see to.
Lives(t, i) == Nilled(t) \/ PartsOf(t)[i].form # "when" \/ HasIn(t, PartsOf(t)[i].when)
Slot(t, i) == t.at + PartsOf(t)[i].off .. t.at + PartsOf(t)[i].off + PartsOf(t)[i].size - 1
Coming(t) == {i \in DOMAIN PartsOf(t) : t.next <= i /\ Lives(t, i)}
Owns(t) == UNION {Slot(t, i) : i \in Coming(t)}

\* There is room for what is still to be written: all of it lies behind the header and
\* in front of the end, and shares no byte with another part or with a field.
Room(tasks, fields, end) ==
    /\ tasks \in Seq(Tasks)
    /\ end \in Nat /\ end >= 16
    /\ \A f \in fields : Sized(f) /\ Bytes(f) \subseteq 16 .. end - 1
    /\ Disjoint(fields)
    /\ \A k \in DOMAIN tasks : Owns(tasks[k]) \subseteq 16 .. end - 1
    /\ \A k \in DOMAIN tasks : \A f \in fields : Owns(tasks[k]) \cap Bytes(f) = {}
    /\ \A k, l \in DOMAIN tasks : k # l => Owns(tasks[k]) \cap Owns(tasks[l]) = {}

\* Bytes that nothing is in and nothing is planned for.
Free(mine, tasks, fields) ==
    /\ \A k \in DOMAIN tasks : mine \cap Owns(tasks[k]) = {}
    /\ \A f \in fields : mine \cap Bytes(f) = {}

LEMMA Joined ==
    ASSUME NEW S, NEW a \in Seq(S), NEW b \in Seq(S), NEW k \in DOMAIN (a \o b)
    PROVE  \/ k \in DOMAIN a /\ (a \o b)[k] = a[k]
           \/ k \notin DOMAIN a /\ k - Len(a) \in DOMAIN b /\ (a \o b)[k] = b[k - Len(a)]
  OBVIOUS

\* Free bytes take new fields and new tasks.
LEMMA Extend ==
    ASSUME NEW tasks, NEW fields, NEW end, Room(tasks, fields, end),
           NEW new \in Seq(Tasks), NEW added, NEW mine, NEW later \in Nat, end <= later,
           mine \subseteq 16 .. later - 1, Free(mine, tasks, fields),
           \A f \in added : Sized(f) /\ Bytes(f) \subseteq mine,
           Disjoint(added),
           \A k \in DOMAIN new : Owns(new[k]) \subseteq mine,
           \A k \in DOMAIN new : \A f \in added : Owns(new[k]) \cap Bytes(f) = {},
           \A k, l \in DOMAIN new : k # l => Owns(new[k]) \cap Owns(new[l]) = {}
    PROVE  Room(new \o tasks, fields \cup added, later)
  <1>1. new \o tasks \in Seq(Tasks)
    BY DEF Room
  <1>2. \A x \in 16 .. end - 1 : x \in 16 .. later - 1
    BY DEF Room
  <1>3. \A f \in fields \cup added : Sized(f) /\ Bytes(f) \subseteq 16 .. later - 1
    BY <1>2 DEF Room
  <1>4. Disjoint(fields \cup added)
    BY DEF Room, Disjoint, Free
  <1>5. ASSUME NEW k \in DOMAIN (new \o tasks)
        PROVE  \/ k \in DOMAIN new /\ (new \o tasks)[k] = new[k]
               \/ k \notin DOMAIN new /\ k - Len(new) \in DOMAIN tasks
                  /\ (new \o tasks)[k] = tasks[k - Len(new)]
    BY <1>5, Joined DEF Room
  <1> DEFINE all == new \o tasks
  <1> HIDE DEF all
  <1>6. \A k \in DOMAIN all : Owns(all[k]) \subseteq 16 .. later - 1
    BY <1>5, <1>2 DEF Room, all
  <1>7. \A k \in DOMAIN all : \A f \in fields \cup added : Owns(all[k]) \cap Bytes(f) = {}
    BY <1>5 DEF Room, Free, all
  <1>8. ASSUME NEW k \in DOMAIN all, NEW l \in DOMAIN all, k # l
        PROVE  Owns(all[k]) \cap Owns(all[l]) = {}
    <2>1. k \in Int /\ l \in Int /\ Len(new) \in Int
      BY <1>1 DEF all
    <2>2. k - Len(new) # l - Len(new)
      BY <2>1, <1>8
    <2> QED  BY <1>5, <1>8, <2>2 DEF Room, Free, all
  <1>9. later >= 16
    BY DEF Room
  <1> QED  BY <1>1, <1>3, <1>4, <1>6, <1>7, <1>8, <1>9 DEF Room, all

\* The answer is one a handler can give.
AnswerFits == Consistent(answer.first) /\ Consistent(answer.others)

\* What a record of an answer can have.
LEMMA WhichFits ==
    ASSUME AnswerFits, NEW t \in Tasks
    PROVE  /\ Nilled(t) => t.record \in Nilable /\ t.next = 1
           /\ ~(t.record = "type" /\ HasIn(t, "number") /\ HasIn(t, "bool"))
  <1>1. CASE Consistent(t.which)
    <2>1. \A q \in t.which : q = <<q[1], q[2]>>
      BY <1>1 DEF Consistent
    <2>2. ~(t.record = "type" /\ HasIn(t, "number") /\ HasIn(t, "bool"))
      BY <1>1, <2>1 DEF Consistent, HasIn, FeaturesOf
    <2>3. Nilled(t) => t.record \in Nilable
      BY <1>1 DEF Consistent, Nilled, Nilable
    <2> QED  BY <2>2, <2>3 DEF Tasks, Nilled
  <1>2. CASE \E name \in Nilable : t.which = {<<name, "nil">>}
    <2>1. Nilled(t) => t.record \in Nilable
      BY <1>2 DEF Nilled
    <2>2. ~HasIn(t, "number")
      BY <1>2 DEF HasIn, FeaturesOf
    <2> QED  BY <2>1, <2>2 DEF Tasks, Nilled
  <1> QED  BY <1>1, <1>2 DEF Tasks, Whiches, AnswerFits

\* The parts of a record in the encoder.
LEMMA TaskParts ==
    ASSUME NEW t \in Tasks
    PROVE  /\ t.record \in RecordNames /\ t.at \in Nat /\ t.next \in Nat /\ t.path \in Paths
           /\ t.which \in Whiches /\ t.next \in DOMAIN PartsOf(t)
           /\ DOMAIN PartsOf(t) = 1..Len(PartsOf(t)) /\ Len(PartsOf(t)) \in Nat \ {0}
           /\ GoLayout[t.record].size \in Nat
           /\ \A i \in DOMAIN PartsOf(t) :
                 Sound(PartsOf(t)[i], GoLayout[t.record].size, Rank[t.record])
  BY GoPlaces, GoPart DEF Tasks, PartsOf

LEMMA PartPlace ==
    ASSUME NEW t \in Tasks, NEW i \in DOMAIN PartsOf(t)
    PROVE  /\ t.at \in Nat /\ GoLayout[t.record].size \in Nat
           /\ PartsOf(t)[i].off \in Nat /\ PartsOf(t)[i].size \in Nat \ {0}
           /\ PartsOf(t)[i].off + PartsOf(t)[i].size <= GoLayout[t.record].size
  BY TaskParts DEF Sound

LEMMA SlotIn ==
    ASSUME NEW t \in Tasks, NEW i \in DOMAIN PartsOf(t)
    PROVE  Slot(t, i) \subseteq t.at .. t.at + GoLayout[t.record].size - 1
  <1>1. ASSUME NEW a \in Nat, NEW off \in Nat, NEW size \in Nat, NEW all \in Nat, off + size <= all
        PROVE  a + off .. a + off + size - 1 \subseteq a .. a + all - 1
    BY <1>1
  <1> QED  BY <1>1, PartPlace DEF Slot

\* The encoder puts the parts of a record into the record.
LEMMA OwnsIn ==
    ASSUME NEW t \in Tasks
    PROVE  Owns(t) \subseteq t.at .. t.at + GoLayout[t.record].size - 1
  BY SlotIn DEF Owns, Coming

\* No two parts of a record that are written share a byte.
LEMMA SlotsApart ==
    ASSUME AnswerFits, NEW t \in Tasks, NEW i \in DOMAIN PartsOf(t), NEW j \in DOMAIN PartsOf(t),
           i # j, Lives(t, i), Lives(t, j)
    PROVE  Slot(t, i) \cap Slot(t, j) = {}
  <1>1. Clear(t.record, PartsOf(t)[i], PartsOf(t)[j])
    BY TaskParts, GoClear DEF PartsOf
  <1>2. ASSUME NEW a \in Nat, NEW o \in Nat, NEW s \in Nat, NEW p \in Nat, NEW r \in Nat,
               o + s <= p \/ p + r <= o
        PROVE  (a + o .. a + o + s - 1) \cap (a + p .. a + p + r - 1) = {}
    BY <1>2
  <1>3. CASE \/ PartsOf(t)[i].off + PartsOf(t)[i].size <= PartsOf(t)[j].off
             \/ PartsOf(t)[j].off + PartsOf(t)[j].size <= PartsOf(t)[i].off
    BY <1>2, <1>3, PartPlace DEF Slot
  <1>4. CASE /\ t.record = "type" /\ PartsOf(t)[i].form = "when" /\ PartsOf(t)[j].form = "when"
             /\ <<PartsOf(t)[i].when, PartsOf(t)[j].when>>
                  \in {<<"number", "bool">>, <<"bool", "number">>}
    <2>1. ~Nilled(t)
      BY <1>4, WhichFits DEF Nilable
    <2> QED  BY <2>1, <1>4, WhichFits DEF Lives
  <1> QED  BY <1>1, <1>3, <1>4 DEF Clear

\* A new record has all of its place before it.
LEMMA NewTask ==
    ASSUME NEW record \in RecordNames, NEW at \in Nat, NEW path \in Paths, NEW which \in Whiches
    PROVE  /\ Task(record, at, path, which) \in Tasks
           /\ Task(record, at, path, which).record = record
           /\ Task(record, at, path, which).at = at
           /\ Task(record, at, path, which).which = which
           /\ Owns(Task(record, at, path, which)) \subseteq at .. at + GoLayout[record].size - 1
  <1>1. 1 \in DOMAIN GoLayout[record].parts
    BY GoPlaces
  <1>2. Task(record, at, path, which) \in Tasks
    BY <1>1 DEF Task, Tasks
  <1> QED  BY <1>2, OwnsIn DEF Task

LEMMA Multiples ==
    ASSUME NEW s \in Nat, NEW k \in Nat, NEW l \in Nat, k < l
    PROVE  s * k \in Nat /\ s * k + s <= s * l
  <1>1. PICK d \in Nat : l = k + 1 + d
    <2>1. l - k - 1 \in Nat /\ l = k + 1 + (l - k - 1)
      OBVIOUS
    <2> QED  BY <2>1
  <1>2. s * l = s * k + s + s * d /\ s * d \in Nat /\ s * k \in Nat
    BY <1>1
  <1> QED  BY <1>2

\* A run of records fills its place, and no two of them share a byte.
LEMMA RunRoom ==
    ASSUME NEW record \in RecordNames, NEW n \in Nat, NEW at \in Nat, NEW path \in Paths,
           NEW which \in Whiches, NEW others \in Whiches
    PROVE  LET run == Run(record, n, at, path, which, others)
           IN /\ run \in Seq(Tasks) /\ DOMAIN run = 1..n
              /\ \A k \in 1..n : Owns(run[k]) \subseteq at .. at + n * GoLayout[record].size - 1
              /\ \A k, l \in 1..n : k # l => Owns(run[k]) \cap Owns(run[l]) = {}
  <1> DEFINE run == Run(record, n, at, path, which, others)
             size == GoLayout[record].size
             place(k) == at + size * (k - 1)
  <1>1. size \in Nat
    BY GoPlaces
  <1> HIDE DEF size
  <1>2. ASSUME NEW k \in 1..n
        PROVE  place(k) \in Nat /\ place(k) + size <= at + n * size
    <2>1. k - 1 \in Nat /\ k - 1 < n
      OBVIOUS
    <2> DEFINE m == k - 1
    <2> HIDE DEF m
    <2>2. size * m \in Nat /\ size * m + size <= size * n
      BY <1>1, <2>1, Multiples DEF m
    <2>3. size * n = n * size
      BY <1>1
    <2>4. at + size * m \in Nat /\ at + size * m + size <= at + n * size
      BY <1>1, <2>2, <2>3
    <2> QED  BY <2>4 DEF m
  <1>3. ASSUME NEW k \in 1..n, NEW l \in 1..n, k < l
        PROVE  place(k) + size <= place(l)
    <2> DEFINE m == k - 1
               p == l - 1
    <2>1. m \in Nat /\ p \in Nat /\ m < p
      BY <1>3
    <2> HIDE DEF m, p
    <2>2. size * m \in Nat /\ size * p \in Nat /\ size * m + size <= size * p
      BY <1>1, <2>1, Multiples
    <2>3. at + size * m + size <= at + size * p
      BY <1>1, <2>2
    <2> QED  BY <2>3 DEF m, p
  <1>4. run = [k \in 1..n |->
                  Task(record, place(k), Item(path, k), IF k = 1 THEN which ELSE others)]
    BY DEF Run, size
  <1> HIDE DEF run
  <1>5. ASSUME NEW k \in 1..n
        PROVE  run[k] \in Tasks /\ Owns(run[k]) \subseteq place(k) .. place(k) + size - 1
    <2>1. Item(path, k) \in Paths
      BY ItemPath
    <2>2. place(k) \in Nat
      BY <1>2
    <2> HIDE DEF place
    <2> QED  BY <1>4, <2>1, <2>2, NewTask DEF size
  <1>6. run \in Seq(Tasks) /\ DOMAIN run = 1..n
    BY <1>4, <1>5
  <1>7. \A k \in 1..n : Owns(run[k]) \subseteq at .. at + n * size - 1
    <2>1. ASSUME NEW k \in 1..n
          PROVE  place(k) .. place(k) + size - 1 \subseteq at .. at + n * size - 1
      <3>1. at <= place(k)
        <4>1. size * (k - 1) \in Nat
          BY <1>1
        <4> QED  BY <4>1
      <3>2. place(k) \in Nat /\ place(k) + size <= at + n * size /\ n * size \in Nat
        BY <1>1, <1>2
      <3> HIDE DEF place
      <3> QED  BY <3>1, <3>2, <1>1
    <2> QED  BY <2>1, <1>5
  <1>8. ASSUME NEW k \in 1..n, NEW l \in 1..n, k # l
        PROVE  Owns(run[k]) \cap Owns(run[l]) = {}
    <2>1. place(k) + size <= place(l) \/ place(l) + size <= place(k)
      <3>1. k < l \/ l < k
        BY <1>8
      <3> QED  BY <3>1, <1>3
    <2>2. place(k) \in Nat /\ place(l) \in Nat
      BY <1>2
    <2> HIDE DEF place
    <2>3. (place(k) .. place(k) + size - 1) \cap (place(l) .. place(l) + size - 1) = {}
      BY <2>1, <2>2, <1>1
    <2> QED  BY <2>3, <1>5
  <1> QED  BY <1>6, <1>7, <1>8 DEF run, size

Slots == DOMAIN memory = {"fields", "said", "recOff", "packOff"}

\* The encoder leaves a record.
LEMMA TailRoom ==
    ASSUME NEW fields, NEW end, Room(todo, fields, end), todo # <<>>
    PROVE  /\ Current \in Tasks
           /\ Tail(todo) \in Seq(Tasks)
           /\ Room(Tail(todo), fields, end)
           /\ Free(Owns(Current), Tail(todo), fields)
           /\ Owns(Current) \subseteq 16 .. end - 1
  <1>1. /\ Tail(todo) \in Seq(Tasks)
        /\ \A k \in DOMAIN Tail(todo) : k + 1 \in DOMAIN todo /\ Tail(todo)[k] = todo[k + 1]
        /\ DOMAIN Tail(todo) \subseteq Nat \ {0}
        /\ Current = todo[1] /\ 1 \in DOMAIN todo /\ Current \in Tasks
    BY DEF Room, Current
  <1> DEFINE tail == Tail(todo)
  <1> HIDE DEF tail
  <1>2. \A k, l \in DOMAIN tail : k # l => k + 1 # l + 1
    BY <1>1 DEF tail
  <1>3. \A k \in DOMAIN tail : k + 1 # 1
    BY <1>1 DEF tail
  <1>4. Room(tail, fields, end)
    BY <1>1, <1>2 DEF Room, tail
  <1>5. Free(Owns(Current), tail, fields)
    BY <1>1, <1>3 DEF Room, Free, tail
  <1> QED  BY <1>1, <1>4, <1>5 DEF Room, tail

\* The encoder goes to the next part: the bytes of this one are free.
LEMMA RestRoom ==
    ASSUME AnswerFits, NEW fields, NEW end, Room(todo, fields, end), todo # <<>>, ~Nil
    PROVE  /\ Current \in Tasks
           /\ Room(Rest, fields, end)
           /\ Lives(Current, Current.next) =>
                /\ Free(Slot(Current, Current.next), Rest, fields)
                /\ Slot(Current, Current.next) \subseteq 16 .. end - 1
  <1> DEFINE t == Current
             next == [t EXCEPT !.next = @ + 1]
             mine == Slot(t, t.next)
             tail == Tail(todo)
  <1>1. /\ t \in Tasks /\ tail \in Seq(Tasks)
        /\ Room(tail, fields, end) /\ Free(Owns(t), tail, fields)
        /\ Owns(t) \subseteq 16 .. end - 1
    BY TailRoom
  <1>2. ~Nilled(t)
    BY DEF Nil, Nilled
  <1>3. t.next \in DOMAIN PartsOf(t)
    BY <1>1, TaskParts
  <1>4. Lives(t, t.next) => mine \subseteq Owns(t)
    BY <1>1, <1>3, TaskParts DEF Owns, Coming
  <1>5. CASE t.next = Len(Parts)
    <2>1. Rest = tail
      BY <1>5 DEF Rest
    <2> QED  BY <1>1, <1>4, <2>1 DEF Free
  <1>6. CASE t.next # Len(Parts)
    <2>1. Rest = <<next>> \o tail
      BY <1>6 DEF Rest
    <2>2. next.record = t.record /\ next.at = t.at /\ next.path = t.path /\ next.which = t.which
          /\ next.next = t.next + 1
      BY <1>1 DEF Tasks
    <2>3. next \in Tasks
      <3>1. t.next + 1 \in DOMAIN PartsOf(t) /\ t.next + 1 \in Nat
        BY <1>1, <1>3, <1>6, TaskParts, SMTT(30) DEF Parts, PartsOf
      <3> QED  BY <1>1, <1>2, <3>1 DEF Tasks, Nilled, PartsOf
    <2>4. /\ PartsOf(next) = PartsOf(t)
          /\ \A i : Slot(next, i) = Slot(t, i) /\ (Lives(next, i) <=> Lives(t, i))
      BY <2>2 DEF PartsOf, Slot, Lives, Nilled, HasIn, FeaturesOf
    <2>5. \A i \in Coming(next) : i \in Coming(t) /\ i # t.next
      BY <1>1, <1>3, <2>2, <2>4, TaskParts DEF Coming
    <2>6. Owns(next) \subseteq Owns(t)
      BY <2>4, <2>5 DEF Owns
    <2>7. Lives(t, t.next) => Owns(next) \cap mine = {}
      BY <1>1, <1>3, <2>4, <2>5, SlotsApart DEF Owns, Coming
    <2>8. Room(<<next>> \o tail, fields \cup {}, end)
      <3>1. <<next>> \in Seq(Tasks) /\ DOMAIN <<next>> = {1} /\ <<next>>[1] = next
        BY <2>3
      <3> DEFINE one == <<next>>
      <3> HIDE DEF one, next
      <3>2. /\ \A k \in DOMAIN one : Owns(one[k]) \subseteq Owns(t)
            /\ \A k, l \in DOMAIN one : k # l => Owns(one[k]) \cap Owns(one[l]) = {}
        BY <2>6, <3>1 DEF one
      <3>3. end \in Nat /\ end <= end
        BY <1>1 DEF Room
      <3>4. Disjoint({})
        BY DEF Disjoint
      <3> QED  BY <1>1, <3>1, <3>2, <3>3, <3>4, Extend DEF one
    <2>9. Lives(t, t.next) => Free(mine, <<next>> \o tail, fields)
      <3> SUFFICES ASSUME Lives(t, t.next) PROVE Free(mine, <<next>> \o tail, fields)
        OBVIOUS
      <3>1. <<next>> \in Seq(Tasks) /\ DOMAIN <<next>> = {1} /\ <<next>>[1] = next
        BY <2>3
      <3>2. \A k \in DOMAIN (<<next>> \o tail) :
              \/ (<<next>> \o tail)[k] = next
              \/ \E l \in DOMAIN tail : (<<next>> \o tail)[k] = tail[l]
        BY <1>1, <3>1, Joined
      <3> HIDE DEF next, tail
      <3> QED  BY <1>1, <1>4, <2>7, <3>2 DEF Free
    <2> QED  BY <1>1, <1>4, <2>1, <2>8, <2>9
  <1> QED  BY <1>5, <1>6

\* The part the encoder is at.
LEMMA NowPart ==
    ASSUME NEW fields, NEW end, Room(todo, fields, end), todo # <<>>
    PROVE  /\ Now = PartsOf(Current)[Current.next]
           /\ Sound(Now, GoLayout[Current.record].size, Rank[Current.record])
           /\ At \in Nat /\ Path \in Paths
           /\ Slot(Current, Current.next) = At .. At + Now.size - 1
           /\ Now.name \in PartNames
           /\ \A feature : Has(feature) <=> HasIn(Current, feature)
  <1>1. Current \in Tasks
    BY TailRoom
  <1>2. Now = PartsOf(Current)[Current.next]
    BY DEF Now, Parts, PartsOf
  <1>3. Sound(Now, GoLayout[Current.record].size, Rank[Current.record])
    BY <1>1, <1>2, TaskParts
  <1>4. At \in Nat
    BY <1>1, <1>3, TaskParts DEF At, Sound
  <1>5. Now.name \in PartNames
    <2>1. \E j \in DOMAIN JsLayout[Current.record].parts :
            JsLayout[Current.record].parts[j].name = Now.name
      BY <1>1, <1>2, TaskParts, JsOf DEF Agrees, PartsOf
    <2> QED  BY <1>1, <2>1, TaskParts, JsPart
  <1>6. Path \in Paths
    BY <1>1, <1>5, TaskParts, IntoPath DEF Path
  <1>7. Slot(Current, Current.next) = At .. At + Now.size - 1
    BY <1>2 DEF Slot, At
  <1>8. \A feature : Has(feature) <=> HasIn(Current, feature)
    BY DEF Has, Features, HasIn, FeaturesOf
  <1> QED  BY <1>2, <1>3, <1>4, <1>5, <1>6, <1>7, <1>8

\* The room the encoder has.
Roomy == Slots /\ Room(todo, memory.fields, memory.packOff)

\* Free bytes take new tasks.
LEMMA NewTasks ==
    ASSUME NEW tasks, NEW fields, NEW end, Room(tasks, fields, end),
           NEW new \in Seq(Tasks), NEW mine, NEW later \in Nat, end <= later,
           mine \subseteq 16 .. later - 1, Free(mine, tasks, fields),
           \A k \in DOMAIN new : Owns(new[k]) \subseteq mine,
           \A k, l \in DOMAIN new : k # l => Owns(new[k]) \cap Owns(new[l]) = {}
    PROVE  Room(new \o tasks, fields, later)
  <1>1. Disjoint({})
    BY DEF Disjoint
  <1>2. Room(new \o tasks, fields \cup {}, later)
    BY <1>1, Extend
  <1>3. fields \cup {} = fields
    OBVIOUS
  <1> QED  BY <1>2, <1>3

LEMMA NewTaskRoom ==
    ASSUME NEW tasks, NEW fields, NEW end, Room(tasks, fields, end),
           NEW task \in Tasks, NEW mine, NEW later \in Nat, end <= later,
           mine \subseteq 16 .. later - 1, Free(mine, tasks, fields), Owns(task) \subseteq mine
    PROVE  Room(<<task>> \o tasks, fields, later)
  <1> DEFINE one == <<task>>
  <1>1. one \in Seq(Tasks) /\ DOMAIN one = {1} /\ one[1] = task
    OBVIOUS
  <1> HIDE DEF one
  <1>2. /\ \A k \in DOMAIN one : Owns(one[k]) \subseteq mine
        /\ \A k, l \in DOMAIN one : k # l => Owns(one[k]) \cap Owns(one[l]) = {}
    BY <1>1
  <1>3. Room(one \o tasks, fields, later)
    BY <1>1, <1>2, NewTasks
  <1> QED  BY <1>3 DEF one

LEMMA FieldIs ==
    ASSUME NEW at, NEW size, NEW path, NEW val
    PROVE  LET f == Field(at, size, path, val)
           IN /\ f.at = at /\ f.size = size /\ f.path = path /\ f.val = val
              /\ Bytes(f) = at .. at + size - 1
              /\ (at \in Nat /\ size \in Nat \ {0} => Sized(f))
  BY DEF Field, Bytes, Sized

\* One field in the place of the current part.
LEMMA OneField ==
    ASSUME AnswerFits, NEW fields, NEW end, Room(todo, fields, end), todo # <<>>, ~Nil,
           Lives(Current, Current.next), NEW path, NEW val
    PROVE  Room(Rest, fields \cup {Field(At, Now.size, path, val)}, end)
  <1> DEFINE f == Field(At, Now.size, path, val)
             mine == Slot(Current, Current.next)
  <1>1. At \in Nat /\ Now.size \in Nat \ {0} /\ mine = At .. At + Now.size - 1
    BY NowPart DEF Sound
  <1>2. Sized(f) /\ Bytes(f) = mine
    BY <1>1, FieldIs
  <1>3. Room(Rest, fields, end) /\ Free(mine, Rest, fields) /\ mine \subseteq 16 .. end - 1
    BY RestRoom
  <1>4. end \in Nat /\ end <= end /\ Rest \in Seq(Tasks)
    BY <1>3 DEF Room
  <1>5. Disjoint({f})
    BY DEF Disjoint
  <1>6. <<>> \in Seq(Tasks) /\ DOMAIN <<>> = {} /\ <<>> \o Rest = Rest
    BY <1>4
  <1> HIDE DEF f, mine
  <1>7. Room(<<>> \o Rest, fields \cup {f}, end)
    BY <1>2, <1>3, <1>4, <1>5, <1>6, Extend
  <1> QED  BY <1>6, <1>7 DEF f

LEMMA PutWordRoom ==
    ASSUME AnswerFits, Roomy, PutWord
    PROVE  Room(todo', memory'.fields, memory'.packOff) /\ Slots'
  <1>1. todo # <<>> /\ ~Nil /\ todo' = Rest /\ Now.form \in {"value", "zeroed", "when"}
    BY DEF PutWord, Encoding
  <1>2. /\ memory'.packOff = memory.packOff
        /\ memory'.fields = memory.fields \cup
              (IF Now.form = "when" /\ ~Has(Now.when) THEN {}
               ELSE {Field(At, Now.size, Path, IF Has(Now.when) THEN Given ELSE None)})
        /\ Slots'
    BY DEF PutWord, Roomy, Slots
  <1>3. CASE Now.form = "when" /\ ~Has(Now.when)
    <2>1. Room(Rest, memory.fields, memory.packOff)
      BY <1>1, RestRoom DEF Roomy
    <2>2. memory'.fields = memory.fields
      BY <1>2, <1>3
    <2> QED  BY <1>1, <1>2, <2>1, <2>2
  <1>4. CASE ~(Now.form = "when" /\ ~Has(Now.when))
    <2>1. Lives(Current, Current.next)
      BY <1>1, <1>4, NowPart DEF Lives, Roomy
    <2> QED  BY <1>1, <1>2, <1>4, <2>1, OneField DEF Roomy
  <1> QED  BY <1>3, <1>4

LEMMA LivesNow ==
    ASSUME NEW fields, NEW end, Room(todo, fields, end), todo # <<>>, Now.form # "when"
    PROVE  Lives(Current, Current.next)
  BY NowPart DEF Lives

LEMMA PutFlagsRoom ==
    ASSUME AnswerFits, Roomy, PutFlags
    PROVE  Room(todo', memory'.fields, memory'.packOff) /\ Slots'
  <1>1. todo # <<>> /\ ~Nil /\ todo' = Rest /\ Now.form = "flags"
    BY DEF PutFlags, Encoding
  <1>2. PICK bits : /\ memory'.packOff = memory.packOff
                    /\ memory'.fields
                         = memory.fields \cup {Field(At, Now.size, Item(Path, Now.off), bits)}
                    /\ Slots'
    BY DEF PutFlags, Roomy, Slots
  <1>3. Lives(Current, Current.next)
    BY <1>1, LivesNow DEF Roomy
  <1> QED  BY <1>1, <1>2, <1>3, OneField DEF Roomy

\* What the records in the current one have.
LEMMA WhichNow ==
    ASSUME NEW fields, NEW end, Room(todo, fields, end), todo # <<>>
    PROVE  /\ Current.which \in Whiches /\ answer.others \in Whiches
           /\ Now.form \in Nested => Now.record \in RecordNames
           /\ Now.form = "inline" => /\ Now.record \in Nilable
                                     /\ Now.size = GoLayout[Now.record].size
                                     /\ {<<Now.record, "nil">>} \in Whiches
  <1>1. Current \in Tasks /\ Sound(Now, GoLayout[Current.record].size, Rank[Current.record])
    BY TailRoom, NowPart
  <1>2. Current.which \in Whiches /\ answer.others \in Whiches
    BY <1>1 DEF Tasks, Whiches
  <1>3. /\ GoLayout["handle"].size = 16 /\ GoLayout["definition"].size = 48
        /\ GoLayout["lightSymbol"].size = 32
    BY DEF GoLayout, GoHandle, GoDefinition, GoLightSymbol, Record
  <1>4. Now.form = "inline" =>
          <<Now.record, Now.size>> \in
             {<<"handle", 16>>, <<"definition", 48>>, <<"lightSymbol", 32>>}
    BY <1>1 DEF Sound
  <1>5. Now.form = "inline" => Now.record \in Nilable /\ Now.size = GoLayout[Now.record].size
    BY <1>3, <1>4 DEF Nilable
  <1>6. Now.form = "inline" => {<<Now.record, "nil">>} \in Whiches
    BY <1>5 DEF Whiches
  <1> QED  BY <1>1, <1>2, <1>5, <1>6, Domains DEF Sound

LEMMA PutInlineRoom ==
    ASSUME AnswerFits, Roomy, PutInline
    PROVE  Room(todo', memory'.fields, memory'.packOff) /\ Slots'
  <1> DEFINE which == IF Has(Now.when) THEN Current.which ELSE {<<Now.record, "nil">>}
             task == Task(Now.record, At, Path, which)
             mine == Slot(Current, Current.next)
             end == memory.packOff
  <1>1. todo # <<>> /\ ~Nil /\ Now.form = "inline"
    BY DEF PutInline, Encoding
  <1>2. todo' = <<task>> \o Rest /\ memory' = memory /\ Slots'
    BY DEF PutInline, Roomy, Slots
  <1>3. Lives(Current, Current.next)
    BY <1>1, LivesNow DEF Roomy
  <1>4. /\ Room(Rest, memory.fields, end) /\ Free(mine, Rest, memory.fields)
        /\ mine \subseteq 16 .. end - 1
    BY <1>1, <1>3, RestRoom DEF Roomy
  <1>5. task \in Tasks /\ Owns(task) \subseteq mine
    <2>1. At \in Nat /\ Path \in Paths /\ mine = At .. At + Now.size - 1
      BY <1>1, NowPart DEF Roomy
    <2>2. /\ Now.record \in RecordNames /\ Now.size = GoLayout[Now.record].size
          /\ which \in Whiches
      BY <1>1, WhichNow DEF Roomy, Nested
    <2> HIDE DEF which
    <2> QED  BY <2>1, <2>2, NewTask
  <1>6. end \in Nat /\ end <= end
    BY <1>4 DEF Room
  <1> HIDE DEF task, mine
  <1>7. Room(<<task>> \o Rest, memory.fields, end)
    BY <1>4, <1>5, <1>6, NewTaskRoom
  <1> QED  BY <1>2, <1>7

\* A pointer in the place of the current part, and a record behind everything so far.
LEMMA PutPointerRoom ==
    ASSUME AnswerFits, Roomy, PutPointer
    PROVE  Room(todo', memory'.fields, memory'.packOff) /\ Slots'
  <1> DEFINE end == memory.packOff
             size == GoLayout[Now.record].size
             task == Task(Now.record, end, Path, Current.which)
             slot == Slot(Current, Current.next)
             fresh == end .. end + size - 1
             f(val) == Field(At, 4, Into(Path, "pointer"), val)
  <1>1. todo # <<>> /\ ~Nil /\ Now.form \in {"pointer", "pointerWhen"}
    BY DEF PutPointer, Encoding
  <1>2. Lives(Current, Current.next)
    BY <1>1, LivesNow DEF Roomy
  <1>3. /\ Room(Rest, memory.fields, end) /\ Free(slot, Rest, memory.fields)
        /\ slot \subseteq 16 .. end - 1
    BY <1>1, <1>2, RestRoom DEF Roomy
  <1>4. Now.size = 4 /\ Now.record \in RecordNames /\ Path \in Paths /\ At \in Nat
    BY <1>1, NowPart, WhichNow DEF Roomy, Sound, Nested
  <1>5. CASE ~Has(Now.when)
    <2>1. /\ todo' = Rest /\ memory'.packOff = end /\ Slots'
          /\ memory'.fields = memory.fields \cup IF Now.form = "pointer" THEN {f(0)} ELSE {}
      BY <1>5 DEF PutPointer, Write, Roomy, Slots
    <2>2. Room(Rest, memory.fields \cup {f(0)}, end)
      BY <1>1, <1>2, <1>4, OneField DEF Roomy
    <2>3. memory.fields \cup {} = memory.fields
      OBVIOUS
    <2> QED  BY <1>3, <2>1, <2>2, <2>3
  <1>6. CASE Has(Now.when)
    <2> DEFINE fields == memory.fields \cup {f(end)}
               later == end + size
    <2>1. /\ todo' = <<task>> \o Rest /\ memory'.packOff = later /\ Slots'
          /\ memory'.fields = fields
      BY <1>6 DEF PutPointer, Roomy, Slots
    <2>2. Room(Rest, fields, end)
      BY <1>1, <1>2, <1>4, OneField DEF Roomy
    <2>3. size \in Nat /\ end \in Nat /\ Current.which \in Whiches
      BY <1>1, <1>4, <1>3, GoPlaces, WhichNow DEF Room, Roomy
    <2>4. task \in Tasks /\ Owns(task) \subseteq fresh
      BY <1>4, <2>3, NewTask
    <2>5. /\ \A b \in fresh : b \notin 16 .. end - 1
          /\ fresh \subseteq 16 .. later - 1
          /\ later \in Nat /\ end <= later
      <3>1. end >= 16
        BY <1>3 DEF Room
      <3> HIDE DEF end, size
      <3> QED  BY <2>3, <3>1
    <2>6. Free(fresh, Rest, fields)
      BY <2>2, <2>5 DEF Free, Room
    <2> HIDE DEF task, fresh, end, size, later, fields
    <2>7. Room(<<task>> \o Rest, fields, later)
      BY <2>2, <2>4, <2>5, <2>6, NewTaskRoom
    <2> QED  BY <2>1, <2>7
  <1> QED  BY <1>5, <1>6

\* A pointer and a count in the place of the current part, and the elements
\* behind everything so far.
LEMMA TwoFields ==
    ASSUME AnswerFits, NEW fields, NEW end, Room(todo, fields, end), todo # <<>>, ~Nil,
           Now.form = "array", NEW first, NEW n
    PROVE  Room(Rest, fields \cup {Field(At, 4, Into(Path, "pointer"), first),
                                   Field(At + 4, 4, Into(Path, "count"), n)}, end)
  <1> DEFINE f == Field(At, 4, Into(Path, "pointer"), first)
             g == Field(At + 4, 4, Into(Path, "count"), n)
             mine == Slot(Current, Current.next)
  <1>1. At \in Nat /\ Now.size = 8 /\ mine = At .. At + Now.size - 1
    BY NowPart DEF Sound
  <1>2. Sized(f) /\ Bytes(f) = At .. At + 4 - 1 /\ Sized(g) /\ Bytes(g) = At + 4 .. At + 4 + 4 - 1
    BY <1>1, FieldIs
  <1>3. \A h \in {f, g} : Sized(h) /\ Bytes(h) \subseteq mine
    BY <1>1, <1>2
  <1>4. Disjoint({f, g})
    BY <1>1, <1>2 DEF Disjoint
  <1>5. Room(Rest, fields, end) /\ Free(mine, Rest, fields) /\ mine \subseteq 16 .. end - 1
    BY RestRoom, LivesNow
  <1>6. end \in Nat /\ end <= end /\ Rest \in Seq(Tasks)
    BY <1>5 DEF Room
  <1>7. <<>> \in Seq(Tasks) /\ DOMAIN <<>> = {} /\ <<>> \o Rest = Rest
    BY <1>6
  <1> DEFINE added == {f, g}
  <1> HIDE DEF mine, added
  <1>8. Room(<<>> \o Rest, fields \cup added, end)
    BY <1>3, <1>4, <1>5, <1>6, <1>7, Extend DEF added
  <1> QED  BY <1>7, <1>8 DEF added

LEMMA PutArrayRoom ==
    ASSUME AnswerFits, Roomy, PutArray
    PROVE  Room(todo', memory'.fields, memory'.packOff) /\ Slots'
  <1> DEFINE n == IF Has(Now.when) THEN ArrayLength ELSE 0
             end == memory.packOff
             size == GoLayout[Now.record].size
             new == Run(Now.record, n, end, Path, Current.which, answer.others)
             later == end + n * size
             fresh == end .. end + n * size - 1
             fields == memory.fields \cup {
                         Field(At, 4, Into(Path, "pointer"), IF n = 0 THEN 0 ELSE end),
                         Field(At + 4, 4, Into(Path, "count"), n)}
  <1>1. todo # <<>> /\ ~Nil /\ Now.form = "array"
    BY DEF PutArray, Encoding
  <1>2. todo' = new \o Rest /\ memory'.packOff = later /\ Slots' /\ memory'.fields = fields
    BY DEF PutArray, Roomy, Slots
  <1>3. Room(Rest, fields, end)
    BY <1>1, TwoFields DEF Roomy
  <1>4. /\ Now.record \in RecordNames /\ Path \in Paths
        /\ Current.which \in Whiches /\ answer.others \in Whiches
    BY <1>1, NowPart, WhichNow DEF Roomy, Nested
  <1>5. n \in Nat /\ size \in Nat /\ end \in Nat /\ end >= 16
    BY <1>3, <1>4, GoPlaces, LengthsAssumption DEF Room
  <1>6. /\ new \in Seq(Tasks) /\ DOMAIN new = 1..n
        /\ \A k \in 1..n : Owns(new[k]) \subseteq fresh
        /\ \A k, l \in 1..n : k # l => Owns(new[k]) \cap Owns(new[l]) = {}
    <2> HIDE DEF n, end
    <2> QED  BY <1>4, <1>5, RunRoom
  <1>7. /\ later \in Nat /\ end <= later
        /\ fresh \subseteq 16 .. later - 1
        /\ \A b \in fresh : b \notin 16 .. end - 1
    <2>1. n * size \in Nat
      BY <1>5
    <2> DEFINE m == n * size
    <2> HIDE DEF m, end
    <2>2. m \in Nat
      BY <2>1 DEF m
    <2> QED  BY <1>5, <2>2 DEF m
  <1>8. Free(fresh, Rest, fields)
    BY <1>3, <1>7 DEF Free, Room
  <1> HIDE DEF fields, fresh, later, new, end, n
  <1>9. Room(new \o Rest, fields, later)
    BY <1>3, <1>6, <1>7, <1>8, NewTasks
  <1> QED  BY <1>2, <1>9

\* Zeros stay in the part they stand for,
LEMMA ZeroPartIn ==
    ASSUME AnswerFits, NEW t \in Tasks, Nilled(t), NEW i \in DOMAIN PartsOf(t), NEW path,
           NEW f \in ZeroPart(PartsOf(t)[i], t.at + PartsOf(t)[i].off, path)
    PROVE  Sized(f) /\ Bytes(f) \subseteq Slot(t, i)
  <1> DEFINE at == t.at + PartsOf(t)[i].off
             size == PartsOf(t)[i].size
  <1>1. at \in Nat /\ size \in Nat \ {0} /\ Slot(t, i) = at .. at + size - 1
    BY PartPlace DEF Slot
  <1>2. CASE PartsOf(t)[i].form = "array"
    <2>1. size = 8
      BY <1>2, TaskParts DEF Sound
    <2>2. f \in {Field(at, 4, Into(path, "pointer"), 0), Field(at + 4, 4, Into(path, "count"), 0)}
      BY <1>2 DEF ZeroPart
    <2> HIDE DEF at, size
    <2>3. /\ Sized(f)
          /\ Bytes(f) \in {at .. at + 4 - 1, at + 4 .. at + 4 + 4 - 1}
      BY <1>1, <2>2, FieldIs
    <2> QED  BY <1>1, <2>1, <2>3
  <1>3. CASE PartsOf(t)[i].form # "array"
    <2>1. \E p, v : f = Field(at, size, p, v)
      BY <1>3 DEF ZeroPart
    <2> HIDE DEF at, size
    <2> QED  BY <1>1, <2>1, FieldIs
  <1> QED  BY <1>2, <1>3

\* and do not touch each other.
LEMMA ZeroPartApart ==
    ASSUME AnswerFits, NEW t \in Tasks, Nilled(t), NEW i \in DOMAIN PartsOf(t), NEW path
    PROVE  Disjoint(ZeroPart(PartsOf(t)[i], t.at + PartsOf(t)[i].off, path))
  <1> DEFINE at == t.at + PartsOf(t)[i].off
             size == PartsOf(t)[i].size
  <1>1. at \in Nat
    BY PartPlace
  <1>2. CASE PartsOf(t)[i].form = "array"
    <2> DEFINE f == Field(at, 4, Into(path, "pointer"), 0)
               g == Field(at + 4, 4, Into(path, "count"), 0)
    <2>1. ZeroPart(PartsOf(t)[i], at, path) = {f, g}
      BY <1>2 DEF ZeroPart
    <2>2. Bytes(f) = at .. at + 4 - 1 /\ Bytes(g) = at + 4 .. at + 4 + 4 - 1
      BY FieldIs
    <2> HIDE DEF at
    <2>3. Bytes(f) \cap Bytes(g) = {}
      BY <1>1, <2>2
    <2> QED  BY <2>1, <2>3 DEF Disjoint, at
  <1>3. CASE PartsOf(t)[i].form # "array"
    BY <1>3 DEF ZeroPart, Disjoint
  <1> QED  BY <1>2, <1>3

LEMMA PutNilRoom ==
    ASSUME AnswerFits, Roomy, PutNil
    PROVE  Room(todo', memory'.fields, memory'.packOff) /\ Slots'
  <1> DEFINE t == Current
             end == memory.packOff
             zero(i) == ZeroPart(PartsOf(t)[i], t.at + PartsOf(t)[i].off,
                                 Into(t.path, PartsOf(t)[i].name))
             added == UNION {zero(i) : i \in DOMAIN PartsOf(t)}
             mine == Owns(t)
             tail == Tail(todo)
  <1>1. todo # <<>> /\ Nilled(t)
    BY DEF PutNil, Nil, Nilled
  <1>2. /\ todo' = tail /\ memory'.packOff = end /\ Slots'
        /\ memory'.fields = memory.fields \cup added
    BY DEF PutNil, Write, Roomy, Slots, Parts, PartsOf
  <1>3. /\ t \in Tasks /\ tail \in Seq(Tasks) /\ Room(tail, memory.fields, end)
        /\ Free(mine, tail, memory.fields) /\ mine \subseteq 16 .. end - 1
    BY <1>1, TailRoom DEF Roomy
  <1>4. \A i \in DOMAIN PartsOf(t) : Lives(t, i) /\ Slot(t, i) \subseteq mine
    <2>1. t.next = 1 /\ \A i \in DOMAIN PartsOf(t) : 1 <= i /\ Lives(t, i)
      BY <1>1, <1>3, WhichFits, TaskParts DEF Lives
    <2> QED  BY <2>1 DEF Owns, Coming
  <1> HIDE DEF t
  <1>5. ASSUME NEW i \in DOMAIN PartsOf(t)
        PROVE  /\ Disjoint(zero(i))
               /\ \A f \in zero(i) : Sized(f) /\ Bytes(f) \subseteq Slot(t, i)
    BY <1>1, <1>3, ZeroPartApart, ZeroPartIn
  <1>6. \A i, j \in DOMAIN PartsOf(t) : i # j => Slot(t, i) \cap Slot(t, j) = {}
    BY <1>3, <1>4, SlotsApart
  <1> HIDE DEF zero
  <1>7. \A f \in added : Sized(f) /\ Bytes(f) \subseteq mine
    BY <1>4, <1>5
  <1>8. Disjoint(added)
    <2> SUFFICES ASSUME NEW i \in DOMAIN PartsOf(t), NEW j \in DOMAIN PartsOf(t),
                        NEW f \in zero(i), NEW g \in zero(j), f # g
                 PROVE  Bytes(f) \cap Bytes(g) = {}
      BY DEF Disjoint
    <2>1. CASE i = j
      BY <1>5, <2>1 DEF Disjoint
    <2>2. CASE i # j
      BY <1>5, <1>6, <2>2
    <2> QED  BY <2>1, <2>2
  <1>9. end \in Nat /\ end <= end /\ <<>> \in Seq(Tasks) /\ DOMAIN <<>> = {} /\ <<>> \o tail = tail
    BY <1>3 DEF Room
  <1> HIDE DEF added, mine, tail
  <1>10. Room(<<>> \o tail, memory.fields \cup added, end)
    BY <1>3, <1>7, <1>8, <1>9, Extend
  <1> QED  BY <1>2, <1>9, <1>10

\* No step of the encoder writes over what is there.
LEMMA PutRoom ==
    ASSUME AnswerFits, Roomy,
           PutWord \/ PutFlags \/ PutArray \/ PutPointer \/ PutInline \/ PutNil
    PROVE  Roomy' /\ AnswerFits'
  <1>1. answer' = answer
    BY DEF PutWord, PutFlags, PutArray, PutPointer, PutInline, PutNil, Encoding
  <1>2. Room(todo', memory'.fields, memory'.packOff) /\ Slots'
    BY PutWordRoom, PutFlagsRoom, PutArrayRoom, PutPointerRoom, PutInlineRoom, PutNilRoom
  <1>3. Tasks' = Tasks
    BY <1>1 DEF Tasks, Whiches
  <1> QED  BY <1>1, <1>2, <1>3 DEF Roomy, Room, AnswerFits

-----------------------------------------------------------------------------
(* Meaning: each record of the answer, and what has been written of it. *)

\* A record of the answer, at whatever part the encoder is.
Node(t) == [t EXCEPT !.next = 1]

\* What a part of a record means, the fields it is written as, and the records in
\* it, when the first of them is at a place.
PathOf(t, i) == Into(t.path, PartsOf(t)[i].name)
PlaceOf(t, i) == t.at + PartsOf(t)[i].off
Set(t, i) == {b \in DOMAIN PartsOf(t)[i].bits : HasIn(t, PartsOf(t)[i].bits[b])}

SaysOf(t, i) ==
    LET p == PartsOf(t)[i]
    IN IF Nilled(t) THEN {}
       ELSE IF p.form = "flags"
       THEN {Into(PathOf(t, i), p.bits[b]) :
                b \in {c \in Set(t, i) : ~Announces(PartsOf(t), p.bits[c])}}
       ELSE IF p.form \notin Nested /\ HasIn(t, p.when) THEN {PathOf(t, i)} ELSE {}

FieldsOf(t, i, first) ==
    LET p == PartsOf(t)[i]
        at == PlaceOf(t, i)
        path == PathOf(t, i)
        has == HasIn(t, p.when)
    IN IF Nilled(t) THEN ZeroPart(p, at, path)
       ELSE IF p.form = "flags" THEN {Field(at, p.size, Item(path, p.off), Set(t, i))}
       ELSE IF p.form = "array"
       THEN {Field(at, 4, Into(path, "pointer"), IF has THEN first ELSE 0),
             Field(at + 4, 4, Into(path, "count"), IF has THEN ArrayLength ELSE 0)}
       ELSE IF p.form = "inline" THEN {}
       ELSE IF p.form \in {"pointer", "pointerWhen"}
       THEN IF has THEN {Field(at, 4, Into(path, "pointer"), first)} ELSE {}
       ELSE IF p.form = "when" /\ ~has THEN {}
       ELSE {Field(at, p.size, path, IF has THEN Given ELSE None)}

Element(t, i, first, k) ==
    LET p == PartsOf(t)[i]
    IN Task(p.record, first + GoLayout[p.record].size * (k - 1), Item(PathOf(t, i), k),
            IF k = 1 THEN t.which ELSE answer.others)

ItemsOf(t, i, first) ==
    LET p == PartsOf(t)[i]
        has == HasIn(t, p.when)
    IN IF Nilled(t) THEN {}
       ELSE IF p.form = "array"
       THEN IF has THEN {Element(t, i, first, k) : k \in 1..ArrayLength} ELSE {}
       ELSE IF p.form = "inline"
       THEN {Task(p.record, PlaceOf(t, i), PathOf(t, i),
                  IF has THEN t.which ELSE {<<p.record, "nil">>})}
       ELSE IF p.form \in {"pointer", "pointerWhen"} /\ has
       THEN {Task(p.record, first, PathOf(t, i), t.which)}
       ELSE {}

\* A part has been written: its fields are in memory, its meaning is said, its records
\* are among those of the answer.
Done(t, i, nodes, fields, said) ==
    \E first \in Nat : /\ FieldsOf(t, i, first) \subseteq fields
                       /\ SaysOf(t, i) \subseteq said
                       /\ ItemsOf(t, i, first) \subseteq nodes

\* A part is still to be written.
Ahead(t, i, tasks) == \E k \in DOMAIN tasks : Node(tasks[k]) = t /\ tasks[k].next <= i

\* A record that stands in another one.
Within(t, nodes, fields) ==
    \E whole \in nodes : \E i \in DOMAIN PartsOf(whole) : \E first \in Nat :
        FieldsOf(whole, i, first) \subseteq fields /\ t \in ItemsOf(whole, i, first)
Meant(nodes) == UNION {UNION {SaysOf(t, i) : i \in DOMAIN PartsOf(t)} : t \in nodes}

\* The records of an answer.
Nodes(nodes, roots, scalars, tasks, fields, said) ==
    /\ roots \subseteq nodes
    /\ nodes \subseteq {t \in Tasks : t.next = 1}
    /\ \A k \in DOMAIN tasks : Node(tasks[k]) \in nodes
    /\ \A t \in nodes : \A i \in DOMAIN PartsOf(t) :
          Done(t, i, nodes, fields, said) \/ Ahead(t, i, tasks)
    /\ \A t \in nodes : t \in roots \/ Within(t, nodes, fields)
    /\ scalars \subseteq said
    /\ said \subseteq scalars \cup Meant(nodes)

\* A record is the same at each of its parts.
LEMMA SameNode ==
    ASSUME NEW t \in Tasks
    PROVE  LET n == Node(t)
           IN /\ n.record = t.record /\ n.at = t.at /\ n.path = t.path /\ n.which = t.which
              /\ n.next = 1 /\ n \in Tasks
              /\ PartsOf(n) = PartsOf(t) /\ (Nilled(n) <=> Nilled(t))
              /\ \A f : HasIn(n, f) <=> HasIn(t, f)
  <1>1. t = [record |-> t.record, next |-> t.next, at |-> t.at, path |-> t.path, which |-> t.which]
    BY DEF Tasks
  <1>2. Node(t) = [record |-> t.record, next |-> 1, at |-> t.at, path |-> t.path, which |-> t.which]
    BY <1>1 DEF Node
  <1>3. 1 \in DOMAIN GoLayout[t.record].parts
    BY TaskParts, GoPlaces
  <1>4. Node(t) \in Tasks
    BY <1>2, <1>3 DEF Tasks
  <1> QED  BY <1>2, <1>4 DEF PartsOf, Nilled, HasIn, FeaturesOf

LEMMA NewNode ==
    ASSUME NEW record, NEW at, NEW path, NEW which
    PROVE  /\ Node(Task(record, at, path, which)) = Task(record, at, path, which)
           /\ Task(record, at, path, which).next = 1
  BY DEF Node, Task

\* Going on to the next part leaves all others to do.
LEMMA RestAhead ==
    ASSUME AnswerFits, NEW fields, NEW end, Room(todo, fields, end), todo # <<>>, ~Nil
    PROVE  /\ Rest \in Seq(Tasks)
           /\ \A k \in DOMAIN Rest : \E l \in DOMAIN todo : Node(Rest[k]) = Node(todo[l])
           /\ \A l \in DOMAIN todo : \A i \in DOMAIN PartsOf(todo[l]) :
                 todo[l].next <= i /\ ~(l = 1 /\ i = Current.next) =>
                    \E k \in DOMAIN Rest : Node(Rest[k]) = Node(todo[l]) /\ Rest[k].next <= i
  <1> DEFINE t == Current
             next == [t EXCEPT !.next = @ + 1]
             tail == Tail(todo)
  <1>1. /\ t \in Tasks /\ tail \in Seq(Tasks) /\ t = todo[1] /\ 1 \in DOMAIN todo
        /\ \A k \in DOMAIN tail : k + 1 \in DOMAIN todo /\ tail[k] = todo[k + 1]
        /\ \A l \in DOMAIN todo : l # 1 => l - 1 \in DOMAIN tail /\ tail[l - 1] = todo[l]
    BY DEF Room, Current
  <1>2. t.next \in Nat /\ DOMAIN PartsOf(t) = 1..Len(PartsOf(t)) /\ Len(PartsOf(t)) \in Nat
    BY <1>1, TaskParts
  <1>3. CASE t.next = Len(Parts)
    <2>1. Rest = tail
      BY <1>3 DEF Rest
    <2>2. \A i \in DOMAIN PartsOf(t) : t.next <= i => i = t.next
      BY <1>2, <1>3 DEF Parts, PartsOf
    <2> HIDE DEF tail
    <2> QED  BY <1>1, <2>1, <2>2
  <1>4. CASE t.next # Len(Parts)
    <2>1. Rest = <<next>> \o tail
      BY <1>4 DEF Rest
    <2>2. next.next = t.next + 1 /\ Node(next) = Node(t)
      BY <1>1 DEF Tasks, Node
    <2>3. Rest \in Seq(Tasks)
      BY RestRoom DEF Room
    <2>4. /\ 1 \in DOMAIN Rest /\ Rest[1] = next
          /\ \A k \in DOMAIN tail : k + 1 \in DOMAIN Rest /\ Rest[k + 1] = tail[k]
          /\ \A k \in DOMAIN Rest : k # 1 => k - 1 \in DOMAIN tail /\ Rest[k] = tail[k - 1]
      <3> HIDE DEF next
      <3>1. tail \in Seq(Tasks)
        BY <1>1
      <3> HIDE DEF tail
      <3> QED  BY <2>1, <3>1
    <2>5. \A i \in DOMAIN PartsOf(t) : t.next <= i /\ i # t.next => next.next <= i
      BY <1>2, <2>2
    <2> HIDE DEF next, tail
    <2>6. \A k \in DOMAIN Rest : \E l \in DOMAIN todo : Node(Rest[k]) = Node(todo[l])
      BY <1>1, <2>2, <2>4
    <2>7. ASSUME NEW l \in DOMAIN todo, NEW i \in DOMAIN PartsOf(todo[l]),
                 todo[l].next <= i, ~(l = 1 /\ i = Current.next)
          PROVE  \E k \in DOMAIN Rest : Node(Rest[k]) = Node(todo[l]) /\ Rest[k].next <= i
      <3>1. CASE l = 1
        BY <1>1, <2>2, <2>4, <2>5, <2>7, <3>1
      <3>2. CASE l # 1
        BY <1>1, <2>4, <2>7, <3>2
      <3> QED  BY <3>1, <3>2
    <2> QED  BY <2>3, <2>6, <2>7
  <1> QED  BY <1>3, <1>4

\* The encoder does one part: its fields and its meaning are there, the records in
\* it are next.
LEMMA NodesStep ==
    ASSUME AnswerFits, NEW nodes, NEW roots, NEW scalars,
           Nodes(nodes, roots, scalars, todo, memory.fields, memory.said),
           NEW end, Room(todo, memory.fields, end), todo # <<>>, ~Nil,
           NEW first \in Nat, NEW new \in Seq(Tasks), NEW fields, NEW said,
           memory.fields \subseteq fields,
           FieldsOf(Node(Current), Current.next, first) \subseteq fields,
           said = memory.said \cup SaysOf(Node(Current), Current.next),
           \A k \in DOMAIN new : new[k].next = 1,
           ItemsOf(Node(Current), Current.next, first) = {new[k] : k \in DOMAIN new}
    PROVE  Nodes(nodes \cup {new[k] : k \in DOMAIN new}, roots, scalars, new \o Rest, fields, said)
  <1> DEFINE t == Current
             node == Node(t)
             items == {new[k] : k \in DOMAIN new}
             all == nodes \cup items
             tasks == new \o Rest
  <1>1. t \in Tasks /\ t = todo[1] /\ 1 \in DOMAIN todo /\ t.next \in DOMAIN PartsOf(t)
    BY TailRoom, TaskParts DEF Room, Current
  <1>2. node \in nodes /\ PartsOf(node) = PartsOf(t)
    BY <1>1, SameNode DEF Nodes
  <1>3. \A m \in items : m \in Tasks /\ m.next = 1 /\ Node(m) = m
    BY DEF Tasks, Node
  <1>4. /\ \A k \in DOMAIN tasks :
              \/ k \in DOMAIN new /\ tasks[k] = new[k]
              \/ \E l \in DOMAIN Rest : tasks[k] = Rest[l]
        /\ \A k \in DOMAIN new : k \in DOMAIN tasks /\ tasks[k] = new[k]
        /\ \A l \in DOMAIN Rest : l + Len(new) \in DOMAIN tasks /\ tasks[l + Len(new)] = Rest[l]
    <2>1. Rest \in Seq(Tasks)
      BY RestAhead
    <2> QED  BY <2>1, Joined
  <1> HIDE DEF tasks
  <1>5. \A k \in DOMAIN tasks : Node(tasks[k]) \in all
    BY <1>3, <1>4, RestAhead DEF Nodes
  <1>6. Done(node, t.next, all, fields, said)
    BY DEF Done
  <1>7. ASSUME NEW m \in all, NEW i \in DOMAIN PartsOf(m)
        PROVE  Done(m, i, all, fields, said) \/ Ahead(m, i, tasks)
    <2>1. CASE m \in items
      <3>1. PICK k \in DOMAIN new : m = new[k]
        BY <2>1
      <3>2. tasks[k] = m /\ k \in DOMAIN tasks /\ Node(m) = m /\ m.next = 1 /\ m \in Tasks
        BY <1>3, <1>4, <2>1, <3>1
      <3>3. 1 <= i
        BY <3>2, TaskParts
      <3> QED  BY <3>2, <3>3 DEF Ahead
    <2>2. CASE m \in nodes /\ Done(m, i, nodes, memory.fields, memory.said)
      BY <2>2 DEF Done
    <2>3. CASE m \in nodes /\ Ahead(m, i, todo)
      <3>1. PICK l \in DOMAIN todo : Node(todo[l]) = m /\ todo[l].next <= i
        BY <2>3 DEF Ahead
      <3>2. CASE l = 1 /\ i = t.next
        BY <1>1, <1>6, <3>1, <3>2
      <3>3. CASE ~(l = 1 /\ i = t.next)
        <4>1. i \in DOMAIN PartsOf(todo[l])
          BY <3>1, SameNode DEF Room
        <4>2. PICK k \in DOMAIN Rest : Node(Rest[k]) = Node(todo[l]) /\ Rest[k].next <= i
          BY <3>1, <3>3, <4>1, RestAhead
        <4> QED  BY <1>4, <3>1, <4>2 DEF Ahead
      <3> QED  BY <3>2, <3>3
    <2> QED  BY <2>1, <2>2, <2>3 DEF Nodes
  <1>8. ASSUME NEW m \in all
        PROVE  m \in roots \/ Within(m, all, fields)
    <2>1. CASE m \in items
      BY <1>1, <1>2, <2>1 DEF Within
    <2>2. CASE m \in nodes
      BY <2>2 DEF Nodes, Within
    <2> QED  BY <2>1, <2>2
  <1>9. said \subseteq scalars \cup Meant(all)
    <2>1. SaysOf(node, t.next) \subseteq Meant(all)
      BY <1>1, <1>2 DEF Meant
    <2>2. Meant(nodes) \subseteq Meant(all)
      BY DEF Meant
    <2> HIDE DEF all, node
    <2> QED  BY <2>1, <2>2 DEF Nodes, node
  <1> HIDE DEF all, items
  <1>10. roots \subseteq all /\ scalars \subseteq said /\ all \subseteq {m \in Tasks : m.next = 1}
    BY <1>3 DEF Nodes, all
  <1> QED  BY <1>5, <1>7, <1>8, <1>9, <1>10 DEF Nodes, all, items, tasks

LEMMA AtNode ==
    ASSUME NEW fields, NEW end, Room(todo, fields, end), todo # <<>>, ~Nil
    PROVE  LET node == Node(Current)
               i == Current.next
           IN /\ Current \in Tasks /\ ~Nilled(node) /\ PartsOf(node)[i] = Now
              /\ PlaceOf(node, i) = At /\ PathOf(node, i) = Path
              /\ node.which = Current.which /\ PartsOf(node) = Parts
              /\ \A feature : HasIn(node, feature) <=> Has(feature)
  <1>1. Current \in Tasks
    BY TailRoom
  <1>2. ~Nilled(Current)
    BY DEF Nil, Nilled
  <1>3. Parts = PartsOf(Current)
    BY DEF Parts, PartsOf
  <1> QED  BY <1>1, <1>2, <1>3, SameNode, NowPart DEF PlaceOf, PathOf, At, Path, Now

\* A part with no records in it.
LEMMA PlainStep ==
    ASSUME AnswerFits, NEW nodes, NEW roots, NEW scalars,
           Nodes(nodes, roots, scalars, todo, memory.fields, memory.said),
           NEW end, Room(todo, memory.fields, end), todo # <<>>, ~Nil, NEW fields, NEW said,
           memory.fields \subseteq fields,
           FieldsOf(Node(Current), Current.next, 0) \subseteq fields,
           said = memory.said \cup SaysOf(Node(Current), Current.next),
           ItemsOf(Node(Current), Current.next, 0) = {}
    PROVE  Nodes(nodes, roots, scalars, Rest, fields, said)
  <1>1. Rest \in Seq(Tasks)
    BY RestAhead
  <1> DEFINE new == <<>>
  <1>2. new \in Seq(Tasks) /\ DOMAIN new = {} /\ new \o Rest = Rest
    BY <1>1
  <1> HIDE DEF new
  <1>3. {new[k] : k \in DOMAIN new} = {} /\ nodes \cup {} = nodes
    BY <1>2
  <1>4. Nodes(nodes \cup {new[k] : k \in DOMAIN new}, roots, scalars, new \o Rest, fields, said)
    BY <1>2, <1>3, NodesStep
  <1> QED  BY <1>2, <1>3, <1>4

\* A part that is one record.
LEMMA OneStep ==
    ASSUME AnswerFits, NEW nodes, NEW roots, NEW scalars,
           Nodes(nodes, roots, scalars, todo, memory.fields, memory.said),
           NEW end, Room(todo, memory.fields, end), todo # <<>>, ~Nil, NEW fields,
           NEW first \in Nat, NEW task \in Tasks, task.next = 1,
           memory.fields \subseteq fields,
           FieldsOf(Node(Current), Current.next, first) \subseteq fields,
           SaysOf(Node(Current), Current.next) = {},
           ItemsOf(Node(Current), Current.next, first) = {task}
    PROVE  Nodes(nodes \cup {task}, roots, scalars, <<task>> \o Rest, fields, memory.said)
  <1> DEFINE new == <<task>>
  <1>1. new \in Seq(Tasks) /\ DOMAIN new = {1} /\ new[1] = task
    OBVIOUS
  <1> HIDE DEF new
  <1>2. {new[k] : k \in DOMAIN new} = {task} /\ memory.said = memory.said \cup {}
    BY <1>1
  <1>3. Nodes(nodes \cup {new[k] : k \in DOMAIN new}, roots, scalars, new \o Rest, fields,
              memory.said)
    BY <1>1, <1>2, NodesStep
  <1> QED  BY <1>2, <1>3 DEF new

LEMMA PutWordNodes ==
    ASSUME AnswerFits, Roomy, PutWord, NEW nodes, NEW roots, NEW scalars,
           Nodes(nodes, roots, scalars, todo, memory.fields, memory.said)
    PROVE  Nodes(nodes, roots, scalars, todo', memory'.fields, memory'.said)
  <1> DEFINE node == Node(Current)
             i == Current.next
  <1>1. todo # <<>> /\ ~Nil /\ todo' = Rest /\ Now.form \in {"value", "zeroed", "when"}
    BY DEF PutWord, Encoding
  <1>2. /\ memory'.fields = memory.fields \cup
              (IF Now.form = "when" /\ ~Has(Now.when) THEN {}
               ELSE {Field(At, Now.size, Path, IF Has(Now.when) THEN Given ELSE None)})
        /\ memory'.said = memory.said \cup (IF Has(Now.when) THEN {Path} ELSE {})
    BY DEF PutWord, Roomy, Slots
  <1>3. /\ ~Nilled(node) /\ PartsOf(node)[i] = Now /\ PlaceOf(node, i) = At
        /\ PathOf(node, i) = Path /\ HasIn(node, Now.when) = Has(Now.when)
    BY <1>1, AtNode DEF Roomy, Has, HasIn
  <1>4. FieldsOf(node, i, 0) \subseteq memory'.fields
    BY <1>1, <1>2, <1>3 DEF FieldsOf
  <1>5. SaysOf(node, i) = IF Has(Now.when) THEN {Path} ELSE {}
    BY <1>1, <1>3 DEF SaysOf, Nested
  <1>6. ItemsOf(node, i, 0) = {}
    BY <1>1, <1>3 DEF ItemsOf
  <1> QED  BY <1>1, <1>2, <1>4, <1>5, <1>6, PlainStep DEF Roomy

LEMMA PutFlagsNodes ==
    ASSUME AnswerFits, Roomy, PutFlags, NEW nodes, NEW roots, NEW scalars,
           Nodes(nodes, roots, scalars, todo, memory.fields, memory.said)
    PROVE  Nodes(nodes, roots, scalars, todo', memory'.fields, memory'.said)
  <1> DEFINE node == Node(Current)
             i == Current.next
             bits == {b \in DOMAIN Now.bits : Has(Now.bits[b])}
             meant == {Now.bits[b] : b \in {j \in bits : ~Announces(Parts, Now.bits[j])}}
  <1>1. todo # <<>> /\ ~Nil /\ todo' = Rest /\ Now.form = "flags"
    BY DEF PutFlags, Encoding
  <1>2. /\ memory'.fields = memory.fields \cup {Field(At, Now.size, Item(Path, Now.off), bits)}
        /\ memory'.said = memory.said \cup {Into(Path, feature) : feature \in meant}
    BY DEF PutFlags, Roomy, Slots
  <1>3. /\ ~Nilled(node) /\ PartsOf(node)[i] = Now /\ PlaceOf(node, i) = At
        /\ PathOf(node, i) = Path /\ PartsOf(node) = Parts
        /\ \A feature : HasIn(node, feature) <=> Has(feature)
    BY <1>1, AtNode DEF Roomy
  <1>4. Set(node, i) = bits
    BY <1>3 DEF Set
  <1> HIDE DEF bits
  <1>5. FieldsOf(node, i, 0) \subseteq memory'.fields
    BY <1>1, <1>2, <1>3, <1>4 DEF FieldsOf
  <1>6. SaysOf(node, i) = {Into(Path, feature) : feature \in meant}
    BY <1>1, <1>3, <1>4 DEF SaysOf
  <1>7. ItemsOf(node, i, 0) = {}
    BY <1>1, <1>3 DEF ItemsOf
  <1> QED  BY <1>1, <1>2, <1>5, <1>6, <1>7, PlainStep DEF Roomy

LEMMA PutInlineNodes ==
    ASSUME AnswerFits, Roomy, PutInline, NEW nodes, NEW roots, NEW scalars,
           Nodes(nodes, roots, scalars, todo, memory.fields, memory.said)
    PROVE  \E more : Nodes(more, roots, scalars, todo', memory'.fields, memory'.said)
  <1> DEFINE node == Node(Current)
             i == Current.next
             which == IF Has(Now.when) THEN Current.which ELSE {<<Now.record, "nil">>}
             task == Task(Now.record, At, Path, which)
  <1>1. todo # <<>> /\ ~Nil /\ Now.form = "inline"
    BY DEF PutInline, Encoding
  <1>2. todo' = <<task>> \o Rest /\ memory' = memory
    BY DEF PutInline
  <1>3. /\ ~Nilled(node) /\ PartsOf(node)[i] = Now /\ PlaceOf(node, i) = At
        /\ PathOf(node, i) = Path /\ (HasIn(node, Now.when) <=> Has(Now.when))
        /\ node.which = Current.which
    BY <1>1, AtNode DEF Roomy
  <1>4. task \in Tasks /\ task.next = 1
    <2>1. Now.record \in RecordNames /\ which \in Whiches /\ At \in Nat /\ Path \in Paths
      BY <1>1, NowPart, WhichNow DEF Roomy, Nested
    <2> HIDE DEF which
    <2> QED  BY <2>1, NewTask, NewNode
  <1>5. FieldsOf(node, i, 0) = {} /\ SaysOf(node, i) = {}
    BY <1>1, <1>3 DEF FieldsOf, SaysOf, Nested
  <1>6. ItemsOf(node, i, 0) = {task}
    BY <1>1, <1>3 DEF ItemsOf
  <1> HIDE DEF task
  <1>7. Nodes(nodes \cup {task}, roots, scalars, <<task>> \o Rest, memory.fields, memory.said)
    BY <1>1, <1>4, <1>5, <1>6, OneStep DEF Roomy
  <1> QED  BY <1>2, <1>7

LEMMA PutPointerNodes ==
    ASSUME AnswerFits, Roomy, PutPointer, NEW nodes, NEW roots, NEW scalars,
           Nodes(nodes, roots, scalars, todo, memory.fields, memory.said)
    PROVE  \E more : Nodes(more, roots, scalars, todo', memory'.fields, memory'.said)
  <1> DEFINE node == Node(Current)
             i == Current.next
             end == memory.packOff
             task == Task(Now.record, end, Path, Current.which)
             f == Field(At, 4, Into(Path, "pointer"), end)
  <1>1. todo # <<>> /\ ~Nil /\ Now.form \in {"pointer", "pointerWhen"}
    BY DEF PutPointer, Encoding
  <1>2. /\ ~Nilled(node) /\ PartsOf(node)[i] = Now /\ PlaceOf(node, i) = At
        /\ PathOf(node, i) = Path /\ (HasIn(node, Now.when) <=> Has(Now.when))
        /\ node.which = Current.which
    BY <1>1, AtNode DEF Roomy
  <1>3. SaysOf(node, i) = {}
    BY <1>1, <1>2 DEF SaysOf, Nested
  <1>4. CASE ~Has(Now.when)
    <2>1. /\ todo' = Rest /\ memory'.said = memory.said
          /\ memory.fields \subseteq memory'.fields
      BY <1>4 DEF PutPointer, Write, Roomy, Slots
    <2>2. FieldsOf(node, i, 0) = {} /\ ItemsOf(node, i, 0) = {}
      BY <1>1, <1>2, <1>4 DEF FieldsOf, ItemsOf
    <2>3. memory.said = memory.said \cup {}
      OBVIOUS
    <2> QED  BY <1>1, <1>3, <2>1, <2>2, <2>3, PlainStep DEF Roomy
  <1>5. CASE Has(Now.when)
    <2>1. /\ todo' = <<task>> \o Rest /\ memory'.said = memory.said
          /\ memory'.fields = memory.fields \cup {f}
      BY <1>5 DEF PutPointer, Roomy, Slots
    <2>2. end \in Nat /\ task \in Tasks /\ task.next = 1
      <3>1. /\ Now.record \in RecordNames /\ Current.which \in Whiches /\ Path \in Paths
            /\ end \in Nat
        BY <1>1, NowPart, WhichNow DEF Roomy, Nested, Room
      <3> QED  BY <3>1, NewTask, NewNode
    <2>3. FieldsOf(node, i, end) = {f} /\ ItemsOf(node, i, end) = {task}
      BY <1>1, <1>2, <1>5 DEF FieldsOf, ItemsOf
    <2> HIDE DEF task, f, end
    <2>4. Nodes(nodes \cup {task}, roots, scalars, <<task>> \o Rest, memory'.fields, memory.said)
      BY <1>1, <1>3, <2>1, <2>2, <2>3, OneStep DEF Roomy
    <2> QED  BY <2>1, <2>4
  <1> QED  BY <1>4, <1>5

LEMMA PutArrayNodes ==
    ASSUME AnswerFits, Roomy, PutArray, NEW nodes, NEW roots, NEW scalars,
           Nodes(nodes, roots, scalars, todo, memory.fields, memory.said)
    PROVE  \E more : Nodes(more, roots, scalars, todo', memory'.fields, memory'.said)
  <1> DEFINE node == Node(Current)
             i == Current.next
             n == IF Has(Now.when) THEN ArrayLength ELSE 0
             end == memory.packOff
             new == Run(Now.record, n, end, Path, Current.which, answer.others)
  <1>1. todo # <<>> /\ ~Nil /\ Now.form = "array"
    BY DEF PutArray, Encoding
  <1>2. /\ todo' = new \o Rest /\ memory'.said = memory.said
        /\ memory'.fields = memory.fields \cup {
                         Field(At, 4, Into(Path, "pointer"), IF n = 0 THEN 0 ELSE end),
                         Field(At + 4, 4, Into(Path, "count"), n)}
    BY DEF PutArray, Roomy, Slots
  <1>3. /\ ~Nilled(node) /\ PartsOf(node)[i] = Now /\ PlaceOf(node, i) = At
        /\ PathOf(node, i) = Path /\ (HasIn(node, Now.when) <=> Has(Now.when))
        /\ node.which = Current.which
    BY <1>1, AtNode DEF Roomy
  <1>4. /\ Now.record \in RecordNames /\ Path \in Paths /\ end \in Nat
        /\ Current.which \in Whiches /\ answer.others \in Whiches
    BY <1>1, NowPart, WhichNow DEF Roomy, Nested, Room
  <1>5. n \in Nat /\ ArrayLength \in Nat \ {0}
    BY LengthsAssumption
  <1>6. new \in Seq(Tasks) /\ DOMAIN new = 1..n
    <2> HIDE DEF n, end
    <2> QED  BY <1>4, <1>5, RunRoom
  <1>7. \A k \in 1..n : /\ new[k] = Element(node, i, end, k)
                        /\ new[k].next = 1
    BY <1>3 DEF Run, Element, Task
  <1>8. SaysOf(node, i) = {} /\ memory.said = memory.said \cup {}
    BY <1>1, <1>3 DEF SaysOf, Nested
  <1>9. FieldsOf(node, i, end) \subseteq memory'.fields
    <2>1. CASE Has(Now.when)
      <3>1. n = ArrayLength /\ n # 0
        BY <1>5, <2>1
      <3> HIDE DEF n
      <3> QED  BY <1>1, <1>2, <1>3, <2>1, <3>1 DEF FieldsOf
    <2>2. CASE ~Has(Now.when)
      BY <1>1, <1>2, <1>3, <2>2 DEF FieldsOf
    <2> QED  BY <2>1, <2>2
  <1>10. ItemsOf(node, i, end) = {new[k] : k \in 1..n}
    <2>1. ItemsOf(node, i, end) = {Element(node, i, end, k) : k \in 1..n}
      BY <1>1, <1>3, <1>5 DEF ItemsOf
    <2> HIDE DEF new, node, n, end
    <2> QED  BY <1>7, <2>1
  <1> DEFINE items == {new[k] : k \in DOMAIN new}
  <1>11. /\ ItemsOf(node, i, end) = items
         /\ \A k \in DOMAIN new : new[k].next = 1
         /\ memory.fields \subseteq memory'.fields
    BY <1>2, <1>6, <1>7, <1>10
  <1> HIDE DEF new, node, n, end
  <1>12. Nodes(nodes \cup items, roots, scalars, new \o Rest, memory'.fields, memory'.said)
    BY <1>1, <1>2, <1>4, <1>6, <1>8, <1>9, <1>11, NodesStep DEF Roomy, node
  <1> QED  BY <1>2, <1>12

LEMMA PutNilNodes ==
    ASSUME AnswerFits, Roomy, PutNil, NEW nodes, NEW roots, NEW scalars,
           Nodes(nodes, roots, scalars, todo, memory.fields, memory.said)
    PROVE  Nodes(nodes, roots, scalars, todo', memory'.fields, memory'.said)
  <1> DEFINE t == Current
             node == Node(t)
             zero(i) == ZeroPart(PartsOf(t)[i], t.at + PartsOf(t)[i].off,
                                 Into(t.path, PartsOf(t)[i].name))
             tail == Tail(todo)
  <1>1. todo # <<>> /\ Nilled(t)
    BY DEF PutNil, Nil, Nilled
  <1>2. /\ todo' = tail /\ memory'.said = memory.said
        /\ memory'.fields = memory.fields \cup UNION {zero(i) : i \in DOMAIN PartsOf(t)}
    BY DEF PutNil, Write, Roomy, Slots, Parts, PartsOf
  <1>3. /\ t \in Tasks /\ t = todo[1]
        /\ \A k \in DOMAIN tail : k + 1 \in DOMAIN todo /\ tail[k] = todo[k + 1]
        /\ \A l \in DOMAIN todo : l # 1 => l - 1 \in DOMAIN tail /\ tail[l - 1] = todo[l]
    BY <1>1 DEF Room, Roomy, Current
  <1> HIDE DEF t, tail
  <1>4. Nilled(node) /\ PartsOf(node) = PartsOf(t) /\ node.at = t.at /\ node.path = t.path
    BY <1>1, <1>3, SameNode
  <1>5. \A i \in DOMAIN PartsOf(node) : Done(node, i, nodes, memory'.fields, memory'.said)
    <2> SUFFICES ASSUME NEW i \in DOMAIN PartsOf(node)
                 PROVE  Done(node, i, nodes, memory'.fields, memory'.said)
      OBVIOUS
    <2>1. FieldsOf(node, i, 0) = zero(i)
      BY <1>4 DEF FieldsOf, PlaceOf, PathOf
    <2>2. SaysOf(node, i) = {} /\ ItemsOf(node, i, 0) = {}
      BY <1>4 DEF SaysOf, ItemsOf
    <2>3. zero(i) \subseteq memory'.fields
      BY <1>2, <1>4
    <2> HIDE DEF zero, node
    <2> QED  BY <2>1, <2>2, <2>3 DEF Done
  <1>6. memory.fields \subseteq memory'.fields
    BY <1>2
  <1>7. ASSUME NEW m \in nodes, NEW i \in DOMAIN PartsOf(m)
        PROVE  Done(m, i, nodes, memory'.fields, memory'.said) \/ Ahead(m, i, tail)
    <2>1. CASE Done(m, i, nodes, memory.fields, memory.said)
      BY <1>2, <1>6, <2>1 DEF Done
    <2>2. CASE Ahead(m, i, todo)
      <3>1. PICK l \in DOMAIN todo : Node(todo[l]) = m /\ todo[l].next <= i
        BY <2>2 DEF Ahead
      <3>2. CASE l = 1
        BY <1>3, <1>5, <3>1, <3>2
      <3>3. CASE l # 1
        BY <1>3, <3>1, <3>3 DEF Ahead
      <3> QED  BY <3>2, <3>3
    <2> QED  BY <2>1, <2>2 DEF Nodes
  <1>8. \A m \in nodes : m \in roots \/ Within(m, nodes, memory'.fields)
    BY <1>6 DEF Nodes, Within
  <1>9. \A k \in DOMAIN tail : Node(tail[k]) \in nodes
    BY <1>3 DEF Nodes
  <1> QED  BY <1>2, <1>7, <1>8, <1>9 DEF Nodes

\* The records an answer starts with, what it says without a record, and the fields
\* that say so.
Roots(n) ==
    IF answer.kind = "expandedParams" THEN {Task("expandedParams", 16, <<>>, answer.first)}
    ELSE IF answer.kind \in DOMAIN GoRecord
    THEN {Run(GoRecord[answer.kind], n, 20, <<>>, answer.first, answer.others)[k] : k \in 1..n}
    ELSE {}
Scalars ==
    IF answer.kind \in {"string", "error"} THEN {Top("offset"), Top("length")}
    ELSE IF answer.kind = "bool" THEN {Top("bool")} ELSE {}
Started(n, fields) ==
    /\ n \in Nat
    /\ answer.kind \in {"string", "error"} =>
         {Field(16, 4, Top("offset"), Given), Field(20, 4, Top("length"), Given)} \subseteq fields
    /\ answer.kind = "bool" => Field(16, 1, Top("bool"), Given) \in fields
    /\ answer.kind \in DOMAIN GoRecord => Field(16, 4, Top("count"), n) \in fields
KindFits ==
    answer.kind \in DOMAIN GoRecord \cup {"string", "bool", "expandedParams", "null", "error"}

\* All that has been written belongs to the answer, and what is missing is still to come.
Encoded ==
    \E n \in Nat : /\ Started(n, memory.fields)
                   /\ \E nodes : Nodes(nodes, Roots(n), Scalars, todo, memory.fields, memory.said)

\* The encoder is in order.
Ready ==
    /\ KindFits /\ AnswerFits
    /\ Slots /\ memory.recOff \in Nat /\ memory.packOff \in Nat
    /\ \/ Room(todo, memory.fields, memory.packOff)
       \/ todo = <<>> /\ Room(<<>>, memory.fields, memory.recOff)
    /\ Encoded

Puts == PutWord \/ PutFlags \/ PutArray \/ PutPointer \/ PutInline \/ PutNil

\* The encoder only adds.
LEMMA PutsGrow ==
    ASSUME Slots, Puts
    PROVE  /\ todo # <<>> /\ answer' = answer /\ stage' = stage /\ stage = "encode" /\ got' = got
           /\ request' = request
           /\ memory.fields \subseteq memory'.fields /\ memory'.recOff = memory.recOff
  <1>1. /\ todo # <<>> /\ answer' = answer /\ stage' = stage /\ stage = "encode" /\ got' = got
        /\ request' = request
    BY DEF Puts, PutWord, PutFlags, PutArray, PutPointer, PutInline, PutNil, Encoding, requestVars
  <1>2. memory.fields \subseteq memory'.fields /\ memory'.recOff = memory.recOff
    <2> USE DEF Slots
    <2>1. CASE PutWord BY <2>1 DEF PutWord
    <2>2. CASE PutFlags BY <2>2 DEF PutFlags
    <2>3. CASE PutArray BY <2>3 DEF PutArray
    <2>4. CASE PutPointer BY <2>4 DEF PutPointer, Write
    <2>5. CASE PutInline BY <2>5 DEF PutInline
    <2>6. CASE PutNil BY <2>6 DEF PutNil, Write
    <2> QED  BY <2>1, <2>2, <2>3, <2>4, <2>5, <2>6 DEF Puts
  <1> QED  BY <1>1, <1>2

\* What the records of an answer are depends on the answer.
LEMMA NodesNext ==
    ASSUME answer' = answer, NEW n, NEW nodes,
           Nodes(nodes, Roots(n), Scalars, todo', memory'.fields, memory'.said)
    PROVE  Nodes(nodes, Roots(n), Scalars, todo, memory.fields, memory.said)'
  <1>1. Tasks' = Tasks /\ Roots(n)' = Roots(n) /\ Scalars' = Scalars
    BY DEF Tasks, Whiches, Roots, Scalars
  <1>2. \A t, i, first : ItemsOf(t, i, first)' = ItemsOf(t, i, first)
    BY DEF ItemsOf, Element
  <1>3. \A t, i, a, b, c : Done(t, i, a, b, c)' <=> Done(t, i, a, b, c)
    BY <1>2 DEF Done
  <1>4. \A t, a, b : Within(t, a, b)' <=> Within(t, a, b)
    BY <1>2 DEF Within
  <1> QED  BY <1>1, <1>3, <1>4 DEF Nodes

\* A step of the encoder leaves what was written in order.
LEMMA PutReady ==
    ASSUME Ready, Puts
    PROVE  Ready'
  <1>1. /\ todo # <<>> /\ answer' = answer
        /\ memory.fields \subseteq memory'.fields /\ memory'.recOff = memory.recOff
    BY PutsGrow DEF Ready
  <1>2. Roomy
    BY <1>1 DEF Ready, Roomy
  <1>3. Roomy' /\ AnswerFits'
    BY <1>2, PutRoom DEF Ready, Puts
  <1>4. PICK n, nodes : /\ n \in Nat /\ Started(n, memory.fields)
                         /\ Nodes(nodes, Roots(n), Scalars, todo, memory.fields, memory.said)
    BY DEF Ready, Encoded
  <1>5. PICK more : Nodes(more, Roots(n), Scalars, todo', memory'.fields, memory'.said)
    BY <1>2, <1>4, PutWordNodes, PutFlagsNodes, PutArrayNodes, PutPointerNodes, PutInlineNodes,
       PutNilNodes DEF Ready, Puts
  <1>6. KindFits' = KindFits
    BY <1>1 DEF KindFits
  <1>7. Nodes(more, Roots(n), Scalars, todo, memory.fields, memory.said)'
    BY <1>1, <1>5, NodesNext
  <1>8. Started(n, memory.fields)'
    BY <1>1, <1>4 DEF Started
  <1>9. Encoded'
    BY <1>4, <1>7, <1>8 DEF Encoded
  <1>10. memory'.packOff \in Nat
    BY <1>3 DEF Roomy, Room
  <1> QED  BY <1>1, <1>3, <1>6, <1>9, <1>10 DEF Ready, Roomy

-----------------------------------------------------------------------------
(* The first step of an answer, and the last one. *)

\* The same for the answer a step begins with.
RunsFit ==
    \A record \in RecordNames, n \in Nat, at \in Nat, path \in Paths, which \in Whiches,
       others \in Whiches :
        LET run == Run(record, n, at, path, which, others)
        IN /\ run \in Seq(Tasks) /\ DOMAIN run = 1..n
           /\ \A k \in 1..n : Owns(run[k]) \subseteq at .. at + n * GoLayout[record].size - 1
           /\ \A k, l \in 1..n : k # l => Owns(run[k]) \cap Owns(run[l]) = {}
TasksFit ==
    \A record \in RecordNames, at \in Nat, path \in Paths, which \in Whiches :
        /\ Task(record, at, path, which) \in Tasks
        /\ Owns(Task(record, at, path, which)) \subseteq at .. at + GoLayout[record].size - 1

LEMMA RunsFitNext == RunsFit'
  <1>1. RunsFit
    BY RunRoom DEF RunsFit
  <1> QED  BY <1>1, PTL

LEMMA TasksFitNext == TasksFit'
  <1>1. TasksFit
    BY NewTask DEF TasksFit
  <1> QED  BY <1>1, PTL

LEMMA InSeq == \A S : \A r \in Seq(S) : \A k \in DOMAIN r : r[k] \in S
  OBVIOUS

\* The kinds of answers there are.
LEMMA KindOf ==
    ASSUME NEW method
    PROVE  JsResult(method) \in DOMAIN GoRecord \cup {"string", "bool", "expandedParams"}
  <1>1. JsResult(method) \in DOMAIN OtherResults \cup {"type"}
    BY DEF JsResult
  <1>2. DOMAIN OtherResults \subseteq DOMAIN GoRecord \cup {"string", "bool", "expandedParams"}
    BY DEF OtherResults, GoRecord
  <1>3. "type" \in DOMAIN GoRecord
    BY DEF GoRecord
  <1> QED  BY <1>1, <1>2, <1>3

\* The client reads each kind as the records Go writes for it.
LEMMA GoRecords ==
    /\ \A kind \in DOMAIN GoRecord :
          /\ GoRecord[kind] \in RecordNames
          /\ kind \notin {"null", "string", "error", "bool", "expandedParams"}
    /\ DOMAIN JsReader = DOMAIN GoRecord
    /\ \A kind \in DOMAIN GoRecord : JsReader[kind] = GoRecord[kind]
  <1>1. \A kind \in DOMAIN GoRecord : GoRecord[kind] \in RecordNames
    BY DEF GoRecord, RecordNames
  <1>2. \A kind \in DOMAIN GoRecord :
          kind \notin {"null", "string", "error", "bool", "expandedParams"}
    BY DEF GoRecord
  <1>3. /\ DOMAIN JsReader = DOMAIN GoRecord
        /\ \A kind \in DOMAIN GoRecord : JsReader[kind] = GoRecord[kind]
    BY DEF GoRecord, JsReader
  <1> QED  BY <1>1, <1>2, <1>3

LEMMA EmptyPath == <<>> \in Paths
  <1> DEFINE S == (PartNames \cup {""}) \X Nat
  <1> HIDE DEF S
  <1>1. <<>> \in Seq(S)
    OBVIOUS
  <1> QED  BY <1>1 DEF Paths, S

\* The step that begins an answer.
Answering(kind, n, first, others) ==
    /\ stage = "handled" /\ request.method \in Methods
    /\ kind \in {JsResult(request.method), "null", "error"}
    /\ n \in IF kind \in Runs THEN {0} \cup Lengths ELSE {1}
    /\ first \in Presents(kind) /\ others \in {{}, first}
    /\ Respond(kind, n, first, others)

LEMMA RespondFits ==
    ASSUME NEW kind, NEW n, NEW first, NEW others, Answering(kind, n, first, others)
    PROVE  /\ KindFits' /\ AnswerFits' /\ n \in Nat
           /\ answer'.kind = kind /\ answer'.first = first /\ answer'.others = others
           /\ first \in Whiches' /\ others \in Whiches'
  <1>1. answer' = [kind |-> kind, first |-> first, others |-> others]
    BY DEF Answering, Respond
  <1>2. kind \in DOMAIN GoRecord \cup {"string", "bool", "expandedParams", "null", "error"}
    BY KindOf DEF Answering
  <1>3. Consistent(first)
    BY PresentsAssumption DEF Answering, Kinds
  <1>4. Consistent(others)
    <2>1. Consistent({})
      BY DEF Consistent
    <2> QED  BY <1>3, <2>1 DEF Answering
  <1>5. n \in Nat
    BY LengthsAssumption DEF Answering
  <1> QED  BY <1>1, <1>2, <1>3, <1>4, <1>5 DEF KindFits, AnswerFits, Whiches

\* Nothing but a scalar, or nothing at all.
LEMMA ScalarReady ==
    ASSUME NEW kind, NEW n, NEW first, NEW others, Answering(kind, n, first, others),
           kind \in {"null", "string", "error", "bool"}
    PROVE  Ready'
  <1>1. /\ KindFits' /\ AnswerFits' /\ n \in Nat /\ answer'.kind = kind
    BY RespondFits
  <1> DEFINE word == {Field(16, 4, Top("offset"), Given), Field(20, 4, Top("length"), Given)}
             byte == {Field(16, 1, Top("bool"), Given)}
             fields == IF kind = "null" THEN {} ELSE IF kind = "bool" THEN byte ELSE word
             end == IF kind = "null" THEN 16 ELSE IF kind = "bool" THEN 17 ELSE 24
  <1>2. /\ todo' = <<>> /\ memory'.fields = fields
        /\ memory'.said = IF kind = "null" THEN {}
                          ELSE IF kind = "bool" THEN {Top("bool")}
                          ELSE {Top("offset"), Top("length")}
        /\ memory'.recOff = end /\ memory'.packOff = 16 /\ Slots'
    <2>1. CASE kind = "null"
      BY <2>1 DEF Answering, Respond, Begin, Buffer, HeaderEnd, Slots
    <2>2. CASE kind = "bool"
      <3> DEFINE names == <<"bool">>
      <3>1. DOMAIN names = {1} /\ names[1] = "bool" /\ Len(names) = 1
        OBVIOUS
      <3>2. Scalar(1, names)
        BY <2>2 DEF Answering, Respond
      <3> HIDE DEF names
      <3> QED  BY <2>2, <3>1, <3>2 DEF Scalar, Buffer, HeaderEnd, Slots
    <2>3. CASE kind \in {"string", "error"}
      <3> DEFINE names == <<"offset", "length">>
      <3>1. DOMAIN names = {1, 2} /\ names[1] = "offset" /\ names[2] = "length" /\ Len(names) = 2
        OBVIOUS
      <3>2. Scalar(4, names)
        BY <2>3 DEF Answering, Respond
      <3> HIDE DEF names
      <3>3. {Field(16 + (i - 1) * 4, 4, Top(names[i]), Given) : i \in {1, 2}} = word
        BY <3>1
      <3>4. {Top(names[i]) : i \in {1, 2}} = {Top("offset"), Top("length")}
        BY <3>1
      <3> QED  BY <2>3, <3>1, <3>2, <3>3, <3>4 DEF Scalar, Buffer, HeaderEnd, Slots
    <2> QED  BY <2>1, <2>2, <2>3
  <1>3. /\ end \in Nat /\ end >= 16
        /\ \A f \in fields : Sized(f) /\ Bytes(f) \subseteq 16 .. end - 1
        /\ Disjoint(fields)
    <2>1. CASE kind = "null"
      BY <2>1 DEF Disjoint
    <2>2. CASE kind = "bool"
      BY <2>2, FieldIs DEF Disjoint
    <2>3. CASE kind \in {"string", "error"}
      <3>1. fields = word /\ end = 24
        BY <2>3
      <3>2. \A f \in word : Sized(f) /\ Bytes(f) \subseteq 16 .. 23
        BY FieldIs
      <3>3. Disjoint(word)
        BY FieldIs DEF Disjoint
      <3> QED  BY <3>1, <3>2, <3>3
    <2> QED  BY <2>1, <2>2, <2>3
  <1>4. Started(n, memory.fields)' /\ Scalars' = memory'.said /\ Roots(n)' = {}
    <2>1. kind \notin DOMAIN GoRecord
      BY GoRecords
    <2>2. CASE kind = "null"
      BY <1>1, <1>2, <2>1, <2>2 DEF Started, Scalars, Roots
    <2>3. CASE kind = "bool"
      BY <1>1, <1>2, <2>1, <2>3 DEF Started, Scalars, Roots
    <2>4. CASE kind \in {"string", "error"}
      BY <1>1, <1>2, <2>1, <2>4 DEF Started, Scalars, Roots
    <2> QED  BY <2>2, <2>3, <2>4
  <1>5. Room(<<>>, memory.fields, memory.recOff)'
    <2>1. <<>> \in Seq(Tasks')
      OBVIOUS
    <2> HIDE DEF fields, end
    <2> QED  BY <1>2, <1>3, <2>1 DEF Room
  <1>6. Nodes({}, Roots(n), Scalars, todo, memory.fields, memory.said)'
    BY <1>2, <1>4 DEF Nodes
  <1>7. Encoded'
    BY <1>1, <1>4, <1>6 DEF Encoded
  <1> QED  BY <1>1, <1>2, <1>3, <1>5, <1>7 DEF Ready

\* A run of records.
LEMMA RecordsReady ==
    ASSUME NEW kind, NEW n, NEW first, NEW others, Answering(kind, n, first, others),
           kind \in DOMAIN GoRecord
    PROVE  Ready'
  <1> DEFINE record == GoRecord[kind]
             run == Run(record, n, 20, <<>>, first, others)
             end == 20 + n * GoLayout[record].size
             f == Field(16, 4, Top("count"), n)
  <1>1. /\ KindFits' /\ AnswerFits' /\ n \in Nat
        /\ answer'.kind = kind /\ answer'.first = first /\ answer'.others = others
        /\ first \in Whiches' /\ others \in Whiches'
    BY RespondFits
  <1>2. /\ record \in RecordNames
        /\ kind \notin {"null", "string", "error", "bool", "expandedParams"}
    BY GoRecords
  <1>3. /\ todo' = run /\ memory'.fields = {f} /\ memory'.said = {}
        /\ memory'.recOff = end /\ memory'.packOff = end /\ Slots'
    BY <1>2 DEF Answering, Respond, Records, PackOff, Buffer, HeaderEnd, Slots
  <1>4. /\ run \in Seq(Tasks') /\ DOMAIN run = 1..n
        /\ \A k \in 1..n : Owns(run[k]) \subseteq 20 .. end - 1
        /\ \A k, l \in 1..n : k # l => Owns(run[k]) \cap Owns(run[l]) = {}
    <2>1. 20 \in Nat
      OBVIOUS
    <2>2. /\ run \in Seq(Tasks') /\ DOMAIN run = 1..n
          /\ \A k \in 1..n : Owns(run[k]) \subseteq 20 .. 20 + n * GoLayout[record].size - 1
          /\ \A k, l \in 1..n : k # l => Owns(run[k]) \cap Owns(run[l]) = {}
      <3>1. \A path \in Paths, which \in Whiches', rest \in Whiches' :
              LET r == Run(record, n, 20, path, which, rest)
              IN /\ r \in Seq(Tasks') /\ DOMAIN r = 1..n
                 /\ \A k \in 1..n : Owns(r[k]) \subseteq 20 .. 20 + n * GoLayout[record].size - 1
                 /\ \A k, l \in 1..n : k # l => Owns(r[k]) \cap Owns(r[l]) = {}
        BY <1>1, <1>2, <2>1, RunsFitNext, ZenonT(40) DEF RunsFit
      <3> HIDE DEF record
      <3> QED  BY <1>1, <3>1, EmptyPath
    <2>3. end = 20 + n * GoLayout[record].size
      OBVIOUS
    <2> HIDE DEF run, record, end, f
    <2>4. run \in Seq(Tasks')
      BY <2>2
    <2>5. DOMAIN run = 1..n
      BY <2>2
    <2>6. \A k \in 1..n : Owns(run[k]) \subseteq 20 .. end - 1
      <3>1. n \in Nat /\ GoLayout[record].size \in Nat
        BY <1>1, <1>2, GoPlaces
      <3> QED  BY <2>2, <2>3, <3>1
    <2>7. \A k, l \in 1..n : k # l => Owns(run[k]) \cap Owns(run[l]) = {}
      BY <2>2
    <2> QED  BY <2>4, <2>5, <2>6, <2>7
  <1>5. end \in Nat /\ end >= 20
    <2>1. n * GoLayout[record].size \in Nat
      BY <1>1, <1>2, GoPlaces
    <2> HIDE DEF record
    <2> QED  BY <2>1
  <1>6. Sized(f) /\ Bytes(f) = 16 .. 19
    BY FieldIs
  <1> HIDE DEF run, f, end, record
  <1>7. Room(todo, memory.fields, memory.packOff)'
    <2>1. /\ Bytes(f) \subseteq 16 .. end - 1
          /\ \A b \in 20 .. end - 1 : b \in 16 .. end - 1 /\ b \notin Bytes(f)
      BY <1>5, <1>6
    <2>2. Disjoint({f})
      BY DEF Disjoint
    <2> QED  BY <1>3, <1>4, <1>5, <1>6, <2>1, <2>2 DEF Room
  <1> DEFINE nodes == {run[k] : k \in 1..n}
  <1>8. Roots(n)' = nodes /\ Scalars' = {} /\ Started(n, memory.fields)'
    BY <1>1, <1>2, <1>3 DEF Roots, Scalars, Started, run, f, record
  <1>9. \A k \in 1..n : run[k].next = 1 /\ Node(run[k]) = run[k] /\ run[k] \in Tasks'
    <2> DEFINE S == Tasks'
    <2>1. \A k \in 1..n : run[k] \in S
      <3>1. run \in Seq(S) /\ DOMAIN run = 1..n
        BY <1>4
      <3> HIDE DEF S
      <3>2. \A k \in DOMAIN run : run[k] \in S
        BY <3>1, InSeq
      <3> QED  BY <3>1, <3>2
    <2>2. \A k \in 1..n :
            run[k] = Task(record, 20 + GoLayout[record].size * (k - 1), Item(<<>>, k),
                          IF k = 1 THEN first ELSE others)
      BY DEF run, Run
    <2> QED  BY <2>1, <2>2, NewNode
  <1>10. Nodes(nodes, Roots(n), Scalars, todo, memory.fields, memory.said)'
    <2>1. \A t \in nodes : \A i \in DOMAIN PartsOf(t) : Ahead(t, i, run)
      <3> SUFFICES ASSUME NEW k \in 1..n, NEW i \in DOMAIN PartsOf(run[k])
                   PROVE  Ahead(run[k], i, run)
        OBVIOUS
      <3>1. run[k].record \in RecordNames
        BY <1>9 DEF Tasks
      <3>2. 1 <= i
        BY <3>1, GoPlaces DEF PartsOf
      <3> QED  BY <1>4, <1>9, <3>2 DEF Ahead
    <2> QED  BY <1>3, <1>4, <1>8, <1>9, <2>1 DEF Nodes
  <1>11. Encoded'
    BY <1>1, <1>8, <1>10 DEF Encoded
  <1> QED  BY <1>1, <1>3, <1>5, <1>7, <1>11 DEF Ready

\* The one record that stands alone.
LEMMA ExpandedReady ==
    ASSUME NEW kind, NEW n, NEW first, NEW others, Answering(kind, n, first, others),
           kind = "expandedParams"
    PROVE  Ready'
  <1> DEFINE task == Task("expandedParams", 16, <<>>, first)
             run == <<task>>
  <1>1. /\ KindFits' /\ AnswerFits' /\ n \in Nat
        /\ answer'.kind = kind /\ answer'.first = first /\ first \in Whiches'
    BY RespondFits
  <1>2. "expandedParams" \in RecordNames /\ GoLayout["expandedParams"].size = 8
    BY DEF RecordNames, GoLayout, GoExpandedParameters, Record
  <1>3. /\ todo' = run /\ memory'.fields = {} /\ memory'.said = {}
        /\ memory'.recOff = 24 /\ memory'.packOff = 24 /\ Slots'
    BY <1>2 DEF Answering, Respond, ExpandedParameters, Buffer, HeaderEnd, Slots
  <1>4. task \in Tasks' /\ Owns(task) \subseteq 16 .. 23
    BY <1>1, <1>2, TasksFitNext, EmptyPath DEF TasksFit
  <1>5. Node(task) = task /\ task.next = 1 /\ task.record \in RecordNames
    BY <1>2, NewNode DEF Task
  <1> HIDE DEF task
  <1>6. run \in Seq(Tasks') /\ DOMAIN run = {1} /\ run[1] = task
    BY <1>4
  <1> HIDE DEF run
  <1>7. Room(todo, memory.fields, memory.packOff)'
    BY <1>3, <1>4, <1>6 DEF Room, Disjoint
  <1>8. Roots(n)' = {task} /\ Scalars' = {} /\ Started(n, memory.fields)'
    BY <1>1, GoRecords DEF Roots, Scalars, Started, task
  <1>9. Nodes({task}, Roots(n), Scalars, todo, memory.fields, memory.said)'
    <2>1. \A i \in DOMAIN PartsOf(task) : 1 <= i
      BY <1>5, GoPlaces DEF PartsOf
    <2> QED  BY <1>3, <1>4, <1>5, <1>6, <1>8, <2>1 DEF Nodes, Ahead
  <1>10. Encoded'
    BY <1>1, <1>8, <1>9 DEF Encoded
  <1> QED  BY <1>1, <1>3, <1>7, <1>10 DEF Ready

\* Whatever the answer, the encoder starts in order.
LEMMA RespondReady ==
    ASSUME NEW kind, NEW n, NEW first, NEW others, Answering(kind, n, first, others)
    PROVE  Ready'
  <1>1. kind \in DOMAIN GoRecord \cup {"string", "bool", "expandedParams", "null", "error"}
    BY KindOf DEF Answering
  <1> QED  BY <1>1, ScalarReady, RecordsReady, ExpandedReady

\* The answer is in the buffer.
Answered ==
    /\ KindFits /\ AnswerFits /\ Slots
    /\ \A f \in memory.fields : Sized(f)
    /\ Disjoint(memory.fields)
    /\ todo = <<>>
    /\ Encoded
    /\ Field(0, 1, Top("kind"),
             IF answer.kind \in {"null", "error"} THEN answer.kind ELSE "record") \in memory.fields
    /\ \E p \in Nat : {Field(8, 4, Into(Top("newStrings"), "pointer"), p),
                       Field(p, 4, Top("newStrings"), Given)} \subseteq memory.fields

LEMMA MaxOfTwo ==
    ASSUME NEW a \in Nat, NEW b \in Nat
    PROVE  Max({a, b}) \in Nat /\ Max({a, b}) >= a /\ Max({a, b}) >= b
  <1>1. CASE a >= b
    <2>1. a \in {a, b} /\ \A y \in {a, b} : a >= y
      BY <1>1
    <2> QED  BY <2>1 DEF Max
  <1>2. CASE b >= a
    <2>1. b \in {a, b} /\ \A y \in {a, b} : b >= y
      BY <1>2
    <2> QED  BY <2>1 DEF Max
  <1> QED  BY <1>1, <1>2

\* The header and the strings lie in front of the records and behind them.
LEMMA FinishAnswered ==
    ASSUME Ready, Finish
    PROVE  Answered'
  <1> DEFINE p == Max({memory.recOff, memory.packOff})
             kind == IF answer.kind \in {"null", "error"} THEN answer.kind ELSE "record"
             k == Field(0, 1, Top("kind"), kind)
             q == Field(8, 4, Into(Top("newStrings"), "pointer"), p)
             s == Field(p, 4, Top("newStrings"), Given)
             old == memory.fields
  <1>1. /\ todo = <<>> /\ todo' = <<>> /\ answer' = answer
        /\ memory' = [memory EXCEPT !.fields = old \cup {k, q, s}]
    BY DEF Finish, Write
  <1>2. p \in Nat /\ p >= memory.recOff /\ p >= memory.packOff
    BY MaxOfTwo DEF Ready
  <1>3. p >= 16 /\ \A f \in old : Sized(f) /\ Bytes(f) \subseteq 16 .. p - 1
    <2>1. PICK end \in Nat : Room(<<>>, old, end) /\ end <= p
      BY <1>1, <1>2 DEF Ready
    <2> HIDE DEF p
    <2>2. end >= 16 /\ 16 .. end - 1 \subseteq 16 .. p - 1
      BY <1>2, <2>1 DEF Room
    <2> QED  BY <1>2, <2>1, <2>2 DEF Room
  <1>4. Disjoint(old)
    BY <1>1 DEF Ready, Room
  <1> HIDE DEF p, kind
  <1>5. /\ Sized(k) /\ Sized(q) /\ Sized(s)
        /\ Bytes(k) = 0 .. 0 /\ Bytes(q) = 8 .. 11 /\ Bytes(s) = p .. p + 3
    BY <1>2, FieldIs
  <1> HIDE DEF k, q, s
  <1>6. Disjoint(old \cup {k, q, s})
    <2>1. /\ Bytes(k) \cap Bytes(q) = {} /\ Bytes(k) \cap Bytes(s) = {}
          /\ Bytes(q) \cap Bytes(s) = {}
      BY <1>2, <1>3, <1>5
    <2>2. \A g \in {k, q, s} : Bytes(g) \cap (16 .. p - 1) = {}
      BY <1>2, <1>3, <1>5
    <2>3. \A f \in old, g \in {k, q, s} : Bytes(f) \cap Bytes(g) = {}
      BY <1>3, <2>2
    <2> HIDE DEF old
    <2> QED  BY <1>4, <2>1, <2>3 DEF Disjoint
  <1>7. /\ memory'.fields = old \cup {k, q, s} /\ memory'.said = memory.said /\ Slots'
    BY <1>1 DEF Ready, Slots
  <1>8. PICK n, nodes : /\ n \in Nat /\ Started(n, old)
                         /\ Nodes(nodes, Roots(n), Scalars, todo, old, memory.said)
    BY DEF Ready, Encoded
  <1>9. Nodes(nodes, Roots(n), Scalars, todo, memory'.fields, memory.said)
    <2>1. old \subseteq memory'.fields
      BY <1>7
    <2>2. \A t, i : Done(t, i, nodes, old, memory.said)
                      => Done(t, i, nodes, memory'.fields, memory.said)
      BY <2>1 DEF Done
    <2>3. \A t : Within(t, nodes, old) => Within(t, nodes, memory'.fields)
      BY <2>1 DEF Within
    <2> QED  BY <1>8, <2>2, <2>3 DEF Nodes
  <1>11. Nodes(nodes, Roots(n), Scalars, todo, memory.fields, memory.said)'
    <2>1. todo' = todo /\ memory'.said = memory.said
      BY <1>1, <1>7
    <2> QED  BY <1>1, <1>9, <2>1, NodesNext
  <1>12. Started(n, memory.fields)'
    BY <1>1, <1>7, <1>8 DEF Started
  <1>13. Encoded'
    BY <1>8, <1>11, <1>12 DEF Encoded
  <1>14. \A f \in memory'.fields : Sized(f)
    BY <1>3, <1>5, <1>7
  <1>15. KindFits' /\ AnswerFits'
    BY <1>1 DEF Ready, KindFits, AnswerFits
  <1>16. k \in memory'.fields /\ {q, s} \subseteq memory'.fields
    BY <1>7
  <1>17. k = Field(0, 1, Top("kind"), kind)'
    BY <1>1 DEF k, kind
  <1>18. /\ q = Field(8, 4, Into(Top("newStrings"), "pointer"), p)
         /\ s = Field(p, 4, Top("newStrings"), Given)
    BY DEF q, s
  <1> QED  BY <1>1, <1>2, <1>6, <1>7, <1>13, <1>14, <1>15, <1>16, <1>17, <1>18 DEF Answered, kind

-----------------------------------------------------------------------------
(* Reading: what is found is what was meant. *)

\* Where the reader looks for a record.
SpotOf(t) == Spot(t.record, t.at, t.path)

\* Every part of every record has been written.
Complete(nodes) ==
    /\ nodes \subseteq {t \in Tasks : t.next = 1}
    /\ \A t \in nodes : \A i \in DOMAIN PartsOf(t) : Done(t, i, nodes, memory.fields, memory.said)

\* The reader's side of a record, and the features its bits announce.
JsParts(t) == JsLayout[t.record].parts
Heard(t) == Announced(JsParts(t), t.at, t.path)

\* A field of the answer is found where it was put.
LEMMA Finds ==
    ASSUME Answered, NEW at, NEW size, NEW path, NEW val,
           Field(at, size, path, val) \in memory.fields
    PROVE  Look(at, size, path) = val
  <1> DEFINE f == Field(at, size, path, val)
  <1>1. f.at = at /\ f.size = size /\ f.path = path /\ f.val = val
    BY FieldIs
  <1> HIDE DEF f
  <1>2. Look(f.at, f.size, f.path) = f.val
    BY LookFinds DEF Answered, f
  <1> QED  BY <1>1, <1>2

\* The bits of a record are those the answer has.
LEMMA BitsRead ==
    ASSUME Answered, NEW nodes, Complete(nodes), NEW t \in nodes,
           NEW i \in DOMAIN PartsOf(t), NEW j \in DOMAIN JsParts(t),
           PartsOf(t)[i].form = "flags", Agrees(PartsOf(t)[i], JsParts(t)[j])
    PROVE  /\ Bits(JsParts(t)[j], t.at, t.path) = IF Nilled(t) THEN {} ELSE Set(t, i)
           /\ Bits(JsParts(t)[j], t.at, t.path) # Stale
  <1> DEFINE p == PartsOf(t)[i]
             q == JsParts(t)[j]
             bits == IF Nilled(t) THEN {} ELSE Set(t, i)
  <1>1. t \in Tasks
    BY DEF Complete
  <1>2. p.name = "bits" /\ DOMAIN p.bits \subseteq 1..8
    BY <1>1, TaskParts DEF Sound
  <1>3. q.off = p.off /\ q.size = p.size
    BY DEF Agrees
  <1>4. PICK first : FieldsOf(t, i, first) \subseteq memory.fields
    BY DEF Complete, Done
  <1>5. Field(t.at + p.off, p.size, Item(Into(t.path, "bits"), p.off), bits) \in memory.fields
    BY <1>2, <1>4 DEF FieldsOf, ZeroPart, PlaceOf, PathOf
  <1>6. bits \in SUBSET (1..8)
    BY <1>2 DEF Set
  <1> HIDE DEF bits
  <1>7. Bits(q, t.at, t.path) = bits
    BY <1>3, <1>5, Finds DEF Bits
  <1> QED  BY <1>6, <1>7, ValuesAssumption DEF bits

\* A feature is announced only when the answer has it, and always when a part of the
\* reader waits for it.
LEMMA AnnouncedHas ==
    ASSUME Answered, NEW nodes, Complete(nodes), NEW t \in nodes, ~Nilled(t)
    PROVE  /\ \A f \in Heard(t) : HasIn(t, f)
           /\ \A j \in DOMAIN JsParts(t) :
                 JsParts(t)[j].form \in {"when", "pointerWhen"} /\ HasIn(t, JsParts(t)[j].when)
                   => JsParts(t)[j].when \in Heard(t)
           /\ \A i \in DOMAIN PartsOf(t), j \in DOMAIN JsParts(t) :
                 /\ PartsOf(t)[i].form = "flags" /\ Agrees(PartsOf(t)[i], JsParts(t)[j])
                 => \A b \in Set(t, i) \cap DOMAIN JsParts(t)[j].bits :
                       PartsOf(t)[i].bits[b] \in Heard(t)
  <1> DEFINE js == JsParts(t)
             go == PartsOf(t)
  <1>1. t.record \in RecordNames
    BY TaskParts DEF Complete
  <1>2. ASSUME NEW j \in DOMAIN js, js[j].form = "flags"
        PROVE  \E i \in DOMAIN go : /\ go[i].form = "flags" /\ Agrees(go[i], js[j])
                                    /\ Bits(js[j], t.at, t.path) = Set(t, i)
                                    /\ Bits(js[j], t.at, t.path) # Stale
                                    /\ \A b \in DOMAIN js[j].bits : b \in DOMAIN go[i].bits
                                                                   /\ go[i].bits[b] = js[j].bits[b]
    <2>1. PICK i \in DOMAIN go : Agrees(go[i], js[j])
      BY <1>1, <1>2, GoOf DEF JsParts, PartsOf
    <2>2. go[i].form = "flags" /\ go[i].off = js[j].off
      BY <1>2, <2>1 DEF Agrees
    <2>3. Bits(js[j], t.at, t.path) = Set(t, i) /\ Bits(js[j], t.at, t.path) # Stale
      BY <1>2, <2>1, <2>2, BitsRead
    <2>4. \A b \in DOMAIN js[j].bits : b \in DOMAIN go[i].bits /\ go[i].bits[b] = js[j].bits[b]
      BY <1>1, <1>2, <2>2, BitsAre DEF JsParts, PartsOf
    <2> QED  BY <2>1, <2>2, <2>3, <2>4
  <1>3. ASSUME NEW f \in Heard(t)
        PROVE  HasIn(t, f)
    <2>1. PICK j \in DOMAIN js :
            /\ js[j].form = "flags"
            /\ \E b \in Bits(js[j], t.at, t.path) \cap DOMAIN js[j].bits : f = js[j].bits[b]
      BY <1>3 DEF Heard, Announced, AreFlags
    <2> QED  BY <1>2, <2>1 DEF Set
  <1>4. ASSUME NEW j \in DOMAIN js, js[j].form = "flags",
               NEW b \in DOMAIN js[j].bits, HasIn(t, js[j].bits[b])
        PROVE  js[j].bits[b] \in Heard(t)
    <2>1. j \in AreFlags(js)
      BY <1>4 DEF AreFlags
    <2>2. b \in Bits(js[j], t.at, t.path) /\ Bits(js[j], t.at, t.path) # Stale
      BY <1>2, <1>4 DEF Set
    <2> QED  BY <2>1, <2>2, <1>4 DEF Heard, Announced
  <1>5. ASSUME NEW j \in DOMAIN js, js[j].form \in {"when", "pointerWhen"}, HasIn(t, js[j].when)
        PROVE  js[j].when \in Heard(t)
    <2>1. PICK k \in DOMAIN js : /\ js[k].form = "flags"
                                 /\ \E b \in DOMAIN js[k].bits : js[k].bits[b] = js[j].when
      BY <1>1, <1>5, IsTold DEF JsParts
    <2> QED  BY <1>4, <1>5, <2>1
  <1>6. ASSUME NEW i \in DOMAIN go, NEW j \in DOMAIN js, go[i].form = "flags", Agrees(go[i], js[j]),
               NEW b \in Set(t, i) \cap DOMAIN js[j].bits
        PROVE  go[i].bits[b] \in Heard(t)
    <2>1. js[j].form = "flags" /\ go[i].off = js[j].off
      BY <1>6 DEF Agrees
    <2>2. go[i].bits[b] = js[j].bits[b]
      BY <1>1, <1>6, <2>1, BitsAre DEF JsParts, PartsOf
    <2> QED  BY <1>4, <1>6, <2>1, <2>2 DEF Set
  <1> QED  BY <1>3, <1>5, <1>6

\* Values read, and what is read of records and of a part.
Givens(paths) == {<<path, Given>> : path \in paths}
ReadsOf(tasks) == UNION {Get[SpotOf(t)] : t \in tasks}
GetOf(t, j) ==
    IF There(JsParts(t)[j], Heard(t))
    THEN GetPart(Get, JsParts(t)[j], JsParts(t), Heard(t), t.at + JsParts(t)[j].off,
                 Into(t.path, JsParts(t)[j].name))
    ELSE {}

\* The two sides agree on which bits announce a part.
LEMMA PartsTell ==
    ASSUME NEW t \in Tasks
    PROVE  \A f : Announces(PartsOf(t), f) <=> Announces(JsParts(t), f)
  <1>1. t.record \in RecordNames
    BY TaskParts
  <1>2. ASSUME NEW f, Announces(PartsOf(t), f) PROVE Announces(JsParts(t), f)
    <2>1. PICK i \in DOMAIN PartsOf(t) : PartsOf(t)[i].form # "flags" /\ PartsOf(t)[i].when = f
      BY <1>2 DEF Announces
    <2>2. PICK j \in DOMAIN JsParts(t) : Agrees(PartsOf(t)[i], JsParts(t)[j])
      BY <1>1, JsOf DEF PartsOf, JsParts
    <2> QED  BY <2>1, <2>2 DEF Announces, Agrees
  <1>3. ASSUME NEW f, Announces(JsParts(t), f) PROVE Announces(PartsOf(t), f)
    <2>1. PICK j \in DOMAIN JsParts(t) : JsParts(t)[j].form # "flags" /\ JsParts(t)[j].when = f
      BY <1>3 DEF Announces
    <2>2. PICK i \in DOMAIN PartsOf(t) : Agrees(PartsOf(t)[i], JsParts(t)[j])
      BY <1>1, GoOf DEF PartsOf, JsParts
    <2> QED  BY <2>1, <2>2 DEF Announces, Agrees
  <1> QED  BY <1>2, <1>3

\* The bits that mean something by themselves.
LEMMA FlagsRead ==
    ASSUME Answered, NEW nodes, Complete(nodes), NEW t \in nodes, ~Nilled(t),
           NEW i \in DOMAIN PartsOf(t), NEW j \in DOMAIN JsParts(t),
           PartsOf(t)[i].form = "flags", Agrees(PartsOf(t)[i], JsParts(t)[j])
    PROVE  Flagged(JsParts(t)[j], JsParts(t), Heard(t), PathOf(t, i)) = Givens(SaysOf(t, i))
  <1> DEFINE p == PartsOf(t)[i]
             q == JsParts(t)[j]
             path == PathOf(t, i)
             shown == {f \in Heard(t) :
                         \E b \in DOMAIN q.bits : f = q.bits[b] /\ ~Announces(JsParts(t), f)}
             said == {b \in Set(t, i) : ~Announces(PartsOf(t), p.bits[b])}
  <1>1. t \in Tasks
    BY DEF Complete
  <1>2. \A f : Announces(PartsOf(t), f) <=> Announces(JsParts(t), f)
    BY <1>1, PartsTell
  <1>3. /\ \A b \in DOMAIN q.bits : b \in DOMAIN p.bits /\ p.bits[b] = q.bits[b]
        /\ \A b \in DOMAIN p.bits : b \in DOMAIN q.bits \/ Announces(PartsOf(t), p.bits[b])
    <2>1. t.record \in RecordNames /\ q.form = "flags" /\ p.off = q.off
      BY <1>1, TaskParts DEF Agrees
    <2> QED  BY <2>1, BitsAre DEF PartsOf, JsParts
  <1>4. ASSUME NEW f \in shown PROVE \E b \in said : f = p.bits[b]
    <2>1. PICK b \in DOMAIN q.bits : f = q.bits[b] /\ ~Announces(JsParts(t), f)
      OBVIOUS
    <2>2. HasIn(t, f)
      BY AnnouncedHas
    <2> QED  BY <1>2, <1>3, <2>1, <2>2 DEF Set
  <1>5. ASSUME NEW b \in said PROVE p.bits[b] \in shown
    <2>1. b \in DOMAIN q.bits /\ p.bits[b] = q.bits[b] /\ ~Announces(JsParts(t), p.bits[b])
      BY <1>2, <1>3 DEF Set
    <2>2. p.bits[b] \in Heard(t)
      BY <2>1, AnnouncedHas
    <2> QED  BY <2>1, <2>2
  <1>6. Flagged(q, JsParts(t), Heard(t), path) = {<<Into(path, f), Given>> : f \in shown}
    BY DEF Flagged
  <1>7. SaysOf(t, i) = {Into(path, p.bits[b]) : b \in said}
    BY DEF SaysOf
  <1> HIDE DEF shown, said, path, p
  <1> QED  BY <1>4, <1>5, <1>6, <1>7 DEF Givens, p, path

\* The elements of an array, none if it is empty.
LEMMA ArrayRead ==
    ASSUME Answered, NEW t \in Tasks, ~Nilled(t),
           NEW i \in DOMAIN PartsOf(t), PartsOf(t)[i].form = "array",
           NEW first \in Nat, FieldsOf(t, i, first) \subseteq memory.fields
    PROVE  GetArray(Get, PartsOf(t)[i].record, PlaceOf(t, i), PathOf(t, i))
             = ReadsOf(ItemsOf(t, i, first))
  <1> DEFINE p == PartsOf(t)[i]
             at == PlaceOf(t, i)
             path == PathOf(t, i)
             has == HasIn(t, p.when)
             n == IF has THEN ArrayLength ELSE 0
             start == IF has THEN first ELSE 0
             spot(k) == Spot(p.record, start + JsLayout[p.record].size * (k - 1), Item(path, k))
  <1>1. /\ Field(at, 4, Into(path, "pointer"), start) \in memory.fields
        /\ Field(at + 4, 4, Into(path, "count"), n) \in memory.fields
    BY DEF FieldsOf
  <1>2. n \in Nat /\ start \in Nat
    BY LengthsAssumption
  <1>3. JsLayout[p.record].size = GoLayout[p.record].size
    <2>1. p.record \in RecordNames
      BY TaskParts, Domains DEF Sound, Nested
    <2> QED  BY <2>1, JsOfGo DEF JsMatches
  <1> HIDE DEF n, start, at, path
  <1>4. Look(at, 4, Into(path, "pointer")) = start /\ Look(at + 4, 4, Into(path, "count")) = n
    BY <1>1, Finds
  <1>5. GetArray(Get, p.record, at, path) = UNION {Get[spot(k)] : k \in 1..n}
    BY <1>2, <1>4 DEF GetArray
  <1>6. CASE has
    <2>1. ItemsOf(t, i, first) = {Element(t, i, first, k) : k \in 1..ArrayLength}
      BY <1>6 DEF ItemsOf
    <2>2. n = ArrayLength /\ start = first
      BY <1>6 DEF n, start
    <2>3. \A k : SpotOf(Element(t, i, first, k)) = spot(k)
      BY <1>3, <2>2 DEF Element, SpotOf, Task, path
    <2> HIDE DEF spot
    <2> QED  BY <1>5, <2>1, <2>2, <2>3 DEF ReadsOf, at, path
  <1>7. CASE ~has
    <2>1. ItemsOf(t, i, first) = {}
      BY <1>7 DEF ItemsOf
    <2>2. 1..n = {}
      BY <1>7 DEF n
    <2> HIDE DEF spot
    <2> QED  BY <1>5, <2>1, <2>2 DEF ReadsOf, at, path
  <1> QED  BY <1>6, <1>7

\* The reader finds of a part what the answer has of it.
LEMMA PartRead ==
    ASSUME Answered, NEW nodes, Complete(nodes), NEW t \in nodes, ~Nilled(t),
           NEW i \in DOMAIN PartsOf(t), NEW j \in DOMAIN JsParts(t),
           Agrees(PartsOf(t)[i], JsParts(t)[j]),
           NEW first \in Nat, FieldsOf(t, i, first) \subseteq memory.fields
    PROVE  GetOf(t, j) = Givens(SaysOf(t, i)) \cup ReadsOf(ItemsOf(t, i, first))
  <1> DEFINE p == PartsOf(t)[i]
             q == JsParts(t)[j]
             at == PlaceOf(t, i)
             path == PathOf(t, i)
             has == HasIn(t, p.when)
             get == GetPart(Get, q, JsParts(t), Heard(t), at, path)
  <1>1. t \in Tasks
    BY DEF Complete
  <1>2. /\ GetOf(t, j) = IF There(q, Heard(t)) THEN get ELSE {}
        /\ q.size = p.size /\ q.when = p.when /\ (p.form \in Nested => q.record = p.record)
    BY DEF GetOf, PlaceOf, PathOf, Agrees
  <1>3. ReadsOf({}) = {}
    BY DEF ReadsOf
  <1>4. q.form \in {"when", "pointerWhen"} => (q.when \in Heard(t) <=> has)
    BY <1>2, AnnouncedHas
  <1>5. p.form = "value" => has
    BY <1>1, TaskParts DEF Sound, HasIn
  <1>6. CASE p.form = "flags"
    <2>1. q.form = "flags"
      BY <1>6 DEF Agrees
    <2>2. get = Givens(SaysOf(t, i)) /\ There(q, Heard(t))
      BY <1>6, <2>1, FlagsRead DEF GetPart, There
    <2>3. ItemsOf(t, i, first) = {}
      BY <1>6 DEF ItemsOf
    <2> HIDE DEF get
    <2> QED  BY <1>2, <1>3, <2>2, <2>3
  <1>7. CASE p.form \in {"value", "zeroed", "when"}
    <2>1. /\ q.form \in {"value", "key", "when"}
          /\ q.form # "when" => p.form = "value"
          /\ p.form = "value" => q.form # "when"
      BY <1>7 DEF Agrees
    <2>2. ItemsOf(t, i, first) = {} /\ SaysOf(t, i) = IF has THEN {path} ELSE {}
      BY <1>7 DEF ItemsOf, SaysOf, Nested
    <2>3. get = Read(path, Look(at, p.size, path))
      BY <1>2, <2>1 DEF GetPart
    <2>4. CASE has
      <3>1. Field(at, p.size, path, Given) \in memory.fields
        BY <1>7, <2>4 DEF FieldsOf
      <3>2. get = {<<path, Given>>}
        BY <2>3, <3>1, Finds, ValuesAssumption DEF Read
      <3>3. There(q, Heard(t))
        BY <1>2, <1>4, <2>1, <2>4 DEF There
      <3> HIDE DEF get, path
      <3> QED  BY <1>2, <1>3, <2>2, <2>4, <3>2, <3>3 DEF Givens
    <2>5. CASE ~has
      <3>1. q.form = "when"
        BY <1>5, <2>1, <2>5
      <3>2. ~There(q, Heard(t))
        BY <1>2, <1>4, <2>5, <3>1 DEF There
      <3> HIDE DEF get, path
      <3> QED  BY <1>2, <1>3, <2>2, <2>5, <3>2 DEF Givens
    <2> QED  BY <2>4, <2>5
  <1>8. CASE p.form = "array"
    <2>1. q.form = "array"
      BY <1>8 DEF Agrees
    <2>2. get = ReadsOf(ItemsOf(t, i, first)) /\ There(q, Heard(t))
      BY <1>1, <1>2, <1>8, <2>1, ArrayRead DEF GetPart, There, Nested
    <2>3. SaysOf(t, i) = {}
      BY <1>8 DEF SaysOf, Nested
    <2> HIDE DEF get
    <2> QED  BY <1>2, <2>2, <2>3 DEF Givens
  <1>9. CASE p.form \in {"pointer", "pointerWhen"}
    <2>1. q.form = "pointerWhen"
      BY <1>9 DEF Agrees
    <2>2. SaysOf(t, i) = {}
      BY <1>9 DEF SaysOf, Nested
    <2>3. CASE has
      <3>1. Field(at, 4, Into(path, "pointer"), first) \in memory.fields
        BY <1>9, <2>3 DEF FieldsOf
      <3>2. Look(at, 4, Into(path, "pointer")) = first
        BY <3>1, Finds
      <3>3. get = Get[Spot(p.record, first, path)]
        BY <1>2, <1>9, <2>1, <3>2 DEF GetPart, GetPointer, Nested
      <3>4. ItemsOf(t, i, first) = {Task(p.record, first, path, t.which)}
        BY <1>9, <2>3 DEF ItemsOf
      <3>5. ReadsOf(ItemsOf(t, i, first)) = Get[Spot(p.record, first, path)]
        BY <3>4 DEF ReadsOf, SpotOf, Task
      <3>6. There(q, Heard(t))
        BY <1>2, <1>4, <2>1, <2>3 DEF There
      <3> HIDE DEF get
      <3> QED  BY <1>2, <2>2, <3>3, <3>5, <3>6 DEF Givens
    <2>4. CASE ~has
      <3>1. ItemsOf(t, i, first) = {}
        BY <1>9, <2>4 DEF ItemsOf
      <3>2. ~There(q, Heard(t))
        BY <1>2, <1>4, <2>1, <2>4 DEF There
      <3> HIDE DEF get
      <3> QED  BY <1>2, <1>3, <2>2, <3>1, <3>2 DEF Givens
    <2> QED  BY <2>3, <2>4
  <1>10. CASE p.form = "inline"
    <2>1. q.form = "inline"
      BY <1>10 DEF Agrees
    <2>2. SaysOf(t, i) = {}
      BY <1>10 DEF SaysOf, Nested
    <2>3. get = Get[Spot(p.record, at, path)] /\ There(q, Heard(t))
      BY <1>2, <1>10, <2>1 DEF GetPart, Nested, There
    <2>4. ItemsOf(t, i, first)
            = {Task(p.record, at, path, IF has THEN t.which ELSE {<<p.record, "nil">>})}
      BY <1>10 DEF ItemsOf
    <2>5. ReadsOf(ItemsOf(t, i, first)) = Get[Spot(p.record, at, path)]
      BY <2>4 DEF ReadsOf, SpotOf, Task
    <2> HIDE DEF get
    <2> QED  BY <1>2, <2>2, <2>3, <2>5 DEF Givens
  <1> QED  BY <1>6, <1>7, <1>8, <1>9, <1>10 DEF Agrees

\* A record that is not there says nothing.
LEMMA NilRead ==
    ASSUME Answered, NEW nodes, Complete(nodes), NEW t \in nodes, Nilled(t)
    PROVE  Get[SpotOf(t)] = {}
  <1> DEFINE js == JsParts(t)
             go == PartsOf(t)
  <1>1. t \in Tasks /\ t.record \in Nilable /\ t.record \in RecordNames
    BY TaskParts, WhichFits DEF Complete, Answered
  <1>2. SpotOf(t) \in Spots
    BY <1>1, TaskParts, Domains DEF Spots, Spot, SpotOf
  <1>3. Get[SpotOf(t)] = Reading(Get, SpotOf(t))
    BY <1>2, GetReads
  <1>4. SpotOf(t).name = t.record /\ SpotOf(t).at = t.at /\ SpotOf(t).path = t.path
    BY DEF SpotOf, Spot
  <1>5. ASSUME NEW i \in DOMAIN go
        PROVE  ZeroPart(go[i], PlaceOf(t, i), PathOf(t, i)) \subseteq memory.fields
    BY <1>5 DEF Complete, Done, FieldsOf
  <1>6. ASSUME NEW j \in DOMAIN js, js[j].form \in {"value", "key"}
        PROVE  Look(t.at + js[j].off, js[j].size, Into(t.path, js[j].name)) = None
    <2>1. PICK i \in DOMAIN go : Agrees(go[i], js[j])
      BY <1>1, GoOf DEF JsParts, PartsOf
    <2>2. /\ go[i].form = "value" /\ js[j].size = go[i].size
          /\ t.at + js[j].off = PlaceOf(t, i) /\ Into(t.path, js[j].name) = PathOf(t, i)
      BY <1>6, <2>1 DEF Agrees, PlaceOf, PathOf
    <2>3. Field(PlaceOf(t, i), go[i].size, PathOf(t, i), None) \in memory.fields
      BY <1>5, <2>2 DEF ZeroPart
    <2> QED  BY <2>2, <2>3, Finds
  <1>7. CASE \E j \in DOMAIN js : js[j].form = "key"
    <2>1. Absent(js, t.at, t.path)
      BY <1>6, <1>7 DEF Absent
    <2> QED  BY <1>3, <1>4, <2>1 DEF Reading, JsParts
  <1>8. CASE \A j \in DOMAIN js : js[j].form \in {"value", "when", "flags", "array"}
    <2>1. \A j \in DOMAIN js : js[j].form = "flags" => Bits(js[j], t.at, t.path) = {}
                                                      /\ Bits(js[j], t.at, t.path) # Stale
      <3> SUFFICES ASSUME NEW j \in DOMAIN js, js[j].form = "flags"
                   PROVE  Bits(js[j], t.at, t.path) = {} /\ Bits(js[j], t.at, t.path) # Stale
        OBVIOUS
      <3>1. PICK i \in DOMAIN go : Agrees(go[i], js[j])
        BY <1>1, GoOf DEF JsParts, PartsOf
      <3>2. go[i].form = "flags"
        BY <3>1 DEF Agrees
      <3> QED  BY <3>1, <3>2, BitsRead
    <2>2. Heard(t) = {}
      BY <2>1 DEF Heard, Announced, AreFlags
    <2>3. ASSUME NEW j \in DOMAIN js, There(js[j], {})
          PROVE  GetPart(Get, js[j], js, {}, t.at + js[j].off, Into(t.path, js[j].name)) = {}
      <3>1. js[j].form \in {"value", "flags", "array"}
        BY <1>8, <2>3 DEF There
      <3>2. CASE js[j].form = "value"
        <4>1. Look(t.at + js[j].off, js[j].size, Into(t.path, js[j].name)) = None
          BY <1>6, <3>2
        <4> QED  BY <3>2, <4>1 DEF GetPart, Read
      <3>3. CASE js[j].form = "flags"
        BY <3>3 DEF GetPart, Flagged
      <3>4. CASE js[j].form = "array"
        <4>1. PICK i \in DOMAIN go : Agrees(go[i], js[j])
          BY <1>1, GoOf DEF JsParts, PartsOf
        <4>2. /\ go[i].form = "array"
              /\ t.at + js[j].off = PlaceOf(t, i) /\ Into(t.path, js[j].name) = PathOf(t, i)
          BY <3>4, <4>1 DEF Agrees, PlaceOf, PathOf
        <4>3. /\ Field(PlaceOf(t, i), 4, Into(PathOf(t, i), "pointer"), 0) \in memory.fields
              /\ Field(PlaceOf(t, i) + 4, 4, Into(PathOf(t, i), "count"), 0) \in memory.fields
          BY <1>5, <4>2 DEF ZeroPart
        <4>4. /\ Look(PlaceOf(t, i), 4, Into(PathOf(t, i), "pointer")) = 0
              /\ Look(PlaceOf(t, i) + 4, 4, Into(PathOf(t, i), "count")) = 0
          BY <4>3, Finds
        <4>5. GetArray(Get, js[j].record, PlaceOf(t, i), PathOf(t, i)) = {}
          <5>1. 1..0 = {} /\ 0 \in Nat
            OBVIOUS
          <5> QED  BY <4>4, <5>1 DEF GetArray
        <4> QED  BY <3>4, <4>2, <4>5 DEF GetPart
      <3> QED  BY <3>1, <3>2, <3>3, <3>4
    <2>4. Reading(Get, SpotOf(t)) = {}
      BY <1>4, <2>1, <2>2, <2>3 DEF Reading, Heard, JsParts, AreFlags
    <2> QED  BY <1>3, <2>4
  <1> QED  BY <1>1, <1>7, <1>8, NilRecord DEF JsParts

\* What the reader says of a record is what its parts say.
LEMMA NodeRead ==
    ASSUME Answered, NEW nodes, Complete(nodes), NEW t \in nodes
    PROVE  /\ \A x \in Get[SpotOf(t)] :
                 \E i \in DOMAIN PartsOf(t) : \E first \in Nat :
                    /\ FieldsOf(t, i, first) \subseteq memory.fields
                    /\ SaysOf(t, i) \subseteq memory.said /\ ItemsOf(t, i, first) \subseteq nodes
                    /\ x \in Givens(SaysOf(t, i)) \cup ReadsOf(ItemsOf(t, i, first))
           /\ \A i \in DOMAIN PartsOf(t) : \A first \in Nat :
                 FieldsOf(t, i, first) \subseteq memory.fields
                   => Givens(SaysOf(t, i)) \cup ReadsOf(ItemsOf(t, i, first))
                        \subseteq Get[SpotOf(t)]
  <1> DEFINE js == JsParts(t)
             go == PartsOf(t)
             whole(i, first) == Givens(SaysOf(t, i)) \cup ReadsOf(ItemsOf(t, i, first))
  <1>1. CASE Nilled(t)
    <2>1. Get[SpotOf(t)] = {}
      BY <1>1, NilRead
    <2>2. \A i, first : whole(i, first) = {}
      BY <1>1 DEF SaysOf, ItemsOf, Givens, ReadsOf
    <2> QED  BY <2>1, <2>2
  <1>2. CASE ~Nilled(t)
    <2>1. t \in Tasks /\ t.record \in RecordNames
      BY TaskParts DEF Complete
    <2>2. SpotOf(t) \in Spots
      BY <2>1, TaskParts, Domains DEF Spots, Spot, SpotOf
    <2>3. SpotOf(t).name = t.record /\ SpotOf(t).at = t.at /\ SpotOf(t).path = t.path
      BY DEF SpotOf, Spot
    <2>4. ~Absent(js, t.at, t.path)
      <3> SUFFICES ASSUME NEW j \in DOMAIN js, js[j].form = "key"
                   PROVE  Look(t.at + js[j].off, js[j].size, Into(t.path, js[j].name)) # None
        BY DEF Absent
      <3>1. PICK i \in DOMAIN go : Agrees(go[i], js[j])
        BY <2>1, GoOf DEF JsParts, PartsOf
      <3>2. /\ go[i].form = "value" /\ js[j].size = go[i].size
            /\ t.at + js[j].off = PlaceOf(t, i) /\ Into(t.path, js[j].name) = PathOf(t, i)
        BY <3>1 DEF Agrees, PlaceOf, PathOf
      <3>3. PICK first : FieldsOf(t, i, first) \subseteq memory.fields
        BY DEF Complete, Done
      <3>4. HasIn(t, go[i].when)
        BY <2>1, <3>2, TaskParts DEF Sound, HasIn
      <3>5. Field(PlaceOf(t, i), go[i].size, PathOf(t, i), Given) \in memory.fields
        BY <1>2, <3>2, <3>3, <3>4 DEF FieldsOf
      <3>6. Look(PlaceOf(t, i), go[i].size, PathOf(t, i)) = Given
        BY <3>5, Finds
      <3> QED  BY <3>2, <3>6, ValuesAssumption
    <2>5. \A j \in AreFlags(js) : Bits(js[j], t.at, t.path) # Stale
      <3> SUFFICES ASSUME NEW j \in DOMAIN js, js[j].form = "flags"
                   PROVE  Bits(js[j], t.at, t.path) # Stale
        BY DEF AreFlags
      <3>1. PICK i \in DOMAIN go : Agrees(go[i], js[j])
        BY <2>1, GoOf DEF JsParts, PartsOf
      <3>2. go[i].form = "flags"
        BY <3>1 DEF Agrees
      <3> QED  BY <3>1, <3>2, BitsRead
    <2>6. Get[SpotOf(t)] = UNION {GetOf(t, j) : j \in DOMAIN js}
      <3>1. Reading(Get, SpotOf(t))
              = UNION {GetPart(Get, js[j], js, Heard(t), t.at + js[j].off, Into(t.path, js[j].name))
                         : j \in {k \in DOMAIN js : There(js[k], Heard(t))}}
        BY <2>3, <2>4, <2>5 DEF Reading, Heard, JsParts
      <3> QED  BY <2>2, <3>1, GetReads DEF GetOf
    <2>7. ASSUME NEW x \in Get[SpotOf(t)]
          PROVE  \E i \in DOMAIN go : \E first \in Nat :
                    /\ FieldsOf(t, i, first) \subseteq memory.fields
                    /\ SaysOf(t, i) \subseteq memory.said /\ ItemsOf(t, i, first) \subseteq nodes
                    /\ x \in whole(i, first)
      <3>1. PICK j \in DOMAIN js : x \in GetOf(t, j)
        BY <2>6, <2>7
      <3>2. PICK i \in DOMAIN go : Agrees(go[i], js[j])
        BY <2>1, GoOf DEF JsParts, PartsOf
      <3>3. PICK first \in Nat : /\ FieldsOf(t, i, first) \subseteq memory.fields
                                 /\ SaysOf(t, i) \subseteq memory.said
                                 /\ ItemsOf(t, i, first) \subseteq nodes
        BY DEF Complete, Done
      <3>4. GetOf(t, j) = whole(i, first)
        BY <1>2, <3>2, <3>3, PartRead
      <3> QED  BY <3>1, <3>3, <3>4
    <2>8. ASSUME NEW i \in DOMAIN go, NEW first \in Nat,
                 FieldsOf(t, i, first) \subseteq memory.fields
          PROVE  whole(i, first) \subseteq Get[SpotOf(t)]
      <3>1. PICK j \in DOMAIN js : Agrees(go[i], js[j])
        BY <2>1, JsOf DEF JsParts, PartsOf
      <3>2. GetOf(t, j) = whole(i, first)
        BY <1>2, <2>8, <3>1, PartRead
      <3> QED  BY <2>6, <3>2
    <2> QED  BY <2>7, <2>8
  <1> QED  BY <1>1, <1>2

-----------------------------------------------------------------------------
(* The whole answer. *)

LEMMA ItemRank ==
    ASSUME NEW t \in Tasks, NEW i \in DOMAIN PartsOf(t), NEW first, NEW u \in ItemsOf(t, i, first)
    PROVE  Rank[u.record] < Rank[t.record]
  <1> DEFINE p == PartsOf(t)[i]
  <1>1. p.form \in Nested /\ u.record = p.record
    BY DEF ItemsOf, Element, Task, Nested
  <1> QED  BY <1>1, TaskParts DEF Sound

\* Nothing is read that the answer does not say,
LEMMA ReadSaid ==
    ASSUME Answered, NEW nodes, Complete(nodes)
    PROVE  \A t \in nodes : Get[SpotOf(t)] \subseteq Givens(memory.said)
  <1> DEFINE Said(r) == \A t \in nodes :
                            Rank[t.record] < r => Get[SpotOf(t)] \subseteq Givens(memory.said)
  <1>1. \A t \in nodes : t \in Tasks /\ Rank[t.record] \in 0..4
    BY TaskParts, Ranked DEF Complete
  <1>2. ASSUME NEW r \in Nat, Said(r) PROVE Said(r + 1)
    <2> SUFFICES ASSUME NEW t \in nodes, Rank[t.record] < r + 1, NEW x \in Get[SpotOf(t)]
                 PROVE  x \in Givens(memory.said)
      OBVIOUS
    <2>1. PICK i \in DOMAIN PartsOf(t), first \in Nat :
            /\ SaysOf(t, i) \subseteq memory.said /\ ItemsOf(t, i, first) \subseteq nodes
            /\ x \in Givens(SaysOf(t, i)) \cup ReadsOf(ItemsOf(t, i, first))
      BY NodeRead
    <2>2. CASE x \in Givens(SaysOf(t, i))
      BY <2>1, <2>2 DEF Givens
    <2>3. CASE x \in ReadsOf(ItemsOf(t, i, first))
      <3>1. PICK u \in ItemsOf(t, i, first) : x \in Get[SpotOf(u)]
        BY <2>3 DEF ReadsOf
      <3>2. u \in nodes /\ Rank[u.record] < Rank[t.record]
        BY <1>1, <2>1, <3>1, ItemRank
      <3>3. Rank[u.record] < r
        BY <1>1, <3>2
      <3> QED  BY <1>2, <3>1, <3>2, <3>3
    <2> QED  BY <2>1, <2>2, <2>3
  <1>3. Said(0)
    BY <1>1
  <1> HIDE DEF Said
  <1>4. Said(1) /\ Said(2)
    BY <1>2, <1>3
  <1>5. Said(3) /\ Said(4)
    BY <1>2, <1>4
  <1>6. Said(5)
    BY <1>2, <1>5
  <1> QED  BY <1>1, <1>6 DEF Said

\* and every record is read with the one it is in.
LEMMA ReadReached ==
    ASSUME Answered, NEW nodes, Complete(nodes), NEW roots,
           \A t \in nodes : t \in roots \/ Within(t, nodes, memory.fields)
    PROVE  \A t \in nodes : Get[SpotOf(t)] \subseteq ReadsOf(roots)
  <1> DEFINE Reached(r) == \A t \in nodes :
                               Rank[t.record] > r => Get[SpotOf(t)] \subseteq ReadsOf(roots)
  <1>1. \A t \in nodes : t \in Tasks /\ Rank[t.record] \in 0..4
    BY TaskParts, Ranked DEF Complete
  <1>2. ASSUME NEW r \in Int, Reached(r) PROVE Reached(r - 1)
    <2> SUFFICES ASSUME NEW t \in nodes, Rank[t.record] > r - 1
                 PROVE  Get[SpotOf(t)] \subseteq ReadsOf(roots)
      OBVIOUS
    <2>1. CASE t \in roots
      BY <2>1 DEF ReadsOf
    <2>2. CASE Within(t, nodes, memory.fields)
      <3>1. PICK whole \in nodes : \E i \in DOMAIN PartsOf(whole) : \E first \in Nat :
              FieldsOf(whole, i, first) \subseteq memory.fields /\ t \in ItemsOf(whole, i, first)
        BY <2>2 DEF Within
      <3>2. Get[SpotOf(t)] \subseteq Get[SpotOf(whole)]
        BY <3>1, NodeRead DEF ReadsOf
      <3>3. Rank[t.record] < Rank[whole.record]
        BY <1>1, <3>1, ItemRank
      <3>4. Rank[whole.record] > r
        BY <1>1, <3>3
      <3> QED  BY <1>2, <3>2, <3>4
    <2> QED  BY <2>1, <2>2
  <1>3. Reached(4)
    BY <1>1
  <1> HIDE DEF Reached
  <1>4. Reached(3) /\ Reached(2)
    BY <1>2, <1>3
  <1>5. Reached(1) /\ Reached(0)
    BY <1>2, <1>4
  <1>6. Reached(-1)
    BY <1>2, <1>5
  <1> QED  BY <1>1, <1>6 DEF Reached

\* So the records the reader starts with give the whole answer.
LEMMA RootsRead ==
    ASSUME Answered, NEW nodes, NEW roots, NEW scalars,
           Nodes(nodes, roots, scalars, todo, memory.fields, memory.said)
    PROVE  Givens(scalars) \cup ReadsOf(roots) = Givens(memory.said)
  <1>1. Complete(nodes)
    <2>1. \A t, i : ~Ahead(t, i, todo)
      BY DEF Answered, Ahead
    <2> QED  BY <2>1 DEF Nodes, Complete
  <1>2. ReadsOf(roots) \subseteq Givens(memory.said)
    BY <1>1, ReadSaid DEF ReadsOf, Nodes
  <1>3. \A t \in nodes : Get[SpotOf(t)] \subseteq ReadsOf(roots)
    BY <1>1, ReadReached DEF Nodes
  <1>4. Givens(Meant(nodes)) \subseteq ReadsOf(roots)
    <2> SUFFICES ASSUME NEW t \in nodes, NEW i \in DOMAIN PartsOf(t), NEW path \in SaysOf(t, i)
                 PROVE  <<path, Given>> \in ReadsOf(roots)
      BY DEF Givens, Meant
    <2>1. PICK first \in Nat : FieldsOf(t, i, first) \subseteq memory.fields
      BY <1>1 DEF Complete, Done
    <2>2. Givens(SaysOf(t, i)) \subseteq Get[SpotOf(t)]
      BY <1>1, <2>1, NodeRead
    <2> QED  BY <1>3, <2>2 DEF Givens
  <1>5. scalars \subseteq memory.said /\ memory.said \subseteq scalars \cup Meant(nodes)
    BY DEF Nodes
  <1> QED  BY <1>2, <1>4, <1>5 DEF Givens

\* The reader starts where the encoder did.
LEMMA DecodedIs ==
    ASSUME Answered, NEW n \in Nat, Started(n, memory.fields)
    PROVE  Decoded(answer.kind) = Givens(Scalars) \cup ReadsOf(Roots(n))
  <1> DEFINE kind == answer.kind
  <1>1. Look(0, 1, Top("kind")) = IF kind \in {"null", "error"} THEN kind ELSE "record"
    BY Finds DEF Answered
  <1>2. kind \in DOMAIN GoRecord \cup {"string", "bool", "expandedParams", "null", "error"}
    BY DEF Answered, KindFits
  <1>3. Givens({}) = {} /\ ReadsOf({}) = {}
    BY DEF Givens, ReadsOf
  <1>4. CASE kind = "null"
    BY <1>1, <1>3, <1>4, GoRecords DEF Decoded, Scalars, Roots
  <1>5. CASE kind \in {"string", "error"}
    <2>1. Look(16, 4, Top("offset")) = Given /\ Look(20, 4, Top("length")) = Given
      BY <1>5, Finds DEF Started
    <2>2. ReadText = Givens({Top("offset"), Top("length")})
      BY <2>1, ValuesAssumption DEF ReadText, Read, Givens
    <2>3. Scalars = {Top("offset"), Top("length")} /\ Roots(n) = {}
      BY <1>5, GoRecords DEF Scalars, Roots
    <2> QED  BY <1>1, <1>3, <1>5, <2>2, <2>3 DEF Decoded
  <1>6. CASE kind = "bool"
    <2>1. Look(16, 1, Top("bool")) = Given
      BY <1>6, Finds DEF Started
    <2>2. Decoded(kind) = Givens({Top("bool")})
      BY <1>1, <1>6, <2>1, ValuesAssumption DEF Decoded, Read, Givens
    <2>3. Scalars = {Top("bool")} /\ Roots(n) = {}
      BY <1>6, GoRecords DEF Scalars, Roots
    <2> QED  BY <1>3, <2>2, <2>3
  <1>7. CASE kind = "expandedParams"
    <2>1. Decoded(kind) = Get[Spot("expandedParams", 16, <<>>)]
      BY <1>1, <1>7 DEF Decoded
    <2>2. Roots(n) = {Task("expandedParams", 16, <<>>, answer.first)} /\ Scalars = {}
      BY <1>7 DEF Roots, Scalars
    <2> QED  BY <1>3, <2>1, <2>2 DEF ReadsOf, SpotOf, Task
  <1>8. CASE kind \in DOMAIN GoRecord
    <2> DEFINE record == GoRecord[kind]
               spot(k) == Spot(record, 20 + GoLayout[record].size * (k - 1), Item(<<>>, k))
               run == Run(record, n, 20, <<>>, answer.first, answer.others)
    <2>1. /\ record \in RecordNames /\ JsReader[kind] = record
          /\ kind \notin {"null", "string", "error", "bool", "expandedParams"}
      BY <1>8, GoRecords
    <2>2. Decoded(kind) = ReadRecords(record)
      BY <1>1, <2>1 DEF Decoded
    <2>3. Look(16, 4, Top("count")) = n
      BY <1>8, Finds DEF Started
    <2>4. JsLayout[record].size = GoLayout[record].size
      BY <2>1, JsOfGo DEF JsMatches
    <2>5. ReadRecords(record) = UNION {Get[spot(k)] : k \in 1..n}
      BY <2>3, <2>4 DEF ReadRecords
    <2>6. Roots(n) = {run[k] : k \in 1..n} /\ Scalars = {}
      BY <1>8, <2>1 DEF Roots, Scalars
    <2>7. \A k \in 1..n : SpotOf(run[k]) = spot(k)
      BY DEF Run, Task, SpotOf
    <2> HIDE DEF spot, run, record
    <2> QED  BY <1>3, <2>2, <2>5, <2>6, <2>7 DEF ReadsOf
  <1> QED  BY <1>2, <1>4, <1>5, <1>6, <1>7, <1>8

\* And the strings are found behind it.
LEMMA ReceiveWhole ==
    ASSUME Answered, Receive
    PROVE  AnswerWhole'
  <1>1. PICK n, nodes : /\ n \in Nat /\ Started(n, memory.fields)
                         /\ Nodes(nodes, Roots(n), Scalars, todo, memory.fields, memory.said)
    BY DEF Answered, Encoded
  <1>2. Decoded(answer.kind) = Givens(memory.said)
    BY <1>1, RootsRead, DecodedIs
  <1>3. NewStrings = Given
    <2>1. PICK p \in Nat : /\ Field(8, 4, Into(Top("newStrings"), "pointer"), p) \in memory.fields
                           /\ Field(p, 4, Top("newStrings"), Given) \in memory.fields
      BY DEF Answered
    <2>2. /\ Look(8, 4, Into(Top("newStrings"), "pointer")) = p
          /\ Look(p, 4, Top("newStrings")) = Given
      BY <2>1, Finds
    <2> QED  BY <2>2 DEF NewStrings
  <1>4. got' = Givens(memory.said) \cup Givens({Top("newStrings")})
    BY <1>2, <1>3, ValuesAssumption DEF Receive, Read, Givens
  <1>5. memory' = memory
    BY DEF Receive
  <1> QED  BY <1>4, <1>5 DEF AnswerWhole, Givens

\* The invariant: the answer is being written, is written, has been read.
Whole ==
    /\ stage \in {"sent", "handled"} => request.method \in Methods
    /\ stage = "encode" => Ready
    /\ stage = "answered" => Answered
    /\ AnswerWhole

LEMMA WholeStays ==
    ASSUME UNCHANGED <<answer, todo, memory>>
    PROVE  (Ready => Ready') /\ (Answered => Answered')
  <1>1. Encoded => Encoded'
    BY NodesNext DEF Encoded, Started
  <1>2. /\ KindFits' <=> KindFits
        /\ AnswerFits' <=> AnswerFits
        /\ Slots' <=> Slots
    BY DEF KindFits, AnswerFits, Slots
  <1>3. \A tasks, fields, end : Room(tasks, fields, end)' <=> Room(tasks, fields, end)
    BY DEF Room, Tasks, Whiches
  <1>4. Ready => Ready'
    BY <1>1, <1>2, <1>3 DEF Ready
  <1>5. Answered => Answered'
    BY <1>1, <1>2 DEF Answered
  <1> QED  BY <1>4, <1>5

\* Whatever a handler returns, of any kind, with any of the optional parts there or not
\* and runs of any length: the read functions of tsgoTransport.ts find exactly what the
\* encoders of arena.go wrote, nothing lost and nothing left from an earlier answer.
THEOREM AnswersWhole == Spec => []AnswerWhole
  <1>1. Init => Whole
    BY DEF Init, RequestInit, Whole, AnswerWhole
  <1>2. Whole /\ [Next]_vars => Whole'
    <2> SUFFICES ASSUME Whole, [Next]_vars
                 PROVE  Whole'
      OBVIOUS
    <2>1. ASSUME NEW method \in Methods, NEW given \in Calls(method), Send(method, given),
                 UNCHANGED answerVars
          PROVE  Whole'
      BY <2>1 DEF Send, Whole, AnswerWhole
    <2>2. ASSUME Dispatch, UNCHANGED answerVars
          PROVE  Whole'
      BY <2>2 DEF Dispatch, Whole, AnswerWhole
    <2>3. ASSUME NEW kind \in {JsResult(request.method), "null", "error"},
                 NEW n \in IF kind \in Runs THEN {0} \cup Lengths ELSE {1},
                 NEW first \in Presents(kind), NEW others \in {{}, first},
                 Respond(kind, n, first, others)
          PROVE  Whole'
      <3>1. stage = "handled" /\ stage' = "encode"
        BY <2>3 DEF Respond, Handled
      <3>2. Answering(kind, n, first, others)
        BY <2>3, <3>1 DEF Answering, Whole
      <3> QED  BY <3>1, <3>2, RespondReady DEF Whole, AnswerWhole
    <2>4. ASSUME Puts
          PROVE  Whole'
      <3>1. stage = "encode"
        BY <2>4 DEF Puts, PutWord, PutFlags, PutArray, PutPointer, PutInline, PutNil, Encoding
      <3>2. Ready
        BY <3>1 DEF Whole
      <3>3. stage' = "encode"
        BY <2>4, <3>1, <3>2, PutsGrow DEF Ready
      <3> QED  BY <2>4, <3>2, <3>3, PutReady DEF Whole, AnswerWhole
    <2>5. CASE Finish
      BY <2>5, FinishAnswered DEF Finish, Whole, AnswerWhole
    <2>6. CASE Receive
      BY <2>6, ReceiveWhole DEF Receive, Whole
    <2>7. CASE Return
      BY <2>7 DEF Return, Whole, AnswerWhole
    <2>8. CASE UNCHANGED vars
      <3>1. UNCHANGED <<answer, todo, memory>> /\ stage' = stage /\ request' = request /\ got' = got
        BY <2>8 DEF vars, answerVars, requestVars
      <3> QED  BY <3>1, WholeStays DEF Whole, AnswerWhole
    <2> QED  BY <2>1, <2>2, <2>3, <2>4, <2>5, <2>6, <2>7, <2>8 DEF Next, Puts
  <1>3. Whole => AnswerWhole
    BY DEF Whole
  <1> QED  BY <1>1, <1>2, <1>3, PTL DEF Spec

=============================================================================
