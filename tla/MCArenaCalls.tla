----------------------------- MODULE MCArenaCalls -----------------------------
(* Whole calls for TLC: a request as in ArenaRequests, then its answer.       *)
EXTENDS ArenaRecords

CONSTANTS MaxAway

AllMethods == UNION {JsMethods[shape] : shape \in DOMAIN JsMethods}

\* The records an answer of a kind is built from.
RECURSIVE Inside(_)
Inside(names) ==
    LET more == names \cup UNION {
            {GoLayout[name].parts[i].record :
                i \in {j \in DOMAIN GoLayout[name].parts :
                        GoLayout[name].parts[j].form \in {"array", "pointer", "pointerWhen", "inline"}}}
            : name \in names}
    IN IF more = names THEN names ELSE Inside(more)

OwnFeatures(name) ==
    LET parts == GoLayout[name].parts
    IN UNION {IF parts[i].form = "flags" THEN ToSet(parts[i].bits)
              ELSE {parts[i].when} \ {"always"}
              : i \in DOMAIN parts}

ValueKinds == {<<"type", "string">>, <<"type", "number">>, <<"type", "bool">>}

\* A value is announced with the part that says it is there; an import to add
\* belongs to the data of its entry.
Needs == {
    <<<<"type", "readonlyTrue">>, <<"type", "readonly">>>>,
    <<<<"quickinfo", "canIncreaseTrue">>, <<"quickinfo", "canIncrease">>>>,
    <<<<"reference", "isDefinitionTrue">>, <<"reference", "isDefinition">>>>,
    <<<<"definition", "unverifiedTrue">>, <<"definition", "unverified">>>>,
    <<<<"definition", "isLocalTrue">>, <<"definition", "isLocal">>>>,
    <<<<"definition", "isAmbientTrue">>, <<"definition", "isAmbient">>>>,
    <<<<"definition", "failedAliasResolutionTrue">>, <<"definition", "failedAliasResolution">>>>,
    <<<<"completionEntry", "autoImport">>, <<"completionEntry", "data">>>>}
Legal(features) == \A need \in Needs : need[1] \in features => need[2] \in features

RecordOf(kind) ==
    IF kind = "expandedParams" THEN {"expandedParams"}
    ELSE IF kind \in DOMAIN GoRecord THEN {GoRecord[kind]} ELSE {}

\* Answers with almost nothing that is optional, and with almost all of it.
PresentsOf == [kind \in {JsResult(method) : method \in AllMethods} \cup {"null", "error"} |->
    LET all == UNION {{<<name, f>> : f \in OwnFeatures(name)} : name \in Inside(RecordOf(kind))}
        few == UNION {kSubset(k, all \ ValueKinds) : k \in 0..MaxAway}
        many == {(all \ ValueKinds) \ s : s \in few}
        holes == IF kind = "symbols" THEN {{<<"symbol", "nil">>}}
                 ELSE IF kind \in {"type", "types"}
                 THEN {{<<"type", "labeledElementDeclarations">>, <<"handle", "nil">>}}
                 ELSE {}
    IN {f \cup v : f \in {g \in few \cup many : Legal(g)},
                   v \in {{}} \cup {{k} : k \in ValueKinds \cap all}}
       \cup holes]
MCPresents(kind) == PresentsOf[kind]
===============================================================================
