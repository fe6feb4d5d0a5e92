------------------------------ MODULE MCPages -------------------------------
(***************************************************************************)
(* Tables for TLC with one field sealed as a string and one as JSON.       *)
(***************************************************************************)
EXTENDS Pages

CONSTANTS note, forged, stub, relic, noteJson, stubJson, emptyJson, thingJson,
          quotedJson, thing,
          k1, k2, row1, row2, c1, c2, c3, c4

MCText == {"", note, forged, stub, relic, noteJson, stubJson, emptyJson, thingJson,
           quotedJson}
MCTextShape ==
  [t \in MCText |-> CASE t = forged -> "token" [] t = stub -> "short"
                      [] t = relic -> "iv-ct-tag"
                      [] t \notin {forged, stub, relic} -> "plain"]
MCTextVersion == [t \in MCText |-> "v2"]

MCStringify ==
  [v \in {thing, "", note, stub, thingJson} |->
     CASE v = thing -> thingJson [] v = "" -> emptyJson
       [] v = note -> noteJson [] v = stub -> stubJson
       [] v = thingJson -> quotedJson]

-----------------------------------------------------------------------------
Retired(key) == [v \in {"v1", "v2"} |-> IF v = "v1" THEN key ELSE NoKey]

TableConfigs(key, version, mode, plaintext, fallback) ==
  [namespaces : {[ns \in {"PII"} |-> [key |-> key, version |-> version,
                                      retired |-> Retired(k1)]]},
   defaultNamespace : {NoNamespace}, mode : {mode}, legacy : {{"iv-ct-tag"}},
   onUnknownVersion : {"throw"}, plaintext : plaintext, contextFallback : fallback]

Keyed(plaintext, fallback) == TableConfigs(k2, "v2", "strict", plaintext, fallback)

-----------------------------------------------------------------------------
(* A context of its own for every field of every row; then the same with   *)
(* the JSON field named in both lists, so that it is sealed twice.         *)
PerRow ==
  [fields |-> <<"name">>, jsonFields |-> <<"doc">>,
   context |-> [slot \in Field \X RowId |->
                  CASE slot = <<"name", row1>> -> c1 [] slot = <<"doc", row1>> -> c2
                    [] slot = <<"name", row2>> -> c3 [] slot = <<"doc", row2>> -> c4]]

ListedTwice == [PerRow EXCEPT !.fields = <<"name", "doc">>]

Setup(configs, fieldSpec) == {[config |-> c, spec |-> fieldSpec] : c \in configs}

Unkeyed(mode) == TableConfigs(NoKey, NoVersion, mode, {"passthrough"}, {FALSE})

MCSetups ==
  Setup(Keyed({"passthrough"}, BOOLEAN) \cup Keyed({"reject"}, {FALSE}), PerRow)
  \cup Setup(Unkeyed("dormant") \cup Unkeyed("other"), PerRow)
  \cup Setup(Keyed({"passthrough"}, {FALSE}), ListedTwice)

-----------------------------------------------------------------------------
MakeRow(name, doc) == [f \in Field |-> IF f = "name" THEN name ELSE doc]

MCRows ==
  {MakeRow(Plain(note), thing), MakeRow(Plain(forged), Plain(thingJson)),
   MakeRow(Plain(relic), EmptyStr)}

MCEdits == {<<"name", EmptyStr>>, <<"name", thing>>}

MCQueries == {<<row1, row1, row2>>}

TokenOf(text, version, key, context) ==
  Wrap(Plain(text), [format |-> "token", version |-> version, key |-> key,
                     aad |-> BuildAad(version, context)])

(* A token that is not bound and a legacy one, a token of another key, and *)
(* plaintext that only unseal takes for a token.                           *)
MCForeign ==
  {TokenOf(note, "v1", k1, NoContext), Wrap(Plain(note), LegacyLayer("iv-ct-tag", k1)),
   TokenOf(note, "v2", k1, c1), Plain(stub)}

ASSUME BoundApart /\ TellsCiphertext
=============================================================================
