----------------------------- MODULE MCColumns ------------------------------
(***************************************************************************)
(* Three columns over two namespaces for TLC, while the process goes from  *)
(* an instance without keys in dormant mode to one that migrates to        *)
(* contexts, or back again.                                                *)
(***************************************************************************)
EXTENDS Columns, TLC

CONSTANTS note, noteJson, thing, thingJson, k1, k2, k3, t1, t2, keyless, keyed,
          usersEmail, usersPhone, usersPrefs

MCText == {"", note, noteJson, thingJson}
MCTextShape == [t \in MCText |-> "plain"]
MCTextVersion == [t \in MCText |-> "v1"]
MCDumps == [v \in {thing, note} |-> IF v = thing THEN thingJson ELSE noteJson]

-----------------------------------------------------------------------------
Retired(key) == [v \in {"v1", "v2"} |-> IF v = "v1" THEN key ELSE NoKey]

MCConfig(namespaces, mode, fallback) ==
  [namespaces |-> namespaces, defaultNamespace |-> NoNamespace, mode |-> mode,
   legacy |-> {"iv-ct-tag"}, onUnknownVersion |-> "throw",
   plaintext |-> "passthrough", contextFallback |-> fallback]

MCConfigOf ==
  [i \in {keyless, keyed} |->
     IF i = keyless
     THEN MCConfig([ns \in Namespace |-> [key |-> NoKey, version |-> NoVersion,
                                          retired |-> Retired(NoKey)]], "dormant", FALSE)
     ELSE MCConfig([ns \in Namespace |->
                      IF ns = "PII"
                      THEN [key |-> k2, version |-> "v2", retired |-> Retired(k1)]
                      ELSE [key |-> k3, version |-> NoVersion, retired |-> Retired(NoKey)]],
                   "strict", TRUE)]

-----------------------------------------------------------------------------
Declared(class, provider, ns, context) ==
  [class |-> class, provider |-> provider, namespace |-> ns, context |-> context]

(* The callable is the provider of all columns, or phone names its own.    *)
Types(class, provider) ==
  [c \in Column |->
     CASE c = "email" -> Declared("SealedText", Callable, "PII", usersEmail)
       [] c = "phone" -> Declared(class, provider, "PII", usersPhone)
       [] c = "prefs" -> Declared("SealedJSON", Callable, "TOTP", usersPrefs)]

MCToWrite ==
  [class \in {"SealedText", "SealedJSON"} |->
     IF class = "SealedText" THEN {Plain(note), EmptyStr} ELSE {Plain(note), thing}]

TokenOf(text, version, key) ==
  Wrap(Plain(text), [format |-> "token", version |-> version, key |-> key,
                     aad |-> BuildAad(version, NoContext)])

Stands(value, text) == [value |-> value, text |-> text]

Row(email, phone, prefs) ==
  [c \in Column |-> CASE c = "email" -> email [] c = "phone" -> phone [] c = "prefs" -> prefs]

(* An unbound and a legacy token, with plaintext that is no JSON; or JSON  *)
(* columns that hold the empty text in a token, which is no JSON either    *)
(* and stands for nothing, and a value the driver has parsed.              *)
MCSetups ==
  {[types |-> Types("SealedText", Callable),
    row |-> Row(Stands(TokenOf(note, "v1", k1), Plain(note)),
                Stands(Wrap(Plain(note), LegacyLayer("iv-ct-tag", k1)), Plain(note)),
                Stands(Plain(note), Plain(note)))],
   [types |-> Types("SealedJSON", keyed),
    row |-> Row(Stands(Null, Null), Stands(TokenOf("", "v1", k1), Null),
                Stands(thing, thing))]}

ASSUME ColumnsAgree

ThreadSymmetry == Permutations({t1, t2})
=============================================================================
