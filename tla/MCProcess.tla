----------------------------- MODULE MCProcess ------------------------------
(***************************************************************************)
(* Instances of Process for TLC: a namespace PII on its second key and a   *)
(* namespace TOTP that has no key, every combination of the options, and a *)
(* column that starts with what years of other writers left there.         *)
(***************************************************************************)
EXTENDS Process

CONSTANTS note, forged, stub, relic, k1, k2, k9, users, notes

MCText == {"", note, forged, stub, relic}
MCKey == {k1, k2, k9}

MCTextShape ==
  [t \in MCText |-> CASE t = forged -> "token"
                      [] t = stub -> "short"
                      [] t = relic -> "iv-ct-tag"
                      [] t \in {"", note} -> "plain"]

MCTextVersion == [t \in MCText |-> IF t = stub THEN "v2" ELSE "v1"]

(* The retired keys of a namespace: one key under label v1.                *)
RetiredV1(key) == [v \in {"v1", "v2", "v9"} |-> IF v = "v1" THEN key ELSE NoKey]

PIINamespace == [key |-> k2, version |-> "v2", retired |-> RetiredV1(k1)]

(* A blank key drops the namespace's retired keys, collision or not.       *)
BlankNamespace == [key |-> NoKey, version |-> NoVersion, retired |-> RetiredV1(k9)]

CollidingNamespace == [key |-> k1, version |-> NoVersion, retired |-> RetiredV1(k9)]

Namespaces(pii, totp) ==
  [ns \in {"PII", "TOTP", "Typo"} |->
     CASE ns = "PII" -> pii [] ns = "TOTP" -> totp [] ns = "Typo" -> NotConfigured]

(* Every setting of the options over one keyed and one keyless namespace.  *)
TwoNamespaces ==
  [namespaces : {Namespaces(PIINamespace, BlankNamespace)},
   defaultNamespace : {"PII"},
   mode : {"strict", "dormant", "other"},
   legacy : {{}, {"iv-ct-tag"}},
   onUnknownVersion : {"throw", "passthrough"},
   plaintext : {"passthrough", "reject"},
   contextFallback : BOOLEAN]

(* What the constructor has to refuse, or has to choose a default in.      *)
Defaults ==
  [namespaces : {Namespaces(NotConfigured, NotConfigured),
                 Namespaces(NotConfigured, BlankNamespace),
                 Namespaces(CollidingNamespace, NotConfigured),
                 Namespaces(PIINamespace, PIINamespace),
                 Namespaces(BlankNamespace, BlankNamespace)},
   defaultNamespace : {NoNamespace, "TOTP"},
   mode : {"dormant"},
   legacy : {LegacyFormats},
   onUnknownVersion : {"throw"},
   plaintext : {"passthrough", "reject"},
   contextFallback : {TRUE}]

MCConfigs == TwoNamespaces \cup Defaults

(* Named, defaulted and misspelt namespaces; every kind of context.        *)
MCOptions ==
  [namespace : {"PII"}, context : {NoContext, users, notes, InvalidContext}]
  \cup [namespace : {"TOTP", NoNamespace, "Typo"}, context : {NoContext}]

Token(text, version, key, context) ==
  Wrap(Plain(text), [format |-> "token", version |-> version, key |-> key,
                     aad |-> BuildAad(version, context)])

(* Plain text, token-shaped texts, unbound and bound tokens of the retired *)
(* key, one whose prefix was tampered with, one of a key long gone, and    *)
(* legacy tokens, one of them over the empty string.                       *)
MCForeign ==
  {Plain(t) : t \in MCText}
  \cup {Token(note, "v1", k1, c) : c \in {NoContext, users}}
  \cup {Wrap(Plain(note), [format |-> "token", version |-> "v2", key |-> k1,
                           aad |-> BuildAad("v1", NoContext)])}
  \cup {Token(note, "v9", k9, NoContext)}
  \cup {Wrap(Plain(t), LegacyLayer("iv-ct-tag", k)) : t \in {"", note}, k \in {k1}}
  \cup {Wrap(Plain(note), LegacyLayer("iv-ct-tag", k9))}
=============================================================================
