----------------------------- MODULE MCAccounts -----------------------------
(***************************************************************************)
(* Accounts for TLC: two columns whose parts, contexts and labels run into *)
(* each other as soon as a separator is missing, and environments with     *)
(* every kind of mistake.                                                  *)
(***************************************************************************)
EXTENDS Accounts

CONSTANTS k1, k2, k3, i1, i2, a1, a2, b1

V1 == <<"v", "1">>
Latest == <<"l">>
V10 == <<"v", "1", "0">>
V11 == <<"v", "1", "1">>
MCBadLabel == {Latest}
MCVersion == {V1, V10, V11}
MCLabels == <<V1, V10, V11>>
MCChar == {"v", "1", "0", "x", "X", " ", "NUL"}
MCLower == [c \in MCChar |-> IF c = "X" THEN "x" ELSE c]
MCColumnOf == [id \in {a1, a2, b1} |-> IF id = b1 THEN "contacts" ELSE "users"]

Email == <<"x">>
Shouted == <<" ", "X">>
Longer == <<"0", "x">>
WithNul == <<"v", "NUL", "x">>
EmptyText == << >>
MCText == {EmptyText, Email, Shouted, Longer, WithNul}
MCAddressOf == [t \in MCText |-> IF t = Shouted THEN Email ELSE t]
MCQueries == {Email, WithNul}
MCTextShape == [t \in MCText |-> "plain"]
MCTextVersion == [t \in MCText |-> V1]

-----------------------------------------------------------------------------
Schema(users, contacts) ==
  [c \in {"users", "contacts"} |-> IF c = "users" THEN users ELSE contacts]

Declared(parts, index, normalize) ==
  [parts |-> parts, index |-> index, normalize |-> normalize]

MCSchemas ==
  {Schema(Declared(<< <<"v">>, <<"0">> >>, <<"v">>, TRUE),
          Declared(<< <<"v", "0">> >>, <<"v", "0">>, TRUE)),
   Schema(Declared(<< <<"0", "x">> >>, << >>, TRUE),
          Declared(<< <<"x">> >>, <<"v">>, FALSE)),
   Schema(Declared(<< << >> >>, <<"v">>, FALSE),
          Declared(<< <<"v">>, <<"NUL">> >>, <<"NUL">>, TRUE))}

MCContext == {<<"v", "NUL", "0">>, <<"v", "0">>, <<"0", "x">>, <<"x">>}

-----------------------------------------------------------------------------
Text64(key) == [form |-> "hex", key |-> key]
Text43(key) == [form |-> "base64", key |-> key]
Garbage == [form |-> "other", key |-> k1]
Spaces == [form |-> "blank", key |-> k1]

Pair(label, text) == [form |-> "pair", label |-> label, text |-> text]
Comma == [form |-> "blank", label |-> V1, text |-> Spaces]
NoColon == [form |-> "malformed", label |-> V1, text |-> Spaces]

NoVariables == [key |-> Unset, version |-> NoVersion, retired |-> << >>]

Env(pii, index) ==
  [of |-> [ns \in {"PII", "TOTP"} |-> IF ns = "PII" THEN pii ELSE NoVariables],
   blindIndexKey |-> index]

PII(key, version, retired) == [key |-> key, version |-> version, retired |-> retired]

MCFirstEnv == Env(PII(Text64(k1), NoVersion, << >>), Text43(i1))

MCCallOptions ==
  [namespaces |-> [ns \in {"PII", "TOTP"} |-> NotConfigured],
   defaultNamespace |-> NoNamespace, mode |-> "strict", legacy |-> {},
   onUnknownVersion |-> "throw", plaintext |-> "passthrough",
   contextFallback |-> FALSE]

OldKey == <<Pair(V1, Text43(k1))>>

MCMistakes ==
  {Env(PII(variables[1], variables[2], variables[3]), Text64(i1)) :
     variables \in {<<Text43(k2), V10, << >>>>, <<Text43(k2), NoVersion, OldKey>>,
                    <<Text43(k2), NoVersion, << >>>>, <<Text43(k2), Latest, OldKey>>,
                    <<Text43(k2), V10, <<NoColon>>>>,
                    <<Text43(k2), V10, <<Pair(Latest, Text43(k1))>>>>,
                    <<Text43(k2), V10, <<Pair(V1, Garbage), Comma, Pair(V1, Text43(k1))>>>>,
                    <<Text43(k2), V10, <<Pair(V1, Text64(k1)), Pair(V1, Text64(k3))>>>>,
                    <<Text43(k2), V10, <<Pair(V1, Text64(k3)), Pair(V1, Text64(k1))>>>>,
                    <<Text43(k2), V10, <<Pair(V1, Garbage)>>>>,
                    <<Garbage, V10, OldKey>>, <<Spaces, V10, OldKey>>,
                    <<Unset, NoVersion, << >>>>}}
  \cup {Env(PII(Text43(k1), NoVersion, << >>), index) :
          index \in {Text43(i2), Spaces, Garbage}}

ASSUME LabelsAreFresh

AccountSymmetry == Permutations({a1, a2})
=============================================================================
