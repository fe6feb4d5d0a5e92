---------------------------- MODULE Environment -----------------------------
(***************************************************************************)
(* How a process gets its instance from environment variables: parseKey    *)
(* and the checks of buildKeyring on text (src/keyring.ts), and            *)
(* sealedFieldsFromEnv (src/index.ts 468-510).                             *)
(***************************************************************************)
EXTENDS SealedFields

CONSTANTS
  BadLabel,  \* labels that do not match /^v\d+$/
  BadKey,    \* parseKey throws
  Unset      \* a variable that is not set

ASSUME EnvironmentAssumption ==
  /\ BadLabel \cap (Version \cup {NoVersion}) = {}
  /\ BadKey \notin Key \cup {NoKey}
  /\ Unset \notin [form : {"hex", "base64", "blank", "other"}, key : Key]

-----------------------------------------------------------------------------
(* A key as text: 64 hex digits, 43 characters of either base64 alphabet   *)
(* with or without its padding, blank, or anything else.  White space      *)
(* around it does not count.                                               *)
KeyText == [form : {"hex", "base64", "blank", "other"}, key : Key]

IsBlank(slot) == slot # Unset => slot.form = "blank"

ParseKey(text) == IF text.form \in {"hex", "base64"} THEN text.key ELSE BadKey

(* SEALED_KEY_<NS>_RETIRED, split at its commas.  A blank entry is passed  *)
(* over; "malformed" has no colon, or nothing on one side of it.           *)
Entry == [form : {"pair", "blank", "malformed"},
          label : Version \cup BadLabel,
          text : KeyText]

(* The variables of a namespace, and the environment of a process.         *)
Variables == [key : KeyText \cup {Unset},
              version : Version \cup BadLabel \cup {NoVersion},
              retired : Seq(Entry)]

Environments == [of : [Namespace -> Variables],
                 blindIndexKey : KeyText \cup {Unset}]

Pairs(retired, label) ==
  {i \in DOMAIN retired : retired[i].form = "pair" /\ retired[i].label = label}

RetiredLabels(retired) ==
  {label \in Version \cup BadLabel : Pairs(retired, label) # {}}

(* Seeded fault: of two entries under one label the first one counts.      *)
FirstRetiredText(retired, label) ==
  retired[CHOOSE i \in Pairs(retired, label) : \A j \in Pairs(retired, label) : i <= j].text

(* The entries go into an object: of two under one label the last counts.  *)
RetiredText(retired, label) ==
  retired[CHOOSE i \in Pairs(retired, label) : \A j \in Pairs(retired, label) : j <= i].text

-----------------------------------------------------------------------------
(* Labels and keys as buildKeyring wants them.  Without an active key it   *)
(* looks at nothing else.                                                  *)
AcceptsText(vars) ==
  ~ IsBlank(vars.key)
  => /\ vars.version \notin BadLabel
     /\ ParseKey(vars.key) # BadKey
     /\ \A label \in RetiredLabels(vars.retired) :
          label \notin BadLabel /\ ParseKey(RetiredText(vars.retired, label)) # BadKey

(* Seeded fault: the version variable is not read.                         *)
NamespaceOfDefaultVersion(vars) ==
  IF IsBlank(vars.key)
  THEN [key |-> NoKey, version |-> NoVersion, retired |-> [label \in Version |-> NoKey]]
  ELSE [key |-> ParseKey(vars.key),
        version |-> NoVersion,
        retired |-> [label \in Version |->
                       IF label \in RetiredLabels(vars.retired)
                       THEN ParseKey(RetiredText(vars.retired, label)) ELSE NoKey]]

NamespaceOf(vars) ==
  IF IsBlank(vars.key)
  THEN [key |-> NoKey, version |-> NoVersion, retired |-> [label \in Version |-> NoKey]]
  ELSE [key |-> ParseKey(vars.key),
        version |-> vars.version,
        retired |-> [label \in Version |->
                       IF label \in RetiredLabels(vars.retired)
                       THEN ParseKey(RetiredText(vars.retired, label)) ELSE NoKey]]

IndexKeyOf(env) ==
  IF IsBlank(env.blindIndexKey) THEN NoKey ELSE ParseKey(env.blindIndexKey)

(* The configuration of the listed namespaces, with the caller's options.  *)
SealedFieldsFromEnv(env, listed, options) ==
  [options EXCEPT !.namespaces =
     [ns \in Namespace |-> IF ns \in listed THEN NamespaceOf(env.of[ns])
                           ELSE NotConfigured]]

(* Seeded fault: nothing checks the text of labels and keys.               *)
StartsUnchecked(env, listed, options) ==
  /\ \A ns \in listed : \A i \in DOMAIN env.of[ns].retired :
       env.of[ns].retired[i].form # "malformed"
  /\ Constructible(SealedFieldsFromEnv(env, listed, options))

(* Neither the parsing of the entries nor the constructor throws.          *)
Starts(env, listed, options) ==
  /\ \A ns \in listed : \A i \in DOMAIN env.of[ns].retired :
       env.of[ns].retired[i].form # "malformed"
  /\ \A ns \in listed : AcceptsText(env.of[ns])
  /\ Constructible(SealedFieldsFromEnv(env, listed, options))
  /\ IndexKeyOf(env) # BadKey
=============================================================================
