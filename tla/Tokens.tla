------------------------------- MODULE Tokens -------------------------------
(***************************************************************************)
(* The wire format and the keyrings: src/seal.ts, src/legacy.ts and        *)
(* src/keyring.ts.                                                         *)
(*                                                                         *)
(* A string of the program is a user text under zero or more encryption    *)
(* layers, outermost first.  AES-256-GCM is perfect: a layer comes off     *)
(* exactly under the key and the additional authenticated data (AAD) it    *)
(* was put on with, and nobody makes a layer without its key.  Nonces are  *)
(* not represented: two encryptions of one text are one value here.        *)
(*                                                                         *)
(* Users type what they like, so a text may have the shape of a token or   *)
(* of a legacy token without being one: TextShape and TextVersion say      *)
(* which, and such a text authenticates under no key.                      *)
(***************************************************************************)
EXTENDS Integers, Sequences, FiniteSets

CONSTANTS
  Text,           \* user texts
  Empty,          \* the empty text ""
  Key,            \* AES keys, as parseKey returns them
  NoKey,          \* a key slot left out, null or blank
  Version,        \* key version labels, the strings that match /^v\d+$/
  NoVersion,      \* a version slot left out or blank; the version of a legacy token
  DefaultVersion, \* the label "v1"
  Context,        \* encoded contexts, the parts joined with NUL
  NoContext,      \* no context: undefined, "" or []
  TextShape,      \* the structural class of each user text
  TextVersion     \* the label a token-shaped user text starts with

LegacyFormats == {"iv-ct-tag", "v1-iv-tag-ct"}

(* "token" is v<N>:<blob> with at least a nonce and a tag in the blob,     *)
(* "short" is v<N>:<blob> with less than that in it.                       *)
Shapes == {"plain", "token", "short"} \cup LegacyFormats

ASSUME TokensAssumption ==
  /\ Empty \in Text
  /\ NoKey \notin Key
  /\ NoVersion \notin Version
  /\ DefaultVersion \in Version
  /\ NoContext \notin Context
  /\ TextShape \in [Text -> Shapes]
  /\ TextShape[Empty] = "plain"
  /\ TextVersion \in [Text -> Version]

-----------------------------------------------------------------------------
(* Strings.                                                                *)

(* Seeded fault: the context is left out of the AAD.                       *)
BuildAadOfVersionOnly(version, context) ==
  [version |-> version, context |-> NoContext]

(* GCM AAD of a canonical token: the label, and the context when bound.    *)
BuildAad(version, context) == [version |-> version, context |-> context]

(* decryptParts sets no AAD at all.                                        *)
NoAad == BuildAad(NoVersion, NoContext)

Aad == [version : Version \cup {NoVersion}, context : Context \cup {NoContext}]

(* A layer; a canonical token names its version.                           *)
Layer == {layer \in [format : {"token"} \cup LegacyFormats,
                     version : Version \cup {NoVersion},
                     key : Key,
                     aad : Aad] :
            layer.format = "token" => layer.version \in Version}

Str == [text : Text, layers : Seq(Layer)]

Plain(text) == [text |-> text, layers |-> << >>]

EmptyStr == Plain(Empty)

Wrap(s, layer) == [text |-> s.text, layers |-> <<layer>> \o s.layers]

Unwrap(s) == [text |-> s.text, layers |-> Tail(s.layers)]

(* The structural class of a string.  A legacy token over the empty string *)
(* has an empty ciphertext part, which matchLegacy does not accept.        *)
Shape(s) ==
  CASE s.layers = << >> -> TextShape[s.text]
    [] s.layers # << >> /\ Head(s.layers).format = "token" -> "token"
    [] s.layers # << >> /\ Head(s.layers).format # "token" ->
         IF Unwrap(s) = EmptyStr THEN "plain" ELSE Head(s.layers).format

ParseToken(s) == Shape(s) \in {"token", "short"}

LooksSealed(s) == Shape(s) = "token"

MatchLegacy(s, format) == Shape(s) = format

MatchesLegacy(s, formats) == \E format \in formats : MatchLegacy(s, format)

VersionLabel(s) ==
  IF s.layers = << >> THEN TextVersion[s.text] ELSE Head(s.layers).version

(* GCM authentication of the outermost layer.                              *)
Authenticates(s, key, aad) ==
  /\ s.layers # << >>
  /\ Head(s.layers).key = key
  /\ Head(s.layers).aad = aad

-----------------------------------------------------------------------------
(* Keyrings.                                                               *)

(* NoKey stands for a label the map does not have.                         *)
KeysByVersion == [Version -> Key \cup {NoKey}]

NamespaceConfig == [key : Key \cup {NoKey},
                    version : Version \cup {NoVersion},
                    retired : KeysByVersion]

NoRing == [activeVersion |-> NoVersion, keys |-> [v \in Version |-> NoKey]]

Ring == [activeVersion : Version, keys : KeysByVersion]

KeysOf(ring) == {ring.keys[v] : v \in Version} \ {NoKey}

ActiveVersion(nsConfig) ==
  IF nsConfig.version = NoVersion THEN DefaultVersion ELSE nsConfig.version

(* A namespace without an active key is never looked at further: not even  *)
(* a collision of its retired labels is reported.                          *)
AcceptsNamespace(nsConfig) ==
  nsConfig.key # NoKey => nsConfig.retired[ActiveVersion(nsConfig)] = NoKey

(* Seeded fault: retired keys are not put into the ring.                   *)
BuildKeyringWithoutRetired(nsConfig) ==
  IF nsConfig.key = NoKey THEN NoRing
  ELSE [activeVersion |-> ActiveVersion(nsConfig),
        keys |-> [v \in Version |->
                    IF v = ActiveVersion(nsConfig) THEN nsConfig.key ELSE NoKey]]

(* Seeded fault: the active key is not put into the ring.                  *)
BuildKeyringOfRetired(nsConfig) ==
  IF nsConfig.key = NoKey THEN NoRing
  ELSE [activeVersion |-> ActiveVersion(nsConfig), keys |-> nsConfig.retired]

(* The retired keys of a namespace without an active key are dropped.      *)
BuildKeyring(nsConfig) ==
  IF nsConfig.key = NoKey THEN NoRing
  ELSE [activeVersion |-> ActiveVersion(nsConfig),
        keys |-> [nsConfig.retired EXCEPT ![ActiveVersion(nsConfig)] = nsConfig.key]]

-----------------------------------------------------------------------------
(* Results of a call.  status is "ok" or the error; note is the bookkeeping *)
(* the call owes: "unbound" (noteUnboundRead) or "dormant"                  *)
(* (warnDormantOnce).                                                       *)

Outcome(status, value, note) ==
  [status |-> status, value |-> value, note |-> note]

Ok(value) == Outcome("ok", value, "none")

Noted(value, note) == Outcome("ok", value, note)

Err(status) == Outcome(status, EmptyStr, "none")

(* The errors thrown on purpose.  A failed GCM authentication, "AuthFailure", *)
(* is the OpenSSL error and not one of them.                                *)
SealedFieldsErrors ==
  {"InvalidContext", "NoNamespace", "UnknownNamespace", "KeyNotConfigured",
   "UnknownKeyVersion", "TooShort", "TokenShaped", "LegacyUnbound",
   "PlaintextRejected"}

Statuses == {"ok", "AuthFailure"} \cup SealedFieldsErrors

-----------------------------------------------------------------------------
(* Encryption under a ring.                                                *)

TokenLayer(ring, context) ==
  [format |-> "token",
   version |-> ring.activeVersion,
   key |-> ring.keys[ring.activeVersion],
   aad |-> BuildAad(ring.activeVersion, context)]

SealWithKeyring(s, ring, context) == Wrap(s, TokenLayer(ring, context))

(* Seeded fault: a token authenticates whatever context it is bound to.    *)
UnsealIgnoringContext(s, ring, onUnknownVersion, context) ==
  LET key == ring.keys[VersionLabel(s)] IN
  IF key = NoKey THEN Err("UnknownKeyVersion")
  ELSE IF s.layers # << >> /\ Head(s.layers).key = key THEN Ok(Unwrap(s))
  ELSE Err("AuthFailure")

UnsealWithKeyring(s, ring, onUnknownVersion, context) ==
  LET version == VersionLabel(s)
      key == ring.keys[version]
  IN CASE key = NoKey ->
            IF onUnknownVersion = "passthrough" THEN Ok(s) ELSE Err("UnknownKeyVersion")
       [] key # NoKey /\ Shape(s) = "short" -> Err("TooShort")
       [] key # NoKey /\ Shape(s) # "short" ->
            IF Authenticates(s, key, BuildAad(version, context))
            THEN Ok(Unwrap(s)) ELSE Err("AuthFailure")

(* Every enabled format against every key of the ring.  A string has the   *)
(* shape of one format at most, so the order of the formats and of the     *)
(* keys does not show.  Called on strings that match an enabled format.    *)
TryLegacyFormats(s, formats, ring) ==
  IF \E format \in formats, key \in KeysOf(ring) :
       MatchLegacy(s, format) /\ Authenticates(s, key, NoAad)
  THEN Ok(Unwrap(s)) ELSE Err("AuthFailure")

(* What the applications that wrote the legacy formats did.                *)
LegacyLayer(format, key) ==
  [format |-> format, version |-> NoVersion, key |-> key, aad |-> NoAad]
=============================================================================
