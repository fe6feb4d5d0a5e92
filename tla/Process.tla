------------------------------ MODULE Process -------------------------------
(***************************************************************************)
(* One application process with one SealedFields instance and one nullable *)
(* database column.  Every call may name any namespace and any context, so *)
(* a column read under other options than it was sealed with is a token    *)
(* moved to another row, column or namespace.                              *)
(*                                                                         *)
(* Besides the library, the column is written by others: older versions of *)
(* the application, a raw SQL fix, a second service (Foreign).             *)
(***************************************************************************)
EXTENDS SealedFields

CONSTANTS
  Configs,         \* the configurations a constructor is called with
  Options,         \* the options its calls pass
  Foreign,         \* strings that reach the column around this instance
  MaxLayers,       \* bound: layers on the stored string
  MaxUnboundReads  \* bound: unbound reads of the instance

ASSUME ProcessAssumption ==
  /\ \A c \in Configs : c \in Config
  /\ \A o \in Options : o \in SealOptions
  /\ \A s \in Foreign : s \in Str
  /\ MaxLayers \in Nat /\ MaxUnboundReads \in Nat

VARIABLES
  config,    \* the configuration of the instance
  instance,  \* what the instance remembers
  stored,    \* the column
  sealed,    \* history: the library call that wrote the column, if any
  answer,    \* the last read: what was stored, the options, the outcome
  opened     \* history: reads that opened an unbound value for a context

vars == <<config, instance, stored, sealed, answer, opened>>

-----------------------------------------------------------------------------
NoWrite == [by |-> "others", value |-> Null,
            options |-> [namespace |-> NoNamespace, context |-> NoContext]]

NoAnswer == [call |-> "none", input |-> Null,
             options |-> [namespace |-> NoNamespace, context |-> NoContext],
             outcome |-> Ok(Null)]

(* A read that had a context to check, and took off a layer that carries   *)
(* none: what stats().unboundReads is there to count.                      *)
OpensUnbound(input, options, outcome) ==
  /\ outcome.status = "ok"
  /\ options.context # NoContext
  /\ input # Null /\ outcome.value # Null
  /\ input.layers # << >>
  /\ outcome.value = Unwrap(input)
  /\ Head(input.layers).aad.context = NoContext

Init ==
  /\ config \in {c \in Configs : Constructible(c)}
  /\ instance = NewInstance
  /\ stored \in Foreign \cup {Null}
  /\ sealed = NoWrite
  /\ answer = NoAnswer
  /\ opened = 0

(* The application seals a value and stores the result.  A call that       *)
(* throws stores nothing.                                                  *)
Store(call, value, options, outcome) ==
  /\ instance' = Account(instance, ResolveNs(config, options), outcome)
  /\ IF outcome.status = "ok"
     THEN /\ stored' = outcome.value
          /\ sealed' = [by |-> call, value |-> value, options |-> options]
     ELSE UNCHANGED <<stored, sealed>>
  /\ answer' = NoAnswer
  /\ UNCHANGED <<config, opened>>

CallSeal(text, options) ==
  Store("seal", Plain(text), options, Seal(config, Plain(text), options))

CallMaybeSeal(value, options) ==
  Store("maybeSeal", value, options, MaybeSeal(config, value, options))

(* A read-modify-write path that passes the stored string in again.        *)
SealAgain(options) ==
  /\ stored # Null
  /\ Len(stored.layers) < MaxLayers
  /\ Store("seal", stored, options, Seal(config, stored, options))

Answer(call, options, outcome) ==
  /\ instance.unboundReads < MaxUnboundReads
  /\ answer' = [call |-> call, input |-> stored, options |-> options,
                outcome |-> outcome]
  /\ instance' = Account(instance, ResolveNs(config, options), outcome)
  /\ opened' = IF OpensUnbound(stored, options, outcome) THEN opened + 1 ELSE opened
  /\ UNCHANGED <<config, stored, sealed>>

CallUnseal(options) ==
  /\ stored # Null
  /\ Answer("unseal", options, Unseal(config, stored, options))

CallMaybeUnseal(options) ==
  Answer("maybeUnseal", options, MaybeUnseal(config, stored, options))

(* Others write the column.                                                *)
WriteAround(value) ==
  /\ stored' = value
  /\ sealed' = NoWrite
  /\ answer' = NoAnswer
  /\ UNCHANGED <<config, instance, opened>>

Next ==
  \/ \E text \in Text, options \in Options : CallSeal(text, options)
  \/ \E text \in Text, options \in Options : CallMaybeSeal(Plain(text), options)
  \/ \E options \in Options : CallMaybeSeal(Null, options)
  \/ \E options \in Options : SealAgain(options)
  \/ \E options \in Options : CallUnseal(options)
  \/ \E options \in Options : CallMaybeUnseal(options)
  \/ \E value \in Foreign \cup {Null} : WriteAround(value)

Spec == Init /\ [][Next]_vars

-----------------------------------------------------------------------------
(* Every variable has its type, and the options of the instance are values *)
(* the constructor recognises.                                             *)
TypeOK ==
  /\ config \in Configs
  /\ config.mode \in {"strict", "dormant"}
  /\ config.plaintext \in {"passthrough", "reject"}
  /\ config.onUnknownVersion \in {"throw", "passthrough"}
  /\ instance \in InstanceType
  /\ stored \in Str \cup {Null}
  /\ sealed.by \in {"others", "seal", "maybeSeal"}
  /\ sealed.value \in Str \cup {Null} /\ sealed.options \in SealOptions
  /\ answer.input \in Str \cup {Null} /\ answer.options \in SealOptions
  /\ answer.outcome.status \in Statuses
  /\ answer.outcome.value \in Str \cup {Null}
  /\ opened \in Nat

(* What a library call wrote reads back, under the same options, as what   *)
(* was passed in, whatever was called in between; maybeSeal's null reads   *)
(* back as null (seal and unseal, index.ts 215-288 and 308-317).           *)
WhatWasSealedReadsBack ==
  CASE sealed.by = "seal" ->
         LET outcome == Unseal(config, stored, sealed.options) IN
         outcome.status = "ok" /\ outcome.value = sealed.value
    [] sealed.by = "maybeSeal" ->
         LET outcome == MaybeUnseal(config, stored, sealed.options) IN
         /\ outcome.status = "ok"
         /\ outcome.value = IF sealed.value = EmptyStr THEN Null ELSE sealed.value
    [] sealed.by = "others" -> TRUE

(* A layer comes off only for a reader of the namespace whose ring holds   *)
(* its key, and a token bound to a context only for that context: a token  *)
(* copied to another row, column or namespace does not open, fallback or   *)
(* not (index.ts 257-271 and the promise of lines 59-68).                  *)
BoundTokensStayPut ==
  LET input == answer.input  outcome == answer.outcome
      ring == RingOf(config, ResolveNs(config, answer.options))
  IN  (answer.call # "none" /\ outcome.status = "ok" /\ input # Null)
      => \/ outcome.value \in {input, Null}
         \/ /\ outcome.value = Unwrap(input)
            /\ Head(input.layers).key \in KeysOf(ring)
            /\ Head(input.layers).aad.context
                 \in {answer.options.context}
                     \cup (IF config.contextFallback THEN {NoContext} ELSE {})

(* stats().unboundReads is exactly the number of reads that opened an      *)
(* unbound value for a caller who gave a context, canonical or legacy: the *)
(* number an operator waits on before turning contextFallback off          *)
(* (index.ts 269, 280, 291).                                               *)
CountsEveryUnboundRead == instance.unboundReads = opened

(* A column the library left in the clear was announced: the warning names *)
(* its namespace, and no warning is repeated for one (index.ts 199-206,    *)
(* 290-298, CHANGELOG.md 52: "warns once per namespace instead of once per *)
(* instance").  README.md 158 has it otherwise, see below.                 *)
ClearWritesAreAnnounced ==
  /\ (sealed.by # "others" /\ stored # Null /\ stored = sealed.value)
     => \E i \in DOMAIN instance.log :
          instance.log[i] = [about |-> "dormant",
                             namespace |-> ResolveNs(config, sealed.options)]
  /\ \A i, j \in DOMAIN instance.log :
       instance.log[i] = instance.log[j] => i = j

(* In strict mode, onUnknownVersion "throw", a read that succeeds on a     *)
(* token-shaped value, or on an enabled legacy shape under a ring, has     *)
(* decrypted it: ciphertext is never handed on as if it were plaintext     *)
(* (index.ts 236-242).                                                     *)
TokensAreDecrypted ==
  LET input == answer.input
      ring == RingOf(config, ResolveNs(config, answer.options))
  IN  (/\ answer.call # "none"
       /\ answer.outcome.status = "ok" /\ answer.outcome.value # Null
       /\ config.mode = "strict" /\ config.onUnknownVersion = "throw"
       /\ \/ ParseToken(input)
          \/ ring # NoRing /\ MatchesLegacy(input, config.legacy))
      => input.layers # << >> /\ answer.outcome.value = Unwrap(input)

-----------------------------------------------------------------------------
(* What the documentation says and the code does not do.                   *)

(* index.ts 236-242: "Tokens that structurally match the canonical format  *)
(* or an enabled legacy format are decrypted", with no word of the         *)
(* namespace having a key.  In strict mode without a ring a legacy token   *)
(* is returned as if it were plaintext.                                    *)
LegacyTokensAreDecrypted ==
  (/\ answer.call = "unseal" /\ answer.outcome.status = "ok"
   /\ config.mode = "strict" /\ config.onUnknownVersion = "throw"
   /\ ParseToken(answer.input) \/ MatchesLegacy(answer.input, config.legacy))
  => answer.outcome.value # answer.input

(* README.md 132-144: with its decoder enabled, "Reads understand the old  *)
(* tokens."  A legacy token over the empty string has no ciphertext, and   *)
(* matchLegacy takes it for plaintext.                                     *)
EnabledLegacyTokensRead ==
  LET input == answer.input
      ring == RingOf(config, ResolveNs(config, answer.options))
  IN  (/\ answer.call = "unseal"
       /\ OptionsStatus(config, answer.options) = "ok"
       /\ answer.options.context = NoContext
       /\ input.layers # << >>
       /\ Head(input.layers).format \in config.legacy
       /\ Head(input.layers).key \in KeysOf(ring))
      => answer.outcome.status = "ok" /\ answer.outcome.value = Unwrap(input)

(* README.md 146: an audit with isSealed, plus the legacy shapes, finds    *)
(* the plaintext that will not read once a key is on.                      *)
AuditedPlaintextReads ==
  (/\ answer.call = "unseal"
   /\ answer.input.layers = << >>
   /\ ~ LooksSealed(answer.input) /\ ~ MatchesLegacy(answer.input, LegacyFormats)
   /\ OptionsStatus(config, answer.options) = "ok"
   /\ config.plaintext = "passthrough")
  => answer.outcome.status = "ok" /\ answer.outcome.value = answer.input

(* README.md 158 and index.ts 39-41: dormant mode "logs one loud warning   *)
(* per process".  There is one instance here, so its log has at most one;  *)
(* the code warns for every namespace that has no key (index.ts 199-206).  *)
OneDormantWarningPerProcess ==
  \A i, j \in DOMAIN instance.log :
    instance.log[i].about = "dormant" /\ instance.log[j].about = "dormant" => i = j
=============================================================================
