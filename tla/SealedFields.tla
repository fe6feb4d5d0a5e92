---------------------------- MODULE SealedFields ----------------------------
(***************************************************************************)
(* One instance of the class SealedFields (src/index.ts): its validated    *)
(* configuration, what seal, unseal and their nullable variants compute,   *)
(* and the bookkeeping an instance keeps between calls.                    *)
(*                                                                         *)
(* The configuration never changes after construction, so the calls are    *)
(* functions of it; what they leave behind in the instance is applied by   *)
(* Account from the note of their outcome.                                 *)
(***************************************************************************)
EXTENDS Tokens

CONSTANTS
  Namespace,       \* key namespaces callers may name
  NotConfigured,   \* a namespace the configuration does not list
  NoNamespace,     \* the namespace argument or defaultNamespace left out
  InvalidContext,  \* a context argument with an empty part or a NUL in a part
  Null             \* null, of a nullable column

ASSUME SealedFieldsAssumption ==
  /\ NoNamespace \notin Namespace
  /\ NotConfigured \notin NamespaceConfig
  /\ InvalidContext \notin Context \cup {NoContext}
  /\ Null \notin Str

-----------------------------------------------------------------------------
(* Configuration.                                                          *)

(* The types allow no more than the listed values, JavaScript callers do:  *)
(* "other" stands for an unrecognised string such as "STRICT".             *)
Config ==
  [namespaces : [Namespace -> NamespaceConfig \cup {NotConfigured}],
   defaultNamespace : Namespace \cup {NoNamespace},
   mode : {"strict", "dormant", "other"},
   legacy : SUBSET LegacyFormats,
   onUnknownVersion : {"throw", "passthrough", "other"},
   plaintext : {"passthrough", "reject", "other"},
   contextFallback : BOOLEAN]

Names(c) == {ns \in Namespace : c.namespaces[ns] # NotConfigured}

(* Seeded fault: an unrecognised mode is let through.                      *)
ConstructibleInAnyMode(c) ==
  /\ Names(c) # {}
  /\ \A ns \in Names(c) : AcceptsNamespace(c.namespaces[ns])
  /\ c.defaultNamespace \in Names(c) \cup {NoNamespace}
  /\ ~ (c.plaintext = "reject" /\ c.mode = "dormant")

(* Seeded fault: plaintext may be written and rejected by one instance.    *)
ConstructibleWithConflict(c) ==
  /\ Names(c) # {}
  /\ \A ns \in Names(c) : AcceptsNamespace(c.namespaces[ns])
  /\ c.defaultNamespace \in Names(c) \cup {NoNamespace}
  /\ c.mode \in {"strict", "dormant"}

(* The constructor returns rather than throws.                             *)
Constructible(c) ==
  /\ Names(c) # {}
  /\ \A ns \in Names(c) : AcceptsNamespace(c.namespaces[ns])
  /\ c.defaultNamespace \in Names(c) \cup {NoNamespace}
  /\ c.mode \in {"strict", "dormant"}
  /\ c.onUnknownVersion \in {"throw", "passthrough"}
  /\ c.plaintext \in {"passthrough", "reject"}
  /\ ~ (c.plaintext = "reject" /\ c.mode = "dormant")

RingOf(c, ns) == BuildKeyring(c.namespaces[ns])

(* The configured default, or the sole namespace.                          *)
DefaultNs(c) ==
  CASE c.defaultNamespace # NoNamespace -> c.defaultNamespace
    [] c.defaultNamespace = NoNamespace ->
         IF \E ns \in Namespace : Names(c) = {ns}
         THEN CHOOSE ns \in Namespace : Names(c) = {ns}
         ELSE NoNamespace

(* The second argument of a call.                                          *)
SealOptions == [namespace : Namespace \cup {NoNamespace},
                context : Context \cup {NoContext, InvalidContext}]

ResolveNs(c, options) ==
  IF options.namespace = NoNamespace THEN DefaultNs(c) ELSE options.namespace

(* What splitOptions and then resolveNs throw, "ok" when neither does.     *)
OptionsStatus(c, options) ==
  CASE options.context = InvalidContext -> "InvalidContext"
    [] options.context # InvalidContext /\ ResolveNs(c, options) = NoNamespace ->
         "NoNamespace"
    [] options.context # InvalidContext /\ ResolveNs(c, options) # NoNamespace ->
         IF ResolveNs(c, options) \in Names(c) THEN "ok" ELSE "UnknownNamespace"

-----------------------------------------------------------------------------
(* seal and unseal.                                                        *)

(* Seeded fault: token-shaped values are stored in the clear (before 0.6.1). *)
SealDormantUnchecked(c, s) ==
  IF c.mode = "strict" THEN Err("KeyNotConfigured") ELSE Noted(s, "dormant")

(* A namespace without a key: refuse, or store in the clear and warn.      *)
SealDormant(c, s) ==
  CASE c.mode = "strict" -> Err("KeyNotConfigured")
    [] c.mode # "strict" /\ (ParseToken(s) \/ MatchesLegacy(s, c.legacy)) ->
         Err("TokenShaped")
    [] c.mode # "strict" /\ ~ (ParseToken(s) \/ MatchesLegacy(s, c.legacy)) ->
         Noted(s, "dormant")

(* Seeded fault: a value that looks like a token is taken for sealed       *)
(* already (sealRow before 0.4.0).                                         *)
SealSkippingTokens(c, s, options) ==
  IF OptionsStatus(c, options) # "ok" THEN Err(OptionsStatus(c, options))
  ELSE LET ring == RingOf(c, ResolveNs(c, options)) IN
       IF ring = NoRing THEN SealDormant(c, s)
       ELSE IF ParseToken(s) THEN Ok(s)
       ELSE Ok(SealWithKeyring(s, ring, options.context))

Seal(c, s, options) ==
  IF OptionsStatus(c, options) # "ok" THEN Err(OptionsStatus(c, options))
  ELSE LET ring == RingOf(c, ResolveNs(c, options)) IN
       IF ring = NoRing THEN SealDormant(c, s)
       ELSE Ok(SealWithKeyring(s, ring, options.context))

(* Seeded fault: the fallback is not tried.                                *)
UnsealTokenWithoutFallback(c, s, ring, context) ==
  UnsealWithKeyring(s, ring, c.onUnknownVersion, context)

(* A canonical token.  Only a failed authentication is retried without the *)
(* context, and when the retry fails too the first error is thrown.        *)
UnsealToken(c, s, ring, context) ==
  LET bound == UnsealWithKeyring(s, ring, c.onUnknownVersion, context)
      unbound == UnsealWithKeyring(s, ring, c.onUnknownVersion, NoContext)
  IN IF /\ bound.status = "AuthFailure"
        /\ context # NoContext
        /\ c.contextFallback
        /\ unbound.status = "ok"
     THEN Noted(unbound.value, "unbound")
     ELSE bound

(* Seeded fault: strict mode hands the token back as well.                 *)
UnsealTokenFailOpen(c, s) == Noted(s, "dormant")

UnsealTokenWithoutRing(c, s) ==
  IF c.mode = "strict" THEN Err("KeyNotConfigured") ELSE Noted(s, "dormant")

(* Seeded fault: a legacy read under a context is not counted.             *)
UnsealLegacyUncounted(c, s, ring, context) ==
  IF context # NoContext /\ ~ c.contextFallback THEN Err("LegacyUnbound")
  ELSE TryLegacyFormats(s, c.legacy, ring)

UnsealLegacy(c, s, ring, context) ==
  LET legacy == TryLegacyFormats(s, c.legacy, ring) IN
  CASE context # NoContext /\ ~ c.contextFallback -> Err("LegacyUnbound")
    [] context # NoContext /\ c.contextFallback ->
         IF legacy.status = "ok" THEN Noted(legacy.value, "unbound") ELSE legacy
    [] context = NoContext -> legacy

UnsealPlaintext(c, s) ==
  IF c.plaintext = "reject" THEN Err("PlaintextRejected") ELSE Ok(s)

(* Legacy formats are looked at only when the namespace has a ring.        *)
Unseal(c, s, options) ==
  IF OptionsStatus(c, options) # "ok" THEN Err(OptionsStatus(c, options))
  ELSE LET ring == RingOf(c, ResolveNs(c, options)) IN
       IF ParseToken(s)
       THEN IF ring = NoRing THEN UnsealTokenWithoutRing(c, s)
            ELSE UnsealToken(c, s, ring, options.context)
       ELSE IF ring # NoRing /\ MatchesLegacy(s, c.legacy)
            THEN UnsealLegacy(c, s, ring, options.context)
            ELSE UnsealPlaintext(c, s)

MaybeSeal(c, value, options) ==
  IF value \in {Null, EmptyStr} THEN Ok(Null) ELSE Seal(c, value, options)

MaybeUnseal(c, value, options) ==
  IF value \in {Null, EmptyStr} THEN Ok(Null) ELSE Unseal(c, value, options)

-----------------------------------------------------------------------------
(* What an instance remembers, and the warnings its logger has received.   *)

Warning == [about : {"dormant", "unbound"}, namespace : Namespace]

InstanceType ==
  [unboundReads : Nat,
   warnedFallback : SUBSET Namespace,
   warnedDormant : SUBSET Namespace,
   log : Seq(Warning)]

NewInstance == [unboundReads |-> 0,
                warnedFallback |-> {},
                warnedDormant |-> {},
                log |-> << >>]

NoteUnboundRead(instance, ns) ==
  [instance EXCEPT
     !.unboundReads = @ + 1,
     !.warnedFallback = @ \cup {ns},
     !.log = IF ns \in instance.warnedFallback THEN @
             ELSE Append(@, [about |-> "unbound", namespace |-> ns])]

(* Seeded fault: one warning per instance, not per namespace (before 0.5.0). *)
WarnDormantOncePerInstance(instance, ns) ==
  [instance EXCEPT
     !.warnedDormant = @ \cup {ns},
     !.log = IF instance.warnedDormant # {} THEN @
             ELSE Append(@, [about |-> "dormant", namespace |-> ns])]

WarnDormantOnce(instance, ns) ==
  [instance EXCEPT
     !.warnedDormant = @ \cup {ns},
     !.log = IF ns \in instance.warnedDormant THEN @
             ELSE Append(@, [about |-> "dormant", namespace |-> ns])]

Account(instance, ns, outcome) ==
  CASE outcome.note = "unbound" -> NoteUnboundRead(instance, ns)
    [] outcome.note = "dormant" -> WarnDormantOnce(instance, ns)
    [] outcome.note = "none" -> instance
=============================================================================
