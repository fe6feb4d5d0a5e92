---------------------------- MODULE MCDeployment ----------------------------
(***************************************************************************)
(* The migrations of README.md as plans for TLC.                           *)
(***************************************************************************)
EXTENDS Certificates, TLC

CONSTANTS alice, forged, stub, relic, k1, k2, p1, p2, email, bio, usersEmail, usersBio

MCText == {"", alice, forged, stub, relic}
TokenShaped == {"", forged}
ThreeTexts == {"", alice, forged}
MCTextShape ==
  [t \in Text |-> CASE t = forged -> "token" [] t = stub -> "short"
                      [] t = relic -> "iv-ct-tag" [] t \in {"", alice} -> "plain"]
MCTextVersion == [t \in Text |-> "v1"]
MCColumnNs == [c \in {email, bio} |-> "PII"]
MCColumnContext == [c \in {email, bio} |-> IF c = email THEN usersEmail ELSE usersBio]
Symmetry == Permutations({p1, p2})

-----------------------------------------------------------------------------
Keys(v1, v2) == [v \in {"v1", "v2"} |-> IF v = "v1" THEN v1 ELSE v2]

(* A configuration of one namespace: its active key and label, its retired *)
(* keys, and the library's defaults for everything else.                   *)
Configuration(key, version, retired) ==
  [namespaces |-> [ns \in {"PII"} |->
                     [key |-> key, version |-> version, retired |-> retired]],
   defaultNamespace |-> NoNamespace, mode |-> "strict", legacy |-> {},
   onUnknownVersion |-> "throw", plaintext |-> "passthrough",
   contextFallback |-> FALSE]

Unbound(config, gate, rollout) ==
  [config |-> config, readContext |-> FALSE, writeContext |-> FALSE,
   gate |-> gate, rollout |-> rollout]

OldKey == Configuration(k1, "v1", Keys(NoKey, NoKey))
NewKeyRetired == Configuration(k1, "v1", Keys(NoKey, k2))
NewKey == Configuration(k2, "v2", Keys(k1, NoKey))
NewKeyOnly == Configuration(k2, "v2", Keys(NoKey, NoKey))

(* README.md 37-53: the new key becomes active with the old one retired,   *)
(* rows are re-encrypted, the retired key is dropped.                      *)
RotationAsDocumented ==
  <<Unbound(OldKey, "open", "rolling"),
    Unbound(NewKey, "open", "rolling"),
    Unbound(NewKeyOnly, "backfilled", "rolling")>>

(* With one release before it that teaches every process to read the new   *)
(* key while all of them still write the old one.                          *)
RotationInTwoSteps ==
  <<Unbound(OldKey, "open", "rolling"),
    Unbound(NewKeyRetired, "open", "rolling"),
    Unbound(NewKey, "open", "rolling"),
    Unbound(NewKeyOnly, "backfilled", "rolling")>>

(* The same with processes that hand on tokens of a version they lack: had *)
(* one of them such a token in the backfill, it would seal it again.       *)
RotationPassingThrough ==
  [n \in DOMAIN RotationInTwoSteps |->
     [RotationInTwoSteps[n] EXCEPT !.config.onUnknownVersion = "passthrough"]]

-----------------------------------------------------------------------------
(* README.md 89.  First every process learns to read with the context and  *)
(* its fallback, then they start to bind, and the fallback goes when the   *)
(* counters have stayed at zero over a full read cycle.                    *)
Lenient(base) == [base EXCEPT !.contextFallback = TRUE, !.legacy = {"iv-ct-tag"}]
Legacy(base) == [base EXCEPT !.legacy = {"iv-ct-tag"}]

Bound(config, writes, gate) ==
  [config |-> config, readContext |-> TRUE, writeContext |-> writes,
   gate |-> gate, rollout |-> "rolling"]

ContextMigration ==
  <<Unbound(Legacy(OldKey), "open", "rolling"),
    Bound(Lenient(OldKey), FALSE, "open"),
    Bound(Lenient(OldKey), TRUE, "open"),
    Bound(OldKey, TRUE, "readCycle")>>

-----------------------------------------------------------------------------
(* README.md 130-158.  Plaintext while no key is provisioned, then a key,  *)
(* then the door is closed on plaintext.  A legacy decoder is on from the  *)
(* start: what it would take for a token is not stored in the clear.       *)
DormantConfig ==
  [Configuration(NoKey, NoVersion, Keys(NoKey, NoKey)) EXCEPT !.mode = "dormant"]
RejectConfig == [OldKey EXCEPT !.plaintext = "reject"]

DormantToReject ==
  <<Unbound(Legacy(DormantConfig), "open", "flagDay"),
    Unbound(Legacy(OldKey), "open", "flagDay"),
    Unbound(Legacy(RejectConfig), "backfilled", "rolling")>>

-----------------------------------------------------------------------------
TokenRow(text, version, key, context) ==
  [value |-> Wrap(Plain(text), [format |-> "token", version |-> version,
                                key |-> key, aad |-> BuildAad(version, context)]),
   text |-> text]

LegacyRow(text, key) ==
  [value |-> Wrap(Plain(text), LegacyLayer("iv-ct-tag", key)), text |-> text]

OldRows == {TokenRow(forged, "v1", k1, NoContext)}
UnboundRows == {TokenRow(alice, "v1", k1, NoContext), LegacyRow(forged, k1)}
PlainRows == {PlainRow(alice), BlankRow}

=============================================================================
