---------------------------- MODULE Certificates ----------------------------
(***************************************************************************)
(* When is a plan safe?  A certificate says, for every release and cell,   *)
(* which rows that release has to be able to read; whether it is one can   *)
(* be seen from the plan alone, without running the fleet.  The invariant  *)
(* that a certificate yields is inductive (module DeploymentProofs), so a  *)
(* plan with a certificate migrates without downtime.                      *)
(***************************************************************************)
EXTENDS Deployment

(* The rows the writes of release n leave, of the texts it accepts.        *)
WrittenRow(n, c, text) ==
  LET value == WriteOutcome(n, c, Value(text)).value IN
  [value |-> value, text |-> IF value = Null THEN Null ELSE text]

WrittenRows(n, c) ==
  {WrittenRow(n, c, text) :
     text \in {t \in Text \cup {Null} : WriteOutcome(n, c, Value(t)).status = "ok"}}

(* The rows the backfill of release n makes out of a set of rows.          *)
ResealedRow(n, c, row) ==
  [value |-> Resealed(n, c, row.value).value, text |-> row.text]

ResealedRows(n, c, rows) ==
  {ResealedRow(n, c, row) :
     row \in {r \in rows : r.value # Null /\ Resealed(n, c, r.value).status = "ok"}}

(* What release n makes of a cell itself, when it finds rows of Held there. *)
Fresh(Held, n, c) ==
  WrittenRows(n, c) \cup ResealedRows(n, c, Held[n][c]) \cup {NullRow}

ReadsUnbound(n, c, value) == ReadOutcome(n, c, value).note = "unbound"

(* What an open gate lets the next release find.                           *)
Passes(Held, n, c, gate) ==
  CASE gate = "open" -> Held[n][c]
    [] gate = "backfilled" -> Fresh(Held, n, c)
    [] gate = "readCycle" -> {row \in Held[n][c] : ~ ReadsUnbound(n, c, row.value)}

HasNext(n) == n + 1 \in Releases

Certifies(Held) ==
  /\ Held \in [Releases -> [Cell -> SUBSET Row]]
  /\ \A c \in Cell : InitialRows \cup {NullRow} \subseteq Held[1][c]
  /\ \A n \in Releases, c \in Cell :
       /\ Fresh(Held, n, c) \subseteq Held[n][c]
       /\ \A row \in Held[n][c] : ReadsBack(n, c, row.value, row.text)
  /\ \A n \in Releases, c \in Cell :
       HasNext(n) =>
         /\ Passes(Held, n, c, Plan[n + 1].gate) \subseteq Held[n + 1][c]
         /\ Plan[n + 1].rollout = "rolling"
            => /\ Fresh(Held, n, c) \subseteq Held[n + 1][c]
               /\ Fresh(Held, n + 1, c) \subseteq Held[n][c]
         /\ Plan[n + 1].gate = "readCycle"
            => \A row \in Fresh(Held, n, c) : ~ ReadsUnbound(n, c, row.value)

-----------------------------------------------------------------------------
Current(c) == [value |-> cell[c], text |-> written[c]]

(* Old and new release serve side by side only in a rolling upgrade.       *)
PhasesAdjacent ==
  \A p \in Proc :
    \/ phase[p] = target
    \/ phase[p] = target - 1 /\ Plan[target].rollout = "rolling"

(* Every release that is serving, and the one being shipped, can read what *)
(* is there.                                                               *)
RowsHeld(Held) ==
  \A c \in Cell :
    /\ Current(c) \in Held[target][c]
    /\ \A p \in Proc : Current(c) \in Held[phase[p]][c]

(* What the backfill has been over stays fresh.                            *)
SweptFresh(Held) ==
  \A c \in swept : Settled /\ Current(c) \in Fresh(Held, target, c)

(* A row in hand was taken from a settled fleet, and if the cell is not    *)
(* what it was, the settled release has written it.                        *)
JobFresh(Held) ==
  (job # NoJob /\ phase[job.process] = target)
  => /\ Settled
     /\ \/ cell[job.cell] = job.old
        \/ Current(job.cell) \in Fresh(Held, target, job.cell)

(* While the counters are watched, a cell read and still uncounted is bound. *)
CycleBound(Held) ==
  (/\ Settled /\ HasNext(target) /\ Plan[target + 1].gate = "readCycle"
   /\ counted = {})
  => \A c \in cycle : ~ ReadsUnbound(target, c, cell[c])

CertifiedInvariant(Held) ==
  /\ TypeOK
  /\ PhasesAdjacent
  /\ RowsHeld(Held)
  /\ SweptFresh(Held)
  /\ JobFresh(Held)
  /\ CycleBound(Held)

-----------------------------------------------------------------------------
(* Key rotations: plans that only move keys, read off their configurations. *)

CellRing(n, c) == RingOf(Plan[n].config, ColumnNs[c])

(* Release n has a key for a cell.                                         *)
Keyed(n, c) == ColumnNs[c] \in Names(Plan[n].config) /\ CellRing(n, c) # NoRing

(* And it seals the cell under the context it reads it with.               *)
SealsAsItReads(n, c) ==
  Keyed(n, c) /\ Plan[n].readContext = Plan[n].writeContext

Active(n, c) == CellRing(n, c).activeVersion

Readable(n, c) == {v \in Version : CellRing(n, c).keys[v] # NoKey}

(* The rows sealed for a cell under a label that release n can read.       *)
SealedRow(n, c, version, text) ==
  [value |-> Wrap(Plain(text),
                  [format |-> "token", version |-> version,
                   key |-> CellRing(n, c).keys[version],
                   aad |-> BuildAad(version, Options(c, Plan[n].readContext).context)]),
   text |-> text]

SealedRows(n, c, versions) ==
  {SealedRow(n, c, version, text) :
     version \in versions, text \in Text \ {Empty, Null}}

RotationHeld ==
  [n \in Releases |-> [c \in Cell |-> {NullRow} \cup SealedRows(n, c, Readable(n, c))]]

(* A rotation that is safe: a label never changes its key, no release      *)
(* writes under a label that a release it serves next to, or the one after *)
(* it, cannot read, and a label is only dropped after a backfill.          *)
SafeRotation ==
  /\ \A n \in Releases, c \in Cell : SealsAsItReads(n, c)
  /\ \A n \in Releases : HasNext(n) => Plan[n].readContext = Plan[n + 1].readContext
  /\ \A n \in Releases, c \in Cell :
       HasNext(n) =>
         /\ \A v \in Readable(n, c) \cap Readable(n + 1, c) :
              CellRing(n, c).keys[v] = CellRing(n + 1, c).keys[v]
         /\ Active(n, c) \in Readable(n + 1, c)
         /\ Plan[n + 1].rollout = "rolling" => Active(n + 1, c) \in Readable(n, c)
         /\ Plan[n + 1].gate # "backfilled" => Readable(n, c) \subseteq Readable(n + 1, c)
  /\ \A c \in Cell : InitialRows \subseteq {NullRow} \cup SealedRows(1, c, Readable(1, c))

-----------------------------------------------------------------------------
(* Context migrations: plans that only move contexts and legacy decoders.  *)

(* Release n reads tokens that are not bound.                              *)
Tolerates(n) == Plan[n].readContext => Plan[n].config.contextFallback

(* The rows of a cell sealed under a readable label and a context.         *)
TokenRowOf(n, c, version, context, text) ==
  [value |-> Wrap(Plain(text),
                  [format |-> "token", version |-> version,
                   key |-> CellRing(n, c).keys[version],
                   aad |-> BuildAad(version, context)]),
   text |-> text]

TokenRowsOf(n, c, context) ==
  {TokenRowOf(n, c, version, context, text) :
     version \in Readable(n, c), text \in Text \ {Empty, Null}}

(* What release n writes into a cell.                                      *)
WriterRows(n, c) == TokenRowsOf(n, c, Options(c, Plan[n].writeContext).context)

(* The legacy tokens release n decodes.                                    *)
LegacyRowOf(format, key, text) ==
  [value |-> Wrap(Plain(text), LegacyLayer(format, key)), text |-> text]

LegacyRowsOf(n, c) ==
  {LegacyRowOf(format, key, text) :
     format \in Plan[n].config.legacy, key \in KeysOf(CellRing(n, c)),
     text \in Text \ {Empty, Null}}

BindingHeld ==
  [n \in Releases |-> [c \in Cell |->
     {NullRow}
     \cup (IF Tolerates(n) THEN TokenRowsOf(n, c, NoContext) \cup LegacyRowsOf(n, c) ELSE {})
     \cup (IF Plan[n].readContext THEN TokenRowsOf(n, c, ColumnContext[c]) ELSE {})]]

(* Release n + 1 still reads all that is not bound and release n reads.    *)
KeepsUnbound(n) ==
  Tolerates(n) => /\ Tolerates(n + 1)
                  /\ Plan[n].config.legacy \subseteq Plan[n + 1].config.legacy

(* A migration to contexts that is safe: keys stay, no release writes what *)
(* a release it serves next to cannot read, contexts are never unlearnt,   *)
(* and unbound tokens are only given up by releases that bind, behind a    *)
(* backfill or a clean read cycle.                                         *)
SafeBinding ==
  /\ \A n \in Releases, c \in Cell :
       /\ Keyed(n, c)
       /\ HasNext(n) => CellRing(n + 1, c) = CellRing(n, c)
  /\ \A n \in Releases : /\ Plan[n].writeContext => Plan[n].readContext
                         /\ ~ Plan[n].writeContext => Tolerates(n)
  /\ \A n \in Releases :
       HasNext(n) =>
         /\ Plan[n].readContext => Plan[n + 1].readContext
         /\ Plan[n + 1].rollout = "rolling"
            => /\ Plan[n + 1].writeContext => Plan[n].readContext
               /\ ~ Plan[n + 1].writeContext => Tolerates(n)
         /\ ~ KeepsUnbound(n) => Plan[n].writeContext /\ Plan[n + 1].gate # "open"
         /\ Plan[n + 1].gate = "readCycle" => Plan[n].writeContext
  /\ \A c \in Cell : InitialRows \subseteq BindingHeld[1][c]

(* A release that binds reads unbound tokens only until a read cycle.      *)
FallbackEndsWithCycle ==
  \A n \in Releases :
    Plan[n].writeContext /\ Tolerates(n)
    => HasNext(n) /\ Plan[n + 1].gate = "readCycle"

-----------------------------------------------------------------------------
(* Activations: plans that start without keys, in dormant mode, get them,  *)
(* and reject plaintext in the end.                                        *)

(* Release n stores a cell in the clear.                                   *)
StoresClear(n, c) ==
  /\ ColumnNs[c] \in Names(Plan[n].config) /\ CellRing(n, c) = NoRing
  /\ Plan[n].config.mode = "dormant"

(* No release stores a cell in the clear once another has sealed it, or    *)
(* while another does.                                                     *)
SealsForGood ==
  /\ \A c \in Cell :
       StoresClear(1, c) => \A row \in InitialRows : ~ Ciphertext(row.value)
  /\ \A n \in Releases, c \in Cell :
       HasNext(n) =>
         /\ StoresClear(n + 1, c) => StoresClear(n, c)
         /\ StoresClear(n, c) /\ ~ StoresClear(n + 1, c)
            => Plan[n + 1].rollout = "flagDay"

(* The release being shipped and those that serve will not store in the    *)
(* clear what is sealed.                                                   *)
SealedStays ==
  \A c \in Cell :
    Ciphertext(cell[c]) => /\ ~ StoresClear(target, c)
                           /\ \A p \in Proc : ~ StoresClear(phase[p], c)

BlankRow == [value |-> EmptyStr, text |-> Null]

PlainRow(text) == [value |-> Plain(text), text |-> text]

(* The texts release n does not take for tokens.                           *)
PlainRowsOf(n) ==
  {PlainRow(text) : text \in {t \in Text \ {Empty, Null} :
     TextShape[t] \notin {"token", "short"} \cup Plan[n].config.legacy}}

ActivationHeld ==
  [n \in Releases |-> [c \in Cell |->
     {NullRow, BlankRow}
     \cup (IF Plan[n].config.plaintext = "passthrough" THEN PlainRowsOf(n) ELSE {})
     \cup (IF Keyed(n, c) THEN SealedRows(n, c, Readable(n, c)) ELSE {})]]

(* An activation that is safe: a cell gets its key on a flag day and keeps *)
(* it, and plaintext is rejected only behind a backfill of releases that   *)
(* have the key.                                                           *)
SafeActivation ==
  /\ \A n \in Releases, c \in Cell : Keyed(n, c) \/ StoresClear(n, c)
  /\ \A n \in Releases :
       /\ Plan[n].readContext = Plan[n].writeContext
       /\ HasNext(n) => /\ Plan[n].readContext = Plan[n + 1].readContext
                        /\ Plan[n].config.legacy = Plan[n + 1].config.legacy
  /\ \A n \in Releases, c \in Cell :
       HasNext(n) =>
         /\ Keyed(n, c) => CellRing(n + 1, c) = CellRing(n, c) /\ Keyed(n + 1, c)
         /\ StoresClear(n, c) /\ Keyed(n + 1, c) => Plan[n + 1].rollout = "flagDay"
         /\ Plan[n + 1].config.plaintext = "reject"
            => \/ Plan[n].config.plaintext = "reject"
               \/ Keyed(n, c) /\ Plan[n + 1].gate = "backfilled"
  /\ \A c \in Cell : InitialRows \subseteq ActivationHeld[1][c]

-----------------------------------------------------------------------------
(* Certificates of the three kinds of migration.                           *)
RotationCertified == SafeRotation /\ Certifies(RotationHeld)
ContextsCertified == SafeBinding /\ FallbackEndsWithCycle /\ Certifies(BindingHeld)
ActivationCertified == SafeActivation /\ SealsForGood /\ Certifies(ActivationHeld)

(* The plan is a safe rotation and the invariant of its certificate holds: *)
(* every release that serves next to another can read what seal wrote      *)
(* under either key (seal.ts 79-98).                                       *)
CertifiedRotation == RotationCertified /\ CertifiedInvariant(RotationHeld)

(* The plan is a safe context migration and the invariant of its           *)
(* certificate holds: a full read cycle without a count leaves no unbound  *)
(* token that the reader without contextFallback would find (index.ts      *)
(* 257-283, 300-305).                                                      *)
CertifiedContexts == ContextsCertified /\ CertifiedInvariant(BindingHeld)

(* The plan is a safe activation, the invariant of its certificate holds,  *)
(* and no release that serves, or is being shipped, would store in the     *)
(* clear what is sealed already (index.ts 215-235, README.md 130-158).     *)
CertifiedActivation ==
  ActivationCertified /\ CertifiedInvariant(ActivationHeld) /\ SealedStays
=============================================================================
