-------------------------- MODULE MigrationProofs ---------------------------
(***************************************************************************)
(* Plans that move keys or contexts.  A safe rotation has no downtime: the *)
(* rows of RotationHeld are a certificate of every plan that satisfies     *)
(* SafeRotation, however long, whatever the keys, labels, contexts, texts, *)
(* processes and cells.  So has a safe activation, with ActivationHeld,    *)
(* and ciphertext stays ciphertext.  So has a migration to contexts, with  *)
(* BindingHeld, and a read cycle without a count is conclusive in it.      *)
(***************************************************************************)
EXTENDS DeploymentProofs

-----------------------------------------------------------------------------
(* Rotations.                                                              *)

(* A cell whose namespace has a key in release n: the options of its calls *)
(* are accepted and lead to its ring.                                      *)
LEMMA KeyedRelease ==
  ASSUME NEW n \in Releases, NEW c \in Cell, NEW bind \in BOOLEAN,
         Keyed(n, c)
  PROVE  LET ring == CellRing(n, c)
             options == Options(c, bind)
         IN /\ ring \in Ring
            /\ ring.keys[ring.activeVersion] \in Key
            /\ options \in SealOptions
            /\ options.context \in Context \cup {NoContext}
            /\ OptionsStatus(Plan[n].config, options) = "ok"
            /\ RingOf(Plan[n].config, ResolveNs(Plan[n].config, options)) = ring
<1> DEFINE config == Plan[n].config
           options == Options(c, bind)
<1>1. ColumnNs[c] \in Namespace /\ ColumnContext[c] \in Context
  BY DeploymentAssumption
<1>0. ColumnNs[c] \in Names(config) /\ CellRing(n, c) # NoRing
  BY DEF Keyed
<1>2. options.context \in Context \cup {NoContext} /\ options.namespace = ColumnNs[c]
  BY <1>1 DEF Options
<1>3. options \in SealOptions
  BY <1>1, <1>2 DEF Options, SealOptions
<1>4. options.context # InvalidContext
  BY <1>2, SealedFieldsAssumption
<1>5. ResolveNs(config, options) = ColumnNs[c]
  BY <1>1, <1>2, SealedFieldsAssumption DEF ResolveNs
<1>6. ColumnNs[c] # NoNamespace
  BY <1>1, SealedFieldsAssumption
<1>7. OptionsStatus(config, options) = "ok"
  BY <1>0, <1>4, <1>5, <1>6 DEF OptionsStatus
<1>8. config.namespaces[ColumnNs[c]] \in NamespaceConfig
  BY <1>3, <1>5, <1>7, PlanType, OptionsType
<1>9. CellRing(n, c) \in Ring /\ CellRing(n, c).keys[CellRing(n, c).activeVersion] \in Key
  BY <1>0, <1>8, RingType DEF CellRing, RingOf
<1> QED
  BY <1>2, <1>3, <1>5, <1>7, <1>9 DEF CellRing

(* The same of a release that seals a cell as it reads it.                 *)
LEMMA SealingRelease ==
  ASSUME NEW n \in Releases, NEW c \in Cell, SealsAsItReads(n, c)
  PROVE  LET ring == CellRing(n, c)
             options == Options(c, Plan[n].readContext)
         IN /\ ring \in Ring /\ ring # NoRing
            /\ ring.keys[ring.activeVersion] \in Key
            /\ Options(c, Plan[n].writeContext) = options
            /\ options \in SealOptions
            /\ options.context \in Context \cup {NoContext}
            /\ OptionsStatus(Plan[n].config, options) = "ok"
            /\ RingOf(Plan[n].config, ResolveNs(Plan[n].config, options)) = ring
<1>1. /\ Keyed(n, c) /\ CellRing(n, c) # NoRing
      /\ Plan[n].readContext = Plan[n].writeContext
  BY DEF SealsAsItReads, Keyed
<1>2. Plan[n].readContext \in BOOLEAN
  BY PlanType
<1> QED
  BY <1>1, <1>2, KeyedRelease

(* The active label is one the release can read.                           *)
LEMMA ActiveReadable ==
  ASSUME NEW n \in Releases, NEW c \in Cell, SealsAsItReads(n, c)
  PROVE  Active(n, c) \in Readable(n, c)
<1>1. CellRing(n, c) \in Ring /\ CellRing(n, c).keys[CellRing(n, c).activeVersion] \in Key
  BY SealingRelease
<1> QED
  BY <1>1, TokensAssumption DEF Active, Readable, Ring

(* A text and the string it is, told apart from "" and null.               *)
LEMMA PlainType ==
  ASSUME NEW text \in Text \ {Empty, Null}
  PROVE  Plain(text) \in Str /\ Plain(text) \notin {Null, EmptyStr}
<1>1. Plain(text) \in Str
  BY DEF Plain, Str
<1>2. Plain(text).text = text /\ EmptyStr.text = Empty
  BY DEF Plain, EmptyStr
<1> QED
  BY <1>1, <1>2, SealedFieldsAssumption

(* A layer that was put on comes off and leaves what was there.            *)
LEMMA WrapUnwrap ==
  ASSUME NEW text \in Text, NEW layer
  PROVE  /\ Wrap(Plain(text), layer).layers # << >>
         /\ Head(Wrap(Plain(text), layer).layers) = layer
         /\ Unwrap(Wrap(Plain(text), layer)) = Plain(text)
<1>1. Wrap(Plain(text), layer).layers = <<layer>>
  BY DEF Wrap, Plain
<1>2. Head(<<layer>>) = layer /\ Tail(<<layer>>) = << >> /\ <<layer>> # << >>
  OBVIOUS
<1> QED
  BY <1>1, <1>2 DEF Unwrap, Wrap, Plain

(* A row sealed under a readable label is a row, and reads back.           *)
LEMMA SealedRowReads ==
  ASSUME NEW n \in Releases, NEW c \in Cell, SealsAsItReads(n, c),
         NEW version \in Readable(n, c), NEW text \in Text \ {Empty, Null}
  PROVE  LET row == SealedRow(n, c, version, text) IN
         /\ row \in Row
         /\ row.value # Null
         /\ row.text = text
         /\ ReadOutcome(n, c, row.value) = Ok(Plain(text))
<1> DEFINE config == Plan[n].config
           options == Options(c, Plan[n].readContext)
           ring == CellRing(n, c)
           layer == [format |-> "token", version |-> version,
                     key |-> ring.keys[version],
                     aad |-> BuildAad(version, options.context)]
           value == Wrap(Plain(text), layer)
<1>1. SealedRow(n, c, version, text) = [value |-> value, text |-> text]
  BY DEF SealedRow
<1>2. /\ ring \in Ring /\ ring # NoRing
      /\ options.context \in Context \cup {NoContext}
      /\ OptionsStatus(config, options) = "ok"
      /\ RingOf(config, ResolveNs(config, options)) = ring
  BY SealingRelease
<1>3. version \in Version /\ ring.keys[version] \in Key /\ ring.keys[version] # NoKey
  BY <1>2 DEF Readable, Ring, KeysByVersion
<1>4. layer \in Layer
  BY <1>2, <1>3 DEF Layer, BuildAad, Aad
<1>5. value \in Str /\ Plain(text) \in Str
  BY <1>4, PlainType, WrapType
<1>6. value.layers # << >> /\ Head(value.layers) = layer /\ Unwrap(value) = Plain(text)
  BY WrapUnwrap
<1>7. value \notin {Null, EmptyStr}
  BY <1>5, <1>6, SealedFieldsAssumption DEF EmptyStr, Plain
<1>8. Shape(value) = "token"
  BY <1>6 DEF Shape
<1>9. VersionLabel(value) = version
  BY <1>6 DEF VersionLabel
<1>10. Authenticates(value, ring.keys[version], BuildAad(version, options.context))
  BY <1>6 DEF Authenticates
<1>11. UnsealWithKeyring(value, ring, config.onUnknownVersion, options.context)
         = Ok(Plain(text))
  BY <1>3, <1>6, <1>8, <1>9, <1>10 DEF UnsealWithKeyring
<1>12. UnsealToken(config, value, ring, options.context) = Ok(Plain(text))
  BY <1>11 DEF UnsealToken, Ok, Outcome
<1>13. Unseal(config, value, options) = Ok(Plain(text))
  BY <1>2, <1>8, <1>12 DEF Unseal, ParseToken
<1>14. ReadOutcome(n, c, value) = Ok(Plain(text))
  BY <1>7, <1>13 DEF ReadOutcome, MaybeUnseal
<1> QED
  BY <1>1, <1>5, <1>7, <1>14 DEF Row

(* A release writes a text as a row sealed under its active label.         *)
LEMMA WritesSealedRow ==
  ASSUME NEW n \in Releases, NEW c \in Cell, SealsAsItReads(n, c),
         NEW text \in Text \ {Empty, Null}
  PROVE  WriteOutcome(n, c, Plain(text))
           = Ok(SealedRow(n, c, Active(n, c), text).value)
<1> DEFINE config == Plan[n].config
           options == Options(c, Plan[n].readContext)
           ring == CellRing(n, c)
<1>1. /\ ring # NoRing
      /\ Options(c, Plan[n].writeContext) = options
      /\ OptionsStatus(config, options) = "ok"
      /\ RingOf(config, ResolveNs(config, options)) = ring
  BY SealingRelease
<1>2. Seal(config, Plain(text), options)
        = Ok(SealWithKeyring(Plain(text), ring, options.context))
  BY <1>1 DEF Seal
<1>3. SealWithKeyring(Plain(text), ring, options.context)
        = SealedRow(n, c, Active(n, c), text).value
  BY DEF SealWithKeyring, TokenLayer, SealedRow, Active
<1>4. WriteOutcome(n, c, Plain(text)) = Seal(config, Plain(text), options)
  BY <1>1, PlainType DEF WriteOutcome, MaybeSeal
<1> QED
  BY <1>2, <1>3, <1>4

(* Null and the empty text are written as null.                            *)
LEMMA WriteNothing ==
  ASSUME NEW n, NEW c
  PROVE  WriteOutcome(n, c, Null) = Ok(Null) /\ WriteOutcome(n, c, EmptyStr) = Ok(Null)
  BY DEF WriteOutcome, MaybeSeal

(* The row a text is written as.                                           *)
LEMMA SealedRowParts ==
  ASSUME NEW n \in Releases, NEW c \in Cell, SealsAsItReads(n, c),
         NEW text \in Text \ {Empty, Null}
  PROVE  LET row == SealedRow(n, c, Active(n, c), text) IN
         /\ row = [value |-> row.value, text |-> text]
         /\ row.value # Null
         /\ row \in SealedRows(n, c, {Active(n, c)})
<1>1. Active(n, c) \in Readable(n, c)
  BY ActiveReadable
<1>2. SealedRow(n, c, Active(n, c), text) \in SealedRows(n, c, {Active(n, c)})
  BY DEF SealedRows
<1> QED
  BY <1>1, <1>2, SealedRowReads DEF SealedRow

(* A release that seals leaves null or a row under its active label.       *)
LEMMA WritesSealed ==
  ASSUME NEW n \in Releases, NEW c \in Cell, SealsAsItReads(n, c),
         NEW text \in Text \cup {Null}
  PROVE  WrittenRow(n, c, text) \in {NullRow} \cup SealedRows(n, c, {Active(n, c)})
<1>1. CASE text \in {Empty, Null}
  <2>1. Value(text) \in {EmptyStr, Null}
    BY <1>1 DEF Value, EmptyStr
  <2>2. WriteOutcome(n, c, Value(text)).value = Null
    BY <2>1, WriteNothing DEF Ok, Outcome
  <2> QED
    BY <2>2 DEF WrittenRow, NullRow
<1>2. CASE text \notin {Empty, Null}
  <2> DEFINE row == SealedRow(n, c, Active(n, c), text)
  <2>1. row = [value |-> row.value, text |-> text] /\ row.value # Null
        /\ row \in SealedRows(n, c, {Active(n, c)})
    BY <1>2, SealedRowParts
  <2>2. Value(text) = Plain(text)
    BY <1>2 DEF Value
  <2> HIDE DEF row
  <2>3. WriteOutcome(n, c, Value(text)).value = row.value
    BY <1>2, <2>2, WritesSealedRow DEF Ok, Outcome, row
  <2>4. WrittenRow(n, c, text) = row
    BY <1>2, <2>1, <2>3 DEF WrittenRow
  <2> QED
    BY <2>1, <2>4
<1> QED
  BY <1>1, <1>2

(* Of a row it reads, the backfill makes one under the active label.       *)
LEMMA ResealsSealed ==
  ASSUME NEW n \in Releases, NEW c \in Cell, SealsAsItReads(n, c),
         NEW row, row.text \in Text \ {Empty, Null},
         ReadOutcome(n, c, row.value) = Ok(Plain(row.text))
  PROVE  ResealedRow(n, c, row) \in SealedRows(n, c, {Active(n, c)})
<1> DEFINE sealed == SealedRow(n, c, Active(n, c), row.text)
<1>1. sealed = [value |-> sealed.value, text |-> row.text]
      /\ sealed \in SealedRows(n, c, {Active(n, c)})
  BY SealedRowParts
<1>2. WriteOutcome(n, c, Plain(row.text)) = Ok(sealed.value)
  BY WritesSealedRow
<1> HIDE DEF sealed
<1>3. Resealed(n, c, row.value).value = sealed.value
  BY <1>2 DEF Resealed, Ok, Outcome
<1> QED
  BY <1>1, <1>3 DEF ResealedRow

(* Whatever a release makes of a cell is null or sealed under its active   *)
(* label.                                                                  *)
LEMMA FreshSealed ==
  ASSUME SafeRotation, NEW n \in Releases, NEW c \in Cell
  PROVE  Fresh(RotationHeld, n, c) \subseteq {NullRow} \cup SealedRows(n, c, {Active(n, c)})
<1>1. SealsAsItReads(n, c)
  BY DEF SafeRotation
<1>2. ASSUME NEW row \in RotationHeld[n][c], row.value # Null
      PROVE  ResealedRow(n, c, row) \in SealedRows(n, c, {Active(n, c)})
  <2>1. row \in SealedRows(n, c, Readable(n, c))
    BY <1>2 DEF RotationHeld, NullRow
  <2>2. PICK version \in Readable(n, c), text \in Text \ {Empty, Null} :
          row = SealedRow(n, c, version, text)
    BY <2>1 DEF SealedRows
  <2>3. ReadOutcome(n, c, row.value) = Ok(Plain(text)) /\ row.text = text
    BY <1>1, <2>2, SealedRowReads
  <2> QED
    BY <1>1, <2>3, ResealsSealed
<1> QED
  BY <1>1, <1>2, WritesSealed DEF Fresh, WrittenRows, ResealedRows

(* Rows sealed under labels both releases read are the same rows to both.  *)
LEMMA SealedAcross ==
  ASSUME SafeRotation, NEW n \in Releases, NEW c \in Cell, HasNext(n), NEW versions,
         versions \subseteq Readable(n, c), versions \subseteq Readable(n + 1, c)
  PROVE  SealedRows(n, c, versions) = SealedRows(n + 1, c, versions)
<1>1. Plan[n].readContext = Plan[n + 1].readContext
  BY DEF SafeRotation
<1>2. \A v \in versions : CellRing(n, c).keys[v] = CellRing(n + 1, c).keys[v]
  BY DEF SafeRotation
<1>3. \A v \in versions, text \in Text \ {Empty, Null} :
        SealedRow(n, c, v, text) = SealedRow(n + 1, c, v, text)
  BY <1>1, <1>2 DEF SealedRow
<1> QED
  BY <1>3 DEF SealedRows

(* A safe rotation has a certificate: the rows under readable labels.      *)
LEMMA RotationCertificate ==
  ASSUME SafeRotation
  PROVE  Certifies(RotationHeld)
<1>1. \A n \in Releases, c \in Cell :
        RotationHeld[n][c] = {NullRow} \cup SealedRows(n, c, Readable(n, c))
  BY DEF RotationHeld
<1>0. \A n \in Releases, c \in Cell : SealsAsItReads(n, c)
  BY DEF SafeRotation
<1>2. ASSUME NEW n \in Releases, NEW c \in Cell
      PROVE  SealedRows(n, c, Readable(n, c)) \subseteq Row
  BY <1>0, SealedRowReads DEF SealedRows
<1>3. RotationHeld \in [Releases -> [Cell -> SUBSET Row]]
  <2>1. NullRow \in Row
    BY DEF NullRow, Row
  <2> QED
    BY <1>2, <2>1 DEF RotationHeld
<1>4. ASSUME NEW c \in Cell
      PROVE  InitialRows \cup {NullRow} \subseteq RotationHeld[1][c]
  <2>1. 1 \in Releases
    BY DeploymentAssumption DEF Releases
  <2> QED
    BY <1>1, <2>1 DEF SafeRotation
<1>5. ASSUME NEW n \in Releases, NEW c \in Cell
      PROVE  SealedRows(n, c, {Active(n, c)}) \subseteq SealedRows(n, c, Readable(n, c))
  BY <1>0, ActiveReadable DEF SealedRows
<1>6. ASSUME NEW n \in Releases, NEW c \in Cell, NEW row \in RotationHeld[n][c]
      PROVE  /\ ReadsBack(n, c, row.value, row.text)
             /\ ~ ReadsUnbound(n, c, row.value)
  <2>1. CASE row = NullRow
    BY <2>1, ReadNull DEF NullRow, ReadsBack, ReadsUnbound, Value, Ok, Outcome
  <2>2. CASE row # NullRow
    <3>1. row \in SealedRows(n, c, Readable(n, c))
      BY <1>1, <2>2
    <3>2. PICK version \in Readable(n, c), text \in Text \ {Empty, Null} :
            row = SealedRow(n, c, version, text)
      BY <3>1 DEF SealedRows
    <3>3. ReadOutcome(n, c, row.value) = Ok(Plain(text)) /\ row.text = text
      BY <1>0, <3>2, SealedRowReads
    <3> QED
      BY <3>3 DEF ReadsBack, ReadsUnbound, Value, Ok, Outcome
  <2> QED
    BY <2>1, <2>2
<1>7. ASSUME NEW n \in Releases, NEW c \in Cell
      PROVE  Fresh(RotationHeld, n, c) \subseteq RotationHeld[n][c]
  BY <1>1, <1>5, FreshSealed
<1>8. ASSUME NEW n \in Releases, NEW c \in Cell, HasNext(n)
      PROVE  /\ Passes(RotationHeld, n, c, Plan[n + 1].gate) \subseteq RotationHeld[n + 1][c]
             /\ Plan[n + 1].rollout = "rolling"
                => /\ Fresh(RotationHeld, n, c) \subseteq RotationHeld[n + 1][c]
                   /\ Fresh(RotationHeld, n + 1, c) \subseteq RotationHeld[n][c]
             /\ Plan[n + 1].gate = "readCycle"
                => \A row \in Fresh(RotationHeld, n, c) : ~ ReadsUnbound(n, c, row.value)
  <2>1. n + 1 \in Releases /\ Plan[n + 1].gate \in Gates
    BY <1>8, PlanType DEF HasNext, Release
  <2>2. Active(n, c) \in Readable(n, c) /\ Active(n + 1, c) \in Readable(n + 1, c)
    BY <1>0, <2>1, ActiveReadable
  <2>3. Fresh(RotationHeld, n, c) \subseteq RotationHeld[n + 1][c]
    <3>1. Active(n, c) \in Readable(n + 1, c)
      BY <1>8 DEF SafeRotation
    <3>2. SealedRows(n, c, {Active(n, c)}) = SealedRows(n + 1, c, {Active(n, c)})
      BY <1>8, <2>2, <3>1, SealedAcross
    <3>3. SealedRows(n + 1, c, {Active(n, c)}) \subseteq SealedRows(n + 1, c, Readable(n + 1, c))
      BY <3>1 DEF SealedRows
    <3> QED
      BY <1>1, <2>1, <3>2, <3>3, FreshSealed
  <2>4. ASSUME Plan[n + 1].rollout = "rolling"
        PROVE  Fresh(RotationHeld, n + 1, c) \subseteq RotationHeld[n][c]
    <3>1. Active(n + 1, c) \in Readable(n, c)
      BY <1>8, <2>4 DEF SafeRotation
    <3>2. SealedRows(n, c, {Active(n + 1, c)}) = SealedRows(n + 1, c, {Active(n + 1, c)})
      BY <1>8, <2>2, <3>1, SealedAcross
    <3>3. SealedRows(n, c, {Active(n + 1, c)}) \subseteq SealedRows(n, c, Readable(n, c))
      BY <3>1 DEF SealedRows
    <3> QED
      BY <1>1, <2>1, <3>2, <3>3, FreshSealed
  <2>5. ASSUME Plan[n + 1].gate # "backfilled"
        PROVE  RotationHeld[n][c] \subseteq RotationHeld[n + 1][c]
    <3>1. Readable(n, c) \subseteq Readable(n + 1, c)
      BY <1>8, <2>5 DEF SafeRotation
    <3>2. SealedRows(n, c, Readable(n, c)) = SealedRows(n + 1, c, Readable(n, c))
      BY <1>8, <3>1, SealedAcross
    <3>3. SealedRows(n + 1, c, Readable(n, c)) \subseteq SealedRows(n + 1, c, Readable(n + 1, c))
      BY <3>1 DEF SealedRows
    <3> QED
      BY <1>1, <2>1, <3>2, <3>3
  <2>6. Passes(RotationHeld, n, c, Plan[n + 1].gate) \subseteq RotationHeld[n + 1][c]
    <3>1. CASE Plan[n + 1].gate = "open"
      BY <2>5, <3>1 DEF Passes
    <3>2. CASE Plan[n + 1].gate = "backfilled"
      BY <2>3, <3>2 DEF Passes
    <3>3. CASE Plan[n + 1].gate = "readCycle"
      BY <2>5, <3>3 DEF Passes
    <3> QED
      BY <2>1, <3>1, <3>2, <3>3 DEF Gates
  <2> QED
    BY <1>6, <1>7, <2>3, <2>4, <2>6
<1> QED
  BY <1>3, <1>4, <1>6, <1>7, <1>8 DEF Certifies

(* A rotation whose every label reaches all readers before the first token *)
(* is written under it, and leaves them only after a backfill, is three    *)
(* steps or more and no downtime (README.md 37-53, with the step the code  *)
(* needs and that text leaves out).                                        *)
THEOREM SafeRotationHasNoDowntime ==
  ASSUME SafeRotation
  PROVE  Spec => []NoDowntime
  BY RotationCertificate, CertifiedPlanHasNoDowntime

(* And it is a plain store of texts to the application.                    *)
THEOREM SafeRotationImplementsFieldStore ==
  ASSUME SafeRotation
  PROVE  Spec => ImplementsFieldStore
  BY RotationCertificate, CertifiedPlanImplementsFieldStore

(* The invariant of the certificate itself holds of every safe rotation:   *)
(* what is stored is always among the rows both serving releases can read. *)
THEOREM SafeRotationIsCertified ==
  ASSUME SafeRotation
  PROVE  Spec => []CertifiedRotation
<1>1. RotationCertified
  BY RotationCertificate DEF RotationCertified
<1>2. ASSUME NEW CONSTANT Held, Held = RotationHeld
      PROVE  Spec => []CertifiedRotation
  <2>1. Certifies(Held) /\ (CertifiedInvariant(Held) => CertifiedRotation)
    BY <1>1, <1>2 DEF RotationCertified, CertifiedRotation
  <2>2. Spec => []CertifiedInvariant(Held)
    BY <2>1, CertifiedPlanKeepsInvariant
  <2> QED
    BY <2>1, <2>2, PTL
<1> QED
  BY <1>2

-----------------------------------------------------------------------------
(* Ciphertext stays.                                                       *)

(* What comes out of maybeSeal in the clear is what went in, or null; with *)
(* a key it is ciphertext, or null.                                        *)
LEMMA WritesInTheClear ==
  ASSUME NEW n \in Releases, NEW c \in Cell, NEW value \in Str \cup {Null},
         WriteOutcome(n, c, value).status = "ok",
         WriteOutcome(n, c, value).value # Null
  PROVE  IF StoresClear(n, c) THEN WriteOutcome(n, c, value).value = value
         ELSE Ciphertext(WriteOutcome(n, c, value).value)
<1> DEFINE config == Plan[n].config
           options == Options(c, Plan[n].writeContext)
           ring == RingOf(config, ResolveNs(config, options))
           outcome == WriteOutcome(n, c, value)
<1>1. value \notin {Null, EmptyStr} /\ outcome = Seal(config, value, options)
  BY DEF WriteOutcome, MaybeSeal, Ok, Outcome
<1>2. config \in Config /\ options \in SealOptions /\ value \in Str
  BY <1>1, PlanType, DeploymentAssumption DEF Options, SealOptions
<1>3. /\ OptionsStatus(config, options) = "ok"
      /\ IF ring = NoRing
         THEN outcome.value = value /\ config.mode # "strict"
         ELSE outcome.value = Wrap(value, TokenLayer(ring, options.context))
  BY <1>1, <1>2, SealReturns
<1>4. ColumnNs[c] \in Namespace /\ options.namespace = ColumnNs[c]
  BY DeploymentAssumption DEF Options
<1>5. ResolveNs(config, options) = ColumnNs[c] /\ ring = CellRing(n, c)
  BY <1>4, SealedFieldsAssumption DEF ResolveNs, CellRing
<1>6. ColumnNs[c] \in Names(config)
  BY <1>3, <1>5 DEF OptionsStatus
<1>7. config.mode \in {"strict", "dormant"}
  BY DeploymentAssumption DEF Constructible
<1>8. CASE ring = NoRing
  BY <1>3, <1>5, <1>6, <1>7, <1>8 DEF StoresClear
<1>9. CASE ring # NoRing
  <2>1. ~ StoresClear(n, c)
    BY <1>5, <1>9 DEF StoresClear
  <2>2. outcome.value = Wrap(value, TokenLayer(ring, options.context))
    BY <1>3, <1>9
  <2> DEFINE layer == TokenLayer(ring, options.context)
  <2> HIDE DEF layer
  <2>3. Wrap(value, layer).layers = <<layer>> \o value.layers
    BY DEF Wrap
  <2>4. value.layers \in Seq(Layer)
    BY <1>2 DEF Str
  <2>5. <<layer>> \o value.layers # << >>
    BY <2>4
  <2> QED
    BY <2>1, <2>2, <2>3, <2>5 DEF Ciphertext, layer
<1> QED
  BY <1>8, <1>9

(* Reading in the clear changes nothing.                                   *)
LEMMA ReadsInTheClear ==
  ASSUME NEW n \in Releases, NEW c \in Cell, NEW value \in Str,
         StoresClear(n, c), ReadOutcome(n, c, value).status = "ok"
  PROVE  ReadOutcome(n, c, value).value \in {value, Null}
<1> DEFINE config == Plan[n].config
           options == Options(c, Plan[n].readContext)
           ring == RingOf(config, ResolveNs(config, options))
           outcome == ReadOutcome(n, c, value)
<1>1. CASE value \in {Null, EmptyStr}
  BY <1>1 DEF ReadOutcome, MaybeUnseal, Ok, Outcome
<1>2. CASE value \notin {Null, EmptyStr}
  <2>1. outcome = Unseal(config, value, options)
    BY <1>2 DEF ReadOutcome, MaybeUnseal
  <2>2. ColumnNs[c] \in Namespace /\ options.namespace = ColumnNs[c]
    BY DeploymentAssumption DEF Options
  <2>3. ResolveNs(config, options) = ColumnNs[c] /\ ring = CellRing(n, c)
    BY <2>2, SealedFieldsAssumption DEF ResolveNs, CellRing
  <2>4. ring = NoRing /\ config.mode # "strict"
    BY <2>3 DEF StoresClear
  <2>5. OptionsStatus(config, options) = "ok"
    BY <2>1 DEF Unseal, Err, Outcome
  <2>6. outcome \in {UnsealTokenWithoutRing(config, value), UnsealPlaintext(config, value)}
    BY <2>1, <2>4, <2>5 DEF Unseal
  <2> QED
    BY <2>4, <2>6 DEF UnsealTokenWithoutRing, UnsealPlaintext, Noted, Ok, Err, Outcome
<1> QED
  BY <1>1, <1>2

(* So does the backfill, and with a key it makes ciphertext.               *)
LEMMA ResealsInTheClear ==
  ASSUME NEW n \in Releases, NEW c \in Cell, NEW old \in Str,
         Resealed(n, c, old).status = "ok", Resealed(n, c, old).value # Null
  PROVE  IF StoresClear(n, c) THEN Resealed(n, c, old).value = old
         ELSE Ciphertext(Resealed(n, c, old).value)
<1> DEFINE read == ReadOutcome(n, c, old)
<1>1. read.status = "ok" /\ Resealed(n, c, old) = WriteOutcome(n, c, read.value)
  BY DEF Resealed
<1>2. read.value \in Str \cup {Null}
  BY OutcomesOfRelease
<1> HIDE DEF read
<1>3. IF StoresClear(n, c) THEN Resealed(n, c, old).value = read.value
      ELSE Ciphertext(Resealed(n, c, old).value)
  BY <1>1, <1>2, WritesInTheClear
<1> QED
  BY <1>1, <1>3, ReadsInTheClear DEF read

(* The invariant.                                                          *)
SealedInvariant == TypeOK /\ PhasesAdjacent /\ SealedStays

(* Phases stay where they are.                                             *)
LEMMA NextAdjacent ==
  ASSUME TypeOK, PhasesAdjacent, [Next]_vars
  PROVE  PhasesAdjacent'
<1>1. ASSUME NEW p \in Proc, Upgrade(p)
      PROVE  PhasesAdjacent'
  <2>1. target' = target /\ phase' = [phase EXCEPT ![p] = target]
    BY <1>1 DEF Upgrade
  <2>2. \A q \in Proc : phase'[q] = target \/ phase'[q] = phase[q]
    BY <2>1 DEF TypeOK
  <2> QED
    BY <2>1, <2>2 DEF PhasesAdjacent
<1>2. CASE Ship
  <2>1. Settled /\ target' = target + 1 /\ target \in Nat
    BY <1>2, DeploymentAssumption DEF Ship, TypeOK, Releases
  <2>2. CASE Plan[target + 1].rollout = "flagDay"
    BY <1>2, <2>1, <2>2 DEF Ship, PhasesAdjacent
  <2>3. CASE Plan[target + 1].rollout # "flagDay"
    <3>1. Plan[target + 1].rollout = "rolling"
      <4>1. target + 1 \in Releases
        BY <1>2, DeploymentAssumption DEF Ship, TypeOK, Releases
      <4> QED
        BY <2>3, <4>1, PlanType DEF Release
    <3> QED
      BY <1>2, <2>1, <2>3, <3>1 DEF Ship, PhasesAdjacent, Settled
  <2> QED
    BY <2>2, <2>3
<1>3. CASE UNCHANGED <<phase, target>>
  BY <1>3 DEF PhasesAdjacent
<1> QED
  BY <1>1, <1>2, <1>3 DEF Next, vars, Write, Read, BackfillRead, BackfillWrite, Restart

(* Where one serving release seals a cell, none stores it in the clear.    *)
LEMMA SealsTogether ==
  ASSUME SealsForGood, TypeOK, PhasesAdjacent, NEW c \in Cell, NEW p \in Proc,
         ~ StoresClear(phase[p], c)
  PROVE  ~ StoresClear(target, c) /\ \A q \in Proc : ~ StoresClear(phase[q], c)
<1>1. target \in Releases /\ target \in Nat
  BY DeploymentAssumption DEF TypeOK, Releases
<1>2. ~ StoresClear(target, c)
  <2>1. CASE phase[p] = target
    BY <2>1
  <2>2. CASE phase[p] # target
    <3>1. phase[p] = target - 1 /\ phase[p] \in Releases
      BY <2>2 DEF PhasesAdjacent, TypeOK
    <3>2. phase[p] + 1 = target /\ HasNext(phase[p])
      BY <1>1, <3>1 DEF HasNext
    <3> QED
      BY <3>1, <3>2 DEF SealsForGood
  <2> QED
    BY <2>1, <2>2
<1>3. ASSUME NEW q \in Proc
      PROVE  ~ StoresClear(phase[q], c)
  <2>1. CASE phase[q] = target
    BY <1>2, <2>1
  <2>2. CASE phase[q] # target
    <3>1. /\ phase[q] = target - 1 /\ phase[q] \in Releases
          /\ Plan[target].rollout = "rolling"
      BY <2>2 DEF PhasesAdjacent, TypeOK
    <3>2. phase[q] + 1 = target /\ HasNext(phase[q])
      BY <1>1, <3>1 DEF HasNext
    <3> QED
      BY <1>2, <3>1, <3>2 DEF SealsForGood
  <2> QED
    BY <2>1, <2>2
<1> QED
  BY <1>2, <1>3

(* The two ways a cell gets a value: what is stored is null or ciphertext, *)
(* or the serving release stores in the clear and it is plain, or was      *)
(* there before.                                                           *)
LEMMA CellSteps ==
  ASSUME TypeOK, [Next]_vars, NEW c \in Cell, cell'[c] # cell[c], cell'[c] # Null
  PROVE  /\ UNCHANGED <<phase, target>>
         /\ \E p \in Proc :
              IF StoresClear(phase[p], c) THEN ~ Ciphertext(cell'[c])
              ELSE Ciphertext(cell'[c])
<1>1. ASSUME NEW p \in Proc, NEW d \in Cell, NEW text \in Text \cup {Null},
             Write(p, d, text)
      PROVE  /\ UNCHANGED <<phase, target>>
             /\ IF StoresClear(phase[p], c) THEN ~ Ciphertext(cell'[c])
                ELSE Ciphertext(cell'[c])
  <2> DEFINE outcome == WriteOutcome(phase[p], d, Value(text))
  <2>1. outcome.status = "ok" /\ cell' = [cell EXCEPT ![d] = outcome.value]
    BY <1>1 DEF Write
  <2>2. d = c /\ cell'[c] = outcome.value
    BY <2>1 DEF TypeOK
  <2>3. Value(text) \in Str \cup {Null} /\ phase[p] \in Releases
    BY ValueType DEF TypeOK
  <2>4. IF StoresClear(phase[p], c) THEN outcome.value = Value(text)
        ELSE Ciphertext(outcome.value)
    BY <2>1, <2>2, <2>3, WritesInTheClear
  <2>5. ~ Ciphertext(Value(text))
    BY DEF Ciphertext, Value, Plain
  <2> QED
    BY <1>1, <2>2, <2>4, <2>5 DEF Write
<1>2. ASSUME BackfillWrite
      PROVE  /\ UNCHANGED <<phase, target>>
             /\ \E p \in Proc :
                  IF StoresClear(phase[p], c) THEN ~ Ciphertext(cell'[c])
                  ELSE Ciphertext(cell'[c])
  <2> DEFINE n == phase[job.process]
             outcome == Resealed(n, job.cell, job.old)
  <2>1. job.process \in Proc /\ job.cell \in Cell /\ job.old \in Str /\ n \in Releases
    BY <1>2 DEF BackfillWrite, TypeOK, Job
  <2>2. /\ outcome.status = "ok" /\ cell[job.cell] = job.old
        /\ cell' = [cell EXCEPT ![job.cell] = outcome.value]
    BY <1>2 DEF BackfillWrite
  <2>3. job.cell = c /\ cell'[c] = outcome.value
    BY <2>1, <2>2 DEF TypeOK
  <2>4. IF StoresClear(n, c) THEN outcome.value = job.old ELSE Ciphertext(outcome.value)
    BY <2>1, <2>2, <2>3, ResealsInTheClear
  <2>5. ~ StoresClear(n, c)
    BY <2>2, <2>3, <2>4
  <2> QED
    BY <1>2, <2>1, <2>3, <2>4, <2>5 DEF BackfillWrite
<1>3. CASE UNCHANGED cell
  BY <1>3
<1> QED
  BY <1>1, <1>2, <1>3 DEF Next, vars, Read, BackfillRead, Restart, Upgrade, Ship

(* The invariant holds at the start.                                       *)
LEMMA InitSealed ==
  ASSUME SealsForGood, Init
  PROVE  SealedInvariant
<1>1. TypeOK /\ PhasesAdjacent
  BY InitType DEF Init, PhasesAdjacent
<1>2. PICK row \in [Cell -> InitialRows \cup {NullRow}] :
        cell = [c \in Cell |-> row[c].value]
  BY DEF Init
<1>3. ASSUME NEW c \in Cell, Ciphertext(cell[c])
      PROVE  ~ StoresClear(1, c)
  <2>1. row[c] \in InitialRows \cup {NullRow} /\ cell[c] = row[c].value
    BY <1>2
  <2>2. row[c] # NullRow
    BY <1>3, <2>1 DEF Ciphertext, NullRow
  <2> QED
    BY <1>3, <2>1, <2>2 DEF SealsForGood
<1>4. target = 1 /\ \A p \in Proc : phase[p] = 1
  BY DEF Init
<1> QED
  BY <1>1, <1>3, <1>4 DEF SealedInvariant, SealedStays

(* And every step keeps it.                                                *)
LEMMA NextSealed ==
  ASSUME SealsForGood, SealedInvariant, [Next]_vars
  PROVE  SealedInvariant'
<1>1. TypeOK /\ PhasesAdjacent /\ SealedStays
  BY DEF SealedInvariant
<1>2. TypeOK' /\ PhasesAdjacent'
  BY <1>1, NextType, NextAdjacent
<1>3. ASSUME NEW c \in Cell, Ciphertext(cell'[c])
      PROVE  ~ StoresClear(target', c) /\ \A p \in Proc : ~ StoresClear(phase'[p], c)
  <2>1. CASE cell'[c] # cell[c]
    <3>1. cell'[c] # Null
      BY <1>3 DEF Ciphertext
    <3>2. /\ UNCHANGED <<phase, target>>
          /\ \E p \in Proc : ~ StoresClear(phase[p], c)
      BY <1>1, <1>3, <2>1, <3>1, CellSteps
    <3> QED
      BY <1>1, <3>2, SealsTogether
  <2>2. CASE cell'[c] = cell[c]
    <3>1. ~ StoresClear(target, c) /\ \A p \in Proc : ~ StoresClear(phase[p], c)
      BY <1>1, <1>3, <2>2 DEF SealedStays
    <3>2. ASSUME NEW p \in Proc, Upgrade(p)
          PROVE  ~ StoresClear(target', c) /\ \A q \in Proc : ~ StoresClear(phase'[q], c)
      <4>1. target' = target /\ phase' = [phase EXCEPT ![p] = target]
        BY <3>2 DEF Upgrade
      <4>2. \A q \in Proc : phase'[q] \in {phase[q], target}
        BY <1>1, <4>1 DEF TypeOK
      <4> QED
        BY <3>1, <4>1, <4>2
    <3>3. ASSUME Ship
          PROVE  ~ StoresClear(target', c) /\ \A q \in Proc : ~ StoresClear(phase'[q], c)
      <4>1. target' = target + 1 /\ HasNext(target) /\ target \in Releases
        BY <1>1, <3>3, DeploymentAssumption DEF Ship, HasNext, TypeOK, Releases
      <4>2. ~ StoresClear(target', c)
        BY <3>1, <4>1 DEF SealsForGood
      <4>3. \A q \in Proc : phase'[q] \in {phase[q], target'}
        BY <3>3, <4>1 DEF Ship
      <4> QED
        BY <3>1, <4>2, <4>3
    <3>4. CASE UNCHANGED <<phase, target>>
      BY <3>1, <3>4
    <3> QED
      BY <3>2, <3>3, <3>4
         DEF Next, vars, Write, Read, BackfillRead, BackfillWrite, Restart
  <2> QED
    BY <2>1, <2>2
<1> QED
  BY <1>2, <1>3 DEF SealedInvariant, SealedStays

(* In a plan that seals for good no release is serving that would store in *)
(* the clear what is sealed.                                               *)
LEMMA SealedKept ==
  ASSUME SealsForGood
  PROVE  Spec => []SealedInvariant
<1>1. Init => SealedInvariant
  BY InitSealed
<1>2. SealedInvariant /\ [Next]_vars => SealedInvariant'
  BY NextSealed
<1> QED
  BY <1>1, <1>2, PTL DEF Spec

(* Once a cell holds ciphertext it never holds readable text again, under  *)
(* any plan that seals for good: rotations and context migrations do, and  *)
(* so does the move from dormant mode to plaintext "reject" when the keys  *)
(* come on a flag day (README.md 130-158).                                 *)
THEOREM CiphertextIsForGood ==
  ASSUME SealsForGood
  PROVE  Spec => NeverBackToPlaintext
<1>1. SealedInvariant /\ [Next]_vars
      => [\A c \in Cell : Ciphertext(cell[c]) /\ cell'[c] # Null
                          => Ciphertext(cell'[c])]_vars
  <2> SUFFICES ASSUME SealedInvariant, [Next]_vars,
                      NEW c \in Cell, Ciphertext(cell[c]), cell'[c] # Null
               PROVE  Ciphertext(cell'[c])
    OBVIOUS
  <2>1. CASE cell'[c] = cell[c]
    BY <2>1
  <2>2. CASE cell'[c] # cell[c]
    <3>1. TypeOK /\ \A p \in Proc : ~ StoresClear(phase[p], c)
      BY DEF SealedInvariant, SealedStays
    <3> QED
      BY <2>2, <3>1, CellSteps
  <2> QED
    BY <2>1, <2>2
<1>2. Spec => []SealedInvariant
  BY SealedKept
<1> QED
  BY <1>1, <1>2, PTL DEF Spec, NeverBackToPlaintext

(* A plan whose releases all have the key seals for good.                  *)
LEMMA KeyedSealsForGood ==
  ASSUME \A n \in Releases, c \in Cell : Keyed(n, c)
  PROVE  SealsForGood
<1>1. \A n \in Releases, c \in Cell : ~ StoresClear(n, c)
  BY DEF Keyed, StoresClear
<1>2. 1 \in Releases /\ \A n \in Releases : HasNext(n) => n + 1 \in Releases
  BY DeploymentAssumption DEF Releases, HasNext
<1> QED
  BY <1>1, <1>2 DEF SealsForGood

-----------------------------------------------------------------------------
(* The certificate of an activation.                                       *)

(* What ActivationHeld holds.                                              *)
LEMMA HeldOfActivation ==
  ASSUME NEW n \in Releases, NEW c \in Cell
  PROVE  /\ \A row \in ActivationHeld[n][c] :
              \/ row \in {NullRow, BlankRow}
              \/ Plan[n].config.plaintext = "passthrough" /\ row \in PlainRowsOf(n)
              \/ Keyed(n, c) /\ row \in SealedRows(n, c, Readable(n, c))
         /\ {NullRow, BlankRow} \subseteq ActivationHeld[n][c]
         /\ Plan[n].config.plaintext = "passthrough"
            => PlainRowsOf(n) \subseteq ActivationHeld[n][c]
         /\ Keyed(n, c) => SealedRows(n, c, Readable(n, c)) \subseteq ActivationHeld[n][c]
  BY DEF ActivationHeld

(* A release has a key for a cell or stores it in the clear, not both.     *)
LEMMA ActivationRelease ==
  ASSUME SafeActivation, NEW n \in Releases, NEW c \in Cell
  PROVE  /\ Keyed(n, c) => SealsAsItReads(n, c)
         /\ ~ Keyed(n, c) => StoresClear(n, c) /\ Plan[n].config.plaintext = "passthrough"
         /\ Keyed(n, c) => ~ StoresClear(n, c)
         /\ Plan[n].config.plaintext \in {"passthrough", "reject"}
<1>1. Constructible(Plan[n].config)
  BY DeploymentAssumption
<1> QED
  BY <1>1 DEF SafeActivation, SealsAsItReads, Keyed, StoresClear, Constructible

(* The options of a cell resolve to its ring, which has no key before the  *)
(* activation.                                                             *)
LEMMA CellOptions ==
  ASSUME NEW n \in Releases, NEW c \in Cell, NEW bind \in BOOLEAN,
         ColumnNs[c] \in Names(Plan[n].config)
  PROVE  LET options == Options(c, bind) IN
         /\ OptionsStatus(Plan[n].config, options) = "ok"
         /\ RingOf(Plan[n].config, ResolveNs(Plan[n].config, options)) = CellRing(n, c)
<1> DEFINE options == Options(c, bind)
<1>1. ColumnNs[c] \in Namespace /\ options.namespace = ColumnNs[c]
      /\ options.context \in Context \cup {NoContext}
  BY DeploymentAssumption DEF Options
<1>2. ResolveNs(Plan[n].config, options) = ColumnNs[c]
  BY <1>1, SealedFieldsAssumption DEF ResolveNs
<1>3. ColumnNs[c] # NoNamespace /\ options.context # InvalidContext
  BY <1>1, SealedFieldsAssumption
<1>4. OptionsStatus(Plan[n].config, options) = "ok"
  BY <1>2, <1>3 DEF OptionsStatus
<1> QED
  BY <1>2, <1>4 DEF CellRing

(* A text no format claims reads as it is while plaintext is let through,  *)
(* with a key or without.                                                  *)
LEMMA PlainRowReads ==
  ASSUME SafeActivation, NEW n \in Releases, NEW c \in Cell,
         Plan[n].config.plaintext = "passthrough", NEW row \in PlainRowsOf(n)
  PROVE  /\ row \in Row
         /\ row.value # Null
         /\ row.text \in Text \ {Empty, Null}
         /\ row = PlainRow(row.text)
         /\ ~ ParseToken(row.value)
         /\ ~ MatchesLegacy(row.value, Plan[n].config.legacy)
         /\ ReadOutcome(n, c, row.value) = Ok(Plain(row.text))
<1> DEFINE config == Plan[n].config
           options == Options(c, Plan[n].readContext)
<1>1. PICK text \in Text \ {Empty, Null} :
        /\ row = PlainRow(text)
        /\ TextShape[text] \notin {"token", "short"} \cup config.legacy
  BY DEF PlainRowsOf
<1>2. row.value = Plain(text) /\ row.text = text
  BY <1>1 DEF PlainRow
<1>3. Plain(text) \in Str /\ Plain(text) \notin {Null, EmptyStr}
  BY PlainType
<1>4. Shape(Plain(text)) = TextShape[text]
  BY DEF Shape, Plain
<1>5. ~ ParseToken(Plain(text))
  BY <1>1, <1>4 DEF ParseToken
<1>6. ~ MatchesLegacy(Plain(text), config.legacy)
  BY <1>1, <1>4 DEF MatchesLegacy, MatchLegacy
<1>7. ColumnNs[c] \in Names(config) /\ Plan[n].readContext \in BOOLEAN
  BY PlanType DEF SafeActivation, Keyed, StoresClear
<1>8. OptionsStatus(config, options) = "ok"
  BY <1>7, CellOptions
<1>9. Unseal(config, Plain(text), options) = UnsealPlaintext(config, Plain(text))
  BY <1>5, <1>6, <1>8 DEF Unseal
<1>10. ReadOutcome(n, c, Plain(text)) = Ok(Plain(text))
  BY <1>3, <1>9 DEF ReadOutcome, MaybeUnseal, UnsealPlaintext
<1>11. row \in Row
  BY <1>1, <1>3 DEF Row, PlainRow
<1>12. /\ ~ ParseToken(row.value)
       /\ ~ MatchesLegacy(row.value, config.legacy)
       /\ ReadOutcome(n, c, row.value) = Ok(Plain(row.text))
  BY <1>2, <1>5, <1>6, <1>10
<1>13. row = PlainRow(row.text) /\ row.text \in Text \ {Empty, Null} /\ row.value # Null
  BY <1>1, <1>2, <1>3
<1> QED
  BY <1>11, <1>12, <1>13

(* A release without the key stores such texts, and no others.             *)
LEMMA WritesPlain ==
  ASSUME SafeActivation, NEW n \in Releases, NEW c \in Cell, ~ Keyed(n, c),
         NEW text \in Text \ {Empty, Null}
  PROVE  /\ WriteOutcome(n, c, Plain(text)).status = "ok"
            => PlainRow(text) \in PlainRowsOf(n)
         /\ WriteOutcome(n, c, Plain(text)).status = "ok"
            => WriteOutcome(n, c, Plain(text)).value = Plain(text)
<1> DEFINE config == Plan[n].config
           options == Options(c, Plan[n].writeContext)
<1>1. StoresClear(n, c)
  BY ActivationRelease
<1>2. Plain(text) \in Str /\ Plain(text) \notin {Null, EmptyStr}
  BY PlainType
<1>3. OptionsStatus(config, options) = "ok"
      /\ RingOf(config, ResolveNs(config, options)) = NoRing
  BY <1>1, CellOptions, PlanType DEF StoresClear
<1>4. WriteOutcome(n, c, Plain(text)) = SealDormant(config, Plain(text))
  BY <1>2, <1>3 DEF WriteOutcome, MaybeSeal, Seal
<1>5. ASSUME WriteOutcome(n, c, Plain(text)).status = "ok"
      PROVE  PlainRow(text) \in PlainRowsOf(n)
             /\ WriteOutcome(n, c, Plain(text)).value = Plain(text)
  <2>1. config.mode # "strict"
        /\ ~ ParseToken(Plain(text)) /\ ~ MatchesLegacy(Plain(text), config.legacy)
    BY <1>4, <1>5 DEF SealDormant, Err, Outcome
  <2>2. SealDormant(config, Plain(text)) = Noted(Plain(text), "dormant")
    BY <2>1 DEF SealDormant
  <2>3. Shape(Plain(text)) = TextShape[text]
    BY DEF Shape, Plain
  <2>4. TextShape[text] \notin {"token", "short"} \cup config.legacy
    BY <2>1, <2>3 DEF ParseToken, MatchesLegacy, MatchLegacy
  <2> QED
    BY <1>4, <2>2, <2>4 DEF PlainRowsOf, Noted, Outcome
<1> QED
  BY <1>5

(* A held row is a row, reads back, and not as unbound.                    *)
LEMMA ActivationReads ==
  ASSUME SafeActivation, NEW n \in Releases, NEW c \in Cell,
         NEW row \in ActivationHeld[n][c]
  PROVE  /\ row \in Row
         /\ ReadsBack(n, c, row.value, row.text)
         /\ ~ ReadsUnbound(n, c, row.value)
         /\ row \in {NullRow, BlankRow}
            \/ /\ row.text \in Text \ {Empty, Null}
               /\ ReadOutcome(n, c, row.value) = Ok(Plain(row.text))
<1>1. NullRow \in Row /\ BlankRow \in Row
  BY EmptyStrType DEF NullRow, BlankRow, Row
<1>2. CASE row \in {NullRow, BlankRow}
  <2>1. row.value \in {Null, EmptyStr} /\ row.text = Null
    BY <1>2 DEF NullRow, BlankRow
  <2>2. ReadOutcome(n, c, row.value) = Ok(Null)
    BY <2>1 DEF ReadOutcome, MaybeUnseal
  <2> QED
    BY <1>1, <1>2, <2>1, <2>2 DEF ReadsBack, ReadsUnbound, Value, Ok, Outcome
<1>3. ASSUME row.text \in Text \ {Empty, Null},
             ReadOutcome(n, c, row.value) = Ok(Plain(row.text))
      PROVE  ReadsBack(n, c, row.value, row.text) /\ ~ ReadsUnbound(n, c, row.value)
  BY <1>3 DEF ReadsBack, ReadsUnbound, Value, Ok, Outcome
<1>4. CASE Plan[n].config.plaintext = "passthrough" /\ row \in PlainRowsOf(n)
  BY <1>3, <1>4, PlainRowReads
<1>5. CASE Keyed(n, c) /\ row \in SealedRows(n, c, Readable(n, c))
  <2>1. PICK version \in Readable(n, c), text \in Text \ {Empty, Null} :
          row = SealedRow(n, c, version, text)
    BY <1>5 DEF SealedRows
  <2>2. row \in Row /\ ReadOutcome(n, c, row.value) = Ok(Plain(text)) /\ row.text = text
    BY <1>5, <2>1, ActivationRelease, SealedRowReads
  <2> QED
    BY <1>3, <2>2
<1> QED
  BY <1>2, <1>4, <1>5, HeldOfActivation

(* What a release makes of a cell: with the key null or sealed under its   *)
(* active label, without it null or plain.                                 *)
LEMMA ActivationFresh ==
  ASSUME SafeActivation, NEW n \in Releases, NEW c \in Cell
  PROVE  Fresh(ActivationHeld, n, c)
           \subseteq {NullRow} \cup (IF Keyed(n, c) THEN SealedRows(n, c, {Active(n, c)})
                                   ELSE PlainRowsOf(n))
<1> DEFINE fresh == IF Keyed(n, c) THEN SealedRows(n, c, {Active(n, c)}) ELSE PlainRowsOf(n)
<1>1. ASSUME NEW text \in Text \cup {Null},
             WriteOutcome(n, c, Value(text)).status = "ok"
      PROVE  WrittenRow(n, c, text) \in {NullRow} \cup fresh
  <2>1. CASE Keyed(n, c)
    BY <2>1, ActivationRelease, WritesSealed
  <2>2. CASE ~ Keyed(n, c) /\ text \in {Empty, Null}
    <3>1. Value(text) \in {EmptyStr, Null}
      BY <2>2 DEF Value, EmptyStr
    <3>2. WriteOutcome(n, c, Value(text)).value = Null
      BY <3>1, WriteNothing DEF Ok, Outcome
    <3> QED
      BY <3>2 DEF WrittenRow, NullRow
  <2>3. CASE ~ Keyed(n, c) /\ text \notin {Empty, Null}
    <3>1. Value(text) = Plain(text) /\ Plain(text) # Null
      BY <2>3, PlainType DEF Value
    <3>2. /\ PlainRow(text) \in PlainRowsOf(n)
          /\ WriteOutcome(n, c, Value(text)).value = Plain(text)
      BY <1>1, <2>3, <3>1, WritesPlain
    <3>3. WrittenRow(n, c, text) = PlainRow(text)
      BY <3>1, <3>2 DEF WrittenRow, PlainRow
    <3> QED
      BY <2>3, <3>2, <3>3
  <2> QED
    BY <2>1, <2>2, <2>3
<1>2. ASSUME NEW row \in ActivationHeld[n][c], row.value # Null,
             Resealed(n, c, row.value).status = "ok"
      PROVE  ResealedRow(n, c, row) \in {NullRow} \cup fresh
  <2>1. CASE row \in {NullRow, BlankRow}
    <3>1. row.value = EmptyStr /\ row.text = Null
      BY <1>2, <2>1 DEF NullRow, BlankRow
    <3>2. ReadOutcome(n, c, row.value) = Ok(Null)
      BY <3>1 DEF ReadOutcome, MaybeUnseal
    <3>3. Resealed(n, c, row.value) = Ok(Null)
      BY <3>2, WriteNothing DEF Resealed, Ok, Outcome
    <3> QED
      BY <3>1, <3>3 DEF ResealedRow, NullRow, Ok, Outcome
  <2>2. CASE row \notin {NullRow, BlankRow} /\ Keyed(n, c)
    <3>1. row.text \in Text \ {Empty, Null}
          /\ ReadOutcome(n, c, row.value) = Ok(Plain(row.text))
      BY <2>2, ActivationReads
    <3> QED
      BY <2>2, <3>1, ActivationRelease, ResealsSealed
  <2>3. CASE row \notin {NullRow, BlankRow} /\ ~ Keyed(n, c)
    <3>1. row \in PlainRowsOf(n) /\ Plan[n].config.plaintext = "passthrough"
      BY <2>3, HeldOfActivation
    <3>2. /\ row.text \in Text \ {Empty, Null} /\ row = PlainRow(row.text)
          /\ ReadOutcome(n, c, row.value) = Ok(Plain(row.text))
      BY <3>1, PlainRowReads
    <3>3. Resealed(n, c, row.value) = WriteOutcome(n, c, Plain(row.text))
      BY <3>2 DEF Resealed, Ok, Outcome
    <3>4. Resealed(n, c, row.value).value = Plain(row.text)
      BY <1>2, <2>3, <3>2, <3>3, WritesPlain
    <3>5. ResealedRow(n, c, row) = row
      BY <3>2, <3>4 DEF ResealedRow, PlainRow
    <3> QED
      BY <2>3, <3>1, <3>5
  <2> QED
    BY <2>1, <2>2, <2>3
<1> QED
  BY <1>1, <1>2 DEF Fresh, WrittenRows, ResealedRows

(* What a release makes it holds.                                          *)
LEMMA ActivationFreshHeld ==
  ASSUME SafeActivation, NEW n \in Releases, NEW c \in Cell
  PROVE  Fresh(ActivationHeld, n, c) \subseteq ActivationHeld[n][c]
<1>1. CASE Keyed(n, c)
  <2>1. Active(n, c) \in Readable(n, c)
    BY <1>1, ActivationRelease, ActiveReadable
  <2>2. SealedRows(n, c, {Active(n, c)}) \subseteq SealedRows(n, c, Readable(n, c))
    BY <2>1 DEF SealedRows
  <2> QED
    BY <1>1, <2>2, ActivationFresh, HeldOfActivation
<1>2. CASE ~ Keyed(n, c)
  BY <1>2, ActivationRelease, ActivationFresh, HeldOfActivation
<1> QED
  BY <1>1, <1>2

(* From one release to the next rows stay what they are.                   *)
LEMMA ActivationAcross ==
  ASSUME SafeActivation, NEW n \in Releases, NEW c \in Cell, HasNext(n)
  PROVE  /\ PlainRowsOf(n + 1) = PlainRowsOf(n)
         /\ Keyed(n, c) => /\ Keyed(n + 1, c)
                           /\ \A versions :
                                SealedRows(n + 1, c, versions) = SealedRows(n, c, versions)
                           /\ Active(n + 1, c) = Active(n, c)
                           /\ Readable(n + 1, c) = Readable(n, c)
<1>1. PlainRowsOf(n + 1) = PlainRowsOf(n)
  BY DEF SafeActivation, PlainRowsOf
<1>2. ASSUME Keyed(n, c)
      PROVE  /\ Keyed(n + 1, c) /\ CellRing(n + 1, c) = CellRing(n, c)
             /\ Plan[n].readContext = Plan[n + 1].readContext
  BY <1>2 DEF SafeActivation
<1>3. ASSUME Keyed(n, c), NEW versions
      PROVE  SealedRows(n + 1, c, versions) = SealedRows(n, c, versions)
  <2>1. \A version \in versions, text \in Text \ {Empty, Null} :
          SealedRow(n + 1, c, version, text) = SealedRow(n, c, version, text)
    BY <1>2, <1>3 DEF SealedRow
  <2> QED
    BY <2>1 DEF SealedRows
<1> QED
  BY <1>1, <1>2, <1>3 DEF Active, Readable

(* A safe activation has a certificate: nulls, plain texts as long as they *)
(* are let through, and sealed texts once there is a key.                  *)
LEMMA ActivationCertificate ==
  ASSUME SafeActivation
  PROVE  Certifies(ActivationHeld)
<1>1. ActivationHeld \in [Releases -> [Cell -> SUBSET Row]]
  <2>1. \A n \in Releases, c \in Cell : ActivationHeld[n][c] \subseteq Row
    BY ActivationReads
  <2> QED
    BY <2>1 DEF ActivationHeld
<1>2. ASSUME NEW c \in Cell
      PROVE  InitialRows \cup {NullRow} \subseteq ActivationHeld[1][c]
  <2>1. 1 \in Releases
    BY DeploymentAssumption DEF Releases
  <2> QED
    BY <2>1, HeldOfActivation DEF SafeActivation
<1>3. ASSUME NEW n \in Releases, NEW c \in Cell
      PROVE  /\ Fresh(ActivationHeld, n, c) \subseteq ActivationHeld[n][c]
             /\ \A row \in ActivationHeld[n][c] : ReadsBack(n, c, row.value, row.text)
  BY ActivationFreshHeld, ActivationReads
<1>4. ASSUME NEW n \in Releases, NEW c \in Cell, HasNext(n)
      PROVE  /\ Passes(ActivationHeld, n, c, Plan[n + 1].gate) \subseteq ActivationHeld[n + 1][c]
             /\ Plan[n + 1].rollout = "rolling"
                => /\ Fresh(ActivationHeld, n, c) \subseteq ActivationHeld[n + 1][c]
                   /\ Fresh(ActivationHeld, n + 1, c) \subseteq ActivationHeld[n][c]
             /\ Plan[n + 1].gate = "readCycle"
                => \A row \in Fresh(ActivationHeld, n, c) : ~ ReadsUnbound(n, c, row.value)
  <2>1. n + 1 \in Releases /\ Plan[n + 1].gate \in Gates
    BY <1>4, PlanType DEF HasNext, Release
  <2>2. Fresh(ActivationHeld, n, c) \subseteq ActivationHeld[n][c]
    BY ActivationFreshHeld
  <2>3. ASSUME Plan[n + 1].config.plaintext = "passthrough"
        PROVE  ActivationHeld[n][c] \subseteq ActivationHeld[n + 1][c]
    BY <1>4, <2>1, <2>3, HeldOfActivation, ActivationAcross
  <2>4. ASSUME Keyed(n, c)
        PROVE  /\ Fresh(ActivationHeld, n, c) \subseteq ActivationHeld[n + 1][c]
               /\ Fresh(ActivationHeld, n + 1, c) \subseteq ActivationHeld[n][c]
    <3>1. /\ Keyed(n + 1, c) /\ Active(n + 1, c) = Active(n, c)
          /\ SealedRows(n + 1, c, {Active(n, c)}) = SealedRows(n, c, {Active(n, c)})
      BY <1>4, <2>4, ActivationAcross
    <3>2. Active(n, c) \in Readable(n, c) /\ Active(n + 1, c) \in Readable(n + 1, c)
      BY <2>1, <2>4, <3>1, ActivationRelease, ActiveReadable
    <3>3. /\ SealedRows(n, c, {Active(n, c)}) \subseteq SealedRows(n, c, Readable(n, c))
          /\ SealedRows(n + 1, c, {Active(n + 1, c)})
               \subseteq SealedRows(n + 1, c, Readable(n + 1, c))
      BY <3>2 DEF SealedRows
    <3>4. /\ {NullRow} \cup SealedRows(n, c, {Active(n, c)}) \subseteq ActivationHeld[n][c]
          /\ {NullRow} \cup SealedRows(n, c, {Active(n, c)}) \subseteq ActivationHeld[n + 1][c]
      BY <2>1, <2>4, <3>1, <3>3, HeldOfActivation
    <3> QED
      BY <2>1, <2>4, <3>1, <3>4, ActivationFresh
  <2>5. Plan[n + 1].config.plaintext = "passthrough"
        \/ /\ Plan[n + 1].config.plaintext = "reject"
           /\ \/ Plan[n].config.plaintext = "reject"
              \/ Keyed(n, c) /\ Plan[n + 1].gate = "backfilled"
    BY <1>4, <2>1, ActivationRelease DEF SafeActivation
  <2>6. ASSUME Plan[n].config.plaintext = "reject"
        PROVE  Keyed(n, c) /\ ActivationHeld[n][c] \subseteq ActivationHeld[n + 1][c]
    <3>1. Keyed(n, c)
      BY <2>6, ActivationRelease
    <3> QED
      BY <1>4, <2>1, <2>6, <3>1, HeldOfActivation, ActivationAcross
  <2>7. Passes(ActivationHeld, n, c, Plan[n + 1].gate) \subseteq ActivationHeld[n + 1][c]
    <3>1. CASE Plan[n + 1].gate = "backfilled"
      <4>1. Passes(ActivationHeld, n, c, Plan[n + 1].gate) = Fresh(ActivationHeld, n, c)
        BY <3>1 DEF Passes
      <4> QED
        BY <2>2, <2>3, <2>4, <2>5, <2>6, <4>1
    <3>2. CASE Plan[n + 1].gate # "backfilled"
      <4>1. Passes(ActivationHeld, n, c, Plan[n + 1].gate) \subseteq ActivationHeld[n][c]
        BY <2>1, <3>2 DEF Passes, Gates
      <4> QED
        BY <2>3, <2>5, <2>6, <3>2, <4>1
    <3> QED
      BY <3>1, <3>2
  <2>8. ASSUME Plan[n + 1].rollout = "rolling"
        PROVE  /\ Fresh(ActivationHeld, n, c) \subseteq ActivationHeld[n + 1][c]
               /\ Fresh(ActivationHeld, n + 1, c) \subseteq ActivationHeld[n][c]
    <3>1. CASE ~ Keyed(n, c)
      <4>1. StoresClear(n, c) /\ Plan[n].config.plaintext = "passthrough"
        BY <3>1, ActivationRelease
      <4>2. ~ Keyed(n + 1, c)
        BY <1>4, <2>8, <4>1 DEF SafeActivation
      <4>3. Plan[n + 1].config.plaintext = "passthrough"
        BY <2>1, <4>2, ActivationRelease
      <4>4. {NullRow} \cup PlainRowsOf(n) \subseteq ActivationHeld[n][c]
            /\ {NullRow} \cup PlainRowsOf(n) \subseteq ActivationHeld[n + 1][c]
        BY <1>4, <2>1, <4>1, <4>3, HeldOfActivation, ActivationAcross
      <4> QED
        BY <1>4, <2>1, <3>1, <4>2, <4>4, ActivationFresh, ActivationAcross
    <3> QED
      BY <2>4, <3>1
  <2> QED
    BY <2>2, <2>7, <2>8, ActivationReads
<1> QED
  BY <1>1, <1>2, <1>3, <1>4 DEF Certifies

(* A safe activation seals for good.                                       *)
LEMMA ActivationSealsForGood ==
  ASSUME SafeActivation
  PROVE  SealsForGood
<1>1. ASSUME NEW c \in Cell, StoresClear(1, c), NEW row \in InitialRows
      PROVE  ~ Ciphertext(row.value)
  <2>1. 1 \in Releases /\ ~ Keyed(1, c)
    BY <1>1, DeploymentAssumption, ActivationRelease DEF Releases
  <2>2. row \in {NullRow, BlankRow} \cup PlainRowsOf(1)
    BY <2>1, HeldOfActivation DEF SafeActivation
  <2>3. ASSUME row \in PlainRowsOf(1)
        PROVE  \E text : row = PlainRow(text)
    BY <2>3 DEF PlainRowsOf
  <2> QED
    BY <2>2, <2>3 DEF NullRow, BlankRow, PlainRow, Plain, EmptyStr, Ciphertext
<1>2. ASSUME NEW n \in Releases, NEW c \in Cell, HasNext(n)
      PROVE  /\ StoresClear(n + 1, c) => StoresClear(n, c)
             /\ StoresClear(n, c) /\ ~ StoresClear(n + 1, c)
                => Plan[n + 1].rollout = "flagDay"
  <2>1. n + 1 \in Releases
    BY <1>2 DEF HasNext
  <2> QED
    BY <1>2, <2>1, ActivationRelease DEF SafeActivation
<1> QED
  BY <1>1, <1>2 DEF SealsForGood

(* The invariant of the certificate holds of every safe activation.        *)
THEOREM SafeActivationIsCertified ==
  ASSUME SafeActivation
  PROVE  Spec => []CertifiedActivation
<1>1. ActivationCertified
  BY ActivationCertificate, ActivationSealsForGood DEF ActivationCertified
<1>2. ASSUME NEW CONSTANT Held, Held = ActivationHeld
      PROVE  Spec => []CertifiedActivation
  <2>1. /\ Certifies(Held)
        /\ CertifiedInvariant(Held) /\ SealedInvariant => CertifiedActivation
    BY <1>1, <1>2 DEF ActivationCertified, CertifiedActivation, SealedInvariant
  <2>2. Spec => []CertifiedInvariant(Held)
    BY <2>1, CertifiedPlanKeepsInvariant
  <2>3. Spec => []SealedInvariant
    BY ActivationSealsForGood, SealedKept
  <2> QED
    BY <2>1, <2>2, <2>3, PTL
<1> QED
  BY <1>2

(* Going from plaintext to keys to plaintext "reject" has no downtime when *)
(* every cell gets its key on a flag day and the door closes behind a      *)
(* backfill (README.md 130-158).                                           *)
THEOREM SafeActivationHasNoDowntime ==
  ASSUME SafeActivation
  PROVE  Spec => []NoDowntime
  BY ActivationCertificate, CertifiedPlanHasNoDowntime

(* And it is a plain store of texts to the application all the while.      *)
THEOREM SafeActivationImplementsFieldStore ==
  ASSUME SafeActivation
  PROVE  Spec => ImplementsFieldStore
  BY ActivationCertificate, CertifiedPlanImplementsFieldStore

-----------------------------------------------------------------------------
(* Binding contexts.                                                       *)

(* What SafeBinding says of one release and one cell, unfolded.            *)
LEMMA BindingRelease ==
  ASSUME SafeBinding, NEW n \in Releases, NEW c \in Cell, NEW bind \in BOOLEAN
  PROVE  LET ring == CellRing(n, c)
             options == Options(c, bind)
         IN /\ ring \in Ring /\ ring # NoRing
            /\ ring.keys[ring.activeVersion] \in Key
            /\ options.context = IF bind THEN ColumnContext[c] ELSE NoContext
            /\ options.context \in Context \cup {NoContext}
            /\ OptionsStatus(Plan[n].config, options) = "ok"
            /\ RingOf(Plan[n].config, ResolveNs(Plan[n].config, options)) = ring
<1>1. Keyed(n, c) /\ CellRing(n, c) # NoRing
  BY DEF SafeBinding, Keyed
<1>2. Options(c, bind).context = IF bind THEN ColumnContext[c] ELSE NoContext
  BY DEF Options
<1> QED
  BY <1>1, <1>2, KeyedRelease

(* The context of a cell is one.                                           *)
LEMMA CellContext ==
  ASSUME NEW c \in Cell
  PROVE  ColumnContext[c] \in Context /\ ColumnContext[c] # NoContext
  BY DeploymentAssumption, TokensAssumption

(* A row under a readable label is a row with one layer, the one named.    *)
LEMMA TokenRowType ==
  ASSUME SafeBinding, NEW n \in Releases, NEW c \in Cell,
         NEW version \in Readable(n, c), NEW context \in Context \cup {NoContext},
         NEW text \in Text \ {Empty, Null}
  PROVE  LET row == TokenRowOf(n, c, version, context, text)
             layer == [format |-> "token", version |-> version,
                       key |-> CellRing(n, c).keys[version],
                       aad |-> BuildAad(version, context)]
         IN /\ row = [value |-> Wrap(Plain(text), layer), text |-> text]
            /\ row \in Row
            /\ row.value \in Str /\ row.value \notin {Null, EmptyStr}
            /\ row.value.layers # << >>
            /\ Head(row.value.layers) = layer
            /\ Unwrap(row.value) = Plain(text)
            /\ layer.key # NoKey
<1> DEFINE ring == CellRing(n, c)
           layer == [format |-> "token", version |-> version,
                     key |-> ring.keys[version],
                     aad |-> BuildAad(version, context)]
           value == Wrap(Plain(text), layer)
<1>1. TokenRowOf(n, c, version, context, text) = [value |-> value, text |-> text]
  BY DEF TokenRowOf
<1>2. ring \in Ring
  BY BindingRelease
<1>3. version \in Version /\ ring.keys[version] \in Key /\ ring.keys[version] # NoKey
  BY <1>2 DEF Readable, Ring, KeysByVersion
<1>4. layer \in Layer
  BY <1>3 DEF Layer, BuildAad, Aad
<1>5. value \in Str
  BY <1>4, PlainType, WrapType
<1>6. value.layers # << >> /\ Head(value.layers) = layer /\ Unwrap(value) = Plain(text)
  BY WrapUnwrap
<1>7. value \notin {Null, EmptyStr}
  BY <1>5, <1>6, SealedFieldsAssumption DEF EmptyStr, Plain
<1> QED
  BY <1>1, <1>3, <1>5, <1>6, <1>7 DEF Row

(* It holds something.                                                     *)
LEMMA TokenRowFilled ==
  ASSUME SafeBinding, NEW n \in Releases, NEW c \in Cell,
         NEW context \in Context \cup {NoContext},
         NEW row \in TokenRowsOf(n, c, context)
  PROVE  row \in Row /\ row.value # Null /\ row.text \in Text \ {Empty, Null}
<1>1. PICK version \in Readable(n, c), text \in Text \ {Empty, Null} :
        row = TokenRowOf(n, c, version, context, text)
  BY DEF TokenRowsOf
<1>2. row \in Row /\ row.value # Null /\ row.text = text
  BY <1>1, TokenRowType DEF TokenRowOf
<1> QED
  BY <1>2

(* The ring opens it under its own context and no other.                   *)
LEMMA TokenRowOpens ==
  ASSUME SafeBinding, NEW n \in Releases, NEW c \in Cell,
         NEW version \in Readable(n, c), NEW context \in Context \cup {NoContext},
         NEW text \in Text \ {Empty, Null}, NEW onUnknownVersion, NEW given
  PROVE  LET value == TokenRowOf(n, c, version, context, text).value IN
         /\ ParseToken(value)
         /\ UnsealWithKeyring(value, CellRing(n, c), onUnknownVersion, given)
              = IF given = context THEN Ok(Plain(text)) ELSE Err("AuthFailure")
<1> DEFINE value == TokenRowOf(n, c, version, context, text).value
           ring == CellRing(n, c)
<1>1. /\ value.layers # << >> /\ Unwrap(value) = Plain(text)
      /\ Head(value.layers) = [format |-> "token", version |-> version,
                               key |-> ring.keys[version],
                               aad |-> BuildAad(version, context)]
      /\ ring.keys[version] # NoKey
  BY TokenRowType
<1> HIDE DEF value, ring
<1>2. Shape(value) = "token" /\ VersionLabel(value) = version
  BY <1>1 DEF Shape, VersionLabel
<1>3. BuildAad(version, context) = BuildAad(version, given) <=> given = context
  BY DEF BuildAad
<1>4. Authenticates(value, ring.keys[version], BuildAad(version, given)) <=> given = context
  BY <1>1, <1>3 DEF Authenticates
<1>5. UnsealWithKeyring(value, ring, onUnknownVersion, given)
        = IF given = context THEN Ok(Plain(text)) ELSE Err("AuthFailure")
  BY <1>1, <1>2, <1>4 DEF UnsealWithKeyring
<1> QED
  BY <1>2, <1>5 DEF ParseToken, value, ring

(* A release reads it under its context; unbound, under the fallback.      *)
LEMMA TokenRowReads ==
  ASSUME SafeBinding, NEW n \in Releases, NEW c \in Cell,
         NEW version \in Readable(n, c), NEW context \in Context \cup {NoContext},
         NEW text \in Text \ {Empty, Null}
  PROVE  LET read == ReadOutcome(n, c, TokenRowOf(n, c, version, context, text).value)
             given == Options(c, Plan[n].readContext).context
         IN /\ context = given => read = Ok(Plain(text))
            /\ (context = NoContext /\ Plan[n].readContext /\ Tolerates(n))
               => read = Noted(Plain(text), "unbound")
<1> DEFINE value == TokenRowOf(n, c, version, context, text).value
           config == Plan[n].config
           ring == CellRing(n, c)
           options == Options(c, Plan[n].readContext)
<1>1. Plan[n].readContext \in BOOLEAN
  BY PlanType
<1>2. /\ ring # NoRing /\ OptionsStatus(config, options) = "ok"
      /\ RingOf(config, ResolveNs(config, options)) = ring
      /\ options.context = IF Plan[n].readContext THEN ColumnContext[c] ELSE NoContext
  BY <1>1, BindingRelease
<1>3. value \notin {Null, EmptyStr} /\ ParseToken(value)
  BY TokenRowType, TokenRowOpens
<1>4. ReadOutcome(n, c, value) = UnsealToken(config, value, ring, options.context)
  BY <1>2, <1>3 DEF ReadOutcome, MaybeUnseal, Unseal
<1>5. \A given : UnsealWithKeyring(value, ring, config.onUnknownVersion, given)
                 = IF given = context THEN Ok(Plain(text)) ELSE Err("AuthFailure")
  BY TokenRowOpens
<1>6. /\ Ok(Plain(text)).status = "ok" /\ Ok(Plain(text)).value = Plain(text)
      /\ Err("AuthFailure").status = "AuthFailure"
  BY DEF Ok, Err, Outcome
<1>7. ASSUME context = options.context
      PROVE  ReadOutcome(n, c, value) = Ok(Plain(text))
  BY <1>4, <1>5, <1>6, <1>7 DEF UnsealToken
<1>8. ASSUME context = NoContext, Plan[n].readContext, Tolerates(n)
      PROVE  ReadOutcome(n, c, value) = Noted(Plain(text), "unbound")
  <2>1. options.context # NoContext /\ config.contextFallback
    BY <1>2, <1>8, CellContext DEF Tolerates
  <2>2. UnsealWithKeyring(value, ring, config.onUnknownVersion, options.context)
          = Err("AuthFailure")
    BY <1>5, <1>8, <2>1
  <2>3. UnsealWithKeyring(value, ring, config.onUnknownVersion, NoContext) = Ok(Plain(text))
    BY <1>5, <1>8
  <2> QED
    BY <1>4, <1>6, <2>1, <2>2, <2>3 DEF UnsealToken
<1> QED
  BY <1>7, <1>8

(* A legacy row a release decodes is a row; it reads, under a context as   *)
(* an unbound one.                                                         *)
LEMMA LegacyRowReads ==
  ASSUME SafeBinding, NEW n \in Releases, NEW c \in Cell, Tolerates(n),
         NEW format \in Plan[n].config.legacy, NEW key \in KeysOf(CellRing(n, c)),
         NEW text \in Text \ {Empty, Null}
  PROVE  LET row == LegacyRowOf(format, key, text) IN
         /\ row \in Row
         /\ row.value # Null
         /\ row.text = text
         /\ ReadOutcome(n, c, row.value)
              = IF Plan[n].readContext THEN Noted(Plain(text), "unbound") ELSE Ok(Plain(text))
<1> DEFINE config == Plan[n].config
           ring == CellRing(n, c)
           options == Options(c, Plan[n].readContext)
           layer == LegacyLayer(format, key)
           value == Wrap(Plain(text), layer)
<1>1. Plan[n].readContext \in BOOLEAN /\ config \in Config
  BY PlanType
<1>2. /\ ring \in Ring /\ ring # NoRing /\ OptionsStatus(config, options) = "ok"
      /\ RingOf(config, ResolveNs(config, options)) = ring
      /\ options.context = IF Plan[n].readContext THEN ColumnContext[c] ELSE NoContext
  BY <1>1, BindingRelease
<1>3. key \in Key
  BY <1>2 DEF KeysOf, Ring, KeysByVersion
<1>4. format \in {"iv-ct-tag", "v1-iv-tag-ct"}
  BY <1>1 DEF Config, LegacyFormats
<1>5. layer \in Layer
  BY <1>3, <1>4 DEF LegacyLayer, Layer, LegacyFormats, NoAad, BuildAad, Aad
<1>6. value \in Str
  BY <1>5, PlainType, WrapType
<1>7. value.layers # << >> /\ Head(value.layers) = layer /\ Unwrap(value) = Plain(text)
  BY WrapUnwrap
<1>8. value \notin {Null, EmptyStr}
  BY <1>6, <1>7, SealedFieldsAssumption DEF EmptyStr, Plain
<1>9. LegacyRowOf(format, key, text) = [value |-> value, text |-> text]
  BY DEF LegacyRowOf
<1>10. layer.format = format /\ layer.key = key /\ layer.aad = NoAad
  BY DEF LegacyLayer
<1> HIDE DEF value, layer
<1>11. Shape(value) = format
  BY <1>4, <1>7, <1>10, PlainType DEF Shape
<1>12. ~ ParseToken(value) /\ MatchesLegacy(value, config.legacy)
  BY <1>4, <1>11 DEF ParseToken, MatchesLegacy, MatchLegacy
<1>13. TryLegacyFormats(value, config.legacy, ring) = Ok(Plain(text))
  <2>1. MatchLegacy(value, format) /\ Authenticates(value, key, NoAad)
    BY <1>7, <1>10, <1>11 DEF MatchLegacy, Authenticates
  <2> QED
    BY <1>7, <2>1 DEF TryLegacyFormats
<1>14. ReadOutcome(n, c, value) = UnsealLegacy(config, value, ring, options.context)
  BY <1>2, <1>8, <1>12 DEF ReadOutcome, MaybeUnseal, Unseal
<1>15. Ok(Plain(text)).status = "ok" /\ Ok(Plain(text)).value = Plain(text)
  BY DEF Ok, Outcome
<1>16. CASE Plan[n].readContext
  <2>1. options.context # NoContext /\ config.contextFallback
    BY <1>2, <1>16, CellContext DEF Tolerates
  <2>2. ReadOutcome(n, c, value) = Noted(Plain(text), "unbound")
    BY <1>13, <1>14, <1>15, <2>1 DEF UnsealLegacy
  <2> QED
    BY <1>6, <1>8, <1>9, <1>16, <2>2 DEF Row
<1>17. CASE ~ Plan[n].readContext
  <2>1. options.context = NoContext
    BY <1>2, <1>17
  <2>2. ReadOutcome(n, c, value) = Ok(Plain(text))
    BY <1>13, <1>14, <2>1 DEF UnsealLegacy
  <2> QED
    BY <1>6, <1>8, <1>9, <1>17, <2>2 DEF Row
<1> QED
  BY <1>16, <1>17

(* A release writes a text as a row under its active label and context.    *)
LEMMA WritesTokenRow ==
  ASSUME SafeBinding, NEW n \in Releases, NEW c \in Cell,
         NEW text \in Text \ {Empty, Null}
  PROVE  LET row == TokenRowOf(n, c, Active(n, c),
                               Options(c, Plan[n].writeContext).context, text)
         IN /\ WriteOutcome(n, c, Plain(text)) = Ok(row.value)
            /\ row = [value |-> row.value, text |-> text]
            /\ row.value # Null
            /\ row \in WriterRows(n, c)
<1> DEFINE config == Plan[n].config
           options == Options(c, Plan[n].writeContext)
           ring == CellRing(n, c)
           row == TokenRowOf(n, c, Active(n, c), options.context, text)
<1>1. Plan[n].writeContext \in BOOLEAN
  BY PlanType
<1>2. /\ ring \in Ring /\ ring # NoRing
      /\ ring.keys[ring.activeVersion] \in Key
      /\ options.context \in Context \cup {NoContext}
      /\ OptionsStatus(config, options) = "ok"
      /\ RingOf(config, ResolveNs(config, options)) = ring
  BY <1>1, BindingRelease
<1>3. Active(n, c) \in Readable(n, c)
  BY <1>2, TokensAssumption DEF Active, Readable, Ring
<1>4. WriteOutcome(n, c, Plain(text)) = Seal(config, Plain(text), options)
  BY PlainType DEF WriteOutcome, MaybeSeal
<1>5. Seal(config, Plain(text), options)
        = Ok(SealWithKeyring(Plain(text), ring, options.context))
  BY <1>2 DEF Seal
<1>6. SealWithKeyring(Plain(text), ring, options.context) = row.value
  BY DEF SealWithKeyring, TokenLayer, TokenRowOf, Active
<1>7. row = [value |-> row.value, text |-> text]
  BY DEF TokenRowOf
<1>8. row \in WriterRows(n, c)
  BY <1>3 DEF WriterRows, TokenRowsOf
<1>9. row.value # Null
  BY <1>2, <1>8, TokenRowFilled DEF WriterRows
<1> QED
  BY <1>4, <1>5, <1>6, <1>7, <1>8, <1>9

(* A held row reads back; if it is bound it reads as bound.                *)
LEMMA HeldReads ==
  ASSUME SafeBinding, NEW n \in Releases, NEW c \in Cell,
         NEW row \in BindingHeld[n][c], row # NullRow
  PROVE  /\ row \in Row
         /\ row.value # Null
         /\ row.text \in Text \ {Empty, Null}
         /\ ReadOutcome(n, c, row.value).status = "ok"
         /\ ReadOutcome(n, c, row.value).value = Plain(row.text)
         /\ Plan[n].readContext /\ ~ ReadsUnbound(n, c, row.value)
            => row \in TokenRowsOf(n, c, ColumnContext[c])
<1> DEFINE bound == TokenRowsOf(n, c, ColumnContext[c])
           plain == TokenRowsOf(n, c, NoContext)
<1>1. \/ Plan[n].readContext /\ row \in bound
      \/ Tolerates(n) /\ row \in plain
      \/ Tolerates(n) /\ row \in LegacyRowsOf(n, c)
  BY DEF BindingHeld
<1>2. Plan[n].readContext \in BOOLEAN
  BY PlanType
<1>3. ColumnContext[c] \in Context \cup {NoContext}
  BY CellContext
<1>4. \A text : /\ Ok(Plain(text)).status = "ok" /\ Ok(Plain(text)).value = Plain(text)
                /\ Noted(Plain(text), "unbound").status = "ok"
                /\ Noted(Plain(text), "unbound").value = Plain(text)
                /\ Noted(Plain(text), "unbound").note = "unbound"
  BY DEF Ok, Noted, Outcome
<1>5. CASE Plan[n].readContext /\ row \in bound
  <2>1. PICK version \in Readable(n, c), text \in Text \ {Empty, Null} :
          row = TokenRowOf(n, c, version, ColumnContext[c], text)
    BY <1>5 DEF TokenRowsOf
  <2>2. row \in Row /\ row.value # Null /\ row.text = text
    BY <1>3, <2>1, TokenRowType DEF TokenRowOf
  <2>3. ReadOutcome(n, c, row.value) = Ok(Plain(text))
    BY <1>3, <1>5, <2>1, TokenRowReads DEF Options
  <2> QED
    BY <1>4, <1>5, <2>2, <2>3
<1>6. CASE Tolerates(n) /\ row \in plain
  <2>1. PICK version \in Readable(n, c), text \in Text \ {Empty, Null} :
          row = TokenRowOf(n, c, version, NoContext, text)
    BY <1>6 DEF TokenRowsOf
  <2>2. row \in Row /\ row.value # Null /\ row.text = text
    BY <2>1, TokenRowType DEF TokenRowOf
  <2>3. ReadOutcome(n, c, row.value)
          = IF Plan[n].readContext THEN Noted(Plain(text), "unbound") ELSE Ok(Plain(text))
    BY <1>2, <1>6, <2>1, TokenRowReads DEF Options
  <2> QED
    BY <1>4, <2>2, <2>3 DEF ReadsUnbound
<1>7. CASE Tolerates(n) /\ row \in LegacyRowsOf(n, c)
  <2>1. PICK format \in Plan[n].config.legacy, key \in KeysOf(CellRing(n, c)),
             text \in Text \ {Empty, Null} :
          row = LegacyRowOf(format, key, text)
    BY <1>7 DEF LegacyRowsOf
  <2>2. row \in Row /\ row.value # Null /\ row.text = text
    BY <1>7, <2>1, LegacyRowReads
  <2>3. ReadOutcome(n, c, row.value)
          = IF Plan[n].readContext THEN Noted(Plain(text), "unbound") ELSE Ok(Plain(text))
    BY <1>7, <2>1, LegacyRowReads
  <2> QED
    BY <1>4, <2>2, <2>3 DEF ReadsUnbound
<1> QED
  BY <1>1, <1>5, <1>6, <1>7

(* What a release that binds reads as bound is bound.                      *)
LEMMA BoundReads ==
  ASSUME SafeBinding, NEW n \in Releases, NEW c \in Cell, Plan[n].readContext,
         NEW row \in {NullRow} \cup TokenRowsOf(n, c, ColumnContext[c])
  PROVE  ~ ReadsUnbound(n, c, row.value)
<1>1. \A value : Ok(value).note # "unbound"
  BY DEF Ok, Outcome
<1>2. CASE row = NullRow
  BY <1>1, <1>2, ReadNull DEF NullRow, ReadsUnbound
<1>3. CASE row \in TokenRowsOf(n, c, ColumnContext[c])
  <2>1. PICK version \in Readable(n, c), text \in Text \ {Empty, Null} :
          row = TokenRowOf(n, c, version, ColumnContext[c], text)
    BY <1>3 DEF TokenRowsOf
  <2>2. ReadOutcome(n, c, row.value) = Ok(Plain(text))
    BY <2>1, CellContext, TokenRowReads DEF Options
  <2> QED
    BY <1>1, <2>2 DEF ReadsUnbound
<1> QED
  BY <1>2, <1>3

(* Whatever a release makes of a cell is null or as it writes.             *)
LEMMA FreshWritten ==
  ASSUME SafeBinding, NEW n \in Releases, NEW c \in Cell
  PROVE  Fresh(BindingHeld, n, c) \subseteq {NullRow} \cup WriterRows(n, c)
<1>1. ASSUME NEW text \in Text \cup {Null}
      PROVE  WrittenRow(n, c, text) \in {NullRow} \cup WriterRows(n, c)
  <2>1. CASE text \in {Empty, Null}
    <3>1. Value(text) \in {EmptyStr, Null}
      BY <2>1 DEF Value, EmptyStr
    <3>2. WriteOutcome(n, c, Value(text)).value = Null
      BY <3>1, WriteNothing DEF Ok, Outcome
    <3> QED
      BY <3>2 DEF WrittenRow, NullRow
  <2>2. CASE text \notin {Empty, Null}
    <3> DEFINE row == TokenRowOf(n, c, Active(n, c),
                                 Options(c, Plan[n].writeContext).context, text)
    <3>1. Value(text) = Plain(text)
      BY <2>2 DEF Value
    <3>2. WriteOutcome(n, c, Plain(text)) = Ok(row.value) /\ row.value # Null
          /\ row = [value |-> row.value, text |-> text] /\ row \in WriterRows(n, c)
      BY <2>2, WritesTokenRow
    <3> HIDE DEF row
    <3>3. WriteOutcome(n, c, Value(text)).value = row.value
      BY <3>1, <3>2 DEF Ok, Outcome
    <3>4. WrittenRow(n, c, text) = row
      BY <3>2, <3>3 DEF WrittenRow
    <3> QED
      BY <3>2, <3>4
  <2> QED
    BY <2>1, <2>2
<1>2. ASSUME NEW row \in BindingHeld[n][c], row.value # Null
      PROVE  ResealedRow(n, c, row) \in WriterRows(n, c)
  <2>1. row # NullRow
    BY <1>2 DEF NullRow
  <2>2. /\ row.text \in Text \ {Empty, Null}
        /\ ReadOutcome(n, c, row.value).status = "ok"
        /\ ReadOutcome(n, c, row.value).value = Plain(row.text)
    BY <2>1, HeldReads
  <2>3. Resealed(n, c, row.value) = WriteOutcome(n, c, Plain(row.text))
    BY <2>2 DEF Resealed
  <2> DEFINE fresh == TokenRowOf(n, c, Active(n, c),
                                 Options(c, Plan[n].writeContext).context, row.text)
  <2>4. WriteOutcome(n, c, Plain(row.text)) = Ok(fresh.value)
        /\ fresh = [value |-> fresh.value, text |-> row.text] /\ fresh \in WriterRows(n, c)
    BY <2>2, WritesTokenRow
  <2> HIDE DEF fresh
  <2>5. ResealedRow(n, c, row) = fresh
    BY <2>3, <2>4 DEF ResealedRow, Ok, Outcome
  <2> QED
    BY <2>4, <2>5
<1> QED
  BY <1>1, <1>2 DEF Fresh, WrittenRows, ResealedRows

(* The keys stay, so a row is the same row to the next release.            *)
LEMMA TokensAcross ==
  ASSUME SafeBinding, NEW n \in Releases, NEW c \in Cell, HasNext(n)
  PROVE  /\ CellRing(n + 1, c) = CellRing(n, c)
         /\ \A context : TokenRowsOf(n + 1, c, context) = TokenRowsOf(n, c, context)
<1>1. CellRing(n + 1, c) = CellRing(n, c)
  BY DEF SafeBinding
<1>2. Readable(n + 1, c) = Readable(n, c)
  BY <1>1 DEF Readable
<1>3. \A version, context, text :
        TokenRowOf(n + 1, c, version, context, text) = TokenRowOf(n, c, version, context, text)
  BY <1>1 DEF TokenRowOf
<1> QED
  BY <1>1, <1>2, <1>3 DEF TokenRowsOf

(* What a release writes it holds.                                         *)
LEMMA WriterHeld ==
  ASSUME SafeBinding, NEW n \in Releases, NEW c \in Cell
  PROVE  WriterRows(n, c) \subseteq BindingHeld[n][c]
<1>1. CASE Plan[n].writeContext
  <2>1. Plan[n].readContext
    BY <1>1 DEF SafeBinding
  <2> QED
    BY <1>1, <2>1 DEF WriterRows, Options, BindingHeld
<1>2. CASE ~ Plan[n].writeContext
  <2>1. Tolerates(n)
    BY <1>2 DEF SafeBinding
  <2> QED
    BY <1>2, <2>1 DEF WriterRows, Options, BindingHeld
<1> QED
  BY <1>1, <1>2

(* A release that keeps what is unbound holds all the one before it held.  *)
LEMMA KeepsHeld ==
  ASSUME SafeBinding, NEW n \in Releases, NEW c \in Cell, HasNext(n), KeepsUnbound(n)
  PROVE  BindingHeld[n][c] \subseteq BindingHeld[n + 1][c]
<1>1. n + 1 \in Releases
  BY DEF HasNext
<1>2. Plan[n].readContext => Plan[n + 1].readContext
  BY DEF SafeBinding
<1>3. Tolerates(n) => Tolerates(n + 1) /\ LegacyRowsOf(n, c) \subseteq LegacyRowsOf(n + 1, c)
  BY TokensAcross DEF KeepsUnbound, LegacyRowsOf
<1>4. ASSUME NEW row \in BindingHeld[n][c]
      PROVE  row \in BindingHeld[n + 1][c]
  <2>1. \/ row = NullRow
        \/ Tolerates(n) /\ row \in TokenRowsOf(n, c, NoContext) \cup LegacyRowsOf(n, c)
        \/ Plan[n].readContext /\ row \in TokenRowsOf(n, c, ColumnContext[c])
    BY DEF BindingHeld
  <2>2. \/ row = NullRow
        \/ /\ Tolerates(n + 1)
           /\ row \in TokenRowsOf(n + 1, c, NoContext) \cup LegacyRowsOf(n + 1, c)
        \/ Plan[n + 1].readContext /\ row \in TokenRowsOf(n + 1, c, ColumnContext[c])
    BY <1>2, <1>3, <2>1, TokensAcross
  <2> QED
    BY <1>1, <2>2 DEF BindingHeld
<1> QED
  BY <1>4

(* The rows of the writer before an upgrade are held by the one after it,  *)
(* and in a rolling upgrade the other way round.                           *)
LEMMA WriterHeldAcross ==
  ASSUME SafeBinding, NEW n \in Releases, NEW c \in Cell, HasNext(n)
  PROVE  /\ WriterRows(n, c) \subseteq BindingHeld[n + 1][c]
         /\ Plan[n + 1].rollout = "rolling"
            => WriterRows(n + 1, c) \subseteq BindingHeld[n][c]
<1>1. n + 1 \in Releases
  BY DEF HasNext
<1>2. WriterRows(n, c) \subseteq BindingHeld[n + 1][c]
  <2>1. CASE Plan[n].writeContext
    <3>1. Plan[n + 1].readContext
      BY <2>1 DEF SafeBinding
    <3> QED
      BY <1>1, <2>1, <3>1, TokensAcross DEF WriterRows, Options, BindingHeld
  <2>2. CASE ~ Plan[n].writeContext
    <3>1. KeepsUnbound(n)
      BY <2>2 DEF SafeBinding
    <3> QED
      BY <3>1, WriterHeld, KeepsHeld
  <2> QED
    BY <2>1, <2>2
<1>3. ASSUME Plan[n + 1].rollout = "rolling"
      PROVE  WriterRows(n + 1, c) \subseteq BindingHeld[n][c]
  <2>1. CASE Plan[n + 1].writeContext
    <3>1. Plan[n].readContext
      BY <1>3, <2>1 DEF SafeBinding
    <3> QED
      BY <2>1, <3>1, TokensAcross DEF WriterRows, Options, BindingHeld
  <2>2. CASE ~ Plan[n + 1].writeContext
    <3>1. Tolerates(n)
      BY <1>3, <2>2 DEF SafeBinding
    <3> QED
      BY <2>2, <3>1, TokensAcross DEF WriterRows, Options, BindingHeld
  <2> QED
    BY <2>1, <2>2
<1> QED
  BY <1>2, <1>3

(* What a release that binds reads without a count is held by the next.    *)
LEMMA CycleHeld ==
  ASSUME SafeBinding, NEW n \in Releases, NEW c \in Cell, HasNext(n),
         Plan[n].writeContext,
         NEW row \in BindingHeld[n][c], ~ ReadsUnbound(n, c, row.value)
  PROVE  row \in BindingHeld[n + 1][c]
<1>1. n + 1 \in Releases
  BY DEF HasNext
<1>2. Plan[n].readContext /\ Plan[n + 1].readContext
  BY DEF SafeBinding
<1>3. row = NullRow \/ row \in TokenRowsOf(n, c, ColumnContext[c])
  BY <1>2, HeldReads
<1> QED
  BY <1>1, <1>2, <1>3, TokensAcross DEF BindingHeld

(* A safe binding has a certificate.                                       *)
LEMMA BindingCertificate ==
  ASSUME SafeBinding
  PROVE  Certifies(BindingHeld)
<1>1. BindingHeld \in [Releases -> [Cell -> SUBSET Row]]
  <2>1. NullRow \in Row
    BY DEF NullRow, Row
  <2>2. \A n \in Releases, c \in Cell : BindingHeld[n][c] \subseteq Row
    BY <2>1, HeldReads
  <2> QED
    BY <2>2 DEF BindingHeld
<1>2. ASSUME NEW c \in Cell
      PROVE  InitialRows \cup {NullRow} \subseteq BindingHeld[1][c]
  <2>1. 1 \in Releases
    BY DeploymentAssumption DEF Releases
  <2>2. NullRow \in BindingHeld[1][c]
    BY <2>1 DEF BindingHeld
  <2> QED
    BY <2>2 DEF SafeBinding
<1>3. ASSUME NEW n \in Releases, NEW c \in Cell
      PROVE  /\ NullRow \in BindingHeld[n][c]
             /\ Fresh(BindingHeld, n, c) \subseteq BindingHeld[n][c]
  <2>1. NullRow \in BindingHeld[n][c]
    BY DEF BindingHeld
  <2> QED
    BY <2>1, FreshWritten, WriterHeld
<1>4. ASSUME NEW n \in Releases, NEW c \in Cell, NEW row \in BindingHeld[n][c]
      PROVE  ReadsBack(n, c, row.value, row.text)
  <2>1. CASE row = NullRow
    BY <2>1, ReadNull DEF NullRow, ReadsBack, Value, Ok, Outcome
  <2>2. CASE row # NullRow
    BY <2>2, HeldReads DEF ReadsBack, Value
  <2> QED
    BY <2>1, <2>2
<1>5. ASSUME NEW n \in Releases, NEW c \in Cell, HasNext(n)
      PROVE  /\ Passes(BindingHeld, n, c, Plan[n + 1].gate) \subseteq BindingHeld[n + 1][c]
             /\ Plan[n + 1].rollout = "rolling"
                => /\ Fresh(BindingHeld, n, c) \subseteq BindingHeld[n + 1][c]
                   /\ Fresh(BindingHeld, n + 1, c) \subseteq BindingHeld[n][c]
             /\ Plan[n + 1].gate = "readCycle"
                => \A row \in Fresh(BindingHeld, n, c) : ~ ReadsUnbound(n, c, row.value)
  <2>1. n + 1 \in Releases /\ Plan[n + 1].gate \in Gates
    BY <1>5, PlanType DEF HasNext, Release
  <2>2. Fresh(BindingHeld, n, c) \subseteq BindingHeld[n + 1][c]
    BY <1>3, <1>5, <2>1, FreshWritten, WriterHeldAcross
  <2>3. Plan[n + 1].rollout = "rolling"
        => Fresh(BindingHeld, n + 1, c) \subseteq BindingHeld[n][c]
    BY <1>3, <1>5, <2>1, FreshWritten, WriterHeldAcross
  <2>4. Plan[n + 1].gate = "open" => BindingHeld[n][c] \subseteq BindingHeld[n + 1][c]
    BY <1>5, KeepsHeld DEF SafeBinding
  <2>5. ASSUME Plan[n + 1].gate = "readCycle"
        PROVE  /\ Plan[n].writeContext
               /\ \A row \in BindingHeld[n][c] :
                    ~ ReadsUnbound(n, c, row.value) => row \in BindingHeld[n + 1][c]
    <3>1. Plan[n].writeContext
      BY <1>5, <2>5 DEF SafeBinding
    <3> QED
      BY <1>5, <3>1, CycleHeld
  <2>6. Passes(BindingHeld, n, c, Plan[n + 1].gate) \subseteq BindingHeld[n + 1][c]
    <3>1. CASE Plan[n + 1].gate = "open"
      BY <2>4, <3>1 DEF Passes
    <3>2. CASE Plan[n + 1].gate = "backfilled"
      BY <2>2, <3>2 DEF Passes
    <3>3. CASE Plan[n + 1].gate = "readCycle"
      BY <2>5, <3>3 DEF Passes
    <3> QED
      BY <2>1, <3>1, <3>2, <3>3 DEF Gates
  <2>7. ASSUME Plan[n + 1].gate = "readCycle", NEW row \in Fresh(BindingHeld, n, c)
        PROVE  ~ ReadsUnbound(n, c, row.value)
    <3>1. Plan[n].writeContext /\ Plan[n].readContext
      BY <2>5, <2>7 DEF SafeBinding
    <3>2. row \in {NullRow} \cup TokenRowsOf(n, c, ColumnContext[c])
      BY <2>7, <3>1, FreshWritten DEF WriterRows, Options
    <3> QED
      BY <3>1, <3>2, BoundReads
  <2> QED
    BY <2>2, <2>3, <2>6, <2>7
<1> QED
  BY <1>1, <1>2, <1>3, <1>4, <1>5 DEF Certifies

(* Binding contexts in steps that are safe has no downtime, however long   *)
(* the plan and whatever was stored before (README.md 80-91).              *)
THEOREM SafeBindingHasNoDowntime ==
  ASSUME SafeBinding
  PROVE  Spec => []NoDowntime
  BY BindingCertificate, CertifiedPlanHasNoDowntime

(* The application sees none of it: the fleet stays a plain store of texts. *)
THEOREM SafeBindingImplementsFieldStore ==
  ASSUME SafeBinding
  PROVE  Spec => ImplementsFieldStore
  BY BindingCertificate, CertifiedPlanImplementsFieldStore

(* The head of a bound row names the column it is in.                      *)
LEMMA BoundRowNames ==
  ASSUME SafeBinding, NEW n \in Releases, NEW c \in Cell,
         NEW row \in TokenRowsOf(n, c, ColumnContext[c])
  PROVE  Head(row.value.layers).aad.context = ColumnContext[c]
<1>1. PICK version \in Readable(n, c), text \in Text \ {Empty, Null} :
        row = TokenRowOf(n, c, version, ColumnContext[c], text)
  BY DEF TokenRowsOf
<1> DEFINE layer == [format |-> "token", version |-> version,
                     key |-> CellRing(n, c).keys[version],
                     aad |-> BuildAad(version, ColumnContext[c])]
<1>2. Head(row.value.layers) = layer
  BY <1>1, CellContext, TokenRowType
<1>3. layer.aad.context = ColumnContext[c]
  BY DEF BuildAad
<1> QED
  BY <1>2, <1>3

(* A full cycle without a count is conclusive: with no count since the     *)
(* last restart nothing in the settled fleet is unbound, though writers,   *)
(* readers and backfills ran meanwhile (README.md 89, index.ts 300-305).   *)
THEOREM ZeroAlwaysMeansBound ==
  ASSUME SafeBinding, FallbackEndsWithCycle
  PROVE  Spec => []ZeroMeansBound
<1>1. CertifiedInvariant(BindingHeld) => ZeroMeansBound
  <2> SUFFICES ASSUME CertifiedInvariant(BindingHeld),
                      Settled, Plan[target].writeContext, cycle = Cell, counted = {},
                      NEW c \in Cell, Ciphertext(cell[c])
               PROVE  Head(cell[c].layers).aad.context = ColumnContext[c]
    BY DEF ZeroMeansBound
  <2>1. target \in Releases /\ Current(c) \in BindingHeld[target][c]
    BY DEF CertifiedInvariant, TypeOK, RowsHeld
  <2>2. Current(c).value = cell[c]
    BY DEF Current
  <2>3. Current(c) # NullRow
    BY <2>2 DEF Ciphertext, NullRow
  <2>4. Plan[target].readContext
    BY <2>1 DEF SafeBinding
  <2>5. Current(c) \in TokenRowsOf(target, c, ColumnContext[c])
    <3>1. CASE Tolerates(target)
      <4>1. HasNext(target) /\ Plan[target + 1].gate = "readCycle"
        BY <2>1, <3>1 DEF FallbackEndsWithCycle
      <4>2. ~ ReadsUnbound(target, c, Current(c).value)
        BY <2>2, <4>1 DEF CertifiedInvariant, CycleBound
      <4> QED
        BY <2>1, <2>3, <2>4, <4>2, HeldReads
    <3>2. CASE ~ Tolerates(target)
      BY <2>1, <2>3, <3>2 DEF BindingHeld
    <3> QED
      BY <3>1, <3>2
  <2> QED
    BY <2>1, <2>2, <2>5, BoundRowNames
<1>2. Certifies(BindingHeld)
  BY BindingCertificate
<1>3. ASSUME NEW CONSTANT Held, Held = BindingHeld
      PROVE  Spec => []ZeroMeansBound
  <2>1. Certifies(Held) /\ (CertifiedInvariant(Held) => ZeroMeansBound)
    BY <1>1, <1>2, <1>3
  <2>2. Spec => []CertifiedInvariant(Held)
    BY <2>1, CertifiedPlanKeepsInvariant
  <2> QED
    BY <2>1, <2>2, PTL
<1> QED
  BY <1>3

(* The invariant of the certificate itself holds of every safe migration.  *)
THEOREM SafeBindingIsCertified ==
  ASSUME SafeBinding, FallbackEndsWithCycle
  PROVE  Spec => []CertifiedContexts
<1>1. ContextsCertified
  BY BindingCertificate DEF ContextsCertified
<1>2. ASSUME NEW CONSTANT Held, Held = BindingHeld
      PROVE  Spec => []CertifiedContexts
  <2>1. Certifies(Held) /\ (CertifiedInvariant(Held) => CertifiedContexts)
    BY <1>1, <1>2 DEF ContextsCertified, CertifiedContexts
  <2>2. Spec => []CertifiedInvariant(Held)
    BY <2>1, CertifiedPlanKeepsInvariant
  <2> QED
    BY <2>1, <2>2, PTL
<1> QED
  BY <1>2
=============================================================================
