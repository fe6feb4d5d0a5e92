-------------------------- MODULE DeploymentProofs --------------------------
(***************************************************************************)
(* Theorems about Deployment, for every plan, fleet and table.             *)
(***************************************************************************)
EXTENDS Certificates, LibraryLemmas

-----------------------------------------------------------------------------
(* Type correctness of the fleet.                                          *)

(* The parts of a release.                                                 *)
LEMMA PlanType ==
  ASSUME NEW n \in Releases
  PROVE  /\ Plan[n] \in Release
         /\ Plan[n].config \in Config
         /\ Plan[n].readContext \in BOOLEAN
         /\ Plan[n].writeContext \in BOOLEAN
<1>1. Plan[n] \in Release
  BY DeploymentAssumption DEF Releases
<1> QED
  BY <1>1 DEF Release

(* What the reads and writes of a release give.                            *)
LEMMA OutcomesOfRelease ==
  ASSUME NEW n \in Releases, NEW c \in Cell, NEW value \in Str \cup {Null}
  PROVE  /\ WriteOutcome(n, c, value).status \in Statuses
         /\ WriteOutcome(n, c, value).value \in Str \cup {Null}
         /\ ReadOutcome(n, c, value).status \in Statuses
         /\ ReadOutcome(n, c, value).value \in Str \cup {Null}
<1>1. \A bind \in BOOLEAN : Options(c, bind) \in SealOptions
  BY DeploymentAssumption DEF Options, SealOptions
<1> QED
  BY <1>1, PlanType, MaybeTypes DEF WriteOutcome, ReadOutcome

(* The plain value of a text or null can be stored.                        *)
LEMMA ValueType ==
  ASSUME NEW text \in Text \cup {Null}
  PROVE  Value(text) \in Str \cup {Null}
  BY DEF Value, Plain, Str

(* The backfill makes a column value out of a column value.                *)
LEMMA ResealedType ==
  ASSUME NEW n \in Releases, NEW c \in Cell, NEW old \in Str \cup {Null}
  PROVE  Resealed(n, c, old).value \in Str \cup {Null}
  BY OutcomesOfRelease DEF Resealed

(* The fleet starts type-correct.                                          *)
LEMMA InitType == Init => TypeOK
<1> SUFFICES ASSUME Init PROVE TypeOK
  OBVIOUS
<1>1. PICK row \in [Cell -> InitialRows \cup {NullRow}] :
        /\ cell = [c \in Cell |-> row[c].value]
        /\ written = [c \in Cell |-> row[c].text]
  BY DEF Init
<1>2. \A c \in Cell : row[c] \in Row
  BY <1>1, DeploymentAssumption DEF NullRow, Row
<1>3. cell \in [Cell -> Str \cup {Null}] /\ written \in [Cell -> Text \cup {Null}]
  BY <1>1, <1>2 DEF Row
<1>4. 1 \in Releases
  BY DeploymentAssumption DEF Releases
<1>5. 0 \in 0 .. MaxRestarts
  BY DeploymentAssumption
<1> QED
  BY <1>3, <1>4, <1>5 DEF Init, TypeOK

(* Every step keeps the types.                                             *)
LEMMA NextType == TypeOK /\ [Next]_vars => TypeOK'
<1> SUFFICES ASSUME TypeOK, [Next]_vars PROVE TypeOK'
  OBVIOUS
<1>1. ASSUME NEW p \in Proc, NEW c \in Cell, NEW text \in Text \cup {Null},
             Write(p, c, text)
      PROVE  TypeOK'
  <2> DEFINE outcome == WriteOutcome(phase[p], c, Value(text))
  <2>1. outcome.value \in Str \cup {Null}
    BY OutcomesOfRelease, ValueType DEF TypeOK
  <2>2. cell' \in [Cell -> Str \cup {Null}] /\ written' \in [Cell -> Text \cup {Null}]
    BY <1>1, <2>1 DEF Write, TypeOK
  <2> QED
    BY <1>1, <2>2 DEF Write, TypeOK
<1>2. ASSUME NEW p \in Proc, NEW c \in Cell, Read(p, c)
      PROVE  TypeOK'
  <2> DEFINE outcome == ReadOutcome(phase[p], c, cell[c])
  <2>1. outcome.status \in Statuses /\ outcome.value \in Str \cup {Null}
    BY OutcomesOfRelease DEF TypeOK
  <2>2. reply' \in Reply
    BY <1>2, <2>1 DEF Read, Reply
  <2>3. counted' \subseteq Proc /\ cycle' \subseteq Cell
    BY <1>2 DEF Read, Watch, TypeOK
  <2> QED
    BY <1>2, <2>2, <2>3 DEF Read, TypeOK
<1>3. ASSUME NEW p \in Proc, NEW c \in Cell, BackfillRead(p, c)
      PROVE  TypeOK'
  <2>1. CASE cell[c] = Null
    BY <1>3, <2>1 DEF BackfillRead, TypeOK
  <2>2. CASE cell[c] # Null
    <3>1. job' \in Job
      BY <1>3, <2>2 DEF BackfillRead, Job, TypeOK
    <3>2. counted' \subseteq Proc /\ cycle' \subseteq Cell
      BY <1>3, <2>2 DEF BackfillRead, Watch, TypeOK
    <3> QED
      BY <1>3, <2>2, <3>1, <3>2 DEF BackfillRead, TypeOK
  <2> QED
    BY <2>1, <2>2
<1>4. CASE BackfillWrite
  <2>1. job \in Job
    BY <1>4 DEF BackfillWrite, TypeOK
  <2>2. job.process \in Proc /\ job.cell \in Cell /\ job.old \in Str
    BY <2>1 DEF Job
  <2>3. Resealed(phase[job.process], job.cell, job.old).value \in Str \cup {Null}
    BY <2>2, ResealedType DEF TypeOK
  <2>4. cell' \in [Cell -> Str \cup {Null}] /\ swept' \subseteq Cell
    BY <1>4, <2>2, <2>3 DEF BackfillWrite, TypeOK
  <2> QED
    BY <1>4, <2>4 DEF BackfillWrite, TypeOK
<1>5. ASSUME NEW p \in Proc, Restart(p)
      PROVE  TypeOK'
  <2>1. restarts' \in 0 .. MaxRestarts
    BY <1>5, DeploymentAssumption DEF Restart, TypeOK
  <2> QED
    BY <1>5, <2>1 DEF Restart, ComesUp, TypeOK
<1>6. ASSUME NEW p \in Proc, Upgrade(p)
      PROVE  TypeOK'
  BY <1>6 DEF Upgrade, ComesUp, TypeOK
<1>7. CASE Ship
  <2>1. target' \in Releases
    BY <1>7, DeploymentAssumption DEF Ship, TypeOK, Releases
  <2>2. CASE Plan[target + 1].rollout = "flagDay"
    BY <1>7, <2>1, <2>2 DEF Ship, ComesUp, TypeOK
  <2>3. CASE Plan[target + 1].rollout # "flagDay"
    BY <1>7, <2>1, <2>3 DEF Ship, TypeOK
  <2> QED
    BY <2>2, <2>3
<1>8. CASE UNCHANGED vars
  BY <1>8 DEF vars, TypeOK
<1> QED
  BY <1>1, <1>2, <1>3, <1>4, <1>5, <1>6, <1>7, <1>8 DEF Next

(* Every variable of the fleet keeps its type under every plan: in         *)
(* particular a column only ever holds what seal makes out of a string,    *)
(* and what comes out of unseal is a string again.                         *)
THEOREM TypeCorrect == Spec => []TypeOK
<1>1. Init => TypeOK
  BY InitType
<1>2. TypeOK /\ [Next]_vars => TypeOK'
  BY NextType
<1> QED
  BY <1>1, <1>2, PTL DEF Spec

-----------------------------------------------------------------------------
(* A plan with a certificate migrates without downtime.                    *)

(* Null reads as null under every release.                                 *)
LEMMA ReadNull ==
  ASSUME NEW n, NEW c
  PROVE  ReadOutcome(n, c, Null) = Ok(Null)
  BY DEF ReadOutcome, MaybeUnseal

(* A held row with nothing in it stands for nothing.                       *)
LEMMA HeldNull ==
  ASSUME NEW Held, Certifies(Held), NEW n \in Releases, NEW c \in Cell,
         NEW row \in Held[n][c], row.value = Null
  PROVE  row = NullRow
<1>1. row \in Row /\ ReadsBack(n, c, row.value, row.text)
  BY DEF Certifies
<1>2. Value(row.text) = Null
  BY <1>1, ReadNull DEF ReadsBack, Ok, Outcome
<1>3. row.text = Null
  <2>1. CASE row.text = Null
    BY <2>1
  <2>2. CASE row.text # Null
    <3>1. row.text \in Text
      BY <1>1, <2>2 DEF Row
    <3>2. Plain(row.text) \in Str
      BY <3>1 DEF Plain, Str
    <3> QED
      BY <1>2, <2>2, <3>2, SealedFieldsAssumption DEF Value
  <2> QED
    BY <2>1, <2>2
<1> QED
  BY <1>1, <1>3 DEF Row, NullRow

(* What a serving release makes of a cell, every serving release reads.    *)
LEMMA HeldAcross ==
  ASSUME NEW Held, Certifies(Held), TypeOK, PhasesAdjacent,
         NEW p \in Proc, NEW c \in Cell
  PROVE  /\ Fresh(Held, phase[p], c) \subseteq Held[target][c]
         /\ \A q \in Proc : Fresh(Held, phase[p], c) \subseteq Held[phase[q]][c]
<1>1. target \in Releases /\ \A q \in Proc : phase[q] \in Releases
  BY DEF TypeOK
<1>2. \A n \in Releases : Fresh(Held, n, c) \subseteq Held[n][c]
  BY DEF Certifies
<1>3. ASSUME NEW q \in Proc, phase[q] = target - 1, Plan[target].rollout = "rolling"
      PROVE  /\ Fresh(Held, target - 1, c) \subseteq Held[target][c]
             /\ Fresh(Held, target, c) \subseteq Held[target - 1][c]
  <2>1. target - 1 \in Releases /\ (target - 1) + 1 = target
    BY <1>1, <1>3 DEF Releases
  <2>2. HasNext(target - 1) /\ Plan[(target - 1) + 1].rollout = "rolling"
    BY <1>1, <1>3, <2>1 DEF HasNext
  <2> QED
    BY <2>1, <2>2 DEF Certifies
<1>4. Fresh(Held, phase[p], c) \subseteq Held[target][c]
  BY <1>1, <1>2, <1>3 DEF PhasesAdjacent
<1>5. ASSUME NEW q \in Proc
      PROVE  Fresh(Held, phase[p], c) \subseteq Held[phase[q]][c]
  BY <1>1, <1>2, <1>3, <1>4 DEF PhasesAdjacent
<1> QED
  BY <1>4, <1>5

(* A release that is to be followed by a watched read cycle leaves nothing *)
(* that it would read unbound.                                             *)
LEMMA FreshNotUnbound ==
  ASSUME NEW Held, Certifies(Held), TypeOK, HasNext(target),
         Plan[target + 1].gate = "readCycle",
         NEW c \in Cell, NEW row \in Fresh(Held, target, c)
  PROVE  ~ ReadsUnbound(target, c, row.value)
  BY DEF Certifies, TypeOK

(* The certificate holds the rows the fleet starts from.                   *)
LEMMA InitCertified ==
  ASSUME NEW Held, Certifies(Held), Init
  PROVE  CertifiedInvariant(Held)
<1>1. TypeOK
  BY InitType
<1>2. PhasesAdjacent
  BY DEF Init, PhasesAdjacent
<1>3. RowsHeld(Held)
  <2>1. PICK row \in [Cell -> InitialRows \cup {NullRow}] :
          /\ cell = [c \in Cell |-> row[c].value]
          /\ written = [c \in Cell |-> row[c].text]
    BY DEF Init
  <2>2. ASSUME NEW c \in Cell
        PROVE  Current(c) = row[c]
    <3>1. row[c] \in Row
      BY <2>1, DeploymentAssumption DEF NullRow, Row
    <3> QED
      BY <2>1, <3>1 DEF Current, Row
  <2>3. \A c \in Cell : Current(c) \in Held[1][c]
    BY <2>1, <2>2 DEF Certifies
  <2> QED
    BY <2>3 DEF RowsHeld, Init
<1>4. SweptFresh(Held) /\ JobFresh(Held) /\ CycleBound(Held)
  BY DEF Init, SweptFresh, JobFresh, CycleBound
<1> QED
  BY <1>1, <1>2, <1>3, <1>4 DEF CertifiedInvariant

(* One cell gets a row that a serving release made; nothing else moves.    *)
LEMMA CellFreshened ==
  ASSUME NEW Held, Certifies(Held), CertifiedInvariant(Held),
         NEW p \in Proc, NEW c \in Cell,
         Current(c)' \in Fresh(Held, phase[p], c),
         \A d \in Cell \ {c} : Current(d)' = Current(d),
         UNCHANGED <<phase, target, counted, cycle>>
  PROVE  /\ PhasesAdjacent'
         /\ RowsHeld(Held)'
         /\ CycleBound(Held)'
<1>1. TypeOK /\ PhasesAdjacent
  BY DEF CertifiedInvariant
<1>2. PhasesAdjacent'
  BY <1>1 DEF PhasesAdjacent
<1>3. RowsHeld(Held)'
  <2>1. ASSUME NEW d \in Cell
        PROVE  /\ Current(d)' \in Held[target][d]
               /\ \A q \in Proc : Current(d)' \in Held[phase[q]][d]
    <3>1. CASE d = c
      BY <1>1, <3>1, HeldAcross
    <3>2. CASE d # c
      BY <3>2 DEF CertifiedInvariant, RowsHeld
    <3> QED
      BY <3>1, <3>2
  <2> QED
    BY <2>1 DEF RowsHeld
<1>4. CycleBound(Held)'
  <2> SUFFICES ASSUME Settled', HasNext(target), Plan[target + 1].gate = "readCycle",
                      counted = {}, NEW d \in cycle
               PROVE  ~ ReadsUnbound(target, d, cell'[d])
    BY DEF CycleBound
  <2>1. Settled /\ phase[p] = target
    BY DEF Settled
  <2>2. d \in Cell
    BY <1>1 DEF TypeOK
  <2>3. CASE d = c
    <3>1. ~ ReadsUnbound(target, c, Current(c)'.value)
      BY <1>1, <2>1, FreshNotUnbound
    <3> QED
      BY <2>3, <3>1 DEF Current
  <2>4. CASE d # c
    <3>1. cell'[d] = cell[d]
      BY <2>2, <2>4 DEF Current
    <3> QED
      BY <2>1, <3>1 DEF CertifiedInvariant, CycleBound
  <2> QED
    BY <2>3, <2>4
<1> QED
  BY <1>2, <1>3, <1>4

(* A write leaves a fresh row, held by every release that serves.          *)
LEMMA WriteCertified ==
  ASSUME NEW Held, Certifies(Held), CertifiedInvariant(Held), TypeOK',
         NEW p \in Proc, NEW c \in Cell, NEW text \in Text \cup {Null},
         Write(p, c, text)
  PROVE  CertifiedInvariant(Held)'
<1>1. TypeOK
  BY DEF CertifiedInvariant
<1>2. Current(c)' = WrittenRow(phase[p], c, text)
  BY <1>1 DEF Write, Current, WrittenRow, TypeOK
<1>3. WrittenRow(phase[p], c, text) \in WrittenRows(phase[p], c)
  BY DEF Write, WrittenRows
<1>4. Current(c)' \in Fresh(Held, phase[p], c)
  BY <1>2, <1>3 DEF Fresh
<1>5. \A d \in Cell \ {c} : Current(d)' = Current(d)
  BY <1>1 DEF Write, Current, TypeOK
<1>6. UNCHANGED <<phase, target, counted, cycle, swept, job>>
  BY DEF Write
<1>7. PhasesAdjacent' /\ RowsHeld(Held)' /\ CycleBound(Held)'
  BY <1>4, <1>5, <1>6, CellFreshened
<1>8. SweptFresh(Held)'
  <2> SUFFICES ASSUME NEW d \in swept
               PROVE  Settled' /\ Current(d)' \in Fresh(Held, target, d)
    BY <1>6 DEF SweptFresh
  <2>1. Settled /\ Current(d) \in Fresh(Held, target, d)
    BY DEF CertifiedInvariant, SweptFresh
  <2>2. Settled' /\ phase[p] = target /\ d \in Cell
    BY <1>1, <1>6, <2>1 DEF Settled, TypeOK
  <2> QED
    BY <1>4, <1>5, <2>1, <2>2
<1>9. JobFresh(Held)'
  <2> SUFFICES ASSUME job # NoJob, phase[job.process] = target,
                      NEW d \in Cell, d = job.cell
               PROVE  /\ Settled'
                      /\ cell'[d] = job.old \/ Current(d)' \in Fresh(Held, target, d)
    BY <1>1, <1>6 DEF JobFresh, TypeOK, Job
  <2>1. /\ Settled
        /\ cell[d] = job.old \/ Current(d) \in Fresh(Held, target, d)
    BY DEF CertifiedInvariant, JobFresh
  <2>2. Settled' /\ phase[p] = target
    BY <1>6, <2>1 DEF Settled
  <2>3. CASE d = c
    BY <1>4, <2>2, <2>3
  <2>4. CASE d # c
    <3>1. Current(d)' = Current(d) /\ cell'[d] = cell[d]
      BY <1>5, <2>4 DEF Current
    <3> QED
      BY <2>1, <2>2, <3>1
  <2> QED
    BY <2>3, <2>4
<1> QED
  BY <1>7, <1>8, <1>9 DEF CertifiedInvariant

(* Reads, the application's and the backfill's, only move the bookkeeping. *)
LEMMA WatchCertified ==
  ASSUME NEW Held, CertifiedInvariant(Held), NEW p \in Proc, NEW c \in Cell,
         Watch(p, c, ReadOutcome(phase[p], c, cell[c])),
         UNCHANGED <<cell, phase, target>>
  PROVE  CycleBound(Held)'
<1> SUFFICES ASSUME Settled', HasNext(target), Plan[target + 1].gate = "readCycle",
                    counted' = {}, NEW d \in cycle'
             PROVE  ~ ReadsUnbound(target, d, cell[d])
  BY DEF CycleBound
<1>1. Settled /\ phase[p] = target
  BY DEF Settled
<1>2. counted = {} /\ ReadOutcome(target, c, cell[c]).note # "unbound"
  BY <1>1 DEF Watch
<1>3. CASE d = c
  BY <1>2, <1>3 DEF ReadsUnbound
<1>4. CASE d # c
  <2>1. d \in cycle
    BY <1>4 DEF Watch
  <2> QED
    BY <1>1, <1>2, <2>1 DEF CertifiedInvariant, CycleBound
<1> QED
  BY <1>3, <1>4

(* A read moves no row; it may count, and mark the cell as read.           *)
LEMMA ReadCertified ==
  ASSUME NEW Held, CertifiedInvariant(Held), TypeOK',
         NEW p \in Proc, NEW c \in Cell, Read(p, c)
  PROVE  CertifiedInvariant(Held)'
<1>1. CycleBound(Held)'
  BY WatchCertified DEF Read
<1>2. UNCHANGED <<cell, written, phase, target, swept, job>>
  BY DEF Read
<1>3. /\ PhasesAdjacent' /\ RowsHeld(Held)'
      /\ SweptFresh(Held)' /\ JobFresh(Held)'
  BY <1>2 DEF CertifiedInvariant, PhasesAdjacent, RowsHeld, SweptFresh, JobFresh,
              Settled, Current
<1> QED
  BY <1>1, <1>3 DEF CertifiedInvariant

(* A row is taken in hand only while the fleet is settled.                 *)
LEMMA BackfillReadCertified ==
  ASSUME NEW Held, Certifies(Held), CertifiedInvariant(Held), TypeOK',
         NEW p \in Proc, NEW c \in Cell, BackfillRead(p, c)
  PROVE  CertifiedInvariant(Held)'
<1>1. Settled /\ UNCHANGED <<cell, written, phase, target>>
  BY DEF BackfillRead
<1>2. PhasesAdjacent' /\ RowsHeld(Held)' /\ Settled'
  BY <1>1 DEF CertifiedInvariant, PhasesAdjacent, RowsHeld, Settled, Current
<1>3. CASE cell[c] = Null
  <2>1. UNCHANGED <<job, counted, cycle>> /\ job = NoJob /\ swept' = swept \cup {c}
    BY <1>3 DEF BackfillRead
  <2>2. Current(c) \in Held[target][c] /\ target \in Releases
    BY DEF CertifiedInvariant, RowsHeld, TypeOK
  <2>3. Current(c) = NullRow
    BY <1>3, <2>2, HeldNull DEF Current
  <2>4. SweptFresh(Held)'
    <3> SUFFICES ASSUME NEW d \in swept'
                 PROVE  Current(d) \in Fresh(Held, target, d)
      BY <1>1, <1>2 DEF SweptFresh, Current
    <3> QED
      BY <2>1, <2>3 DEF Fresh, CertifiedInvariant, SweptFresh
  <2>5. JobFresh(Held)' /\ CycleBound(Held)'
    BY <1>1, <2>1 DEF CertifiedInvariant, JobFresh, CycleBound, Settled
  <2> QED
    BY <1>2, <2>4, <2>5 DEF CertifiedInvariant
<1>4. CASE cell[c] # Null
  <2>1. /\ job' = [process |-> p, cell |-> c, old |-> cell[c]]
        /\ Watch(p, c, ReadOutcome(phase[p], c, cell[c]))
        /\ UNCHANGED swept
    BY <1>4 DEF BackfillRead
  <2>2. CycleBound(Held)'
    BY <1>1, <2>1, WatchCertified
  <2>3. SweptFresh(Held)'
    BY <1>1, <1>2, <2>1 DEF CertifiedInvariant, SweptFresh, Current
  <2>4. JobFresh(Held)'
    BY <1>1, <1>2, <2>1 DEF JobFresh
  <2> QED
    BY <1>2, <2>2, <2>3, <2>4 DEF CertifiedInvariant
<1> QED
  BY <1>3, <1>4

(* A swap leaves a fresh row; a lost one means somebody else wrote one.    *)
LEMMA BackfillWriteCertified ==
  ASSUME NEW Held, Certifies(Held), CertifiedInvariant(Held), TypeOK',
         BackfillWrite
  PROVE  CertifiedInvariant(Held)'
<1>1. TypeOK /\ job # NoJob
  BY DEF CertifiedInvariant, BackfillWrite
<1>2. PICK p \in Proc, c \in Cell, old \in Str :
        job = [process |-> p, cell |-> c, old |-> old]
  BY <1>1 DEF TypeOK, Job
<1> DEFINE n == phase[p]
           outcome == Resealed(n, c, old)
           swapped == outcome.status = "ok" /\ cell[c] = old
<1>3. /\ cell' = IF swapped THEN [cell EXCEPT ![c] = outcome.value] ELSE cell
      /\ swept' = IF n = target /\ (swapped \/ cell[c] # old)
                  THEN swept \cup {c} ELSE swept
      /\ job' = NoJob
      /\ UNCHANGED <<written, phase, target, counted, cycle>>
  BY <1>2 DEF BackfillWrite
<1>4. JobFresh(Held)'
  BY <1>3 DEF JobFresh
<1>5. n = target => Settled
  BY <1>1, <1>2 DEF CertifiedInvariant, JobFresh
<1>6. \A d \in Cell \ {c} : Current(d)' = Current(d)
  BY <1>1, <1>3 DEF Current, TypeOK
<1>7. CASE swapped
  <2>1. Current(c) \in Held[n][c] /\ Current(c).value = old
    BY <1>2, <1>7 DEF CertifiedInvariant, RowsHeld, Current
  <2>2. Current(c)' = ResealedRow(n, c, Current(c))
    BY <1>1, <1>2, <1>3, <1>7 DEF ResealedRow, Current, TypeOK
  <2>3. old # Null
    BY <1>2, SealedFieldsAssumption
  <2>4. Current(c)' \in Fresh(Held, n, c)
    BY <1>7, <2>1, <2>2, <2>3 DEF ResealedRows, Fresh
  <2>5. PhasesAdjacent' /\ RowsHeld(Held)' /\ CycleBound(Held)'
    BY <1>2, <1>3, <1>6, <2>4, CellFreshened
  <2>6. SweptFresh(Held)'
    <3> SUFFICES ASSUME NEW d \in swept'
                 PROVE  Settled /\ Current(d)' \in Fresh(Held, target, d)
      BY <1>3 DEF SweptFresh, Settled
    <3>1. Settled
      BY <1>3, <1>5 DEF CertifiedInvariant, SweptFresh
    <3>2. n = target /\ d \in Cell
      BY <1>1, <1>2, <1>3, <3>1 DEF Settled, TypeOK
    <3>3. CASE d = c
      BY <2>4, <3>1, <3>2, <3>3
    <3>4. CASE d # c
      <4>1. d \in swept
        BY <1>3, <3>4
      <4>2. Current(d)' = Current(d)
        BY <1>6, <3>2, <3>4
      <4> QED
        BY <3>1, <4>1, <4>2 DEF CertifiedInvariant, SweptFresh
    <3> QED
      BY <3>1, <3>3, <3>4
  <2> QED
    BY <1>4, <2>5, <2>6 DEF CertifiedInvariant
<1>8. CASE ~ swapped
  <2>1. UNCHANGED <<cell, written, phase, target, counted, cycle>>
    BY <1>3, <1>8
  <2>2. PhasesAdjacent' /\ RowsHeld(Held)' /\ CycleBound(Held)'
    BY <2>1 DEF CertifiedInvariant, PhasesAdjacent, RowsHeld, CycleBound, Settled, Current
  <2>3. SweptFresh(Held)'
    <3> SUFFICES ASSUME NEW d \in swept'
                 PROVE  Settled /\ Current(d) \in Fresh(Held, target, d)
      BY <2>1 DEF SweptFresh, Settled, Current
    <3>1. CASE d \in swept
      BY <3>1 DEF CertifiedInvariant, SweptFresh
    <3>2. CASE d \notin swept
      <4>1. d = c /\ n = target /\ cell[c] # old
        BY <1>3, <1>8, <3>2
      <4> QED
        BY <1>1, <1>2, <4>1 DEF CertifiedInvariant, JobFresh
    <3> QED
      BY <3>1, <3>2
  <2> QED
    BY <1>4, <2>2, <2>3 DEF CertifiedInvariant
<1> QED
  BY <1>7, <1>8

(* A process that goes down takes its row in hand and the watch with it.   *)
LEMMA ComesUpCertified ==
  ASSUME NEW Held, NEW procs, ComesUp(procs)
  PROVE  /\ CycleBound(Held)'
         /\ job' = NoJob \/ (job' = job /\ job.process \notin procs)
  BY DEF ComesUp, CycleBound

(* A restart voids the read cycle and loses the row in hand.               *)
LEMMA RestartCertified ==
  ASSUME NEW Held, CertifiedInvariant(Held), TypeOK', NEW p \in Proc, Restart(p)
  PROVE  CertifiedInvariant(Held)'
<1>1. UNCHANGED <<cell, written, phase, target, swept>> /\ ComesUp({p})
  BY DEF Restart
<1>2. PhasesAdjacent' /\ RowsHeld(Held)' /\ SweptFresh(Held)'
  BY <1>1 DEF CertifiedInvariant, PhasesAdjacent, RowsHeld, SweptFresh, Settled, Current
<1>3. JobFresh(Held)'
  <2>1. CASE job' = NoJob
    BY <2>1 DEF JobFresh
  <2>2. CASE job' = job
    BY <1>1, <2>2 DEF CertifiedInvariant, JobFresh, Settled, Current
  <2> QED
    BY <1>1, <2>1, <2>2, ComesUpCertified
<1> QED
  BY <1>1, <1>2, <1>3, ComesUpCertified DEF CertifiedInvariant

(* An upgraded process reads what the release being shipped reads.         *)
LEMMA UpgradeCertified ==
  ASSUME NEW Held, CertifiedInvariant(Held), TypeOK', NEW p \in Proc, Upgrade(p)
  PROVE  CertifiedInvariant(Held)'
<1>1. /\ UNCHANGED <<cell, written, target, swept>> /\ ComesUp({p})
      /\ phase[p] < target
      /\ phase' = [phase EXCEPT ![p] = target]
  BY DEF Upgrade
<1>2. TypeOK
  BY DEF CertifiedInvariant
<1>3. ~ Settled
  BY <1>1, <1>2 DEF Settled, TypeOK, Releases
<1>4. \A q \in Proc : phase'[q] \in {target, phase[q]}
  BY <1>1, <1>2 DEF TypeOK
<1>5. PhasesAdjacent'
  BY <1>1, <1>4 DEF CertifiedInvariant, PhasesAdjacent
<1>6. RowsHeld(Held)'
  BY <1>1, <1>4 DEF CertifiedInvariant, RowsHeld, Current
<1>7. SweptFresh(Held)'
  BY <1>1, <1>3 DEF CertifiedInvariant, SweptFresh
<1>8. JobFresh(Held)'
  <2>1. CASE job' = NoJob
    BY <2>1 DEF JobFresh
  <2>2. CASE job' = job /\ job # NoJob /\ job.process # p
    <3>1. job.process \in Proc
      BY <1>2, <2>2 DEF TypeOK, Job
    <3>2. phase'[job.process] = phase[job.process]
      BY <1>1, <1>2, <2>2, <3>1 DEF TypeOK
    <3>3. phase[job.process] # target
      BY <1>3, <2>2 DEF CertifiedInvariant, JobFresh
    <3> QED
      BY <1>1, <2>2, <3>2, <3>3 DEF JobFresh
  <2> QED
    BY <1>1, <2>1, <2>2, ComesUpCertified
<1> QED
  BY <1>1, <1>5, <1>6, <1>7, <1>8, ComesUpCertified DEF CertifiedInvariant

(* The gate lets only rows through that the next release holds.            *)
LEMMA ShipCertified ==
  ASSUME NEW Held, Certifies(Held), CertifiedInvariant(Held), TypeOK', Ship
  PROVE  CertifiedInvariant(Held)'
<1> DEFINE gate == Plan[target + 1].gate
<1>1. /\ TypeOK /\ Settled /\ GateOpen(gate)
      /\ target' = target + 1 /\ swept' = {} /\ cycle' = {}
      /\ UNCHANGED <<cell, written>>
  BY DEF CertifiedInvariant, Ship, ComesUp
<1>2. /\ target \in Releases /\ target + 1 \in Releases /\ HasNext(target)
      /\ Plan[target + 1] \in Release
  BY <1>1, DeploymentAssumption DEF TypeOK, HasNext, Releases
<1>3. \/ Plan[target + 1].rollout = "flagDay" /\ phase' = [p \in Proc |-> target + 1]
         /\ ComesUp(Proc)
      \/ Plan[target + 1].rollout = "rolling" /\ UNCHANGED <<phase, job>>
  BY <1>2 DEF Ship, Release
<1>4. PhasesAdjacent'
  BY <1>1, <1>2, <1>3 DEF PhasesAdjacent, Settled, Releases
<1>5. ASSUME NEW c \in Cell
      PROVE  Current(c) \in Held[target][c] /\ Current(c) \in Held[target + 1][c]
  <2>1. Current(c) \in Held[target][c]
    BY DEF CertifiedInvariant, RowsHeld
  <2>2. Passes(Held, target, c, gate) \subseteq Held[target + 1][c]
    BY <1>2 DEF Certifies
  <2>3. CASE gate = "open"
    BY <2>1, <2>2, <2>3 DEF Passes
  <2>4. CASE gate = "backfilled"
    <3>1. swept = Cell
      BY <1>1, <2>4 DEF GateOpen
    <3>2. Current(c) \in Fresh(Held, target, c)
      BY <3>1 DEF CertifiedInvariant, SweptFresh
    <3> QED
      BY <2>1, <2>2, <2>4, <3>2 DEF Passes
  <2>5. CASE gate = "readCycle"
    <3>1. cycle = Cell /\ counted = {}
      BY <1>1, <2>5 DEF GateOpen
    <3>2. ~ ReadsUnbound(target, c, cell[c])
      BY <1>1, <1>2, <2>5, <3>1 DEF CertifiedInvariant, CycleBound
    <3>3. ~ ReadsUnbound(target, c, Current(c).value)
      BY <3>2 DEF Current
    <3>4. Current(c) \in Passes(Held, target, c, gate)
      BY <2>1, <2>5, <3>3 DEF Passes
    <3> QED
      BY <2>1, <2>2, <3>4
  <2> QED
    BY <1>2, <2>3, <2>4, <2>5 DEF Release, Gates
<1>6. RowsHeld(Held)'
  <2>1. \A p \in Proc : phase'[p] \in {target, target + 1}
    BY <1>1, <1>3 DEF Settled
  <2>2. \A c \in Cell : Current(c)' = Current(c)
    BY <1>1 DEF Current
  <2> QED
    BY <1>1, <1>5, <2>1, <2>2 DEF RowsHeld
<1>7. SweptFresh(Held)' /\ CycleBound(Held)'
  BY <1>1 DEF SweptFresh, CycleBound
<1>8. JobFresh(Held)'
  <2>1. CASE job' = NoJob
    BY <2>1 DEF JobFresh
  <2>2. CASE job' # NoJob
    <3>1. job' \in Job
      BY <2>2 DEF TypeOK
    <3>2. job'.process \in Proc
      BY <3>1 DEF Job
    <3>3. UNCHANGED <<phase, job>>
      BY <1>1, <1>3, <2>2, <3>2, ComesUpCertified
    <3>4. phase'[job'.process] = target
      BY <1>1, <3>2, <3>3 DEF Settled
    <3>5. phase'[job'.process] # target'
      BY <1>1, <1>2, <3>4 DEF Releases
    <3> QED
      BY <3>5 DEF JobFresh
  <2> QED
    BY <2>1, <2>2
<1> QED
  BY <1>4, <1>6, <1>7, <1>8 DEF CertifiedInvariant

(* Nothing changes in a stuttering step.                                   *)
LEMMA StutterCertified ==
  ASSUME NEW Held, CertifiedInvariant(Held), UNCHANGED vars
  PROVE  CertifiedInvariant(Held)'
  BY DEF vars, CertifiedInvariant, TypeOK, PhasesAdjacent, RowsHeld, SweptFresh,
         JobFresh, CycleBound, Settled, Current

(* Every step keeps the invariant of a certificate.                        *)
LEMMA NextCertified ==
  ASSUME NEW Held, Certifies(Held), CertifiedInvariant(Held), [Next]_vars
  PROVE  CertifiedInvariant(Held)'
<1>1. TypeOK'
  BY NextType DEF CertifiedInvariant
<1> QED
  BY <1>1, WriteCertified, ReadCertified, BackfillReadCertified, BackfillWriteCertified,
     RestartCertified, UpgradeCertified, ShipCertified, StutterCertified DEF Next

(* The invariant of a certificate, for every plan, fleet and table.        *)
THEOREM CertifiedPlanKeepsInvariant ==
  ASSUME NEW CONSTANT Held, Certifies(Held)
  PROVE  Spec => []CertifiedInvariant(Held)
<1>1. Init => CertifiedInvariant(Held)
  BY InitCertified
<1>2. CertifiedInvariant(Held) /\ [Next]_vars => CertifiedInvariant(Held)'
  BY NextCertified
<1> QED
  BY <1>1, <1>2, PTL DEF Spec

(* A held row reads back in every release that serves.                     *)
LEMMA CertifiedReads ==
  ASSUME NEW Held, Certifies(Held), CertifiedInvariant(Held),
         NEW p \in Proc, NEW c \in Cell
  PROVE  ReadsBack(phase[p], c, cell[c], written[c])
<1>1. Current(c) \in Held[phase[p]][c] /\ phase[p] \in Releases
  BY DEF CertifiedInvariant, RowsHeld, TypeOK
<1>2. ReadsBack(phase[p], c, Current(c).value, Current(c).text)
  BY <1>1 DEF Certifies
<1> QED
  BY <1>2 DEF Current

(* A plan that has a certificate never takes a reader down: whatever is    *)
(* written, backfilled, restarted and upgraded in whatever order, every    *)
(* process reads every cell as the text it was last written with.          *)
THEOREM CertifiedPlanHasNoDowntime ==
  ASSUME NEW CONSTANT Held, Certifies(Held)
  PROVE  Spec => []NoDowntime
<1>1. CertifiedInvariant(Held) => NoDowntime
  BY CertifiedReads DEF NoDowntime
<1>2. Spec => []CertifiedInvariant(Held)
  BY CertifiedPlanKeepsInvariant
<1> QED
  BY <1>1, <1>2, PTL

-----------------------------------------------------------------------------
(* Refinement.                                                             *)

(* The fleet starts as a plain store.                                      *)
LEMMA InitRefines == Init => Store!Init
<1> SUFFICES ASSUME Init PROVE Store!Init
  OBVIOUS
<1>1. TypeOK
  BY InitType
<1>2. \A c \in Cell : Value(written[c]) \in Contents
  BY <1>1 DEF TypeOK, Contents
<1> QED
  BY <1>2 DEF Init, Store!Init

(* Writes are writes, the application's reads are reads, and everything    *)
(* the operator does is invisible.                                         *)
LEMMA NextRefines ==
  ASSUME NEW Held, Certifies(Held), CertifiedInvariant(Held), [Next]_vars
  PROVE  [Store!Next]_<<[c \in Cell |-> Value(written[c])], reply>>
<1>1. TypeOK
  BY DEF CertifiedInvariant
<1>2. ASSUME NEW p \in Proc, NEW c \in Cell, NEW text \in Text \cup {Null},
             Write(p, c, text)
      PROVE  Store!Next
  <2>1. PICK stored \in Text \cup {Null} :
          written' = [written EXCEPT ![c] = stored] /\ reply' = NoReply
    BY <1>2 DEF Write
  <2>2. Value(stored) \in Contents
    BY DEF Contents
  <2>3. [d \in Cell |-> Value(written'[d])]
          = [[d \in Cell |-> Value(written[d])] EXCEPT ![c] = Value(stored)]
    BY <1>1, <2>1 DEF TypeOK
  <2>4. Store!Write(c, Value(stored))
    BY <2>1, <2>3 DEF Store!Write
  <2> QED
    BY <2>2, <2>4 DEF Store!Next
<1>3. ASSUME NEW p \in Proc, NEW c \in Cell, Read(p, c)
      PROVE  Store!Next
  <2>1. /\ ReadOutcome(phase[p], c, cell[c]).status = "ok"
        /\ ReadOutcome(phase[p], c, cell[c]).value = Value(written[c])
    BY CertifiedReads DEF ReadsBack
  <2>2. reply' = [cell |-> c, content |-> Value(written[c])] /\ UNCHANGED written
    BY <1>3, <2>1 DEF Read
  <2>3. Store!Read(c)
    BY <2>2 DEF Store!Read
  <2> QED
    BY <2>3 DEF Store!Next
<1>4. ASSUME NEW p \in Proc, NEW c \in Cell, BackfillRead(p, c)
      PROVE  UNCHANGED <<written, reply>>
  BY <1>4 DEF BackfillRead
<1>5. CASE BackfillWrite
  BY <1>5 DEF BackfillWrite
<1>6. ASSUME NEW p \in Proc, Restart(p)
      PROVE  UNCHANGED <<written, reply>>
  BY <1>6 DEF Restart
<1>7. ASSUME NEW p \in Proc, Upgrade(p)
      PROVE  UNCHANGED <<written, reply>>
  BY <1>7 DEF Upgrade
<1>8. CASE Ship
  BY <1>8 DEF Ship
<1>9. CASE UNCHANGED vars
  BY <1>9 DEF vars
<1> QED
  BY <1>2, <1>3, <1>4, <1>5, <1>6, <1>7, <1>8, <1>9 DEF Next

(* To the application, a fleet on a certified plan is a plain store of     *)
(* texts in the clear: what a read hands out is the text itself, with no   *)
(* layer left on it, so no key, no token and no release ever shows.        *)
THEOREM CertifiedPlanImplementsFieldStore ==
  ASSUME NEW CONSTANT Held, Certifies(Held)
  PROVE  Spec => ImplementsFieldStore
<1>1. Init => Store!Init
  BY InitRefines
<1>2. CertifiedInvariant(Held) /\ [Next]_vars
        => [Store!Next]_<<[c \in Cell |-> Value(written[c])], reply>>
  BY NextRefines
<1>3. Spec => []CertifiedInvariant(Held)
  BY CertifiedPlanKeepsInvariant
<1> QED
  BY <1>1, <1>2, <1>3, PTL DEF Spec, ImplementsFieldStore, Store!Spec
=============================================================================
