----------------------------- MODULE Deployment -----------------------------
(***************************************************************************)
(* A fleet of processes that share one database and are taken, release by  *)
(* release, through a migration: a key rotation, the binding of contexts,  *)
(* the provisioning of a first key.  The library is src/index.ts (module   *)
(* SealedFields); the fleet, the operator and the backfill script are what *)
(* README.md and docs/design/context-binding.md tell its users to run.     *)
(*                                                                         *)
(* A release is a configuration together with the contexts the application *)
(* code passes on reads and on writes, the condition (gate) the operator   *)
(* waits for before shipping it, and how it is shipped: "rolling" upgrades *)
(* one process after the other while the others serve, "flagDay" stops and *)
(* starts all of them.                                                     *)
(*                                                                         *)
(* Of the bookkeeping of an instance only whether stats().unboundReads is  *)
(* above zero is kept: nothing here depends on more.                       *)
(***************************************************************************)
EXTENDS SealedFields

CONSTANTS
  Proc,           \* application processes, an instance in each
  Cell,           \* columns of rows
  ColumnNs,       \* the namespace the application names for a cell
  ColumnContext,  \* the context it binds a cell to
  Plan,           \* the releases, in order
  InitialRows,    \* what a cell may hold at the start, and what it stands for
  MaxRestarts,    \* bound: restarts in a behaviour
  NoJob,          \* the backfill script has no row in hand
  NoReply         \* no read answered since the last write

Gates == {"open", "backfilled", "readCycle"}

Release == [config : Config, readContext : BOOLEAN, writeContext : BOOLEAN,
            gate : Gates, rollout : {"rolling", "flagDay"}]

(* A stored value and the text it stands for.                              *)
Row == [value : Str \cup {Null}, text : Text \cup {Null}]

NullRow == [value |-> Null, text |-> Null]

Releases == 1 .. Len(Plan)

Job == [process : Proc, cell : Cell, old : Str]

(* What a read hands to the application, layers and all, or its error.     *)
Reply == [cell : Cell, content : Str \cup {Null}] \cup [cell : Cell, failed : Statuses]

ASSUME DeploymentAssumption ==
  /\ ColumnNs \in [Cell -> Namespace]
  /\ ColumnContext \in [Cell -> Context]
  /\ Plan \in Seq(Release) /\ Plan # << >>
  /\ \A n \in Releases : Constructible(Plan[n].config)
  /\ InitialRows \subseteq Row
  /\ MaxRestarts \in Nat
  /\ NoJob \notin Job
  /\ NoReply \notin Reply

VARIABLES
  cell,      \* the database
  written,   \* history: the text each cell was last written with
  phase,     \* the release each process runs
  target,    \* the release being shipped, or shipped last
  counted,   \* the processes whose stats().unboundReads is above zero
  swept,     \* cells the backfill has been over since the target settled
  cycle,     \* cells read while the operator watches the counters
  job,       \* the row the backfill script holds between its read and write
  reply,     \* the last read of the application: the value, or the error
  restarts

vars == <<cell, written, phase, target, counted, swept, cycle, job, reply, restarts>>

-----------------------------------------------------------------------------
(* What release n does with a cell.                                        *)

Options(c, bind) ==
  [namespace |-> ColumnNs[c], context |-> IF bind THEN ColumnContext[c] ELSE NoContext]

WriteOutcome(n, c, value) ==
  MaybeSeal(Plan[n].config, value, Options(c, Plan[n].writeContext))

ReadOutcome(n, c, value) ==
  MaybeUnseal(Plan[n].config, value, Options(c, Plan[n].readContext))

(* The plain value of a nullable text.                                     *)
Value(text) == IF text = Null THEN Null ELSE Plain(text)

(* Release n reads the stored value of cell c as the text it stands for.   *)
ReadsBack(n, c, value, text) ==
  /\ ReadOutcome(n, c, value).status = "ok"
  /\ ReadOutcome(n, c, value).value = Value(text)

Settled == \A p \in Proc : phase[p] = target

-----------------------------------------------------------------------------
Init ==
  /\ \E row \in [Cell -> InitialRows \cup {NullRow}] :
       /\ cell = [c \in Cell |-> row[c].value]
       /\ written = [c \in Cell |-> row[c].text]
  /\ phase = [p \in Proc |-> 1]
  /\ target = 1
  /\ counted = {}
  /\ swept = {} /\ cycle = {}
  /\ job = NoJob
  /\ reply = NoReply
  /\ restarts = 0

(* The application writes a text, or null; maybeSeal makes "" null too.    *)
Write(p, c, text) ==
  LET outcome == WriteOutcome(phase[p], c, Value(text)) IN
  /\ outcome.status = "ok"
  /\ cell' = [cell EXCEPT ![c] = outcome.value]
  /\ written' = [written EXCEPT ![c] = IF outcome.value = Null THEN Null ELSE text]
  /\ reply' = NoReply
  /\ UNCHANGED <<phase, target, counted, swept, cycle, job, restarts>>

(* A read through process p has been unbound, or has not.  While the fleet *)
(* is settled the operator sees it, and marks the cell as read.            *)
Watch(p, c, outcome) ==
  /\ counted' = IF outcome.note = "unbound" THEN counted \cup {p} ELSE counted
  /\ cycle' = IF Settled THEN cycle \cup {c} ELSE cycle

Read(p, c) ==
  LET outcome == ReadOutcome(phase[p], c, cell[c]) IN
  /\ reply' = IF outcome.status # "ok"
              THEN [cell |-> c, failed |-> outcome.status]
              ELSE [cell |-> c, content |-> outcome.value]
  /\ Watch(p, c, outcome)
  /\ UNCHANGED <<cell, written, phase, target, swept, job, restarts>>

(* The backfill script starts once every process runs the release.  It     *)
(* reads a row through an instance; a null needs nothing.                  *)
BackfillRead(p, c) ==
  /\ job = NoJob
  /\ Settled
  /\ IF cell[c] = Null
     THEN swept' = swept \cup {c} /\ UNCHANGED <<job, counted, cycle>>
     ELSE /\ job' = [process |-> p, cell |-> c, old |-> cell[c]]
          /\ Watch(p, c, ReadOutcome(phase[p], c, cell[c]))
          /\ UNCHANGED swept
  /\ UNCHANGED <<cell, written, phase, target, reply, restarts>>

(* It seals what it read and writes it back with a compare-and-swap on the *)
(* old value.  A row somebody wrote in between is left as it is.  A read   *)
(* or a seal that throws leaves the row and does not count it as done.     *)
Resealed(n, c, old) ==
  LET read == ReadOutcome(n, c, old) IN
  IF read.status = "ok" THEN WriteOutcome(n, c, read.value) ELSE read

BackfillWrite ==
  /\ job # NoJob
  /\ LET outcome == Resealed(phase[job.process], job.cell, job.old)
         swapped == outcome.status = "ok" /\ cell[job.cell] = job.old
     IN /\ cell' = IF swapped THEN [cell EXCEPT ![job.cell] = outcome.value] ELSE cell
        /\ swept' = IF /\ phase[job.process] = target
                       /\ swapped \/ cell[job.cell] # job.old
                    THEN swept \cup {job.cell} ELSE swept
  /\ job' = NoJob
  /\ UNCHANGED <<written, phase, target, counted, cycle, reply, restarts>>

(* A process goes down and comes back: its counter starts at zero, so what *)
(* the operator has watched so far is void, and a backfill it carried out  *)
(* loses the row in hand.                                                  *)
ComesUp(procs) ==
  /\ counted' = counted \ procs
  /\ job' = IF job # NoJob /\ job.process \in procs THEN NoJob ELSE job
  /\ cycle' = {}

Restart(p) ==
  /\ restarts < MaxRestarts
  /\ restarts' = restarts + 1
  /\ ComesUp({p})
  /\ UNCHANGED <<cell, written, phase, target, swept, reply>>

Upgrade(p) ==
  /\ phase[p] < target
  /\ phase' = [phase EXCEPT ![p] = target]
  /\ ComesUp({p})
  /\ UNCHANGED <<cell, written, target, swept, reply, restarts>>

GateOpen(gate) ==
  CASE gate = "open" -> TRUE
    [] gate = "backfilled" -> swept = Cell
    [] gate = "readCycle" -> cycle = Cell /\ counted = {}

(* The operator ships the next release.                                    *)
Ship ==
  /\ Settled
  /\ target < Len(Plan)
  /\ GateOpen(Plan[target + 1].gate)
  /\ target' = target + 1
  /\ swept' = {}
  /\ IF Plan[target + 1].rollout = "flagDay"
     THEN phase' = [p \in Proc |-> target + 1] /\ ComesUp(Proc)
     ELSE cycle' = {} /\ UNCHANGED <<phase, counted, job>>
  /\ UNCHANGED <<cell, written, reply, restarts>>

Next ==
  \/ \E p \in Proc, c \in Cell, text \in Text \cup {Null} : Write(p, c, text)
  \/ \E p \in Proc, c \in Cell : Read(p, c)
  \/ \E p \in Proc, c \in Cell : BackfillRead(p, c)
  \/ BackfillWrite
  \/ \E p \in Proc : Restart(p)
  \/ \E p \in Proc : Upgrade(p)
  \/ Ship

Spec == Init /\ [][Next]_vars

(* What the documents count on: the operator ships what may be shipped, a  *)
(* rolling upgrade reaches every process, and the backfill script works    *)
(* through the rows, passing over none for ever (strong fairness: while it *)
(* holds one row it cannot take another).  Nothing makes the application   *)
(* write or read, and nothing makes a process restart.                     *)
Fairness ==
  /\ WF_vars(Ship)
  /\ \A p \in Proc : WF_vars(Upgrade(p))
  /\ \A c \in Cell : SF_vars(c \notin swept /\ \E p \in Proc : BackfillRead(p, c))
  /\ WF_vars(BackfillWrite)

FairSpec == Spec /\ Fairness

-----------------------------------------------------------------------------
(* The database holds strings and nulls, every process runs a release of   *)
(* the plan, and a read answers with a string, null, or a status (what     *)
(* maybeSeal and maybeUnseal return, index.ts 307-317).                    *)
TypeOK ==
  /\ cell \in [Cell -> Str \cup {Null}]
  /\ written \in [Cell -> Text \cup {Null}]
  /\ phase \in [Proc -> Releases]
  /\ target \in Releases
  /\ counted \subseteq Proc
  /\ swept \subseteq Cell
  /\ cycle \subseteq Cell
  /\ job \in Job \cup {NoJob}
  /\ reply \in Reply \cup {NoReply}
  /\ restarts \in 0 .. MaxRestarts

(* No downtime: at every moment of the migration every process that is     *)
(* serving can read every cell, as the text it was last written with.      *)
NoDowntime ==
  \A p \in Proc, c \in Cell : ReadsBack(phase[p], c, cell[c], written[c])

(* Once a cell holds ciphertext no write, backfill or release puts a       *)
(* readable text there again (README.md 148, 152).                         *)
Ciphertext(value) == value # Null /\ value.layers # << >>

NeverBackToPlaintext ==
  [][\A c \in Cell : Ciphertext(cell[c]) /\ cell'[c] # Null
                     => Ciphertext(cell'[c])]_vars

(* While a fleet that binds is settled, an operator who has seen the full  *)
(* cycle pass with every counter at zero has seen the truth: every cell is *)
(* bound to where it is (README.md 89, index.ts 300-305).                  *)
ZeroMeansBound ==
  (Settled /\ Plan[target].writeContext /\ cycle = Cell /\ counted = {})
  => \A c \in Cell : Ciphertext(cell[c])
                     => Head(cell[c].layers).aad.context = ColumnContext[c]

(* The application cannot tell the fleet from a plain store: a read gives, *)
(* without a layer, the text that was written last.  A token handed on     *)
(* under onUnknownVersion "passthrough" (seal.ts 82), or a value sealed    *)
(* twice, is another string and no answer of the store.                    *)
Contents == {Value(text) : text \in Text \cup {Null}}

Store == INSTANCE FieldStore
           WITH Content <- Contents, content <- [c \in Cell |-> Value(written[c])]

ImplementsFieldStore == Store!Spec

(* The migration gets through, however the application writes meanwhile.   *)
PlanCompletes == <>(target = Len(Plan) /\ Settled)
=============================================================================
