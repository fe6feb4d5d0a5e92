------------------------------- MODULE Pages --------------------------------
(***************************************************************************)
(* A table kept through the row helpers: the application inserts rows with *)
(* sealRow, serves single rows with unsealRow and pages with unsealRows,   *)
(* and writes back rows it has read and edited, always with one spec.      *)
(* Others reach the table without the library: they copy a stored value to *)
(* another row or column, or write a value of their own (Foreign).         *)
(***************************************************************************)
EXTENDS RowHelpers, FiniteSets

CONSTANTS
  Setups,         \* configurations a constructor is called with, each with
                  \* the spec of a table
  TableNs,        \* the namespace argument of the calls
  Rows,           \* rows the application inserts: plaintext
  Edits,          \* fields it sets in a row it has read, with the new value
  Queries,        \* the rows of a page in order; a join repeats a row
  Foreign,        \* values others write
  Absent,         \* no row with this identity
  MaxWrites,      \* bound: values of their own others write
  MaxCopies,      \* bound: stored values others copy
  MaxEdits,       \* bound: rows edited
  MaxUnboundReads \* bound: unbound reads of the instance

ASSUME PagesAssumption ==
  /\ Setups \subseteq [config : Config, spec : FieldSpec]
  /\ TableNs \in Namespace \cup {NoNamespace}
  /\ Rows \subseteq Row
  /\ \A row \in Rows, f \in Field : IsString(row[f]) => row[f].layers = << >>
  /\ \A edit \in Edits : edit[1] \in Field /\ edit[2] \in FieldValue
  /\ \A query \in Queries : query \in Seq(RowId)
  /\ Foreign \subseteq FieldValue
  /\ {MaxWrites, MaxCopies, MaxEdits, MaxUnboundReads} \subseteq Nat

VARIABLES
  config,    \* the configuration of the instance
  spec,      \* the spec of the table
  instance,  \* what it remembers
  table,     \* the stored rows
  entered,   \* history: the rows as the application meant to store them
  written,   \* history: every value it has ever stored in a field of a row
  touched,   \* history: the fields others have written since
  page,      \* the last page served
  writes, copies, edits

vars == <<config, spec, instance, table, entered, written, touched, page,
          writes, copies, edits>>

NoPage == [call |-> "none", query |-> << >>, status |-> "ok", rows |-> << >>]

Present == {id \in RowId : table[id] # Absent}

Listed == {spec.fields[i] : i \in DOMAIN spec.fields}
          \cup {spec.jsonFields[i] : i \in DOMAIN spec.jsonFields}

Slots(id, row) == {<<id, f, row[f]>> : f \in Field}

RingOfTable == RingOf(config, NsOf(config, TableNs))

-----------------------------------------------------------------------------
Init ==
  /\ \E setup \in Setups :
       Constructible(setup.config) /\ config = setup.config /\ spec = setup.spec
  /\ instance = NewInstance
  /\ table = [id \in RowId |-> Absent]
  /\ entered = [id \in RowId |-> Absent]
  /\ written = {} /\ touched = {}
  /\ page = NoPage
  /\ writes = 0 /\ copies = 0 /\ edits = 0

(* Nothing is stored when sealRow throws; the warnings it gave stay given. *)
Insert(id, row) ==
  LET result == SealRow(config, instance, row, id, spec, TableNs) IN
  /\ table[id] = Absent
  /\ instance' = result.instance
  /\ IF result.status = "ok"
     THEN /\ table' = [table EXCEPT ![id] = result.row]
          /\ entered' = [entered EXCEPT ![id] = row]
          /\ written' = written \cup Slots(id, row)
     ELSE UNCHANGED <<table, entered, written>>
  /\ page' = NoPage
  /\ UNCHANGED <<config, spec, touched, writes, copies, edits>>

Serve(call, query, status, rows, newInstance) ==
  /\ instance.unboundReads < MaxUnboundReads
  /\ page' = [call |-> call, query |-> query, status |-> status, rows |-> rows]
  /\ instance' = newInstance
  /\ UNCHANGED <<config, spec, table, entered, written, touched, writes, copies, edits>>

ServeRow(id) ==
  LET result == UnsealRowInternal(config, instance, table[id], id, spec, TableNs) IN
  /\ table[id] # Absent
  /\ Serve("unsealRow", <<id>>, "ok", <<[id |-> id, row |-> result.row]>>,
           result.instance)

ServePage(query) ==
  LET rows == [i \in DOMAIN query |-> [id |-> query[i], row |-> table[query[i]]]]
      result == UnsealRows(config, instance, rows, spec, TableNs)
  IN  /\ \A i \in DOMAIN query : query[i] \in Present
      /\ Serve("unsealRows", query, result.status, result.rows, result.instance)

(* The application sets a field of the row it has just read and writes the *)
(* whole row back.  What unsealRow had nulled is null from then on; what   *)
(* nobody touched is meant to stay.  It does not edit ciphertext, which a  *)
(* namespace without a key hands out.                                      *)
Edit(f, value) ==
  LET id == page.rows[1].id
      row == [page.rows[1].row EXCEPT ![f] = value]
      result == SealRow(config, instance, row, id, spec, TableNs)
  IN /\ page.call = "unsealRow"
     /\ edits < MaxEdits
     /\ \A g \in Listed : IsString(row[g]) => row[g].layers = << >>
     /\ edits' = edits + 1
     /\ instance' = result.instance
     /\ IF result.status = "ok"
        THEN /\ table' = [table EXCEPT ![id] = result.row]
             /\ entered' = [entered EXCEPT ![id] =
                  [g \in Field |-> IF g # f /\ <<id, g>> \notin touched
                                   THEN entered[id][g] ELSE row[g]]]
             /\ written' = written \cup Slots(id, row)
             /\ touched' = touched \ ({id} \X Field)
        ELSE UNCHANGED <<table, entered, written, touched>>
     /\ page' = NoPage
     /\ UNCHANGED <<config, spec, writes, copies>>

(* The process restarts and makes a new instance.                          *)
Restart ==
  /\ instance # NewInstance
  /\ instance' = NewInstance
  /\ page' = NoPage
  /\ UNCHANGED <<config, spec, table, entered, written, touched, writes, copies, edits>>

Around(id, f, value) ==
  /\ table[id] # Absent
  /\ table' = [table EXCEPT ![id][f] = value]
  /\ touched' = touched \cup {<<id, f>>}
  /\ page' = NoPage
  /\ UNCHANGED <<config, spec, instance, entered, written, edits>>

WriteAround(id, f, value) ==
  /\ writes < MaxWrites
  /\ writes' = writes + 1
  /\ Around(id, f, value)
  /\ UNCHANGED copies

CopyAround(from, f, to, g) ==
  /\ copies < MaxCopies
  /\ copies' = copies + 1
  /\ <<from, f>> # <<to, g>> /\ table[from] # Absent
  /\ Around(to, g, table[from][f])
  /\ UNCHANGED writes

Next ==
  \/ \E id \in RowId, row \in Rows : Insert(id, row)
  \/ \E id \in RowId : ServeRow(id)
  \/ \E query \in Queries : ServePage(query)
  \/ \E edit \in Edits : Edit(edit[1], edit[2])
  \/ Restart
  \/ \E id \in RowId, f \in Listed, value \in Foreign : WriteAround(id, f, value)
  \/ \E from, to \in RowId, f, g \in Listed : CopyAround(from, f, to, g)

Spec == Init /\ [][Next]_vars

-----------------------------------------------------------------------------
(* Every variable has its type, and the mode is one the constructor knows. *)
TypeOK ==
  /\ [config |-> config, spec |-> spec] \in Setups
  /\ config.mode \in {"strict", "dormant"}
  /\ instance \in InstanceType
  /\ table \in [RowId -> Row \cup {Absent}] /\ entered \in [RowId -> Row \cup {Absent}]
  /\ written \subseteq RowId \X Field \X FieldValue
  /\ touched \subseteq RowId \X Field
  /\ page \in [call : {"none", "unsealRow", "unsealRows"}, query : Seq(RowId),
               status : {"ok", "Systemic"}, rows : Seq([id : RowId, row : Row])]
  /\ writes \in 0 .. MaxWrites /\ copies \in 0 .. MaxCopies /\ edits \in 0 .. MaxEdits

(* sealRow and unsealRow are true inverses, for every value of every kind  *)
(* of field, whatever happened to the rest of the row: strings that look   *)
(* like tokens, JSON of things and of strings, nulls and empty strings     *)
(* (index.ts 97-100, README.md 127-128).  So a field nobody touched        *)
(* survives every edit of the rest of its row, also of a row whose other   *)
(* fields could not be read (index.ts 390-396).                            *)
RowsRoundTrip ==
  \A id \in Present :
    LET shown == UnsealRow(config, instance, table[id], id, spec, TableNs) IN
    \A f \in Field : <<id, f>> \notin touched => shown[f] = entered[id][f]

(* A value under a layer that is bound to a context.                       *)
Bound(v) == IsString(v) /\ v.layers # << >> /\ Head(v.layers).aad.context # NoContext

(* Under a keyring that fails closed, a bound value that is shown was put  *)
(* by the application in that very field of that very row, then or         *)
(* earlier: copied anywhere else it is null (index.ts 67-78, 389-396).     *)
ShownValuesBelongHere ==
  \A i \in DOMAIN page.rows, f \in Listed :
    LET id == page.rows[i].id
        shown == page.rows[i].row[f]
    IN  (RingOfTable # NoRing /\ config.onUnknownVersion = "throw" /\ Bound(table[id][f]))
        => shown = Null \/ <<id, f, shown>> \in written

(* Under a keyring, and with unknown versions failing closed, no page      *)
(* hands out a string that is still encrypted (index.ts 391, README.md     *)
(* 125).                                                                   *)
NoCiphertextShown ==
  \A i \in DOMAIN page.rows, f \in Listed :
    LET shown == page.rows[i].row[f] IN
    (RingOfTable # NoRing /\ config.onUnknownVersion = "throw" /\ IsString(shown))
    => shown.layers = << >>

-----------------------------------------------------------------------------
(* Whether a reader can open a stored string, judged by its layer.         *)
Opens(stored, context) ==
  LET layer == Head(stored.layers) IN
  /\ context # InvalidContext
  /\ CASE layer.format = "token" ->
            /\ RingOfTable.keys[layer.version] = layer.key
            /\ \/ layer.aad = BuildAad(layer.version, context)
               \/ config.contextFallback /\ layer.aad = BuildAad(layer.version, NoContext)
       [] layer.format # "token" ->
            /\ layer.format \in config.legacy
            /\ layer.key \in KeysOf(RingOfTable) /\ layer.aad = NoAad
            /\ context = NoContext \/ config.contextFallback

(* The values of the page that weigh, each time it has them: encrypted     *)
(* ones, and all of them once plaintext is rejected.                       *)
Weighed ==
  {slot \in (DOMAIN page.query) \X Listed :
     LET stored == table[page.query[slot[1]]][slot[2]] IN
     /\ IsNonemptyString(stored)
     /\ config.plaintext = "passthrough" => stored.layers # << >>}

Unreadable ==
  {slot \in Weighed :
     LET id == page.query[slot[1]]
         stored == table[id][slot[2]]
     IN stored.layers = << >> \/ ~ Opens(stored, spec.context[<<slot[2], id>>])}

ListsFieldsOnce ==
  LET listed == spec.fields \o spec.jsonFields IN
  \A i, j \in DOMAIN listed : listed[i] = listed[j] => i = j

(* With a key and unknown versions failing closed, a page is refused       *)
(* exactly when at least five values that really are encrypted are on it   *)
(* and more than half of them cannot be read: plaintext neither dilutes    *)
(* the rate nor adds to it while it is allowed (index.ts 419-425,          *)
(* README.md 126).                                                         *)
RefusedExactlyWhenSystemic ==
  (/\ page.call = "unsealRows" /\ ListsFieldsOnce
   /\ RingOfTable # NoRing /\ config.onUnknownVersion = "throw")
  => (page.status = "Systemic"
      <=> /\ Cardinality(Weighed) >= 5
          /\ Cardinality(Unreadable) > Cardinality(Weighed \ Unreadable))

-----------------------------------------------------------------------------
(* What the theorem about ShownValuesBelongHere assumes of a table: no two *)
(* listed fields of it share a context, and no bound token that others     *)
(* write was made with the key the keyring has for its version.            *)
ContextsAreDistinct(s) ==
  LET listed == s.fields \o s.jsonFields IN
  \A i, j \in DOMAIN listed, id, other \in RowId :
    LET context == s.context[<<listed[i], id>>] IN
    (context \in Context /\ context = s.context[<<listed[j], other>>])
    => listed[i] = listed[j] /\ id = other

NotOurs(c, v) ==
  LET layer == Head(v.layers) IN
  Bound(v) => /\ layer.format = "token"
              /\ layer.key # RingOf(c, NsOf(c, TableNs)).keys[layer.version]

BoundApart ==
  \A setup \in Setups :
    ContextsAreDistinct(setup.spec) /\ \A value \in Foreign : NotOurs(setup.config, value)

(* What the theorem about RefusedExactlyWhenSystemic assumes: the calls    *)
(* name a namespace that is configured, and an instance can tell whether   *)
(* what others write is encrypted.                                         *)
Recognised(c, v) ==
  IsString(v) => (v.layers # << >> <=> LooksSealed(v) \/ MatchesLegacy(v, c.legacy))

TellsCiphertext ==
  \A setup \in Setups :
    /\ NsOf(setup.config, TableNs) \in Names(setup.config)
    /\ \A value \in Foreign : Recognised(setup.config, value)
=============================================================================
