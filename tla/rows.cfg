SPECIFICATION Spec
CONSTANTS
  note = note
  forged = forged
  stub = stub
  relic = relic
  noteJson = noteJson
  stubJson = stubJson
  emptyJson = emptyJson
  thingJson = thingJson
  quotedJson = quotedJson
  thing = thing
  k1 = k1
  k2 = k2
  row1 = row1
  row2 = row2
  c1 = c1
  c2 = c2
  c3 = c3
  c4 = c4
  Text <- MCText
  Empty = ""
  Key = {k1, k2}
  NoKey = NoKey
  Version = {"v1", "v2"}
  NoVersion = NoVersion
  DefaultVersion = "v1"
  Context = {c1, c2, c3, c4}
  NoContext = NoContext
  TextShape <- MCTextShape
  TextVersion <- MCTextVersion
  Namespace = {"PII"}
  NotConfigured = NotConfigured
  NoNamespace = NoNamespace
  InvalidContext = InvalidContext
  Null = Null
  Field = {"name", "doc"}
  RowId = {row1, row2}
  Thing = {thing}
  Stringify <- MCStringify
  Setups <- MCSetups
  TableNs = NoNamespace
  Rows <- MCRows
  Edits <- MCEdits
  Queries <- MCQueries
  Foreign <- MCForeign
  Absent = Absent
  MaxWrites = 1
  MaxCopies = 1
  MaxEdits = 1
  MaxUnboundReads = 1
INVARIANTS
  TypeOK
  RowsRoundTrip
  ShownValuesBelongHere
  NoCiphertextShown
  RefusedExactlyWhenSystemic
