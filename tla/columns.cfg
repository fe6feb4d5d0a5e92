SPECIFICATION Spec
SYMMETRY ThreadSymmetry
CONSTANTS
  note = note
  noteJson = noteJson
  thing = thing
  thingJson = thingJson
  k1 = k1
  k2 = k2
  k3 = k3
  t1 = t1
  t2 = t2
  keyless = keyless
  keyed = keyed
  usersEmail = usersEmail
  usersPhone = usersPhone
  usersPrefs = usersPrefs
  Text <- MCText
  Empty = ""
  Key = {k1, k2, k3}
  NoKey = NoKey
  Version = {"v1", "v2"}
  NoVersion = NoVersion
  DefaultVersion = "v1"
  Context = {usersEmail, usersPhone, usersPrefs}
  NoContext = NoContext
  TextShape <- MCTextShape
  TextVersion <- MCTextVersion
  Namespace = {"PII", "TOTP"}
  NotConfigured = NotConfigured
  NoNamespace = NoNamespace
  InvalidContext = InvalidContext
  Null = Null
  Thread = {t1, t2}
  Instance = {keyless, keyed}
  ConfigOf <- MCConfigOf
  Callable = Callable
  Column = {"email", "phone", "prefs"}
  Setups <- MCSetups
  Thing = {thing}
  Dumps <- MCDumps
  ToWrite <- MCToWrite
  Idle = Idle
  MaxStatements = 3
  MaxSwaps = 1
INVARIANTS
  TypeOK
  ZeroMeansNoUnboundRead
  ClearWritesAreAnnounced
  WarningsStop
  ColumnsAreTheirOwn
  ReadsGiveWhatWasWritten
