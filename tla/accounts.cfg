SPECIFICATION Spec
CHECK_DEADLOCK FALSE
SYMMETRY AccountSymmetry
CONSTANTS
  k1 = k1
  k2 = k2
  k3 = k3
  i1 = i1
  i2 = i2
  a1 = a1
  a2 = a2
  b1 = b1
  Text <- MCText
  Empty <- EmptyText
  Key = {k1, k2, k3, i1, i2}
  NoKey = NoKey
  Version <- MCVersion
  NoVersion = NoVersion
  DefaultVersion <- V1
  Context <- MCContext
  NoContext = NoContext
  TextShape <- MCTextShape
  TextVersion <- MCTextVersion
  Namespace = {"PII", "TOTP"}
  NotConfigured = NotConfigured
  NoNamespace = NoNamespace
  InvalidContext = InvalidContext
  Null = Null
  BadLabel <- MCBadLabel
  BadKey = BadKey
  Unset = Unset
  Char <- MCChar
  Nul = "NUL"
  White = {" "}
  Lower <- MCLower
  NoParts = NoContext
  BadParts = InvalidContext
  Listed = {"PII", "TOTP"}
  CallOptions <- MCCallOptions
  Ns = "PII"
  Column = {"users", "contacts"}
  Schemas <- MCSchemas
  Id = {a1, a2, b1}
  ColumnOf <- MCColumnOf
  Queries <- MCQueries
  AddressOf <- MCAddressOf
  Mistakes <- MCMistakes
  FirstEnv <- MCFirstEnv
  Labels <- MCLabels
  Absent = Absent
  Down = Down
  NoSearch = NoSearch
  MaxMistakes = 1
  MaxRestarts = 2
INVARIANTS
  TypeOK
  FindsExactly
  ColumnsDoNotJoin
  BindingsAreDistinct
  GivenKeysRead
  CarefulRotationsKeepAll
