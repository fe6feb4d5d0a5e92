SPECIFICATION Spec
CONSTANTS
  alice = alice
  forged = forged
  stub = stub
  relic = relic
  k1 = k1
  k2 = k2
  p1 = p1
  p2 = p2
  email = email
  bio = bio
  usersEmail = usersEmail
  usersBio = usersBio
  Text <- MCText
  Empty = ""
  Key = {k1, k2}
  NoKey = NoKey
  Version = {"v1", "v2"}
  NoVersion = NoVersion
  DefaultVersion = "v1"
  Context = {usersEmail, usersBio}
  NoContext = NoContext
  TextShape <- MCTextShape
  TextVersion <- MCTextVersion
  Namespace = {"PII"}
  NotConfigured = NotConfigured
  NoNamespace = NoNamespace
  InvalidContext = InvalidContext
  Null = Null
  Proc = {p1, p2}
  Cell = {email, bio}
  ColumnNs <- MCColumnNs
  ColumnContext <- MCColumnContext
  Plan <- RotationAsDocumented
  InitialRows <- OldRows
  MaxRestarts = 0
  NoJob = NoJob
  NoReply = NoReply
INVARIANTS
  NoDowntime
