SPECIFICATION Spec
CONSTANTS
  note = note
  forged = forged
  stub = stub
  relic = relic
  k1 = k1
  k2 = k2
  k9 = k9
  users = users
  notes = notes
  Text <- MCText
  Empty = ""
  Key <- MCKey
  NoKey = NoKey
  Version = {"v1", "v2", "v9"}
  NoVersion = NoVersion
  DefaultVersion = "v1"
  Context = {users, notes}
  NoContext = NoContext
  TextShape <- MCTextShape
  TextVersion <- MCTextVersion
  Namespace = {"PII", "TOTP", "Typo"}
  NotConfigured = NotConfigured
  NoNamespace = NoNamespace
  InvalidContext = InvalidContext
  Null = Null
  Foreign <- MCForeign
  Options <- MCOptions
  Configs <- MCConfigs
  MaxLayers = 1
  MaxUnboundReads = 1
INVARIANTS
  LegacyTokensAreDecrypted
