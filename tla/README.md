# sealed-fields in TLA+

Models, model checks and proofs about `sealed-fields`: field-level encryption
for database columns (AES-256-GCM tokens, versioned keyrings, context binding,
legacy decoders, row helpers) and the migrations its documents tell users to
run. Line numbers refer to the TypeScript source unless a path says otherwise
(`index.ts` is `src/index.ts` of the package, `README.md` the repository's
front page, `context-binding.md` is `docs/design/context-binding.md`).

## 1. The system

### Components

| Component | State | Operations | What is hard | What makes it correct |
|---|---|---|---|---|
| Wire format, encryption (`seal.ts`, `legacy.ts`) | none | `sealWithKeyring`, `unsealWithKeyring`, `looksSealed`, `parseToken`, `matchLegacy`, `tryLegacyFormats` | three classifiers of strings that are not each other's complement; user text of a token's shape; the empty text | a layer comes off only under its key and AAD; the classifiers agree where their callers rely on it |
| Keyrings (`keyring.ts`) | the ring, fixed at construction | `buildKeyring`, `parseKey` | a blank key drops the retired ones too; a collision of labels is only looked for when there is an active key | every label a token may carry has its key, or reading fails closed |
| The instance (`class SealedFields`, `index.ts`) | rings, options (fixed); `unboundReads`, `warnedFallback`, `warnedDormant` (mutable) | constructor, `seal`, `unseal`, `maybeSeal`, `maybeUnseal`, `stats` | 2 modes x 2 plaintext policies x 2 unknown-version policies x fallback x legacy; order of the checks; a counter that operators base decisions on | what is sealed reads back; bound tokens do not open elsewhere; ciphertext is never handed on as plaintext; the counter misses nothing |
| Row helpers (`sealRow`, `unsealRow`, `unsealRows`) | none of their own (they move the instance's) | the three calls | JSON fields; one field of many failing; the threshold of a systemic failure | field-wise inverses; a failed field is null; a page is refused exactly at the documented rate |
| Fleet and migrations (README.md 37-53, 80-89, 130-158; `context-binding.md` 80-97) | the table, one instance in each process, the release each process runs, the backfill script | application reads and writes, backfill, restart, upgrade, shipping a release | rolling upgrades, restarts that reset counters, lost updates, conditions that are only watched | no process ever meets a value it cannot read; no write is lost; the migration finishes |
| Python implementation (`sealed_fields/__init__.py`) | as the instance above, shared by threads | as above | `_unbound_reads += 1` and the once-only warnings are several steps each | counts may be lost, but never all of them; a warning may be doubled, but never missed |
| SQLAlchemy types (`sealed_fields/sqlalchemy.py`) | none of their own; the provider is resolved when a statement runs | bind and result processors, the cache key | processors cached with the statement; a provider that changes; nulls, empty and undecodable JSON | a column is sealed and read under its own namespace, context and provider; what comes back is what was bound |
| Blind indexes, encoded contexts, AAD (`index.ts` 72-91, 335-352, `seal.ts` 46-50) | none | `blindIndex`, `encodeContext`, `buildAad` | parts joined into one string, values that hold the separator, an index that names no key | equal indexes mean equal values in one column; equal AADs mean the same label and context |
| Environment convention (`index.ts` 468-510, `keyring.ts`) | the process's variables | `sealedFieldsFromEnv`, `parseKey` | duplicates, blanks, malformed entries, forgotten variables | a process that starts reads what it was given the key for |
| One-shot helpers | none | `generateKey`, `hashToken` | nothing | - |

### Interactions

The instance calls the wire format with the ring of the namespace a call
resolves to. The row helpers call `seal` and `unseal` field by field and
reuse the instance's counter and warnings. The application stores what these
return in the database, where other writers (older releases, raw SQL, a second
service, the application itself before it adopted the library) put values as
well. Instances share nothing but the database: that is why a token written by
one release has to be readable by every other release that serves at the time,
and why `stats().unboundReads` has to be read on every instance.

A single call of the library is synchronous JavaScript without an `await`, so
calls of one process do not interleave; interleaving happens between processes,
between a backfill's read and its write, and between calls. In Python threads
share an instance and take no lock, so that there the bookkeeping of one call
interleaves with that of another. SQLAlchemy keeps the processors of a column
type with the compiled statement and uses them for every type with the same
cache key. The environment of a process is read once, when it starts.

## 2. The modules

    Tokens           strings, layers, AAD, keyrings, opening a layer
      SealedFields   one instance: configuration, seal, unseal, maybe*, bookkeeping
        Process      an instance and a column other writers share       MCProcess
          ProcessProofs      what one instance guarantees
        RowHelpers   sealRow, unsealRow, unsealRows as functions of rows
          Pages      a table kept through the row helpers               MCPages
            PagesProofs      what they guarantee for any table and spec
        Columns      threads and SQLAlchemy columns over instances      MCColumns
          ColumnsProofs      what they guarantee for any number of threads
        Deployment   a fleet taken through the releases of a plan       MCDeployment
          FieldStore     what the fleet promises (refined by Deployment)
          Certificates   when a plan is safe, and the invariant that follows
            DeploymentProofs   theorems for every plan with a certificate
              MigrationProofs  theorems for every safe key rotation, every
                               safe activation and every safe binding of contexts
        Environment  parseKey, sealedFieldsFromEnv, and what they accept
    Encodings        contexts, AAD bytes and index inputs as sequences
      EncodingProofs     the separator tells the parts apart, contexts too
      Accounts       accounts with blind indexes, keyed from the     MCAccounts
                     environment (Environment and Encodings together)
        AccountsProofs   what holds whatever the environment says
    LibraryLemmas    places, folds, and what seal and unseal return, for the
                     proofs

**Tokens** (`seal.ts`, `legacy.ts`, `keyring.ts`). A string is a user text
under a sequence of encryption layers, the outermost first. A layer has its
format, the label it shows, the key and the AAD it was made with. Encryption is
perfect: a layer comes off exactly under its key and its AAD. Users type what
they like, so every text has a *shape* (`TextShape`): plain, token, token that
is too short to hold a nonce and a tag, or one of the legacy shapes. The shape
is all that `parseToken`, `looksSealed` and `matchLegacy` can see, and the three
operators of these names are written over it; a text of a token's shape
authenticates under no key. `BuildKeyring` keeps the code's order: without an
active key everything is dropped, a label without a version is `v1`, a collision
with a retired label is refused.

**SealedFields** (`index.ts` 26-317). Configurations, `Constructible` (the
constructor's checks), `OptionsStatus` (namespace and context resolution with
its errors in order), and every branch of `seal` and `unseal` as operators that
return an *outcome*: a status, a value, and the bookkeeping the branch owes
(`noteUnboundRead`, `warnDormantOnce`), which `Account` applies to the instance.
A configuration never changes after construction, so nothing is lost by making
calls functions of it. An unrecognised string for an option (JavaScript callers
are not held to the types) is the value `"other"`.

**Process.** One instance, one nullable column. Each public call is an action
and may name any namespace and any context; reading under other options than
the value was sealed with *is* the moved token. `WriteAround` is everybody
else. `sealed`, `answer` and `opened` are history variables.

**RowHelpers, Pages** (`index.ts` 354-439). Rows are functions from fields to
strings, null, or JavaScript values of other types; JSON is an injective table
`Stringify`, and a text outside its range does not parse. `Insert`, `ServeRow`
and `ServePage` are the three helpers; a page is unsealed and accounted for in
full before its failures are weighed, as in the code. Others write and copy
values between fields and rows. `Edit` is the application that reads a row with
`unsealRow`, changes one field and writes the row back with `sealRow`: a field
that could not be read is null from then on, and the properties say that the
others are not.

**Columns** (`sqlalchemy.py`, `__init__.py` 268-293, 423-437). A thread's
statement is `Write` or `Read` (`process_bind_param`, `process_result_value`
with the processors SQLAlchemy has cached for the type's cache key, and the
instance the provider names at that moment), then the bookkeeping it owes, one
action for each access to shared state: load and store of `_unbound_reads`,
check and mark of `_warned_fallback` or `_warned_dormant`, the log line. `Swap`
changes the instance a callable provider returns, also while statements run. A
row of a setup may hold what the columns held before they had the type.

**Encodings** (`index.ts` 72-91, 335-352, `seal.ts` 46-50). Here a string is a
sequence of characters, because what matters is where one part ends: `EncodeContext`,
`AadBytes`, `BlindIndex` with `Normalized` (trim and lower case). Hashes are perfect.

**Environment** (`keyring.ts`, `index.ts` 468-510). Variables are key texts
(hex, base64, blank or anything else), labels well and badly formed, and
retired entries. `Starts` is whether `sealedFieldsFromEnv` returns an instance,
`SealedFieldsFromEnv` its configuration; a retired label given twice keeps the
last key, as `map[label] = value` does.

**Accounts** puts both to work: rows with a sealed address and its blind index,
stored and searched by a process that is restarted under whatever environment
the operator leaves: a rotation as documented (`generateKey`, the old key
retired under its label), or one of the mistakes of a list. `schema` is how the
application declares its columns, chosen at the start.

**Deployment.** A *plan* is a sequence of releases: a configuration, whether the
application passes the context on reads and on writes, the condition (*gate*)
the operator waits for before shipping it (`open`, `backfilled`, `readCycle`)
and whether it is rolled out process by process or all at once. `Write` and
`Read` are `maybeSeal` and `maybeUnseal` under the release the process runs.
The backfill script is two actions, so that writes, restarts and upgrades come
between its read and its compare-and-swap. `Restart` and `Upgrade` make a new
instance: its counter starts at zero, which voids the read cycle the operator
was watching, and a backfill the process was carrying out loses its row. The
script, the operator and the fleet are not code of the repository: they are
what its documents tell the user to run, modelled as such and marked external
in the map. Where the documents are silent (the compare-and-swap, starting the
backfill only when all processes run the release) the model takes the careful
choice and says so beside the action.

**FieldStore** is the abstract specification: nullable columns of plain text
with reads and writes, and nothing else. `ImplementsFieldStore` refines it with
`content <- [c |-> Value(written[c])]`, the text last written to each cell, in
the clear. `reply` is the whole value `maybeUnseal` returned, with the layers it
still has: a token handed on because its version is unknown
(`onUnknownVersion: "passthrough"`, `seal.ts` 82), or the inner token of a value
that was sealed twice, is no answer of the store. So every read the application
makes on any process at any moment of a migration answers with the text last
written, and with nothing else.

**Certificates** gives, for a plan, a condition `Certifies(Held)` that is read
off the plan without running it, where `Held[n][c]` are the rows release `n`
must be able to read in cell `c`; and conditions on the releases of a plan:
`SafeRotation` for one that moves keys, `SafeBinding` for one that moves
contexts and legacy decoders, `SafeActivation` for one that takes the first keys
and comes to reject plaintext, and `SealsForGood` for any plan that does not go
back to storing in the clear.

## 3. What the runs check

| Run | Question | Bounds |
|---|---|---|
| `process` | What do `seal` and `unseal` promise under every combination of options? `WhatWasSealedReadsBack`, `BoundTokensStayPut`, `CountsEveryUnboundRead`, `ClearWritesAreAnnounced`, `TokensAreDecrypted` | one keyed, one keyless and one unconfigured namespace, five texts (one per shape and the empty one), foreign values including tampered, retired, forgotten and legacy tokens, at most 2 layers and 2 unbound reads |
| `rows` | Are `sealRow` and `unsealRow` inverses, also through edits of the rest of a row? Does a page ever show a bound value where it was never written, or an encrypted one, and is it refused exactly at the documented rate? `RowsRoundTrip`, `ShownValuesBelongHere`, `NoCiphertextShown`, `RefusedExactlyWhenSystemic` | 2 rows, a string and a JSON field (also listed twice), 6 configurations, pages of 3 rows (one of them twice): up to 6 values around "at least 5, more than half", plaintext of a token's shape but too short among them; one foreign value, one copy, one edit |
| `rotation` | Does a rotation with a read-first release work without downtime, as a plain store, in processes that pass unknown versions through? Is the invariant of the proof an invariant? Does it finish? `NoDowntime`, `ImplementsFieldStore`, `CertifiedRotation`, `PlanCompletes` (under `FairSpec`) | 2 processes, 2 cells, 4 releases, a text of a token's shape, the empty one and null, 1 restart |
| `context_migration` | Does binding contexts under `contextFallback` work, and is a clean read cycle conclusive? `NoDowntime`, `ZeroMeansBound`, `CertifiedContexts` | 2 processes, 2 cells, 4 releases, unbound and legacy rows to start with, 1 restart; symmetric in the processes |
| `dormant_to_reject` | From plaintext to `plaintext: "reject"`: always readable, never back to plaintext, and is the invariant of the proof one? `NoDowntime`, `NeverBackToPlaintext`, `CertifiedActivation` | 2 processes, 2 cells, 3 releases, 5 texts (one per shape and the empty one), a legacy decoder on throughout, 1 restart |
| `accounts` | Does a blind index find exactly what it should, in its own column? Do bindings stay distinct as bytes? Does a process that starts read what it was given the key for, and does a careful rotation keep everything readable? `FindsExactly`, `ColumnsDoNotJoin`, `BindingsAreDistinct`, `GivenKeysRead`, `CarefulRotationsKeepAll` | 2 columns, 3 accounts, 3 ways to declare the columns, 3 labels in a row, 16 mistakes of which the operator makes one, 2 restarts; texts, parts and labels that run into each other without a separator; symmetric in the accounts of one column |
| `columns` | What do the racy bookkeeping and the statement cache still guarantee? `ZeroMeansNoUnboundRead`, `ClearWritesAreAnnounced`, `WarningsStop`, `ColumnsAreTheirOwn`, `ReadsGiveWhatWasWritten` | 2 threads, 2 instances, 3 columns in 2 namespaces that start with unbound, legacy and empty tokens, plaintext or parsed values, 3 statements, 1 swap of the instance; symmetric in the threads |
| `process_keyless_legacy`, `process_empty_legacy`, `process_audit`, `process_dormant_warnings`, `rotation_as_documented` | five statements of the documents that the code does not keep (section 6) | as `process` and `rotation` |

Why the bounds are enough. Texts matter only through their shape and through
being different or empty, and there is a text of each kind. A third key under a
label nobody has (`v9`) covers tokens whose key is gone. Two layers are the
first number at which a doubly sealed value differs from a sealed one. Two
unbound reads tell a repeated warning from a first one. Two processes are an old
and a new release side by side, and one of them restarting while the other is
counted; two cells are one that is swept or read and one that is not. In
`rotation` one text and null tell a lost update from one that is kept, and a text
of a token's shape is the hardest there is. One
restart is enough to void a cycle, as what comes after it is a fresh start. Six
values on a page reach both sides of five attempts and of one half. Two threads
are what a lost update and a doubled warning need; three statements are two that
race and one that looks at the result. Three labels let a key be rotated twice,
so that a token outlives one rotation and not the other.

Symmetry is used in three runs, over sets no constant tells apart: the
processes of `context_migration`, the two accounts of one column in `accounts`,
the threads of `columns`. None of them checks a temporal property.

**Deadlock.** Checked in every run but `accounts`: reads are always possible
elsewhere, but a process that refuses its environment is down, and once the
bound on restarts is used up it stays so.

**Fairness.** Only `PlanCompletes`, in `rotation`, needs it. The operator ships what may be
shipped and a rollout reaches every process (weak fairness of `Ship` and
`Upgrade`), and the backfill script goes through all rows (strong fairness per
cell, because while it holds one row it cannot take another; weak fairness of
its write). This is what "re-encrypt with a backfill script, then drop the
retired key" assumes of whoever does it. Nothing forces the application to read
or write, and nothing keeps it from writing for ever: the property holds
because a swap that loses to a write counts the row as done, the new row being
sealed by the new release already. `PlanCompletes` is not claimed of the
context migration: its gate waits for application reads, which nothing owes us.

Every property of a passing run is tested against a seeded fault in the
modelled code (the definitions marked *Seeded fault*), many of them bugs the
changelog records as fixed.

## 4. What is proved

TLAPS proves the following for all values of the constants: any texts, keys,
labels, contexts, namespaces, processes, threads, cells, plans and tables.
The hypotheses are the named assumptions of the modules: special values lie
outside the sets they are added to, configurations pass the constructor, and
parameters have their types. TLC evaluates them in every run. Threads
are finitely many, as they are counted; no other set is assumed finite. What
`seal`, `unseal`, `maybeSeal` and `maybeUnseal` return is in
`LibraryLemmas`, branch by branch, and cited by every module below.

### One instance (ProcessProofs)

Every property of the run `process` but none of its bounds: `ProcessTypeOK`,
`WhatWasSealedAlwaysReadsBack`, `BoundTokensAlwaysStayPut`,
`UnboundReadsAreAllCounted`, `ClearWritesAreAlwaysAnnounced`,
`TokensAreAlwaysDecrypted`. The properties speak of the last answer and the last
write, which no action looks at again; `ProcessInvariant` says where they come
from: the answer is what `unseal` gives for what was stored (`AnswerStands`), the
column is what `seal` gave (`WriteStands`), a write in the clear has marked its
namespace (`ClearMarked`), and the log holds one line for each mark (`LogMatches`).
The counter has to be exact, so `CountsEveryUnboundRead` is its own part.

### Threads and columns (ColumnsProofs)

Every property of the run `columns`, for any number of threads, instances,
columns and statements: `ColumnsTypeOK`, `ZeroAlwaysMeansNoUnboundRead`,
`ColumnsAreAlwaysTheirOwn`, `ClearColumnsAreAnnounced`, `WarningsAlwaysStop` and
`ReadsAlwaysGiveWhatWasWritten`. `ColumnsInvariant` says of every thread in the
middle of a statement that it runs with the processors and the instance of its
own column and owes the bookkeeping of its outcome (`CallsStand`). A counter
that races keeps less than one that does not: from the first store on it is
above zero (`Counted`), because every store adds one to a value that was loaded.
A mark may precede its line in the log, but then the thread that made the mark
has the line still to write (`ClearMarked`, `MarkedAnnounced`).

`WarningsStop` bounds the lines by the threads. It needs `Warnings`: a line, or
a thread past its check, means that the namespace is marked (`Marked`), and
lines and threads on their way to one are together never more than the threads
there are (`OnceEach`): before the mark there is no line, and after it no thread
sets out, so a line that is written takes a thread off the count.

`ReadsGiveWhatWasWritten` needs to know that the instances a column may be given
can stand in for each other. `ColumnsAgree` says what that takes (every label an
instance writes under has the same key in the others, an instance without a key
keeps what the others take for plaintext, JSON only where the driver parses) and
is the theorem's hypothesis; TLC evaluates it in the run `columns`. The invariant
is `ReadBack`: what a column holds, and what a thread is about to store there,
reads back through every instance the column may be given.

### Encodings and accounts (EncodingProofs, AccountsProofs)

`SeparatorTellsPartsApart`: strings joined with NUL are equal only when their
parts are, provided the first holds no NUL. `AadBytesTellsBindingsApart`: the AAD
bytes determine the label and the context. `EncodeContextTellsPartsApart`: the
encoded context determines its parts, however many there are. `encodeContext` is
a fold, and the function a fold is defined by has to be shown to exist first:
by taking the least place at which a chain of joined parts cannot be continued
(`JoinsParts`, `JoiningEnds`). Then the last parts of two equal contexts are
equal, because `SeparatorTellsLastPartApart`, and so on down to the first.
`NormalizedTellsAddressesApart`: trimming and lower case identify exactly the
strings that `SameAddress` calls spellings of one address, a definition that
trims nothing.

`AccountsInvariant` (`RunsAsGiven`: a process that runs has the configuration of
its environment; `RowsStand`: every row was sealed and indexed for its own
column) and the encodings give every property of the run `accounts`:

- `AccountsTypeOK`, and `ColumnsNeverJoin`: columns whose index contexts differ
  never share an index token, whatever NULs the values hold;
- `BindingsAlwaysDistinct`: the AAD bytes of a stored token are made by no other
  label and no other list of parts;
- `GivenKeysAlwaysRead`: under any environment, duplicates and mistakes included,
  a process with an active key reads every row whose key it was given under the
  row's label, or it does not start;
- `SearchesFindExactly`: a search finds the rows of the value or of another
  spelling of it, and no other, unless the index key was changed;
- `CarefulRotationsAlwaysKeepAll`: an operator who only rotates the documented
  way always has a process that starts, reads every row and finds it. This
  needs the invariant `Careful` (every row is sealed under a label whose key the
  environment still gives, and the labels to come are not among the retired) and
  has one hypothesis, `LabelsAreFresh`: no label is given twice and there is a
  first key. TLC evaluates it in the run `accounts`.

### Rows and pages (PagesProofs)

`sealRow` and `unsealRow` are five folds over the fields a spec lists, and a spec
may list a field as a string, as JSON, twice, or in both lists. Each fold is
shown to run through a chain of values, one for each place of its list
(`SealRowRuns`, `UnsealRowRuns`, from `FoldIsChain` of LibraryLemmas), and the
chain of one field to depend on that field alone (`StringifiedByField`,
`SealedByField`, `OpenedByField`, `ParsedByField`): something is done to it at the
places where it is listed, and nothing elsewhere. `DoneAndUndone` then says that
what was done at some places and is undone at the same places comes back.

- `RowReturns`: what `sealRow` made of a row, `unsealRow` makes into the row again,
  under every configuration, with a key or without, on any instance. Without a
  key `seal` must have accepted the value, and what it accepts it leaves alone,
  so that `unseal` does not attempt it (`DormantIsLeftAlone`).
- `PagesTypes`, and `RowsSurvive`: the property `RowsRoundTrip` for any number of
  rows, fields, edits and other writers. The invariant (`PagesInvariant`) says the
  same of every instance instead of the one that runs (`Remembered`), because
  what an instance remembers never shows in what it returns (`ReadAlike`), and
  that the page still shows the table as it is (`PageStands`): an edit writes
  back the fields it read, so what it read has to be what was meant to be there.
- `PagesShowNoCiphertext`: the property `NoCiphertextShown`, with the invariant
  `StoredReadable`: stored values have one layer at most, of a kind the
  instance recognises.

- `ValuesStayWhereWritten`: the property `ShownValuesBelongHere`, for any number of
  copies and foreign values. A value copied away and back again reads as it did
  when it was written, which is no fault of the code (section 5), so the
  property speaks of a history, `written`. The invariant is `StoredBelong`:
  wherever a stored bound value is copied to, it reads as null there
  or as something written there. It holds because opening takes the token's own
  context and the key of its version (`TokenOpens`, `ReadsShut`), because
  `sealRow` binds to the context of the field alone (`SealsOwn`), and because
  reading a field needs its stored value alone (`ReadByField`).
- `PagesRefusedWhenSystemic`: the property `RefusedExactlyWhenSystemic`, for pages of
  any length, with rows repeated. `unsealRows` adds up the attempts and failures
  of two nested folds; the property compares them with the sizes of two sets.
  A fold that goes over different elements and adds one for those in a set
  counts the set (`TallyCounts`), and sums over rows count their union
  (`TotalCounts`), so the totals are the sizes of `PageAttempts` and `PageFailures`
  (`RowCounts`, `PageCounts`). For these to be `Weighed` and `Unreadable` an attempt
  has to be made exactly at the values that weigh, and has to fail exactly where
  `Opens` says so (`FailsExactly`: every branch of `unseal`). The first
  holds by the invariant `StoredRecognised`: a stored string is recognised as a
  token if and only if it has a layer, though users may type what looks like
  one, since under a key `sealRow` leaves no text of theirs in a listed field.
  `PageJudged` adds that the page was judged by the values still stored.

All of them rest on `JsonIsTotal`: `JSON.stringify` has a text for every value, as the
real one has for what a row may hold. No finite set of texts can be closed under
an injective `JSON.stringify`, so it is a hypothesis and not an assumption of the
module: the run's table `Stringify` has the values its rows need.
`ValuesStayWhereWritten` also assumes `BoundApart`: no two listed fields of a table
share a context, and others do not have the key that the keyring has for the
version they write; TLC evaluates it in the run `rows`. `PagesShowNoCiphertext`
also assumes `SealedOnce`: each field is listed once, and what others write is plain
text or one layer that the instance can recognise. Without it the statement is false:
a value of a field that is sealed twice, copied to a field that is opened
once, shows its inner layer, as does a value that others encrypted twice or in a
format that is not enabled. The run has a spec that lists a field twice as well:
there the contexts keep the two fields apart. `PagesRefusedWhenSystemic` assumes
`TellsCiphertext`, which TLC evaluates in `rows` too: the namespace argument names a
configured namespace, and what others write looks like a token exactly when it
is one. A text in the shape of a token that others put into a column is
attempted and fails, though it is not encrypted.

### Migrations (DeploymentProofs, MigrationProofs)

- `TypeCorrect`: `Spec => []TypeOK` of Deployment.
- `CertifiedPlanKeepsInvariant`, `CertifiedPlanHasNoDowntime`,
  `CertifiedPlanImplementsFieldStore`: a plan for which some `Held` satisfies
  `Certifies` has no downtime, and the fleet on it implements `FieldStore`.
- `SafeRotationIsCertified`, `SafeRotationHasNoDowntime`,
  `SafeRotationImplementsFieldStore`: every key rotation that satisfies
  `SafeRotation`, of any length, has such a certificate
  (`RotationHeld`: null, and the texts sealed under labels the release can
  read). `SafeRotation` says that a label keeps its key, that a label is
  readable in the neighbouring releases before one of them writes it, and that
  a label is dropped only behind a backfill. The documented three steps fail
  the middle clause.
- `SafeBindingIsCertified`, `SafeBindingHasNoDowntime`,
  `SafeBindingImplementsFieldStore`: the same of every migration to contexts
  that satisfies `SafeBinding`, with the certificate `BindingHeld`: null, the
  tokens bound to the cell if the release reads with its context, and unbound
  and legacy tokens if it tolerates them. `SafeBinding` says that keys stay,
  that a context is read by the neighbouring releases before one of them writes
  it and is never unlearnt, and that unbound tokens are given up only by
  releases that bind, behind a backfill or a read cycle without a count.
- `ZeroAlwaysMeansBound`: in such a migration, if a release that binds keeps its
  fallback only until a read cycle (`FallbackEndsWithCycle`), then a full cycle
  without a count since the last restart means that every stored token is bound
  to its column. This is the sentence an operator relies on at README.md 89.
- `SafeActivationIsCertified`, `SafeActivationHasNoDowntime`,
  `SafeActivationImplementsFieldStore`: the same of every plan from dormant mode
  over the first keys to `plaintext: "reject"` that satisfies `SafeActivation`
  (a cell takes its key on a flag day and keeps it, and plaintext is rejected
  only behind a backfill of releases that have the key). The certificate
  `ActivationHeld` has the plaintexts no release takes for tokens as long as
  plaintext passes, and what is sealed under the cell's labels.
- `CiphertextIsForGood`: under any plan with `SealsForGood`, certified or not, no
  step puts readable text where ciphertext was. Its invariant is small:
  `PhasesAdjacent` and `SealedStays`, no release that serves or is being
  shipped would store in the clear what is sealed by now.

**The argument.** `NoDowntime` is not inductive: that every process can read
what is there now does not say that the next release can, nor that what one
release writes another can read. `CertifiedInvariant(Held)` adds what is missing:

- `PhasesAdjacent`: a process runs the release being shipped or, in a rolling
  upgrade, the one before it;
- `RowsHeld`: each row is held by every serving release and by the one being
  shipped;
- `SweptFresh`: a row the backfill has been over was made by the settled
  release, so the gate `backfilled` lets nothing older through. The case that
  needs care is a lost compare-and-swap: the row is fresh because the fleet was
  settled when the script took the old one, so whoever changed it was the
  settled release, which is
- `JobFresh`: the row in hand is still the cell, or the cell is fresh;
- `CycleBound`: while all counters are zero, the cells read in the watched
  cycle do not read as unbound, so the gate `readCycle` lets only bound rows
  through. A restart resets a counter, which is why it has to void the cycle.

One lemma per action shows that it keeps these parts; the QED step of
`NextCertified` puts them together. The refinement maps writes to writes,
the application's reads to reads (the values they hand out are whole and right
by `RowsHeld`, which is `ReadsBack` on every release that serves), and
backfill, restarts, upgrades and shipping to stuttering.

### Only model-checked

- Liveness: `PlanCompletes`.

A theorem states every other property of a passing run. The runs evaluate
`SafeRotation`, `SafeBinding`, `SafeActivation`, `SealsForGood`, the certificates
themselves, `ColumnsAgree`, `LabelsAreFresh`, `BoundApart` and `TellsCiphertext`, so
the hypotheses of those theorems are known to be satisfied by the plans and
setups the documents describe.

## 5. What is not modelled, and why

- Bytes: base64url, nonces, tag lengths and JSON text are abstracted to shapes,
  layers and a table. Nonce reuse and the 2^32 limit have no counter in the code.
- The Python package's `seal`, `unseal` and row helpers: the same algorithm as
  the TypeScript, which the modules translate. What differs (strict base64 and
  its alphabet) is below strings that have a shape. What Python adds, instances
  shared by threads and the column types, is Columns.
- The type errors of the column types (a value that is no `str`): they raise
  before anything happens.
- `normalize` functions of the caller: TRUE and FALSE only. Lower case is a
  function of each character (`Lower`); in JavaScript's `toLowerCase` a few
  characters depend on their neighbours (a final sigma) or become two.
- A default namespace of the column types (`namespace=None`, which the instance
  resolves): `ColumnType` names one. Resolution itself is in SealedFields and
  checked by the run `process`.
- Decoders that are turned on after values were stored in the clear: a text of
  a legacy shape is then taken for a token, and the audit of README.md 146 is
  the operator's. `dormant_to_reject` has its decoder on from the start, and
  `SafeActivation` asks for that.
- Which of two errors is reported when the retry without context fails as well:
  in the model both are the same failed authentication.
- A bound inner layer that fails under an outer one that opens, in a field
  listed twice: nothing in the model makes such a value.
- `hashToken`: one hash call, and nothing to say of it.
- Loggers that throw: `console.warn` does not.
- Rollback to an older token of the same cell: `context-binding.md` puts it out
  of scope.
- JSON fields holding ciphertext-shaped JSON, and context functions that read a
  sealed field of the row.

## 6. Where the documents and the code differ

1. `process_keyless_legacy`: `index.ts` 237-241 promises that enabled legacy
   tokens are decrypted or throw. Without a ring the legacy branch (273) is
   skipped, in strict mode too: legacy ciphertext comes back as plaintext. A
   canonical token throws in the same situation (248).
2. `process_empty_legacy`: a legacy token over the empty string has an empty
   ciphertext part, which `matchLegacy` (`legacy.ts` 36, 42) turns down, so it
   too comes back as plaintext. `seal.ts` 24-26 handles the same case for
   canonical tokens.
3. `process_audit`: the audit with `isSealed` (README.md 146) does not find
   token-shaped values that are too short, and `unseal` throws on them.
4. `rotation_as_documented`: README.md 39 calls the rotation "three steps and no
   downtime". Rolled out process by process, its first step lets a process
   write under a label the others do not have. A release before it that adds
   the new key as retired closes the gap (`rotation`, `SafeRotation`).
5. `process_dormant_warnings`: README.md 158, `index.ts` 39-40,
   `python/README.md` 89-90 and `sqlalchemy.py` 35-36 say that dormant mode logs
   one warning per process. The code of both languages warns once for every
   namespace without a key, on each instance; `CHANGELOG.md` 52 says so and the
   tests (`seal.test.ts` 193) ask for it. `ClearWritesAreAnnounced`, in the runs
   `process` and `columns`, states what the changelog says and not what these
   four places say: one warning per process would leave a second namespace in
   the clear without a word.

A smaller difference has no run of its own. A fallback read is "logged once per
namespace" (README.md 89, `index.ts` 63-64, `context-binding.md` 82-84), but
Python threads that share an instance can each pass the check before the first
marks the namespace (`__init__.py` 423-431; the dormant warning, 285-293, is the
same). `WarningsStop` states what is left: at most one line per thread.

## 7. Plan

Done: Tokens, SealedFields, Process, RowHelpers and Pages, Deployment and
FieldStore, Certificates, then Encodings, Environment and Accounts, Columns, and
the proofs of section 4.

Next:

1. `PagesShowNoCiphertext` for fields that are listed twice: when every listed
   field is bound, to contexts kept apart (`BoundApart`), and others write one layer
   at most, the hypothesis that fields are listed once should not be needed.
2. The rate of failures for fields listed twice: `Weighed` would have to count
   places of the lists instead of fields, and the inner layer at the second one.
