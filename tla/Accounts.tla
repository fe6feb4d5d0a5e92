------------------------------ MODULE Accounts ------------------------------
(***************************************************************************)
(* Accounts found by e-mail although the e-mail is sealed (README.md       *)
(* 91-110): every row has the sealed value and its blind index.  The       *)
(* process takes its keys from the environment, and is started again       *)
(* whenever the operator has changed that: rotating a key the documented   *)
(* way, or getting it wrong.                                               *)
(***************************************************************************)
EXTENDS Environment, Encodings

CONSTANTS
  Listed,      \* the namespaces sealedFieldsFromEnv is called with
  CallOptions, \* and its options, as a Config
  Ns,          \* the namespace of the columns
  Column,
  Schemas,     \* how the application may declare its columns
  Id,          \* accounts
  Queries,     \* values searched for
  AddressOf,   \* the spelling of each text that is the address itself
  ColumnOf,    \* the column of each account
  Mistakes,    \* environments an operator may leave behind
  FirstEnv,    \* the environment to start with
  Labels,      \* the labels of successive keys, oldest first
  Absent, Down, NoSearch,
  MaxMistakes, \* bound: mistakes of the operator
  MaxRestarts  \* bound: restarts with a changed environment

(* A declaration: the context parts for sealing, the context for the index *)
(* and whether values are normalised.                                      *)
Declaration == [parts : Seq(Strings), index : Strings, normalize : BOOLEAN]

ASSUME AccountsAssumption ==
  /\ Listed \subseteq Namespace /\ Ns \in Listed
  /\ Text \subseteq Strings /\ Empty = << >> /\ Queries \subseteq Text
  /\ AddressOf \in [Text -> Text]
  /\ \A a, b \in Text : AddressOf[a] = AddressOf[b] <=> SameAddress(a, b)
  /\ Version \subseteq Clean
  /\ \A s \in Schemas : s \in [Column -> Declaration]
  /\ \A s \in Schemas, column \in Column :
       EncodeContext(s[column].parts) \in Context \cup {NoContext, InvalidContext}
  /\ CallOptions \in Config /\ Down \notin Config
  /\ \A e \in Mistakes \cup {FirstEnv} : e \in Environments
  /\ FirstEnv.of[Ns].key # Unset /\ FirstEnv.blindIndexKey # Unset
  /\ ColumnOf \in [Id -> Column]
  /\ Labels \in Seq(Version)
  /\ NoContext = NoParts /\ InvalidContext = BadParts
  /\ MaxMistakes \in Nat /\ MaxRestarts \in Nat

VARIABLES
  schema,    \* the declarations of this application
  env,       \* the environment the process was started with
  running,   \* the configuration of its instance, Down when it did not start
  rows,      \* the stored accounts
  found,     \* the last search: column, value, what it found
  generated, \* keys generateKey has given out
  mistakes, restarts

vars == <<schema, env, running, rows, found, generated, mistakes, restarts>>

-----------------------------------------------------------------------------
SealingOptions(column) ==
  [namespace |-> Ns, context |-> EncodeContext(schema[column].parts)]

(* blindIndex, the key being there.                                        *)
BlindIndex(column, value) ==
  IF HasNul(schema[column].index) THEN Err("InvalidContext")
  ELSE Ok(Mac(IndexKeyOf(env),
              IndexInput(schema[column].index,
                         Normalized(value, schema[column].normalize))))

CanIndex == running # Down /\ IndexKeyOf(env) # NoKey

Start(newEnv) ==
  /\ restarts < MaxRestarts
  /\ restarts' = restarts + 1
  /\ env' = newEnv
  /\ running' = IF Starts(newEnv, Listed, CallOptions)
                THEN SealedFieldsFromEnv(newEnv, Listed, CallOptions) ELSE Down
  /\ found' = NoSearch
  /\ UNCHANGED <<schema, rows>>

Init ==
  /\ schema \in Schemas
  /\ env = FirstEnv
  /\ Starts(env, Listed, CallOptions)
  /\ running = SealedFieldsFromEnv(env, Listed, CallOptions)
  /\ rows = [id \in Id |-> Absent]
  /\ found = NoSearch
  /\ generated = {FirstEnv.of[Ns].key.key, FirstEnv.blindIndexKey.key}
  /\ mistakes = 0 /\ restarts = 0

(* sf.seal and then sf.blindIndex; when one of them throws nothing is      *)
(* inserted.  An account has an address.                                   *)
Register(id, value) ==
  LET sealed == Seal(running, Plain(value), SealingOptions(ColumnOf[id]))
      index == BlindIndex(ColumnOf[id], value)
  IN /\ CanIndex
     /\ rows[id] = Absent
     /\ sealed.status = "ok" /\ index.status = "ok"
     /\ rows' = [rows EXCEPT ![id] = [email |-> sealed.value, index |-> index.value,
                                      text |-> value]]
     /\ found' = NoSearch
     /\ UNCHANGED <<schema, env, running, generated, mistakes, restarts>>

Search(column, value) ==
  LET index == BlindIndex(column, value) IN
  /\ CanIndex
  /\ index.status = "ok"
  /\ found' = [column |-> column, value |-> value,
               ids |-> {id \in Id : /\ ColumnOf[id] = column /\ rows[id] # Absent
                                    /\ rows[id].index = index.value}]
  /\ UNCHANGED <<schema, env, running, rows, generated, mistakes, restarts>>

(* README.md 37-53: a key nobody has had, the next label, and the key it   *)
(* replaces at the end of the retired ones.                                *)
GenerateKey == CHOOSE key \in Key : key \notin generated

Rotate ==
  LET old == env.of[Ns]
      label == IF old.version = NoVersion THEN DefaultVersion ELSE old.version
      entry == [form |-> "pair", label |-> label, text |-> old.key]
  IN /\ mistakes = 0
     /\ generated # Key
     /\ \E i \in 1 .. Len(Labels) - 1 :
          /\ Labels[i] = label
          /\ Start([env EXCEPT !.of[Ns] =
                      [key |-> [form |-> "base64", key |-> GenerateKey],
                       version |-> Labels[i + 1],
                       retired |-> Append(@.retired, entry)]])
     /\ generated' = generated \cup {GenerateKey}
     /\ UNCHANGED mistakes

Mistake(newEnv) ==
  /\ mistakes < MaxMistakes
  /\ mistakes' = mistakes + 1
  /\ Start(newEnv)
  /\ UNCHANGED generated

Next ==
  \/ \E id \in Id, value \in Text \ {Empty} : Register(id, value)
  \/ \E column \in Column, value \in Queries : Search(column, value)
  \/ Rotate
  \/ \E newEnv \in Mistakes : Mistake(newEnv)

Spec == Init /\ [][Next]_vars

-----------------------------------------------------------------------------
Present == {id \in Id : rows[id] # Absent}

Outermost(id) == Head(rows[id].email.layers)

(* Every variable has its type: above all, a process that runs has a valid *)
(* configuration and no key that parseKey turned down.                     *)
TypeOK ==
  /\ schema \in Schemas
  /\ running # Down
     => /\ DOMAIN running.namespaces = Namespace
        /\ \A ns \in Listed : KeysOf(RingOf(running, ns)) \subseteq Key
        /\ IndexKeyOf(env) \in Key \cup {NoKey}
  /\ \A id \in Present : /\ rows[id].email \in Str /\ rows[id].text \in Text
                         /\ rows[id].index.key \in Key
  /\ generated \subseteq Key
  /\ mistakes \in 0 .. MaxMistakes /\ restarts \in 0 .. MaxRestarts

(* A search finds exactly the accounts whose value is the same, or another *)
(* spelling of the same address where values are normalised, through every *)
(* rotation of the encryption keys and every mistake, as long as the index *)
(* key is the one they were stored under (README.md 91-108, index.ts       *)
(* 319-352).                                                               *)
FindsExactly ==
  found # NoSearch
  => LET normalize == schema[found.column].normalize IN
     found.ids = {id \in Present :
                    /\ ColumnOf[id] = found.column
                    /\ rows[id].index.key = IndexKeyOf(env)
                    /\ IF normalize THEN AddressOf[rows[id].text] = AddressOf[found.value]
                       ELSE rows[id].text = found.value}

(* Two columns with index contexts of their own never share an index       *)
(* token, whatever the values, NULs included, so a reader of the database  *)
(* cannot join them (README.md 110, index.ts 331-334).                     *)
ColumnsDoNotJoin ==
  \A a, b \in Present :
    LET here == schema[ColumnOf[a]].index  there == schema[ColumnOf[b]].index IN
    (here # there /\ here # << >> /\ there # << >>)
    => rows[a].index # rows[b].index

(* The AAD bytes of a stored token are those of its own label and of its   *)
(* own column's parts only: no other declaration, and no other label,      *)
(* makes the same bytes (index.ts 72-90, seal.ts 46-50).                   *)
BindingsAreDistinct ==
  \A id \in Present :
    rows[id].email.layers # << >>
    => \A column \in Column, label \in Version :
         LET parts == schema[column].parts IN
         (/\ EncodeContext(parts) # BadParts
          /\ AadBytes(label, EncodeContext(parts))
               = AadBytes(Outermost(id).aad.version, Outermost(id).aad.context))
         => /\ label = Outermost(id).version
            /\ EncodeContext(parts) # NoParts => parts = schema[ColumnOf[id]].parts

(* The key text the environment gives for a label: the active key's, or    *)
(* the last entry's.                                                       *)
Gives(variables, label, key) ==
  \/ /\ label = IF variables.version = NoVersion THEN DefaultVersion ELSE variables.version
     /\ ParseKey(variables.key) = key
  \/ \E i \in Pairs(variables.retired, label) :
       /\ ParseKey(variables.retired[i].text) = key
       /\ \A j \in Pairs(variables.retired, label) : j <= i

(* A process that starts with an active key reads every account whose key  *)
(* its environment gives under the right label; if it cannot, it does not  *)
(* start (index.ts 484-505, keyring.ts 48-76).                             *)
GivenKeysRead ==
  (running # Down /\ ~ IsBlank(env.of[Ns].key))
  => \A id \in Present :
       LET stored == rows[id].email
           read == Unseal(running, stored, SealingOptions(ColumnOf[id]))
       IN (stored.layers # << >> /\ Gives(env.of[Ns], Outermost(id).version, Outermost(id).key))
          => read.status = "ok" /\ read.value = Plain(rows[id].text)

(* What the operator owes to rotate so: a first key, and labels none of    *)
(* which is given twice.                                                   *)
LabelsAreFresh ==
  /\ ~ IsBlank(FirstEnv.of[Ns].key)
  /\ \A i, j \in DOMAIN Labels :
       /\ Labels[i] = Labels[j] => i = j
       /\ Labels[i] = ActiveVersion(FirstEnv.of[Ns]) /\ i < j
          => Labels[j] \notin RetiredLabels(FirstEnv.of[Ns].retired)

(* As long as the operator only ever rotates the documented way, the       *)
(* process starts, and every account there is can be read and is found     *)
(* (README.md 37-53, 160-170).                                             *)
CarefulRotationsKeepAll ==
  mistakes = 0
  => /\ running # Down
     /\ \A id \in Present :
          LET read == Unseal(running, rows[id].email, SealingOptions(ColumnOf[id])) IN
          /\ read.status = "ok" /\ read.value = Plain(rows[id].text)
          /\ rows[id].index = BlindIndex(ColumnOf[id], rows[id].text).value
=============================================================================
