--------------------------- MODULE AccountsProofs ---------------------------
(***************************************************************************)
(* What holds of the accounts whatever the environment says, for every set *)
(* of keys and labels, every declaration of the columns and any number of  *)
(* mistakes and restarts.                                                  *)
(***************************************************************************)
EXTENDS Accounts, LibraryLemmas, EncodingProofs

-----------------------------------------------------------------------------
(* The invariant.                                                          *)

(* A process that runs was given its configuration by its environment.     *)
RunsAsGiven ==
  /\ env \in Environments
  /\ running # Down
     => Starts(env, Listed, CallOptions)
        /\ running = SealedFieldsFromEnv(env, Listed, CallOptions)

(* A token was sealed for its own column, under a label and a key.         *)
SealedForColumn(id) ==
  LET email == rows[id].email
      context == SealingOptions(ColumnOf[id]).context
  IN email.layers # << >>
     => \E label \in Version, key \in Key :
          LET layer == [format |-> "token", version |-> label, key |-> key,
                        aad |-> BuildAad(label, context)]
          IN /\ context # InvalidContext
             /\ layer \in Layer
             /\ email = Wrap(Plain(rows[id].text), layer)

(* A blind index was made of its own text, and with the index context of   *)
(* its own column.                                                         *)
IndexedForColumn(id) ==
  LET declared == schema[ColumnOf[id]] IN
  /\ ~ HasNul(declared.index)
  /\ rows[id].index = Mac(rows[id].index.key,
                          IndexInput(declared.index,
                                     Normalized(rows[id].text, declared.normalize)))

RowsStand ==
  /\ rows = [id \in Id |-> rows[id]]
  /\ \A id \in Present :
       /\ rows[id].text \in Text /\ rows[id].email \in Str
       /\ rows[id].index.key \in Key
       /\ SealedForColumn(id) /\ IndexedForColumn(id)

AccountsInvariant ==
  /\ schema \in Schemas
  /\ mistakes = 0 => env.of[Ns].key # Unset
  /\ generated \subseteq Key
  /\ mistakes \in 0 .. MaxMistakes /\ restarts \in 0 .. MaxRestarts
  /\ RunsAsGiven
  /\ RowsStand

-----------------------------------------------------------------------------
(* The environment.                                                        *)

(* A slot that is not blank holds the text of a key, or one that parseKey  *)
(* turns down.                                                             *)
LEMMA ParseKeyType ==
  ASSUME NEW slot \in KeyText \cup {Unset}, ~ IsBlank(slot), ParseKey(slot) # BadKey
  PROVE  ParseKey(slot) \in Key
<1>1. slot \in KeyText
  BY DEF IsBlank
<1> QED
  BY <1>1 DEF ParseKey, KeyText

(* The last entry under a label is an entry.                               *)
LEMMA RetiredTextType ==
  ASSUME NEW retired \in Seq(Entry), NEW label \in RetiredLabels(retired)
  PROVE  /\ RetiredText(retired, label) \in KeyText
         /\ \A i \in Pairs(retired, label) :
              (\A j \in Pairs(retired, label) : j <= i)
              => RetiredText(retired, label) = retired[i].text
<1> DEFINE last == CHOOSE i \in Pairs(retired, label) : \A j \in Pairs(retired, label) : j <= i
<1>1. DOMAIN retired = 1 .. Len(retired) /\ Len(retired) \in Nat
  OBVIOUS
<1>2. Pairs(retired, label) \in SUBSET (1 .. Len(retired)) /\ Pairs(retired, label) # {}
  BY <1>1 DEF Pairs, RetiredLabels
<1>3. last \in Pairs(retired, label) /\ \A j \in Pairs(retired, label) : j <= last
  BY <1>1, <1>2, FirstAndLast
<1>4. RetiredText(retired, label) = retired[last].text
  BY DEF RetiredText
<1> HIDE DEF last
<1>5. retired[last] \in Entry
  BY <1>1, <1>2, <1>3
<1>6. ASSUME NEW i \in Pairs(retired, label), \A j \in Pairs(retired, label) : j <= i
      PROVE  i = last
  <2>1. i <= last /\ last <= i /\ i \in Int /\ last \in Int
    BY <1>2, <1>3, <1>6
  <2> QED
    BY <2>1
<1> QED
  BY <1>4, <1>5, <1>6 DEF Entry

(* What the constructor is given for a namespace is a configuration of it. *)
LEMMA NamespaceOfType ==
  ASSUME NEW variables \in Variables, AcceptsText(variables)
  PROVE  /\ NamespaceOf(variables) \in NamespaceConfig
         /\ ~ IsBlank(variables.key)
            => /\ NamespaceOf(variables).key = ParseKey(variables.key)
               /\ ParseKey(variables.key) \in Key
               /\ NamespaceOf(variables).version = variables.version
<1>1. CASE IsBlank(variables.key)
  <2>1. [label \in Version |-> NoKey] \in KeysByVersion
    BY DEF KeysByVersion
  <2> QED
    BY <1>1, <2>1 DEF NamespaceOf, NamespaceConfig
<1>2. CASE ~ IsBlank(variables.key)
  <2> DEFINE retired == [label \in Version |->
                           IF label \in RetiredLabels(variables.retired)
                           THEN ParseKey(RetiredText(variables.retired, label)) ELSE NoKey]
  <2>1. NamespaceOf(variables) = [key |-> ParseKey(variables.key),
                                  version |-> variables.version, retired |-> retired]
    BY <1>2 DEF NamespaceOf
  <2>2. /\ variables.key \in KeyText \cup {Unset} /\ variables.retired \in Seq(Entry)
        /\ variables.version \in Version \cup BadLabel \cup {NoVersion}
    BY DEF Variables
  <2>3. /\ variables.version \in Version \cup {NoVersion}
        /\ ParseKey(variables.key) # BadKey
        /\ \A label \in RetiredLabels(variables.retired) :
             ParseKey(RetiredText(variables.retired, label)) # BadKey
    BY <1>2, <2>2 DEF AcceptsText
  <2>4. ParseKey(variables.key) \in Key
    BY <1>2, <2>2, <2>3, ParseKeyType
  <2>5. retired \in KeysByVersion
    <3>1. ASSUME NEW label \in Version, label \in RetiredLabels(variables.retired)
          PROVE  ParseKey(RetiredText(variables.retired, label)) \in Key
      <4>1. RetiredText(variables.retired, label) \in KeyText
        BY <2>2, <3>1, RetiredTextType
      <4>2. ParseKey(RetiredText(variables.retired, label)) # BadKey
        BY <2>3, <3>1
      <4> QED
        BY <4>1, <4>2 DEF ParseKey, KeyText
    <3> QED
      BY <3>1 DEF KeysByVersion
  <2> HIDE DEF retired
  <2> QED
    BY <2>1, <2>3, <2>4, <2>5 DEF NamespaceConfig
<1> QED
  BY <1>1, <1>2

(* A process that starts has a configuration.                              *)
LEMMA StartsType ==
  ASSUME NEW e \in Environments, Starts(e, Listed, CallOptions)
  PROVE  LET c == SealedFieldsFromEnv(e, Listed, CallOptions) IN
         /\ c \in Config /\ Constructible(c)
         /\ \A ns \in Listed : /\ e.of[ns] \in Variables /\ AcceptsText(e.of[ns])
                               /\ c.namespaces[ns] = NamespaceOf(e.of[ns])
                               /\ c.namespaces[ns] \in NamespaceConfig
         /\ IndexKeyOf(e) \in Key \cup {NoKey}
<1> DEFINE namespaces == [ns \in Namespace |-> IF ns \in Listed THEN NamespaceOf(e.of[ns])
                                               ELSE NotConfigured]
           c == SealedFieldsFromEnv(e, Listed, CallOptions)
<1>1. c = [CallOptions EXCEPT !.namespaces = namespaces]
  BY DEF SealedFieldsFromEnv
<1>2. \A ns \in Listed : ns \in Namespace /\ e.of[ns] \in Variables /\ AcceptsText(e.of[ns])
  BY AccountsAssumption DEF Environments, Starts
<1>3. \A ns \in Listed : NamespaceOf(e.of[ns]) \in NamespaceConfig
  BY <1>2, NamespaceOfType
<1>4. namespaces \in [Namespace -> NamespaceConfig \cup {NotConfigured}]
  BY <1>3
<1>5. CallOptions \in Config
  BY AccountsAssumption
<1>6. \A ns \in Listed : namespaces[ns] = NamespaceOf(e.of[ns])
  BY <1>2
<1>7. IndexKeyOf(e) \in Key \cup {NoKey}
  <2>1. e.blindIndexKey \in KeyText \cup {Unset} /\ IndexKeyOf(e) # BadKey
    BY DEF Environments, Starts
  <2> QED
    BY <2>1, ParseKeyType DEF IndexKeyOf
<1> HIDE DEF namespaces
<1>8. c \in Config /\ c.namespaces = namespaces
  BY <1>1, <1>4, <1>5 DEF Config
<1> QED
  BY <1>2, <1>3, <1>6, <1>7, <1>8 DEF Starts

(* The options of a column.                                                *)
LEMMA SealingOptionsType ==
  ASSUME schema \in Schemas, NEW column \in Column, NEW c
  PROVE  /\ SealingOptions(column) \in SealOptions
         /\ ResolveNs(c, SealingOptions(column)) = Ns
         /\ Ns \in Namespace
<1>1. Ns \in Namespace /\ Ns # NoNamespace
  BY AccountsAssumption, SealedFieldsAssumption
<1>2. EncodeContext(schema[column].parts) \in Context \cup {NoContext, InvalidContext}
  BY AccountsAssumption
<1> QED
  BY <1>1, <1>2 DEF SealingOptions, SealOptions, ResolveNs

-----------------------------------------------------------------------------
(* Steps.                                                                  *)

(* The first environment starts, and there are no accounts.                *)
LEMMA AccountsInit == Init => AccountsInvariant
<1> SUFFICES ASSUME Init PROVE AccountsInvariant
  OBVIOUS
<1>1. env = FirstEnv /\ env \in Environments /\ Starts(env, Listed, CallOptions)
      /\ running = SealedFieldsFromEnv(env, Listed, CallOptions)
  BY AccountsAssumption DEF Init
<1>2. FirstEnv.of[Ns].key \in KeyText /\ FirstEnv.blindIndexKey \in KeyText
  BY <1>1, AccountsAssumption DEF Environments, Variables
<1>3. generated \subseteq Key
  BY <1>2 DEF Init, KeyText
<1>4. RowsStand
  BY DEF Init, RowsStand, Present
<1> QED
  BY <1>1, <1>3, <1>4, AccountsAssumption DEF Init, AccountsInvariant, RunsAsGiven

(* A restart takes the new environment, or leaves the process down.        *)
LEMMA StartKeeps ==
  ASSUME AccountsInvariant, NEW newEnv \in Environments, Start(newEnv),
         generated' \subseteq Key, mistakes' \in 0 .. MaxMistakes,
         mistakes' = 0 => newEnv.of[Ns].key # Unset
  PROVE  AccountsInvariant'
<1>1. /\ env' = newEnv /\ UNCHANGED <<schema, rows>> /\ restarts' \in 0 .. MaxRestarts
      /\ running' = IF Starts(newEnv, Listed, CallOptions)
                    THEN SealedFieldsFromEnv(newEnv, Listed, CallOptions) ELSE Down
  BY AccountsAssumption DEF Start, AccountsInvariant
<1>2. RunsAsGiven'
  BY <1>1 DEF RunsAsGiven
<1>3. RowsStand'
  BY <1>1 DEF AccountsInvariant, RowsStand, Present, SealedForColumn, IndexedForColumn,
              SealingOptions
<1> QED
  BY <1>1, <1>2, <1>3 DEF AccountsInvariant

(* A new account is sealed and indexed for its own column.                 *)
LEMMA RegisterKeeps ==
  ASSUME AccountsInvariant, NEW id \in Id, NEW value \in Text \ {Empty},
         Register(id, value)
  PROVE  AccountsInvariant'
<1> DEFINE column == ColumnOf[id]
           options == SealingOptions(column)
           sealed == Seal(running, Plain(value), options)
           index == BlindIndex(column, value)
           new == [email |-> sealed.value, index |-> index.value, text |-> value]
<1>1. /\ running # Down /\ IndexKeyOf(env) # NoKey
      /\ sealed.status = "ok" /\ index.status = "ok"
      /\ rows' = [rows EXCEPT ![id] = new]
      /\ UNCHANGED <<schema, env, running, generated, mistakes, restarts>>
  BY DEF Register, CanIndex
<1>2. /\ running \in Config /\ IndexKeyOf(env) \in Key
      /\ column \in Column /\ schema \in Schemas
      /\ Plain(value) \in Str /\ Plain(value).layers = << >>
  <2>1. Plain(value) \in Str /\ Plain(value).layers = << >>
    BY DEF Plain, Str
  <2> QED
    BY <1>1, <2>1, StartsType, AccountsAssumption DEF AccountsInvariant, RunsAsGiven
<1>3. options \in SealOptions /\ ResolveNs(running, options) = Ns
  BY <1>2, SealingOptionsType
<1>4. rows' = [x \in Id |-> rows'[x]] /\ rows'[id] = new
      /\ \A x \in Id : x # id => rows'[x] = rows[x]
  BY <1>1 DEF AccountsInvariant, RowsStand
<1>5. sealed.value \in Str
  BY <1>2, <1>3, SealType DEF Outcomes
<1>6. ASSUME sealed.value.layers # << >>
      PROVE  \E label \in Version, key \in Key :
               LET layer == [format |-> "token", version |-> label, key |-> key,
                             aad |-> BuildAad(label, options.context)]
               IN /\ options.context # InvalidContext
                  /\ layer \in Layer
                  /\ sealed.value = Wrap(Plain(value), layer)
  <2> DEFINE ring == RingOf(running, Ns)
             layer == TokenLayer(ring, options.context)
  <2>1. /\ OptionsStatus(running, options) = "ok"
        /\ ring # NoRing /\ sealed.value = Wrap(Plain(value), layer)
    BY <1>1, <1>2, <1>3, <1>6, SealReturns
  <2>2. /\ ring \in Ring /\ ring.keys[ring.activeVersion] \in Key
        /\ options.context \in Context \cup {NoContext}
    BY <1>2, <1>3, <2>1, RingOfType, OptionsType
  <2>3. layer \in Layer
    BY <2>2, TokenLayerType
  <2>4. layer = [format |-> "token", version |-> ring.activeVersion,
                 key |-> ring.keys[ring.activeVersion],
                 aad |-> BuildAad(ring.activeVersion, options.context)]
    BY DEF TokenLayer
  <2>5. ring.activeVersion \in Version
    BY <2>2 DEF Ring
  <2>6. options.context # InvalidContext
    BY <2>2, SealedFieldsAssumption
  <2> HIDE DEF ring, layer
  <2> QED
    BY <2>1, <2>2, <2>3, <2>4, <2>5, <2>6
<1>7. /\ ~ HasNul(schema[column].index)
      /\ index.value.key \in Key
      /\ index.value = Mac(index.value.key,
                           IndexInput(schema[column].index,
                                      Normalized(value, schema[column].normalize)))
  <2> DEFINE normal == Normalized(value, schema[column].normalize)
  <2>1. ~ HasNul(schema[column].index)
    BY <1>1 DEF BlindIndex, Err, Outcome
  <2>2. index.value = Mac(IndexKeyOf(env), IndexInput(schema[column].index, normal))
    BY <2>1 DEF BlindIndex, Ok, Outcome
  <2>3. index.value.key = IndexKeyOf(env)
    BY <2>2 DEF Mac
  <2> QED
    BY <1>2, <2>1, <2>2, <2>3
<1>8. RowsStand'
  <2> SUFFICES ASSUME NEW x \in Present'
               PROVE  /\ rows'[x].text \in Text /\ rows'[x].email \in Str
                      /\ rows'[x].index.key \in Key
                      /\ SealedForColumn(x)' /\ IndexedForColumn(x)'
    BY <1>4 DEF RowsStand
  <2>1. x \in Id /\ rows'[x] # Absent
    BY DEF Present
  <2>2. CASE x = id
    <3>1. /\ rows'[x].text = value /\ rows'[x].email = sealed.value
          /\ rows'[x].index = index.value
      BY <1>4, <2>2
    <3>2. SealedForColumn(x)'
      BY <1>1, <1>6, <2>2, <3>1 DEF SealedForColumn, SealingOptions
    <3>3. IndexedForColumn(x)'
      BY <1>1, <1>7, <2>2, <3>1 DEF IndexedForColumn
    <3> QED
      BY <1>5, <1>7, <3>1, <3>2, <3>3
  <2>3. CASE x # id
    <3>1. rows'[x] = rows[x] /\ x \in Present
      BY <1>4, <2>1, <2>3 DEF Present
    <3> QED
      BY <1>1, <3>1 DEF AccountsInvariant, RowsStand, SealedForColumn, IndexedForColumn,
                        SealingOptions
  <2> QED
    BY <2>2, <2>3
<1>9. RunsAsGiven'
  BY <1>1 DEF AccountsInvariant, RunsAsGiven
<1> QED
  BY <1>1, <1>8, <1>9 DEF AccountsInvariant

(* A rotation generates a key, and leaves an environment.                  *)
LEMMA RotateKeeps ==
  ASSUME AccountsInvariant, Rotate
  PROVE  AccountsInvariant'
<1> DEFINE old == env.of[Ns]
           label == IF old.version = NoVersion THEN DefaultVersion ELSE old.version
           entry == [form |-> "pair", label |-> label, text |-> old.key]
           New(next) == [key |-> [form |-> "base64", key |-> GenerateKey],
                         version |-> next, retired |-> Append(old.retired, entry)]
<1>1. PICK i \in 1 .. Len(Labels) - 1 :
        /\ Labels[i] = label
        /\ Start([env EXCEPT !.of[Ns] = New(Labels[i + 1])])
  BY DEF Rotate
<1>2. /\ mistakes = 0 /\ generated # Key /\ mistakes' = mistakes
      /\ generated' = generated \cup {GenerateKey}
  BY DEF Rotate
<1>3. GenerateKey \in Key
  BY <1>2 DEF AccountsInvariant, GenerateKey
<1>4. env \in Environments /\ Ns \in Namespace /\ old \in Variables
  BY AccountsAssumption DEF AccountsInvariant, RunsAsGiven, Environments
<1>5. old.key \in KeyText
  BY <1>2, <1>4 DEF AccountsInvariant, Variables
<1>6. Labels[i + 1] \in Version
  BY AccountsAssumption
<1>7. entry \in Entry
  <2>1. label \in Version \cup BadLabel
    BY <1>4, TokensAssumption DEF Variables
  <2> HIDE DEF label, old
  <2> QED
    BY <1>5, <2>1 DEF Entry
<1>8. Append(old.retired, entry) \in Seq(Entry)
  BY <1>4, <1>7 DEF Variables
<1>9. [form |-> "base64", key |-> GenerateKey] \in KeyText
  BY <1>3 DEF KeyText
<1> DEFINE new == New(Labels[i + 1])
<1>10. new \in Variables /\ new.key # Unset
  BY <1>6, <1>8, <1>9, EnvironmentAssumption DEF Variables, KeyText
<1> HIDE DEF new, New
<1> DEFINE newEnv == [env EXCEPT !.of[Ns] = new]
<1>11. newEnv \in Environments /\ newEnv.of[Ns] = new
  BY <1>4, <1>10 DEF Environments
<1>12. Start(newEnv)
  BY <1>1 DEF new
<1>13. generated' \subseteq Key /\ mistakes' \in 0 .. MaxMistakes
  BY <1>2, <1>3 DEF AccountsInvariant
<1> HIDE DEF newEnv
<1> QED
  BY <1>10, <1>11, <1>12, <1>13, StartKeeps

(* Every step keeps the invariant.                                         *)
LEMMA AccountsNext ==
  ASSUME AccountsInvariant, [Next]_vars
  PROVE  AccountsInvariant'
<1>1. ASSUME NEW id \in Id, NEW value \in Text \ {Empty}, Register(id, value)
      PROVE  AccountsInvariant'
  BY <1>1, RegisterKeeps
<1>2. ASSUME NEW column \in Column, NEW value \in Queries, Search(column, value)
      PROVE  AccountsInvariant'
  <2>1. UNCHANGED <<schema, env, running, rows, generated, mistakes, restarts>>
    BY <1>2 DEF Search
  <2> QED
    BY <2>1 DEF AccountsInvariant, RunsAsGiven, RowsStand, Present, SealedForColumn,
                IndexedForColumn, SealingOptions
<1>3. CASE Rotate
  BY <1>3, RotateKeeps
<1>4. ASSUME NEW newEnv \in Mistakes, Mistake(newEnv)
      PROVE  AccountsInvariant'
  <2>1. /\ newEnv \in Environments /\ Start(newEnv) /\ UNCHANGED generated
        /\ mistakes' = mistakes + 1 /\ mistakes < MaxMistakes
    BY <1>4, AccountsAssumption DEF Mistake
  <2>2. mistakes' \in 0 .. MaxMistakes /\ mistakes' # 0
    BY <2>1, AccountsAssumption DEF AccountsInvariant
  <2>3. generated' \subseteq Key
    BY <2>1 DEF AccountsInvariant
  <2> QED
    BY <2>1, <2>2, <2>3, StartKeeps
<1>5. CASE UNCHANGED vars
  BY <1>5 DEF vars, AccountsInvariant, RunsAsGiven, RowsStand, Present, SealedForColumn,
              IndexedForColumn, SealingOptions
<1> QED
  BY <1>1, <1>2, <1>3, <1>4, <1>5 DEF Next

(* The invariant, for every environment an operator may leave.             *)
THEOREM AccountsKeepInvariant == Spec => []AccountsInvariant
<1>1. Init => AccountsInvariant
  BY AccountsInit
<1>2. AccountsInvariant /\ [Next]_vars => AccountsInvariant'
  BY AccountsNext
<1> QED
  BY <1>1, <1>2, PTL DEF Spec

-----------------------------------------------------------------------------
(* What it is good for.                                                    *)

(* What is indexed of an account is a string.                              *)
LEMMA NormalizedRow ==
  ASSUME AccountsInvariant, NEW id \in Present
  PROVE  Normalized(rows[id].text, schema[ColumnOf[id]].normalize) \in Strings
<1>1. schema[ColumnOf[id]] \in Declaration
  BY AccountsAssumption DEF AccountsInvariant, Present
<1>2. rows[id].text \in Strings
  BY AccountsAssumption DEF AccountsInvariant, RowsStand
<1> QED
  BY <1>1, <1>2, NormalizedType DEF Declaration

(* Two columns with index contexts of their own never share a blind index, *)
(* for all values there are.                                               *)
THEOREM ColumnsNeverJoin == Spec => []ColumnsDoNotJoin
<1>1. AccountsInvariant => ColumnsDoNotJoin
  <2> SUFFICES ASSUME AccountsInvariant, NEW a \in Present, NEW b \in Present,
                      schema[ColumnOf[a]].index # schema[ColumnOf[b]].index,
                      schema[ColumnOf[a]].index # << >>,
                      schema[ColumnOf[b]].index # << >>,
                      rows[a].index = rows[b].index
               PROVE  FALSE
    BY DEF ColumnsDoNotJoin
  <2> DEFINE here == schema[ColumnOf[a]].index
             there == schema[ColumnOf[b]].index
             v == Normalized(rows[a].text, schema[ColumnOf[a]].normalize)
             w == Normalized(rows[b].text, schema[ColumnOf[b]].normalize)
  <2>1. v \in Strings /\ rows[a].index = Mac(rows[a].index.key, IndexInput(here, v))
    BY NormalizedRow DEF AccountsInvariant, RowsStand, IndexedForColumn
  <2>2. w \in Strings /\ rows[b].index = Mac(rows[b].index.key, IndexInput(there, w))
    BY NormalizedRow DEF AccountsInvariant, RowsStand, IndexedForColumn
  <2> HIDE DEF v, w
  <2>3. IndexInput(here, v) = IndexInput(there, w)
    BY <2>1, <2>2 DEF Mac
  <2>4. Joined(here, v) = Joined(there, w)
    BY <2>3 DEF IndexInput
  <2>5. here \in Strings /\ there \in Strings
    BY AccountsAssumption DEF Present, AccountsInvariant, Declaration
  <2>6. here \in Clean /\ there \in Clean
    BY <2>5, CleanStrings DEF AccountsInvariant, RowsStand, IndexedForColumn
  <2>7. here = there
    BY <2>1, <2>2, <2>4, <2>6, SeparatorTellsPartsApart
  <2> QED
    BY <2>7
<1> QED
  BY <1>1, AccountsKeepInvariant, PTL

(* The bytes a stored token was bound to are those of its own label and of *)
(* its own column's parts only, for all labels, parts and values there are.*)
THEOREM BindingsAlwaysDistinct == Spec => []BindingsAreDistinct
<1>1. AccountsInvariant => BindingsAreDistinct
  <2> SUFFICES ASSUME AccountsInvariant, NEW id \in Present, rows[id].email.layers # << >>,
                      NEW column \in Column, NEW label \in Version,
                      EncodeContext(schema[column].parts) # BadParts,
                      AadBytes(label, EncodeContext(schema[column].parts))
                        = AadBytes(Outermost(id).aad.version, Outermost(id).aad.context)
               PROVE  /\ label = Outermost(id).version
                      /\ EncodeContext(schema[column].parts) # NoParts
                         => schema[column].parts = schema[ColumnOf[id]].parts
    BY DEF BindingsAreDistinct
  <2> DEFINE here == schema[ColumnOf[id]].parts
             there == schema[column].parts
  <2>1. PICK own \in Version, key \in Key :
          LET layer == [format |-> "token", version |-> own, key |-> key,
                        aad |-> BuildAad(own, EncodeContext(here))]
          IN /\ EncodeContext(here) # BadParts
             /\ layer \in Layer /\ rows[id].email = Wrap(Plain(rows[id].text), layer)
    BY AccountsAssumption DEF AccountsInvariant, RowsStand, SealedForColumn, SealingOptions
  <2>2. Plain(rows[id].text) \in Str
    <3>1. rows[id].text \in Text
      BY DEF AccountsInvariant, RowsStand
    <3>2. << >> \in Seq(Layer)
      OBVIOUS
    <3> QED
      BY <3>1, <3>2 DEF Plain, Str
  <2>3. /\ Outermost(id).version = own /\ Outermost(id).aad = BuildAad(own, EncodeContext(here))
    <3> DEFINE layer == [format |-> "token", version |-> own, key |-> key,
                         aad |-> BuildAad(own, EncodeContext(here))]
    <3>1. Head(rows[id].email.layers) = layer
      BY <2>1, <2>2, UnwrapWrap
    <3> QED
      BY <3>1 DEF Outermost
  <2>4. here \in Seq(Strings) /\ there \in Seq(Strings)
    BY AccountsAssumption DEF AccountsInvariant, Present, Declaration
  <2> HIDE DEF here, there
  <2>5. own \in Clean /\ label \in Clean
    BY AccountsAssumption
  <2>6. /\ EncodeContext(here) \in Strings \cup {NoParts}
        /\ EncodeContext(there) \in Strings \cup {NoParts}
    BY <2>1, <2>4, EncodedType DEF there
  <2>7. AadBytes(label, EncodeContext(there)) = AadBytes(own, EncodeContext(here))
    BY <2>3 DEF BuildAad, there
  <2>8. label = own /\ EncodeContext(there) = EncodeContext(here)
    BY <2>5, <2>6, <2>7, AadBytesTellsBindingsApart
  <2>9. ASSUME EncodeContext(there) # NoParts
        PROVE  there = here
    BY <2>4, <2>8, <2>9, EncodeContextTellsPartsApart DEF there
  <2> QED
    BY <2>3, <2>8, <2>9 DEF here, there
<1> QED
  BY <1>1, AccountsKeepInvariant, PTL

(* Two values have one MAC input under one index context only if they are  *)
(* one value.                                                              *)
LEMMA IndexInputTellsValuesApart ==
  ASSUME NEW context \in Strings, ~ HasNul(context), NEW v \in Strings, NEW w \in Strings,
         IndexInput(context, v) = IndexInput(context, w)
  PROVE  v = w
<1>1. CASE context = << >>
  BY <1>1 DEF IndexInput
<1>2. CASE context # << >>
  <2>1. Joined(context, v) = Joined(context, w)
    BY <1>2 DEF IndexInput
  <2>2. context \in Clean
    BY CleanStrings
  <2> QED
    BY <2>1, <2>2, SeparatorTellsPartsApart
<1> QED
  BY <1>1, <1>2

(* The index of an account is that of a value searched for exactly when    *)
(* the keys are one and the column takes the two for the same.             *)
LEMMA IndexTellsAccountsApart ==
  ASSUME AccountsInvariant, NEW id \in Present, NEW column \in Column,
         ColumnOf[id] = column, NEW value \in Text, BlindIndex(column, value).status = "ok"
  PROVE  rows[id].index = BlindIndex(column, value).value
         <=> /\ rows[id].index.key = IndexKeyOf(env)
             /\ IF schema[column].normalize THEN AddressOf[rows[id].text] = AddressOf[value]
                ELSE rows[id].text = value
<1> DEFINE context == schema[column].index
           normalize == schema[column].normalize
           mine == Normalized(rows[id].text, normalize)
           other == Normalized(value, normalize)
<1>1. context \in Strings /\ normalize \in BOOLEAN
  BY AccountsAssumption DEF AccountsInvariant, Declaration
<1>2. rows[id].text \in Text /\ rows[id].text \in Strings /\ value \in Strings
  BY AccountsAssumption DEF AccountsInvariant, RowsStand
<1>3. mine \in Strings /\ other \in Strings
  BY <1>1, <1>2, NormalizedType
<1>4. /\ ~ HasNul(context)
      /\ BlindIndex(column, value).value = Mac(IndexKeyOf(env), IndexInput(context, other))
  BY DEF BlindIndex, Err, Ok, Outcome
<1>5. rows[id].index = Mac(rows[id].index.key, IndexInput(context, mine))
  BY DEF AccountsInvariant, RowsStand, IndexedForColumn
<1>6. mine = other <=> IF normalize THEN AddressOf[rows[id].text] = AddressOf[value]
                       ELSE rows[id].text = value
  <2>1. CASE normalize
    <3>1. mine = other <=> SameAddress(rows[id].text, value)
      <4>1. normalize = TRUE
        BY <1>1, <2>1
      <4> QED
        BY <1>2, <4>1, NormalizedTellsAddressesApart
    <3>2. SameAddress(rows[id].text, value) <=> AddressOf[rows[id].text] = AddressOf[value]
      BY <1>2, AccountsAssumption
    <3> QED
      BY <2>1, <3>1, <3>2
  <2>2. CASE ~ normalize
    BY <2>2 DEF Normalized
  <2> QED
    BY <2>1, <2>2
<1> HIDE DEF mine, other
<1>7. rows[id].index = BlindIndex(column, value).value
      <=> /\ rows[id].index.key = IndexKeyOf(env)
          /\ IndexInput(context, mine) = IndexInput(context, other)
  BY <1>4, <1>5 DEF Mac
<1>8. IndexInput(context, mine) = IndexInput(context, other) <=> mine = other
  BY <1>1, <1>3, <1>4, IndexInputTellsValuesApart
<1> QED
  BY <1>6, <1>7, <1>8

(* A search finds what it should, and nothing else: of every two values    *)
(* there are, whatever was rotated, mistaken or restarted before.          *)
THEOREM SearchesFindExactly == Spec => []FindsExactly
<1>1. Init => FindsExactly
  BY DEF Init, FindsExactly
<1>2. AccountsInvariant /\ FindsExactly /\ [Next]_vars => FindsExactly'
  <2> SUFFICES ASSUME AccountsInvariant, FindsExactly, [Next]_vars
               PROVE  FindsExactly'
    OBVIOUS
  <2>1. ASSUME NEW column \in Column, NEW value \in Queries, Search(column, value)
        PROVE  FindsExactly'
    <3>1. /\ BlindIndex(column, value).status = "ok"
          /\ found' = [column |-> column, value |-> value,
                       ids |-> {id \in Id :
                                  /\ ColumnOf[id] = column /\ rows[id] # Absent
                                  /\ rows[id].index = BlindIndex(column, value).value}]
          /\ UNCHANGED <<schema, env, rows>>
      BY <2>1 DEF Search
    <3>2. value \in Text
      BY AccountsAssumption
    <3>3. found'.ids = {id \in Present :
                          /\ ColumnOf[id] = column
                          /\ rows[id].index = BlindIndex(column, value).value}
      BY <3>1 DEF Present
    <3>4. \A id \in Present :
            ColumnOf[id] = column
            => (rows[id].index = BlindIndex(column, value).value
                <=> /\ rows[id].index.key = IndexKeyOf(env)
                    /\ IF schema[column].normalize
                       THEN AddressOf[rows[id].text] = AddressOf[value]
                       ELSE rows[id].text = value)
      BY <3>1, <3>2, IndexTellsAccountsApart
    <3>5. found'.ids = {id \in Present :
                          /\ ColumnOf[id] = column
                          /\ rows[id].index.key = IndexKeyOf(env)
                          /\ IF schema[column].normalize
                             THEN AddressOf[rows[id].text] = AddressOf[value]
                             ELSE rows[id].text = value}
      BY <3>3, <3>4
    <3>6. found'.column = column /\ found'.value = value
      BY <3>1
    <3>7. Present' = Present /\ IndexKeyOf(env)' = IndexKeyOf(env)
      BY <3>1 DEF Present, IndexKeyOf, IsBlank, ParseKey
    <3> QED
      BY <3>1, <3>5, <3>6, <3>7 DEF FindsExactly
  <2>2. ASSUME found' = NoSearch
        PROVE  FindsExactly'
    BY <2>2 DEF FindsExactly
  <2>3. ASSUME NEW id \in Id, NEW value \in Text \ {Empty}, Register(id, value)
        PROVE  FindsExactly'
    BY <2>2, <2>3 DEF Register
  <2>4. ASSUME Rotate \/ \E newEnv \in Mistakes : Mistake(newEnv)
        PROVE  FindsExactly'
    BY <2>2, <2>4 DEF Rotate, Mistake, Start
  <2>5. CASE UNCHANGED vars
    BY <2>5 DEF vars, FindsExactly, Present, IndexKeyOf, IsBlank, ParseKey
  <2> QED
    BY <2>1, <2>3, <2>4, <2>5 DEF Next
<1> QED
  BY <1>1, <1>2, AccountsKeepInvariant, PTL DEF Spec

(* The ring of a process that starts holds every key its environment gives *)
(* under the label it gives it for.                                        *)
LEMMA GivenKeysAreHeld ==
  ASSUME NEW variables \in Variables, AcceptsText(variables), ~ IsBlank(variables.key),
         AcceptsNamespace(NamespaceOf(variables)),
         NEW label \in Version, NEW key \in Key, Gives(variables, label, key)
  PROVE  BuildKeyring(NamespaceOf(variables)) # NoRing
         /\ BuildKeyring(NamespaceOf(variables)).keys[label] = key
<1> DEFINE nsConfig == NamespaceOf(variables)
           active == ActiveVersion(nsConfig)
           keys == [nsConfig.retired EXCEPT ![active] = nsConfig.key]
<1>1. /\ nsConfig \in NamespaceConfig /\ nsConfig.key = ParseKey(variables.key)
      /\ nsConfig.key \in Key /\ nsConfig.key # NoKey
      /\ nsConfig.version = variables.version
  BY NamespaceOfType, TokensAssumption
<1>2. active = IF variables.version = NoVersion THEN DefaultVersion ELSE variables.version
  BY <1>1 DEF ActiveVersion
<1>3. active \in Version /\ nsConfig.retired \in KeysByVersion
  BY <1>1, TokensAssumption DEF ActiveVersion, NamespaceConfig
<1>4. BuildKeyring(nsConfig) = [activeVersion |-> active, keys |-> keys]
  BY <1>1 DEF BuildKeyring
<1>5. BuildKeyring(nsConfig) # NoRing
  BY <1>3, <1>4, TokensAssumption DEF NoRing
<1>6. keys[label] = IF label = active THEN nsConfig.key ELSE nsConfig.retired[label]
  BY <1>3 DEF KeysByVersion
<1>7. keys[label] = key
  <2>1. CASE /\ label = IF variables.version = NoVersion THEN DefaultVersion
                        ELSE variables.version
             /\ ParseKey(variables.key) = key
    BY <1>1, <1>2, <1>6, <2>1
  <2>2. CASE \E i \in Pairs(variables.retired, label) :
               /\ ParseKey(variables.retired[i].text) = key
               /\ \A j \in Pairs(variables.retired, label) : j <= i
    <3>1. PICK i \in Pairs(variables.retired, label) :
            /\ ParseKey(variables.retired[i].text) = key
            /\ \A j \in Pairs(variables.retired, label) : j <= i
      BY <2>2
    <3>2. label \in RetiredLabels(variables.retired)
      BY <3>1 DEF RetiredLabels
    <3>3. variables.retired \in Seq(Entry)
      BY DEF Variables
    <3>4. RetiredText(variables.retired, label) = variables.retired[i].text
      BY <3>1, <3>2, <3>3, RetiredTextType
    <3>5. nsConfig.retired[label] = ParseKey(RetiredText(variables.retired, label))
      BY <3>2 DEF NamespaceOf
    <3>6. nsConfig.retired[label] = key
      BY <3>1, <3>4, <3>5
    <3>7. label # active
      BY <1>1, <3>6, TokensAssumption DEF AcceptsNamespace
    <3> QED
      BY <1>6, <3>6, <3>7
  <2> QED
    BY <2>1, <2>2 DEF Gives
<1> HIDE DEF keys
<1> QED
  BY <1>4, <1>5, <1>7

(* A process that runs reads every account whose key it was given under    *)
(* the right label.                                                        *)
LEMMA GivenKeyReads ==
  ASSUME AccountsInvariant, running # Down, ~ IsBlank(env.of[Ns].key),
         NEW id \in Present, rows[id].email.layers # << >>,
         Gives(env.of[Ns], Outermost(id).version, Outermost(id).key)
  PROVE  Unseal(running, rows[id].email, SealingOptions(ColumnOf[id]))
           = Ok(Plain(rows[id].text))
<1> DEFINE stored(i) == rows[i].email
           options(i) == SealingOptions(ColumnOf[i])
           context == options(id).context
           ring == RingOf(running, Ns)
<1>1. PICK label \in Version, key \in Key :
        LET layer == [format |-> "token", version |-> label, key |-> key,
                      aad |-> BuildAad(label, context)]
        IN /\ context # InvalidContext
           /\ layer \in Layer
           /\ stored(id) = Wrap(Plain(rows[id].text), layer)
  BY DEF AccountsInvariant, RowsStand, SealedForColumn
<1> DEFINE layer == [format |-> "token", version |-> label, key |-> key,
                     aad |-> BuildAad(label, context)]
<1>2. Plain(rows[id].text) \in Str
  <2>1. rows[id].text \in Text
    BY DEF AccountsInvariant, RowsStand
  <2>2. << >> \in Seq(Layer)
    OBVIOUS
  <2> QED
    BY <2>1, <2>2 DEF Plain, Str
<1>3. /\ Head(stored(id).layers) = layer /\ Unwrap(stored(id)) = Plain(rows[id].text)
  BY <1>1, <1>2, UnwrapWrap
<1>4. Outermost(id).version = label /\ Outermost(id).key = key
  BY <1>3 DEF Outermost
<1>5. /\ env.of[Ns] \in Variables /\ AcceptsText(env.of[Ns])
      /\ running.namespaces[Ns] = NamespaceOf(env.of[Ns])
      /\ NamespaceOf(env.of[Ns]) \in NamespaceConfig
      /\ running \in Config /\ Constructible(running)
  BY AccountsAssumption, StartsType DEF AccountsInvariant, RunsAsGiven
<1>6. Ns \in Names(running)
  BY <1>5, SealedFieldsAssumption, AccountsAssumption DEF Names
<1>7. AcceptsNamespace(NamespaceOf(env.of[Ns]))
  BY <1>5, <1>6 DEF Constructible
<1>8. ring # NoRing /\ ring.keys[label] = key
  BY <1>4, <1>5, <1>7, GivenKeysAreHeld DEF RingOf
<1>9. OptionsStatus(running, options(id)) = "ok" /\ ResolveNs(running, options(id)) = Ns
  <2>1. schema \in Schemas /\ ColumnOf[id] \in Column
    BY AccountsAssumption DEF AccountsInvariant, Present
  <2>2. ResolveNs(running, options(id)) = Ns /\ Ns # NoNamespace
    BY <2>1, SealingOptionsType, SealedFieldsAssumption
  <2> QED
    BY <1>1, <1>6, <2>2 DEF OptionsStatus
<1>10. key # NoKey
  BY TokensAssumption
<1> HIDE DEF options, ring
<1>11. Shape(stored(id)) = "token" /\ VersionLabel(stored(id)) = label
       /\ Authenticates(stored(id), key, BuildAad(label, context))
  BY <1>3 DEF Shape, VersionLabel, Authenticates
<1> HIDE DEF stored
<1>12. UnsealWithKeyring(stored(id), ring, running.onUnknownVersion, context)
         = Ok(Plain(rows[id].text))
  BY <1>3, <1>8, <1>10, <1>11 DEF UnsealWithKeyring
<1>13. UnsealToken(running, stored(id), ring, context) = Ok(Plain(rows[id].text))
  BY <1>12 DEF UnsealToken, Ok, Outcome
<1> QED
  BY <1>8, <1>9, <1>11, <1>13 DEF Unseal, ParseToken, ring, stored, options

(* Whatever the environment says, a process that starts with an active key *)
(* reads every account whose key it was given under the right label.       *)
THEOREM GivenKeysAlwaysRead == Spec => []GivenKeysRead
<1>1. AccountsInvariant => GivenKeysRead
  <2> SUFFICES ASSUME AccountsInvariant, running # Down, ~ IsBlank(env.of[Ns].key),
                      NEW id \in Present, rows[id].email.layers # << >>,
                      Gives(env.of[Ns], Outermost(id).version, Outermost(id).key)
               PROVE  LET read == Unseal(running, rows[id].email, SealingOptions(ColumnOf[id]))
                      IN read.status = "ok" /\ read.value = Plain(rows[id].text)
    BY Zenon DEF GivenKeysRead
  <2>1. Ok(Plain(rows[id].text)).status = "ok"
        /\ Ok(Plain(rows[id].text)).value = Plain(rows[id].text)
    BY DEF Ok, Outcome
  <2> QED
    BY <2>1, GivenKeyReads, Zenon
<1> QED
  BY <1>1, AccountsKeepInvariant, PTL

-----------------------------------------------------------------------------
(* Careful rotations: the active key becomes the last of the retired ones, *)
(* under its own label, so the environment goes on giving every key that   *)
(* an account was sealed with.                                             *)

(* What an environment must be like for the next rotation to start.        *)
ReadyToRotate(variables) ==
  /\ ~ IsBlank(variables.key)
  /\ \A i, j \in DOMAIN Labels :
       Labels[i] = ActiveVersion(variables) /\ i < j
       => Labels[j] \notin RetiredLabels(variables.retired)

Careful ==
  mistakes = 0
  => /\ running # Down
     /\ ReadyToRotate(env.of[Ns])
     /\ env.blindIndexKey = FirstEnv.blindIndexKey
     /\ \A id \in Present :
          /\ rows[id].email.layers # << >>
          /\ Gives(env.of[Ns], Outermost(id).version, Outermost(id).key)
          /\ rows[id].index.key = IndexKeyOf(env)

(* The variables a rotation leaves.                                        *)
Rotated(variables, key, label) ==
  [key |-> [form |-> "base64", key |-> key], version |-> label,
   retired |-> Append(variables.retired,
                      [form |-> "pair", label |-> ActiveVersion(variables),
                       text |-> variables.key])]

(* The entry is the last under its label, and the only change there is.    *)
OnlyAppends(retired, entry, new) ==
  /\ new \in Seq(Entry)
  /\ \A i \in DOMAIN new :
       new[i] = entry \/ (i \in DOMAIN retired /\ new[i] = retired[i])
  /\ RetiredLabels(new) \subseteq RetiredLabels(retired) \cup {entry.label}
  /\ Len(new) \in Pairs(new, entry.label)
  /\ new[Len(new)] = entry
  /\ \A i \in Pairs(new, entry.label) : i <= Len(new)
  /\ \A label : label # entry.label
       => /\ Pairs(new, label) = Pairs(retired, label)
          /\ \A i \in Pairs(retired, label) : new[i] = retired[i]

LEMMA AppendedEntry ==
  ASSUME NEW retired \in Seq(Entry), NEW entry \in Entry, entry.form = "pair",
         NEW new, new = Append(retired, entry)
  PROVE  OnlyAppends(retired, entry, new)
<1>1. /\ new \in Seq(Entry) /\ Len(new) = Len(retired) + 1 /\ Len(retired) \in Nat
      /\ DOMAIN retired = 1 .. Len(retired) /\ DOMAIN new = 1 .. Len(retired) + 1
      /\ new[Len(retired) + 1] = entry
      /\ \A i \in 1 .. Len(retired) : new[i] = retired[i]
  OBVIOUS
<1>2. \A i \in DOMAIN new : \/ i = Len(retired) + 1 /\ new[i] = entry
                            \/ i \in DOMAIN retired /\ new[i] = retired[i]
  BY <1>1
<1>3. Len(new) \in Pairs(new, entry.label)
  BY <1>1 DEF Pairs
<1>4. \A i \in Pairs(new, entry.label) : i <= Len(new)
  BY <1>1 DEF Pairs
<1>5. ASSUME NEW label, label # entry.label
      PROVE  /\ Pairs(new, label) = Pairs(retired, label)
             /\ \A i \in Pairs(retired, label) : new[i] = retired[i]
  <2>1. \A i \in DOMAIN retired : i \in DOMAIN new /\ new[i] = retired[i]
    BY <1>1
  <2> QED
    BY <1>2, <1>5, <2>1 DEF Pairs
<1>6. RetiredLabels(new) \subseteq RetiredLabels(retired) \cup {entry.label}
  BY <1>5 DEF RetiredLabels
<1> QED
  BY <1>1, <1>2, <1>3, <1>4, <1>5, <1>6 DEF OnlyAppends

(* Rotating keeps everything an environment has given, and leaves one that *)
(* is accepted.                                                            *)
LEMMA RotatedGives ==
  ASSUME LabelsAreFresh, NEW variables \in Variables, AcceptsText(variables),
         AcceptsNamespace(NamespaceOf(variables)), ReadyToRotate(variables),
         \A i \in DOMAIN variables.retired : variables.retired[i].form # "malformed",
         NEW key \in Key, NEW n \in 1 .. Len(Labels) - 1,
         Labels[n] = ActiveVersion(variables)
  PROVE  LET new == Rotated(variables, key, Labels[n + 1]) IN
         /\ new \in Variables /\ AcceptsText(new) /\ AcceptsNamespace(NamespaceOf(new))
         /\ ReadyToRotate(new)
         /\ \A i \in DOMAIN new.retired : new.retired[i].form # "malformed"
         /\ \A label \in Version : \A k \in Key :
              Gives(variables, label, k) => Gives(new, label, k)
<1> DEFINE label == ActiveVersion(variables)
           next == Labels[n + 1]
           entry == [form |-> "pair", label |-> label, text |-> variables.key]
           retired == Append(variables.retired, entry)
           new == Rotated(variables, key, next)
<1>1. /\ variables.retired \in Seq(Entry) /\ ~ IsBlank(variables.key)
      /\ variables.key \in KeyText
      /\ variables.version \in Version \cup BadLabel \cup {NoVersion}
  BY DEF Variables, ReadyToRotate, IsBlank
<1>2. /\ variables.version \in Version \cup {NoVersion}
      /\ ParseKey(variables.key) \in Key
      /\ \A l \in RetiredLabels(variables.retired) :
           l \notin BadLabel /\ ParseKey(RetiredText(variables.retired, l)) # BadKey
  BY <1>1, ParseKeyType DEF AcceptsText
<1>3. label \in Version
  BY <1>2, TokensAssumption DEF ActiveVersion
<1>4. /\ next \in Version /\ next # NoVersion /\ next # label /\ n \in DOMAIN Labels
      /\ n + 1 \in DOMAIN Labels
  <2>1. n \in DOMAIN Labels /\ n + 1 \in DOMAIN Labels /\ n # n + 1
    BY AccountsAssumption
  <2>2. next \in Version /\ next # label
    BY <2>1, AccountsAssumption DEF LabelsAreFresh
  <2> QED
    BY <2>1, <2>2, TokensAssumption
<1>5. entry \in Entry
  BY <1>1, <1>3 DEF Entry
<1>6. entry.form = "pair" /\ entry.label = label /\ entry.text = variables.key
  OBVIOUS
<1>7. retired = Append(variables.retired, entry)
  OBVIOUS
<1> DEFINE last == Len(retired)
<1>8. /\ new = [key |-> [form |-> "base64", key |-> key], version |-> next,
                retired |-> retired]
      /\ new.key.form = "base64" /\ new.key.key = key
      /\ new.version = next /\ new.retired = retired
  BY DEF Rotated
<1> HIDE DEF new, retired, entry
<1>9. /\ retired \in Seq(Entry)
      /\ \A i \in DOMAIN retired :
           \/ retired[i] = entry
           \/ i \in DOMAIN variables.retired /\ retired[i] = variables.retired[i]
      /\ RetiredLabels(retired) \subseteq RetiredLabels(variables.retired) \cup {label}
      /\ last \in Pairs(retired, label) /\ retired[last] = entry
      /\ \A i \in Pairs(retired, label) : i <= last
      /\ \A l : l # label => /\ Pairs(retired, l) = Pairs(variables.retired, l)
                             /\ \A i \in Pairs(variables.retired, l) :
                                  retired[i] = variables.retired[i]
  <2> HIDE DEF label
  <2>1. OnlyAppends(variables.retired, entry, retired)
    BY <1>1, <1>5, <1>6, <1>7, AppendedEntry
  <2> QED
    BY <1>6, <2>1 DEF OnlyAppends
<1> HIDE DEF last
<1>10. new.key \in KeyText /\ ~ IsBlank(new.key) /\ ParseKey(new.key) = key
  <2>1. new.key \in KeyText
    BY <1>8 DEF KeyText
  <2>2. new.key # Unset
    BY <2>1, EnvironmentAssumption DEF KeyText
  <2> QED
    BY <1>8, <2>1, <2>2 DEF IsBlank, ParseKey
<1>11. new \in Variables
  <2>1. [form |-> "base64", key |-> key] \in KeyText
    BY DEF KeyText
  <2> QED
    BY <1>4, <1>9, <1>8, <2>1 DEF Variables
<1>12. ActiveVersion(new) = next
  BY <1>4, <1>8 DEF ActiveVersion
<1>13. label \notin RetiredLabels(variables.retired)
  <2> SUFFICES ASSUME label \in RetiredLabels(variables.retired) PROVE FALSE
    OBVIOUS
  <2> DEFINE nsConfig == NamespaceOf(variables)
  <2>1. nsConfig.retired[label] = ParseKey(RetiredText(variables.retired, label))
    BY <1>1, <1>3 DEF NamespaceOf
  <2>2. RetiredText(variables.retired, label) \in KeyText
    BY <1>1, RetiredTextType
  <2>3. nsConfig.retired[label] \in Key
    BY <1>2, <2>1, <2>2 DEF ParseKey, KeyText
  <2>4. nsConfig.key = ParseKey(variables.key) /\ nsConfig.version = variables.version
    BY <1>1 DEF NamespaceOf
  <2>5. nsConfig.key # NoKey /\ ActiveVersion(nsConfig) = label
    BY <1>2, <2>4, TokensAssumption DEF ActiveVersion
  <2> QED
    BY <2>3, <2>5, TokensAssumption DEF AcceptsNamespace
<1>14. \A i \in DOMAIN new.retired : new.retired[i].form # "malformed"
  BY <1>6, <1>8, <1>9
<1>15. ReadyToRotate(new)
  <2> SUFFICES ASSUME NEW i \in DOMAIN Labels, NEW j \in DOMAIN Labels,
                      Labels[i] = next, i < j
               PROVE  Labels[j] \notin RetiredLabels(retired)
    BY <1>8, <1>10, <1>12 DEF ReadyToRotate
  <2>1. i = n + 1
    BY <1>4 DEF LabelsAreFresh
  <2>2. n < j /\ Labels[j] # label
    <3>1. n \in Int /\ j \in Int
      BY AccountsAssumption
    <3>2. n < j /\ n # j
      BY <2>1, <3>1
    <3> QED
      BY <1>4, <3>2 DEF LabelsAreFresh
  <2>3. Labels[j] \notin RetiredLabels(variables.retired)
    BY <1>4, <2>2 DEF ReadyToRotate
  <2> QED
    BY <1>9, <2>2, <2>3
<1>16. ASSUME NEW l \in RetiredLabels(retired)
       PROVE  l \notin BadLabel /\ ParseKey(RetiredText(retired, l)) # BadKey
  <2>1. CASE l = label
    <3>1. RetiredText(retired, l) = retired[last].text
      BY <1>9, <1>16, <2>1, RetiredTextType
    <3>2. RetiredText(retired, l) = variables.key
      BY <1>6, <1>9, <3>1
    <3>3. label \notin BadLabel
      BY <1>3, EnvironmentAssumption
    <3> QED
      BY <1>2, <2>1, <3>2, <3>3, EnvironmentAssumption
  <2>2. CASE l # label
    <3>1. l \in RetiredLabels(variables.retired)
      BY <1>9, <1>16, <2>2
    <3>2. Pairs(retired, l) = Pairs(variables.retired, l)
          /\ \A i \in Pairs(variables.retired, l) : retired[i] = variables.retired[i]
      BY <1>9, <2>2
    <3> DEFINE place == CHOOSE i \in Pairs(variables.retired, l) :
                          \A j \in Pairs(variables.retired, l) : j <= i
    <3>3. /\ RetiredText(retired, l) = retired[place].text
          /\ RetiredText(variables.retired, l) = variables.retired[place].text
      BY <3>2 DEF RetiredText
    <3>4. place \in Pairs(variables.retired, l)
      <4>1. DOMAIN variables.retired = 1 .. Len(variables.retired)
            /\ Len(variables.retired) \in Nat
        BY <1>1
      <4>2. Pairs(variables.retired, l) \in SUBSET (1 .. Len(variables.retired))
            /\ Pairs(variables.retired, l) # {}
        BY <3>1, <4>1 DEF Pairs, RetiredLabels
      <4> QED
        BY <4>1, <4>2, FirstAndLast
    <3> HIDE DEF place
    <3>5. RetiredText(retired, l) = RetiredText(variables.retired, l)
      BY <3>2, <3>3, <3>4
    <3> QED
      BY <1>2, <3>1, <3>5
  <2> QED
    BY <2>1, <2>2
<1>17. AcceptsText(new)
  <2>1. next \notin BadLabel /\ key # BadKey
    BY <1>4, EnvironmentAssumption
  <2> QED
    BY <1>8, <1>10, <1>16, <2>1 DEF AcceptsText
<1>18. AcceptsNamespace(NamespaceOf(new))
  <2>1. next \notin RetiredLabels(retired)
    <3>1. n < n + 1
      BY AccountsAssumption
    <3>2. next \notin RetiredLabels(variables.retired)
      BY <1>4, <3>1 DEF ReadyToRotate
    <3> QED
      BY <1>4, <1>9, <3>2
  <2>2. NamespaceOf(new).version = next /\ NamespaceOf(new).retired[next] = NoKey
    BY <1>4, <1>8, <1>10, <2>1 DEF NamespaceOf
  <2> QED
    BY <1>4, <2>2 DEF AcceptsNamespace, ActiveVersion
<1>19. ASSUME NEW l \in Version, NEW k \in Key, Gives(variables, l, k)
       PROVE  Gives(new, l, k)
  <2>1. CASE l = label /\ ParseKey(variables.key) = k
    <3>1. ParseKey(retired[last].text) = k
      BY <1>6, <1>9, <2>1
    <3> QED
      BY <1>9, <1>8, <2>1, <3>1 DEF Gives
  <2>2. CASE \E i \in Pairs(variables.retired, l) :
               /\ ParseKey(variables.retired[i].text) = k
               /\ \A j \in Pairs(variables.retired, l) : j <= i
    <3>1. l \in RetiredLabels(variables.retired)
      BY <2>2 DEF RetiredLabels
    <3>2. l # label
      BY <1>13, <3>1
    <3> QED
      BY <1>9, <1>8, <2>2, <3>2 DEF Gives
  <2> QED
    BY <1>19, <2>1, <2>2 DEF Gives, ActiveVersion
<1> QED
  BY <1>11, <1>14, <1>15, <1>17, <1>18, <1>19 DEF new

(* The first environment is one to rotate from.                            *)
LEMMA CarefulInit ==
  ASSUME LabelsAreFresh, Init
  PROVE  Careful
<1>1. /\ env = FirstEnv /\ env \in Environments /\ Starts(env, Listed, CallOptions)
      /\ running = SealedFieldsFromEnv(env, Listed, CallOptions)
  BY AccountsAssumption DEF Init
<1>2. running # Down
  BY <1>1, StartsType, AccountsAssumption
<1>3. ReadyToRotate(env.of[Ns])
  BY <1>1 DEF LabelsAreFresh, ReadyToRotate
<1>4. Present = {}
  BY DEF Init, Present
<1> QED
  BY <1>1, <1>2, <1>3, <1>4 DEF Careful

(* A new account is sealed with the active key, under the active label.    *)
LEMMA CarefulRegister ==
  ASSUME AccountsInvariant, Careful, mistakes = 0,
         NEW id \in Id, NEW value \in Text \ {Empty}, Register(id, value)
  PROVE  Careful'
<1> DEFINE options == SealingOptions(ColumnOf[id])
           sealed == Seal(running, Plain(value), options)
           index == BlindIndex(ColumnOf[id], value)
           new == [email |-> sealed.value, index |-> index.value, text |-> value]
           variables == env.of[Ns]
           ring == RingOf(running, Ns)
           layer == TokenLayer(ring, options.context)
<1>1. /\ sealed.status = "ok" /\ index.status = "ok"
      /\ rows' = [rows EXCEPT ![id] = new]
      /\ UNCHANGED <<schema, env, running, mistakes>>
  BY DEF Register
<1>2. /\ running # Down /\ ReadyToRotate(variables)
      /\ env.blindIndexKey = FirstEnv.blindIndexKey
  BY DEF Careful
<1>3. /\ variables \in Variables /\ AcceptsText(variables)
      /\ running.namespaces[Ns] = NamespaceOf(variables)
      /\ running \in Config
  BY <1>2, AccountsAssumption, StartsType DEF AccountsInvariant, RunsAsGiven
<1>4. Plain(value) \in Str /\ Plain(value).layers = << >>
  BY DEF Plain, Str
<1>5. options \in SealOptions /\ ResolveNs(running, options) = Ns
  BY SealingOptionsType, AccountsAssumption DEF AccountsInvariant
<1>6. /\ ring # NoRing /\ ring.activeVersion = ActiveVersion(variables)
      /\ ring.keys[ring.activeVersion] = ParseKey(variables.key)
  <2> DEFINE nsConfig == NamespaceOf(variables)
             active == ActiveVersion(nsConfig)
  <2>1. /\ nsConfig \in NamespaceConfig /\ nsConfig.key = ParseKey(variables.key)
        /\ nsConfig.key \in Key /\ nsConfig.key # NoKey
        /\ nsConfig.version = variables.version
    BY <1>2, <1>3, NamespaceOfType, TokensAssumption DEF ReadyToRotate
  <2>2. active \in Version /\ active = ActiveVersion(variables)
        /\ nsConfig.retired \in KeysByVersion
    BY <2>1, TokensAssumption DEF ActiveVersion, NamespaceConfig
  <2>3. ring = [activeVersion |-> active,
                keys |-> [nsConfig.retired EXCEPT ![active] = nsConfig.key]]
    BY <1>3, <2>1 DEF RingOf, BuildKeyring
  <2>4. [nsConfig.retired EXCEPT ![active] = nsConfig.key][active] = nsConfig.key
    BY <2>2 DEF KeysByVersion
  <2> HIDE DEF nsConfig, active, ring
  <2> QED
    BY <2>1, <2>2, <2>3, <2>4, TokensAssumption DEF NoRing
<1>7. /\ sealed.value = Wrap(Plain(value), layer) /\ layer \in Layer
      /\ layer.version = ring.activeVersion /\ layer.key = ring.keys[ring.activeVersion]
  <2>1. /\ sealed.value = Wrap(Plain(value), layer)
        /\ OptionsStatus(running, options) = "ok"
    BY <1>1, <1>3, <1>4, <1>5, <1>6, SealReturns
  <2>2. /\ ring \in Ring /\ ring.keys[ring.activeVersion] \in Key
        /\ options.context \in Context \cup {NoContext}
    BY <1>3, <1>5, <1>6, <2>1, RingOfType, OptionsType
  <2>3. layer \in Layer
    BY <2>2, TokenLayerType
  <2> QED
    BY <2>1, <2>3 DEF TokenLayer
<1>8. sealed.value.layers # << >> /\ Head(sealed.value.layers) = layer
  <2> HIDE DEF layer, sealed
  <2> QED
    BY <1>4, <1>7, UnwrapWrap
<1>9. Gives(variables, layer.version, layer.key)
  BY <1>6, <1>7 DEF Gives, ActiveVersion
<1>10. index.value.key = IndexKeyOf(env)
  BY <1>1 DEF BlindIndex, Err, Ok, Outcome, Mac
<1>11. rows'[id] = new /\ \A x \in Id : x # id => rows'[x] = rows[x]
  BY <1>1 DEF AccountsInvariant, RowsStand
<1>12. ASSUME NEW x \in Present'
       PROVE  /\ rows'[x].email.layers # << >>
              /\ Gives(variables, Outermost(x)'.version, Outermost(x)'.key)
              /\ rows'[x].index.key = IndexKeyOf(env)
  <2>1. CASE x = id
    <3>1. rows'[x].email = sealed.value /\ rows'[x].index = index.value
      BY <1>11, <2>1
    <3>2. Outermost(x)' = layer
      BY <1>8, <3>1 DEF Outermost
    <3> QED
      BY <1>8, <1>9, <1>10, <3>1, <3>2
  <2>2. CASE x # id
    <3>1. x \in Present /\ rows'[x] = rows[x]
      BY <1>11, <2>2 DEF Present
    <3> QED
      BY <3>1 DEF Careful, Outermost
  <2> QED
    BY <2>1, <2>2
<1> HIDE DEF variables
<1> QED
  BY <1>1, <1>2, <1>12 DEF Careful, variables

(* The label and the key an account was sealed under are a label and a key.*)
LEMMA SealedLayer ==
  ASSUME AccountsInvariant, NEW id \in Present, rows[id].email.layers # << >>
  PROVE  Outermost(id).version \in Version /\ Outermost(id).key \in Key
<1> DEFINE context == SealingOptions(ColumnOf[id]).context
<1>1. PICK label \in Version, key \in Key :
        LET layer == [format |-> "token", version |-> label, key |-> key,
                      aad |-> BuildAad(label, context)]
        IN layer \in Layer /\ rows[id].email = Wrap(Plain(rows[id].text), layer)
  BY DEF AccountsInvariant, RowsStand, SealedForColumn
<1>2. Plain(rows[id].text) \in Str
  <2>1. rows[id].text \in Text
    BY DEF AccountsInvariant, RowsStand
  <2>2. << >> \in Seq(Layer)
    OBVIOUS
  <2> QED
    BY <2>1, <2>2 DEF Plain, Str
<1> QED
  BY <1>1, <1>2, UnwrapWrap DEF Outermost

(* A rotation starts the process again, and nothing is lost.               *)
LEMMA CarefulRotate ==
  ASSUME LabelsAreFresh, AccountsInvariant, Careful, Rotate
  PROVE  Careful'
<1> DEFINE old == env.of[Ns]
           label == IF old.version = NoVersion THEN DefaultVersion ELSE old.version
           entry == [form |-> "pair", label |-> label, text |-> old.key]
           New(next) == [key |-> [form |-> "base64", key |-> GenerateKey],
                         version |-> next, retired |-> Append(old.retired, entry)]
<1>1. PICK i \in 1 .. Len(Labels) - 1 :
        /\ Labels[i] = label
        /\ Start([env EXCEPT !.of[Ns] = New(Labels[i + 1])])
  BY DEF Rotate
<1>2. mistakes = 0 /\ mistakes' = 0 /\ GenerateKey \in Key
  BY DEF Rotate, AccountsInvariant, GenerateKey
<1>3. label = ActiveVersion(old)
  BY DEF ActiveVersion
<1> DEFINE new == Rotated(old, GenerateKey, Labels[i + 1])
<1>4. New(Labels[i + 1]) = new
  BY <1>3 DEF Rotated
<1> DEFINE newEnv == [env EXCEPT !.of[Ns] = new]
<1>5. Start(newEnv)
  BY <1>1, <1>4
<1> HIDE DEF label, entry, New, new
<1>6. /\ running # Down /\ ReadyToRotate(old)
      /\ env.blindIndexKey = FirstEnv.blindIndexKey
      /\ Starts(env, Listed, CallOptions) /\ env \in Environments
      /\ running = SealedFieldsFromEnv(env, Listed, CallOptions)
  BY <1>2 DEF Careful, AccountsInvariant, RunsAsGiven
<1>7. /\ Ns \in Listed /\ Listed \subseteq Namespace
      /\ \A ns \in Listed : /\ env.of[ns] \in Variables /\ AcceptsText(env.of[ns])
                            /\ running.namespaces[ns] = NamespaceOf(env.of[ns])
                            /\ NamespaceOf(env.of[ns]) \in NamespaceConfig
      /\ running \in Config /\ Constructible(running)
  BY <1>6, AccountsAssumption, StartsType
<1>8. Ns \in Names(running)
  BY <1>7, SealedFieldsAssumption DEF Names
<1>9. AcceptsNamespace(NamespaceOf(old))
  BY <1>7, <1>8 DEF Constructible
<1>10. \A j \in DOMAIN old.retired : old.retired[j].form # "malformed"
  BY <1>6, <1>7 DEF Starts
<1>11. /\ new \in Variables /\ AcceptsText(new) /\ AcceptsNamespace(NamespaceOf(new))
       /\ ReadyToRotate(new)
       /\ \A j \in DOMAIN new.retired : new.retired[j].form # "malformed"
       /\ \A l \in Version : \A k \in Key : Gives(old, l, k) => Gives(new, l, k)
  <2>1. Labels[i] = ActiveVersion(old) /\ old \in Variables /\ AcceptsText(old)
    BY <1>1, <1>3, <1>7
  <2> HIDE DEF old
  <2> QED
    BY <1>2, <1>6, <1>9, <1>10, <2>1, RotatedGives DEF new
<1>12. /\ newEnv.of[Ns] = new /\ newEnv.blindIndexKey = env.blindIndexKey
       /\ newEnv \in Environments
       /\ \A ns \in Namespace : ns # Ns => newEnv.of[ns] = env.of[ns]
  BY <1>6, <1>7, <1>11 DEF Environments
<1> HIDE DEF newEnv
<1> DEFINE next == SealedFieldsFromEnv(newEnv, Listed, CallOptions)
<1>13. Constructible(next)
  <2>1. /\ next = [CallOptions EXCEPT !.namespaces = next.namespaces]
        /\ running = [CallOptions EXCEPT !.namespaces = running.namespaces]
        /\ next.namespaces = [ns \in Namespace |-> IF ns \in Listed THEN NamespaceOf(newEnv.of[ns])
                                                   ELSE NotConfigured]
        /\ running.namespaces = [ns \in Namespace |-> IF ns \in Listed THEN NamespaceOf(env.of[ns])
                                                      ELSE NotConfigured]
    BY <1>6, AccountsAssumption DEF SealedFieldsFromEnv, Config
  <2> HIDE DEF next
  <2>2. \A ns \in Namespace : ns # Ns => next.namespaces[ns] = running.namespaces[ns]
    BY <1>12, <2>1
  <2>3. next.namespaces[Ns] = NamespaceOf(new)
    BY <1>7, <1>12, <2>1
  <2>4. next.namespaces[Ns] # NotConfigured
    BY <1>11, <2>3, NamespaceOfType, SealedFieldsAssumption
  <2>5. Names(next) = Names(running)
    BY <1>7, <1>8, <2>2, <2>4 DEF Names
  <2>6. \A ns \in Names(next) : AcceptsNamespace(next.namespaces[ns])
    BY <1>7, <1>11, <2>2, <2>3, <2>5 DEF Constructible, Names
  <2>7. /\ next.defaultNamespace = running.defaultNamespace /\ next.mode = running.mode
        /\ next.onUnknownVersion = running.onUnknownVersion
        /\ next.plaintext = running.plaintext
    BY <2>1, AccountsAssumption DEF Config
  <2> QED
    BY <1>7, <2>5, <2>6, <2>7 DEF Constructible
<1>14. Starts(newEnv, Listed, CallOptions)
  <2>1. IndexKeyOf(newEnv) # BadKey
    BY <1>6, <1>12 DEF Starts, IndexKeyOf
  <2>2. ASSUME NEW ns \in Listed
        PROVE  /\ AcceptsText(newEnv.of[ns])
               /\ \A j \in DOMAIN newEnv.of[ns].retired :
                    newEnv.of[ns].retired[j].form # "malformed"
    <3>1. CASE ns = Ns
      BY <1>11, <1>12, <3>1
    <3>2. CASE ns # Ns
      <4>1. newEnv.of[ns] = env.of[ns]
        BY <1>7, <1>12, <2>2, <3>2
      <4> QED
        BY <1>6, <2>2, <4>1 DEF Starts
    <3> QED
      BY <3>1, <3>2
  <2> QED
    BY <1>13, <2>1, <2>2 DEF Starts
<1>15. running' # Down /\ env' = newEnv /\ UNCHANGED rows
  <2>1. /\ env' = newEnv /\ UNCHANGED rows
        /\ running' = IF Starts(newEnv, Listed, CallOptions)
                      THEN SealedFieldsFromEnv(newEnv, Listed, CallOptions) ELSE Down
    BY <1>5 DEF Start
  <2>2. next \in Config
    BY <1>12, <1>14, StartsType
  <2> QED
    BY <1>14, <2>1, <2>2, AccountsAssumption
<1>16. ASSUME NEW id \in Present'
       PROVE  /\ rows[id].email.layers # << >>
              /\ Gives(new, Outermost(id).version, Outermost(id).key)
              /\ rows[id].index.key = IndexKeyOf(newEnv)
  <2>1. id \in Present
    BY <1>15 DEF Present
  <2>2. /\ rows[id].email.layers # << >>
        /\ Gives(old, Outermost(id).version, Outermost(id).key)
        /\ rows[id].index.key = IndexKeyOf(env)
    BY <1>2, <2>1 DEF Careful
  <2>3. Outermost(id).version \in Version /\ Outermost(id).key \in Key
    BY <2>1, <2>2, SealedLayer
  <2>4. IndexKeyOf(newEnv) = IndexKeyOf(env)
    BY <1>12 DEF IndexKeyOf
  <2> HIDE DEF old
  <2> QED
    BY <1>11, <2>2, <2>3, <2>4
<1> QED
  BY <1>6, <1>11, <1>12, <1>15, <1>16 DEF Careful, Outermost

(* Every step of a careful operator keeps what the next rotation needs.    *)
LEMMA CarefulNext ==
  ASSUME LabelsAreFresh, AccountsInvariant, Careful, [Next]_vars
  PROVE  Careful'
<1>1. ASSUME NEW id \in Id, NEW value \in Text \ {Empty}, Register(id, value)
      PROVE  Careful'
  <2>1. CASE mistakes = 0
    BY <1>1, <2>1, CarefulRegister
  <2>2. CASE mistakes # 0
    BY <1>1, <2>2 DEF Register, Careful
  <2> QED
    BY <2>1, <2>2
<1>2. ASSUME NEW column \in Column, NEW value \in Queries, Search(column, value)
      PROVE  Careful'
  <2>1. UNCHANGED <<env, running, rows, mistakes>>
    BY <1>2 DEF Search
  <2> QED
    BY <2>1 DEF Careful, Present, Outermost
<1>3. CASE Rotate
  BY <1>3, CarefulRotate
<1>4. ASSUME NEW newEnv \in Mistakes, Mistake(newEnv)
      PROVE  Careful'
  <2>1. mistakes' # 0
    BY <1>4 DEF Mistake, AccountsInvariant
  <2> QED
    BY <2>1 DEF Careful
<1>5. CASE UNCHANGED vars
  BY <1>5 DEF vars, Careful, Present, Outermost
<1> QED
  BY <1>1, <1>2, <1>3, <1>4, <1>5 DEF Next

(* As long as the operator only ever rotates the documented way, with a    *)
(* new label each time, the process starts, and every account there is can *)
(* be read and is found.                                                   *)
THEOREM CarefulRotationsAlwaysKeepAll ==
  ASSUME LabelsAreFresh
  PROVE  Spec => []CarefulRotationsKeepAll
<1>1. AccountsInvariant /\ Careful => CarefulRotationsKeepAll
  <2> SUFFICES ASSUME AccountsInvariant, Careful, mistakes = 0, NEW id \in Present
               PROVE  LET read == Unseal(running, rows[id].email,
                                         SealingOptions(ColumnOf[id]))
                      IN /\ read.status = "ok" /\ read.value = Plain(rows[id].text)
                         /\ rows[id].index = BlindIndex(ColumnOf[id], rows[id].text).value
    BY Zenon DEF CarefulRotationsKeepAll, Careful
  <2>1. /\ running # Down /\ ~ IsBlank(env.of[Ns].key)
        /\ rows[id].email.layers # << >>
        /\ Gives(env.of[Ns], Outermost(id).version, Outermost(id).key)
        /\ rows[id].index.key = IndexKeyOf(env)
    BY DEF Careful, ReadyToRotate
  <2>2. Unseal(running, rows[id].email, SealingOptions(ColumnOf[id]))
          = Ok(Plain(rows[id].text))
    BY <2>1, GivenKeyReads
  <2>3. Ok(Plain(rows[id].text)).status = "ok"
        /\ Ok(Plain(rows[id].text)).value = Plain(rows[id].text)
    BY DEF Ok, Outcome
  <2>4. rows[id].index = BlindIndex(ColumnOf[id], rows[id].text).value
    BY <2>1 DEF AccountsInvariant, RowsStand, IndexedForColumn, BlindIndex, Ok, Outcome
  <2> QED
    BY <2>2, <2>3, <2>4, Zenon
<1>2. Init => Careful
  BY CarefulInit
<1>3. AccountsInvariant /\ Careful /\ [Next]_vars => Careful'
  BY CarefulNext
<1> QED
  BY <1>1, <1>2, <1>3, AccountsKeepInvariant, PTL DEF Spec

(* Every variable has its type; a process that runs was never given a key  *)
(* that parseKey turned down.                                              *)
THEOREM AccountsTypeOK == Spec => []TypeOK
<1>1. AccountsInvariant => TypeOK
  <2> SUFFICES ASSUME AccountsInvariant PROVE TypeOK
    OBVIOUS
  <2>1. ASSUME running # Down
        PROVE  /\ DOMAIN running.namespaces = Namespace
               /\ \A ns \in Listed : KeysOf(RingOf(running, ns)) \subseteq Key
               /\ IndexKeyOf(env) \in Key \cup {NoKey}
    <3>1. /\ running \in Config /\ IndexKeyOf(env) \in Key \cup {NoKey}
          /\ \A ns \in Listed : running.namespaces[ns] \in NamespaceConfig
      BY <2>1, StartsType DEF AccountsInvariant, RunsAsGiven
    <3>2. \A ns \in Listed : RingOf(running, ns) = NoRing \/ RingOf(running, ns) \in Ring
      BY <3>1, RingType DEF RingOf
    <3>3. \A ns \in Listed : KeysOf(RingOf(running, ns)) \subseteq Key
      BY <3>2 DEF KeysOf, NoRing, Ring, KeysByVersion
    <3> QED
      BY <3>1, <3>3 DEF Config
  <2> QED
    BY <2>1 DEF AccountsInvariant, RowsStand, TypeOK
<1> QED
  BY <1>1, AccountsKeepInvariant, PTL
=============================================================================
