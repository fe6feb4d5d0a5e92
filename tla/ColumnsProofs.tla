--------------------------- MODULE ColumnsProofs ----------------------------
(***************************************************************************)
(* What the column types guarantee for any number of threads, columns,     *)
(* instances and statements.                                               *)
(***************************************************************************)
EXTENDS Columns, LibraryLemmas, FiniteSetTheorems

-----------------------------------------------------------------------------
(* The invariant.                                                          *)

(* A string that instance i stores for a type is one of that type.         *)
OwnString(i, type, s) ==
  LET ring == RingOf(ConfigOf[i], type.namespace) IN
  IF ring = NoRing THEN s.layers = << >>
  ELSE s.layers # << >> /\ Head(s.layers) = TokenLayer(ring, type.context)

(* A statement runs for its own column, and does its bookkeeping in order. *)
CallsStand ==
  \A t \in Thread :
    LET mine == call[t]  type == types[mine.column] IN
    mine # Idle =>
      /\ mine.namespace = type.namespace
      /\ mine.instance = Provided(type, mine.asked)
      /\ mine.op = "write" => mine.outcome.note # "unbound"
      /\ (mine.op = "write" /\ mine.outcome.status = "ok" /\ IsString(mine.outcome.value))
         => /\ OwnString(mine.instance, type, mine.outcome.value)
            /\ mine.outcome.value.layers = << >> => mine.outcome.note = "dormant"
      /\ mine.step \in {"load", "store"} => mine.outcome.note = "unbound"
      /\ mine.step # "finish" => mine.outcome.note # "none"

(* From the count on, the count of an instance is not zero.                *)
Counted ==
  /\ \A i \in unbound : book[i].unboundReads > 0
  /\ \A t \in Thread :
       (/\ call[t] # Idle /\ call[t].outcome.note = "unbound"
        /\ call[t].step \notin {"load", "store"})
       => book[call[t].instance].unboundReads > 0

(* A value left in the clear has marked its namespace, before it is stored.*)
ClearMarked ==
  /\ \A c \in Column :
       (origin[c] # Null /\ IsString(cell[c]) /\ cell[c].layers = << >>)
       => types[c].namespace \in book[Provided(types[c], origin[c])].warnedDormant
  /\ \A t \in Thread :
       (/\ call[t] # Idle /\ call[t].outcome.note = "dormant"
        /\ call[t].step \in {"warn", "finish"})
       => call[t].namespace \in book[call[t].instance].warnedDormant

(* A namespace that is marked has been announced or is about to be.        *)
MarkedAnnounced ==
  \A i \in Instance : \A ns \in book[i].warnedDormant :
    Logged(i, "dormant", ns) \/ \E t \in Thread : AnnouncesNow(t, i, ns)

ColumnsInvariant ==
  /\ TypeOK
  /\ CallsStand
  /\ ColumnsAreTheirOwn
  /\ Counted
  /\ ClearMarked
  /\ MarkedAnnounced

-----------------------------------------------------------------------------
(* Types.                                                                  *)

(* What a statement comes back with.                                       *)
ColumnOutcomes == [status : Statuses, value : CellValue,
                   note : {"none", "unbound", "dormant"}]

(* The options of a type name its own namespace.                           *)
LEMMA TypeOptions ==
  ASSUME NEW c \in Config, NEW type \in ColumnType
  PROVE  Options(type) \in SealOptions /\ ResolveNs(c, Options(type)) = type.namespace
  BY SealedFieldsAssumption DEF ColumnType, Options, SealOptions, ResolveNs

(* A provider gives an instance.                                           *)
LEMMA ProvidedType ==
  ASSUME NEW type \in ColumnType, NEW i \in Instance
  PROVE  Provided(type, i) \in Instance
  BY DEF Provided, ColumnType

(* Two types with one cache key are one type, so a statement runs with the *)
(* processors of its own.                                                  *)
LEMMA CachedIsOwn ==
  ASSUME TypeOK, NEW c \in Column
  PROVE  Cached(types[c]) = types[c]
<1> DEFINE type == types[c]
<1>1. type \in ColumnType
  BY DEF TypeOK
<1>2. ASSUME NEW known \in ColumnType, CacheKey(known) = CacheKey(type)
      PROVE  known = type
  <2>1. /\ known.class = type.class /\ known.provider = type.provider
        /\ known.namespace = type.namespace /\ known.context = type.context
    BY <1>2 DEF CacheKey
  <2> QED
    BY <1>1, <2>1 DEF ColumnType
<1>3. CASE \E known \in cache : CacheKey(known) = CacheKey(type)
  <2> DEFINE found == CHOOSE known \in cache : CacheKey(known) = CacheKey(type)
  <2>1. found \in cache /\ CacheKey(found) = CacheKey(type)
    BY <1>3
  <2>2. found \in ColumnType
    BY <2>1 DEF TypeOK
  <2>3. Cached(type) = found
    BY <1>3 DEF Cached
  <2> QED
    BY <1>2, <2>1, <2>2, <2>3
<1>4. CASE ~ \E known \in cache : CacheKey(known) = CacheKey(type)
  BY <1>4 DEF Cached
<1> QED
  BY <1>3, <1>4

(* What the application writes to a column is sealed as a text.            *)
LEMMA WrittenType ==
  ASSUME NEW type \in ColumnType, NEW value \in ToWrite[type.class]
  PROVE  \/ value = Null
         \/ /\ value # Null /\ value \in CellValue
            /\ \E text \in Text :
                 (IF type.class = "SealedJSON" THEN Dumped(value) ELSE value) = Plain(text)
<1>1. \A text \in Text : Plain(text) \in Str /\ Plain(text).text = text
  BY DEF Plain, Str
<1>2. CASE type.class = "SealedText" /\ value # Null
  <2>1. PICK text \in Text : value = Plain(text)
    BY <1>2, ColumnsAssumption
  <2> QED
    BY <1>1, <1>2, <2>1 DEF CellValue
<1>3. CASE type.class = "SealedJSON" /\ value # Null
  <2>1. PICK a \in DOMAIN Dumps : value = IF a \in Thing THEN a ELSE Plain(a)
    BY <1>3, ColumnsAssumption
  <2>2. a \in Thing \cup Text /\ Dumps[a] \in Text
    BY ColumnsAssumption
  <2>3. CASE a \in Thing
    <3>1. Dumped(value) = Plain(Dumps[a])
      BY <2>1, <2>3 DEF Dumped
    <3> QED
      BY <1>3, <2>1, <2>2, <2>3, <3>1 DEF CellValue
  <2>4. CASE a \notin Thing
    <3>1. value = Plain(a) /\ value \in Str /\ value.text = a
      BY <1>1, <2>1, <2>2, <2>4
    <3>2. value \notin Thing
      BY <3>1, ColumnsAssumption
    <3>3. Dumped(value) = Plain(Dumps[a])
      BY <3>1, <3>2 DEF Dumped
    <3> QED
      BY <1>3, <2>2, <3>1, <3>3 DEF CellValue
  <2> QED
    BY <2>3, <2>4
<1> QED
  BY <1>2, <1>3 DEF ColumnType, Classes

(* A bound parameter: null, or a string of the column's own.               *)
LEMMA BindReturns ==
  ASSUME NEW i \in Instance, NEW type \in ColumnType, NEW value \in ToWrite[type.class]
  PROVE  LET outcome == ProcessBindParam(i, type, value) IN
         /\ value \in CellValue
         /\ outcome \in ColumnOutcomes
         /\ outcome.note # "unbound"
         /\ (outcome.status = "ok" /\ IsString(outcome.value))
            => /\ OwnString(i, type, outcome.value)
               /\ outcome.value.layers = << >> => outcome.note = "dormant"
<1>1. CASE value = Null
  <2>1. ProcessBindParam(i, type, value) = Ok(Null)
    BY <1>1 DEF ProcessBindParam
  <2> QED
    BY <1>1, <2>1, StatusNames
       DEF ColumnOutcomes, CellValue, Ok, Outcome, IsString
<1>2. CASE value # Null
  <2> DEFINE config == ConfigOf[i]
             ring == RingOf(config, type.namespace)
  <2>1. config \in Config
    BY ColumnsAssumption
  <2>2. PICK text \in Text : (IF type.class = "SealedJSON" THEN Dumped(value) ELSE value)
                               = Plain(text)
    BY <1>2, WrittenType
  <2>3. value \in CellValue
    BY <1>2, WrittenType
  <2> DEFINE outcome == Seal(config, Plain(text), Options(type))
  <2>4. ProcessBindParam(i, type, value) = outcome
    BY <1>2, <2>2 DEF ProcessBindParam
  <2>5. Plain(text) \in Str /\ Plain(text).layers = << >>
    BY DEF Plain, Str
  <2>6. outcome \in ColumnOutcomes /\ outcome.note # "unbound"
    BY <2>1, <2>5, TypeOptions, SealType, SealOwes
       DEF Outcomes, ColumnOutcomes, CellValue
  <2>7. ASSUME outcome.status = "ok"
        PROVE  /\ OwnString(i, type, outcome.value)
               /\ outcome.value.layers = << >> => outcome.note = "dormant"
    <3>1. CASE ring = NoRing
      <4>1. outcome.value = Plain(text) /\ outcome.note = "dormant"
        BY <2>1, <2>5, <2>7, <3>1, TypeOptions, SealReturns
      <4> QED
        BY <2>5, <3>1, <4>1 DEF OwnString
    <3>2. CASE ring # NoRing
      <4>1. /\ OptionsStatus(config, Options(type)) = "ok"
            /\ outcome.value = Wrap(Plain(text), TokenLayer(ring, Options(type).context))
        BY <2>1, <2>5, <2>7, <3>2, TypeOptions, SealReturns
      <4>2. Options(type).context = type.context
        BY DEF Options
      <4>3. TokenLayer(ring, type.context) \in Layer
        BY <2>1, <3>2, <4>1, <4>2, TypeOptions, OptionsType, RingOfType, TokenLayerType
      <4>4. /\ outcome.value.layers # << >>
            /\ Head(outcome.value.layers) = TokenLayer(ring, type.context)
        BY <2>5, <4>1, <4>2, <4>3, UnwrapWrap
      <4> QED
        BY <3>2, <4>4 DEF OwnString
    <3> QED
      BY <3>1, <3>2
  <2> QED
    BY <2>3, <2>4, <2>6, <2>7
<1> QED
  BY <1>1, <1>2

(* What a statement gives of a stored value.                               *)
LEMMA ResultType ==
  ASSUME NEW i \in Instance, NEW type \in ColumnType, NEW value \in CellValue
  PROVE  ProcessResultValue(i, type, value) \in ColumnOutcomes
<1> DEFINE outcome == Unseal(ConfigOf[i], value, Options(type))
<1>1. CASE ~ IsString(value)
  <2>1. ProcessResultValue(i, type, value) = Ok(value)
    BY <1>1 DEF ProcessResultValue
  <2> QED
    BY <2>1, StatusNames DEF ColumnOutcomes, Ok, Outcome
<1>2. CASE IsString(value)
  <2>1. value \in Str
    BY <1>2 DEF IsString, CellValue
  <2>2. outcome \in Outcomes
    BY <2>1, ColumnsAssumption, TypeOptions, UnsealType
  <2>3. outcome \in ColumnOutcomes
    BY <2>2 DEF Outcomes, ColumnOutcomes, CellValue
  <2>4. CASE type.class = "SealedText"
    BY <1>2, <2>3, <2>4 DEF ProcessResultValue
  <2>5. CASE type.class = "SealedJSON"
    <3>1. outcome.value \in Str
      BY <2>2 DEF Outcomes
    <3>2. Loaded(outcome.value) \in CellValue
      <4>1. CASE \E a \in DOMAIN Dumps : Dumps[a] = outcome.value.text
        <5> DEFINE a == CHOOSE b \in DOMAIN Dumps : Dumps[b] = outcome.value.text
        <5>1. a \in DOMAIN Dumps
          BY <4>1
        <5>2. a \in Thing \cup Text
          BY <5>1, ColumnsAssumption
        <5>3. a \in Text => Plain(a) \in Str
          BY DEF Plain, Str
        <5>4. Loaded(outcome.value) \in {outcome.value, IF a \in Thing THEN a ELSE Plain(a)}
          BY DEF Loaded
        <5> QED
          BY <3>1, <5>2, <5>3, <5>4 DEF CellValue
      <4>2. CASE ~ \E a \in DOMAIN Dumps : Dumps[a] = outcome.value.text
        BY <3>1, <4>2 DEF Loaded, CellValue
      <4> QED
        BY <4>1, <4>2
    <3>3. \A v \in CellValue : [outcome EXCEPT !.value = v] \in ColumnOutcomes
      BY <2>3 DEF ColumnOutcomes
    <3>4. Null \in CellValue
      BY DEF CellValue
    <3>5. ProcessResultValue(i, type, value)
            \in {outcome, [outcome EXCEPT !.value = Null],
                 [outcome EXCEPT !.value = Loaded(outcome.value)]}
      BY <1>2, <2>5 DEF ProcessResultValue
    <3> QED
      BY <2>3, <3>2, <3>3, <3>4, <3>5
  <2> QED
    BY <2>4, <2>5 DEF ColumnType, Classes
<1> QED
  BY <1>1, <1>2

-----------------------------------------------------------------------------
(* Steps.                                                                  *)

(* Nothing has been executed, counted or announced at first.               *)
LEMMA ColumnsInit == Init => ColumnsInvariant
<1> SUFFICES ASSUME Init PROVE ColumnsInvariant
  OBVIOUS
<1>1. PICK setup \in Setups :
        /\ types = setup.types
        /\ cell = [c \in Column |-> setup.row[c].value]
        /\ written = [c \in Column |-> setup.row[c].text]
  BY DEF Init
<1>2. /\ setup.types \in [Column -> ColumnType]
      /\ setup.row \in [Column -> [value : CellValue, text : CellValue]]
  BY ColumnsAssumption
<1>3. cell \in [Column -> CellValue] /\ written \in [Column -> CellValue]
  BY <1>1, <1>2
<1>4. book = [i \in Instance |-> NewInstance] /\ NewInstance \in Books
  BY DEF Init, NewInstance, Books
<1>5. \A t \in Thread : call[t] = Idle
  BY DEF Init
<1>6. TypeOK
  BY <1>1, <1>2, <1>3, <1>4, ColumnsAssumption DEF Init, TypeOK
<1>7. CallsStand /\ Counted
  BY <1>5 DEF Init, CallsStand, Counted
<1>8. ColumnsAreTheirOwn /\ ClearMarked
  BY <1>5 DEF Init, ColumnsAreTheirOwn, ClearMarked
<1>9. MarkedAnnounced
  BY <1>4 DEF MarkedAnnounced, NewInstance
<1> QED
  BY <1>6, <1>7, <1>8, <1>9 DEF ColumnsInvariant

(* A statement begins.                                                     *)
LEMMA ExecuteKeeps ==
  ASSUME ColumnsInvariant, NEW t \in Thread, NEW c \in Column, NEW op \in {"write", "read"},
         NEW value \in CellValue, NEW outcome \in ColumnOutcomes,
         op = "write" =>
           /\ outcome.note # "unbound"
           /\ (outcome.status = "ok" /\ IsString(outcome.value))
              => /\ OwnString(Provided(types[c], current), types[c], outcome.value)
                 /\ outcome.value.layers = << >> => outcome.note = "dormant",
         Execute(t, op, c, value, outcome)
  PROVE  ColumnsInvariant'
<1> DEFINE type == types[c]
           new == [op |-> op, column |-> c, stored |-> cell[c], value |-> value,
                   asked |-> current, instance |-> Provided(type, current),
                   namespace |-> type.namespace, outcome |-> outcome, held |-> 0,
                   step |-> StepAfter("call", outcome.note, FALSE)]
<1>1. TypeOK /\ type \in ColumnType /\ current \in Instance /\ Cached(type) = type
  BY CachedIsOwn DEF ColumnsInvariant, TypeOK
<1>2. /\ call[t] = Idle /\ cache' = cache \cup {type} /\ call' = [call EXCEPT ![t] = new]
      /\ statements' \in 0 .. MaxStatements
      /\ UNCHANGED <<types, current, cell, written, origin, book, unbound, swaps>>
  BY <1>1, ColumnsAssumption DEF Execute, TypeOK
<1>3. /\ outcome.note \in {"none", "unbound", "dormant"}
      /\ new.step = CASE outcome.note = "none" -> "finish"
                      [] outcome.note = "dormant" -> "check"
                      [] outcome.note = "unbound" -> "load"
  BY DEF ColumnOutcomes, StepAfter
<1>4. new.step \in Steps /\ Provided(type, current) \in Instance
      /\ type.namespace \in Namespace /\ cell[c] \in CellValue
  BY <1>1, <1>3, ProvidedType DEF Steps, TypeOK, ColumnType
<1>5. new \in Calls
  BY <1>1, <1>4 DEF Calls, ColumnOutcomes
<1>6. call'[t] = new /\ \A u \in Thread : u # t => call'[u] = call[u]
  BY <1>1, <1>2 DEF TypeOK
<1>7. call' \in [Thread -> Calls \cup {Idle}]
  BY <1>1, <1>2, <1>5 DEF TypeOK
<1> HIDE DEF new
<1>8. TypeOK'
  BY <1>1, <1>2, <1>7 DEF TypeOK
<1>9. /\ new.column = c /\ new.namespace = type.namespace /\ new.op = op
      /\ new.instance = Provided(type, current) /\ new.asked = current
      /\ new.outcome = outcome
  BY DEF new
<1>10. CallsStand'
  <2> SUFFICES ASSUME NEW u \in Thread, call'[u] # Idle
               PROVE  LET mine == call'[u]  own == types[mine.column] IN
                      /\ mine.namespace = own.namespace
                      /\ mine.instance = Provided(own, mine.asked)
                      /\ mine.op = "write" => mine.outcome.note # "unbound"
                      /\ (/\ mine.op = "write" /\ mine.outcome.status = "ok"
                          /\ IsString(mine.outcome.value))
                         => /\ OwnString(mine.instance, own, mine.outcome.value)
                            /\ mine.outcome.value.layers = << >>
                               => mine.outcome.note = "dormant"
                      /\ mine.step \in {"load", "store"} => mine.outcome.note = "unbound"
                      /\ mine.step # "finish" => mine.outcome.note # "none"
    BY <1>2 DEF CallsStand
  <2>1. CASE u = t
    BY <1>3, <1>6, <1>9, <2>1
  <2>2. CASE u # t
    BY <1>6, <2>2 DEF ColumnsInvariant, CallsStand
  <2> QED
    BY <2>1, <2>2
<1>11. Counted'
  <2>1. outcome.note = "unbound" => new.step = "load"
    BY <1>3
  <2> QED
    BY <1>2, <1>6, <1>9, <2>1 DEF ColumnsInvariant, Counted
<1>12. ClearMarked'
  <2>1. outcome.note = "dormant" => new.step = "check"
    BY <1>3
  <2> QED
    BY <1>2, <1>6, <1>9, <2>1 DEF ColumnsInvariant, ClearMarked
<1>13. MarkedAnnounced'
  <2>1. \A u \in Thread : \A i, ns : AnnouncesNow(u, i, ns) => AnnouncesNow(u, i, ns)'
    BY <1>2, <1>6 DEF AnnouncesNow, At
  <2>2. \A i, ns : Logged(i, "dormant", ns) => Logged(i, "dormant", ns)'
    BY <1>2 DEF Logged
  <2> QED
    BY <1>2, <2>1, <2>2 DEF ColumnsInvariant, MarkedAnnounced
<1>14. ColumnsAreTheirOwn'
  BY <1>2 DEF ColumnsInvariant, ColumnsAreTheirOwn
<1> QED
  BY <1>8, <1>10, <1>11, <1>12, <1>13, <1>14 DEF ColumnsInvariant

(* A step of the bookkeeping that forgets nothing keeps the invariant.     *)
LEMMA TakeKeeps ==
  ASSUME ColumnsInvariant, NEW t \in Thread, NEW b \in Books, NEW held \in Nat,
         NEW step \in {"load", "store", "check", "add", "warn"},
         At(t, step), Take(t, step, b, held),
         LET mine == call[t]
             old == book[mine.instance]
             next == StepAfter(step, mine.outcome.note,
                       Warned(mine.instance, mine.outcome.note, mine.namespace))
         IN /\ next \in Steps
            /\ next \in {"load", "store"} => step = "load"
            /\ old.unboundReads > 0 => b.unboundReads > 0
            /\ step = "store" => b.unboundReads > 0
            /\ old.warnedDormant \subseteq b.warnedDormant
            /\ (mine.outcome.note = "dormant" /\ next \in {"warn", "finish"})
               => mine.namespace \in b.warnedDormant
            /\ \A n \in DOMAIN old.log : n \in DOMAIN b.log /\ b.log[n] = old.log[n]
            /\ \A ns \in b.warnedDormant :
                 \/ \E n \in DOMAIN b.log :
                      b.log[n] = [about |-> "dormant", namespace |-> ns]
                 \/ /\ ns \in old.warnedDormant
                    /\ ~ (step = "warn" /\ mine.outcome.note = "dormant"
                          /\ mine.namespace = ns)
                 \/ /\ ns = mine.namespace /\ mine.outcome.note = "dormant"
                    /\ next = "warn"
  PROVE  ColumnsInvariant'
<1> DEFINE mine == call[t]
           i == mine.instance
           old == book[i]
           next == StepAfter(step, mine.outcome.note,
                     Warned(mine.instance, mine.outcome.note, mine.namespace))
           new == [mine EXCEPT !.held = held, !.step = next]
<1>1. TypeOK /\ mine # Idle /\ mine.step = step
  BY DEF ColumnsInvariant, At
<1>2. mine \in Calls /\ i \in Instance
  BY <1>1 DEF TypeOK, Calls
<1>3. /\ book' = [book EXCEPT ![i] = b] /\ call' = [call EXCEPT ![t] = new]
      /\ UNCHANGED <<types, current, cell, written, origin, cache, unbound, statements,
                     swaps>>
  <2>1. call' = [call EXCEPT ![t].held = held, ![t].step = next]
    BY DEF Take
  <2>2. call' = [call EXCEPT ![t] = new]
    BY <1>1, <2>1 DEF TypeOK
  <2> QED
    BY <2>2 DEF Take
<1>4. /\ book'[i] = b /\ \A j \in Instance : j # i => book'[j] = book[j]
      /\ call'[t] = new /\ \A u \in Thread : u # t => call'[u] = call[u]
  BY <1>1, <1>2, <1>3 DEF TypeOK
<1>5. /\ new \in Calls /\ new.step = next /\ new.outcome = mine.outcome
      /\ new.instance = i /\ new.namespace = mine.namespace /\ new.op = mine.op
      /\ new.column = mine.column /\ new.asked = mine.asked
  <2>1. next \in Steps
    OBVIOUS
  <2> HIDE DEF next
  <2> QED
    BY <1>2, <2>1 DEF Calls
<1>6. TypeOK'
  BY <1>1, <1>3, <1>4, <1>5 DEF TypeOK
<1>7. \A j \in Instance : /\ book[j].unboundReads > 0 => book'[j].unboundReads > 0
                          /\ book[j].warnedDormant \subseteq book'[j].warnedDormant
  BY <1>4
<1>8. CallsStand'
  <2> SUFFICES ASSUME NEW u \in Thread, call'[u] # Idle
               PROVE  LET his == call'[u]  type == types[his.column] IN
                      /\ his.namespace = type.namespace
                      /\ his.instance = Provided(type, his.asked)
                      /\ his.op = "write" => his.outcome.note # "unbound"
                      /\ (/\ his.op = "write" /\ his.outcome.status = "ok"
                          /\ IsString(his.outcome.value))
                         => /\ OwnString(his.instance, type, his.outcome.value)
                            /\ his.outcome.value.layers = << >>
                               => his.outcome.note = "dormant"
                      /\ his.step \in {"load", "store"} => his.outcome.note = "unbound"
                      /\ his.step # "finish" => his.outcome.note # "none"
    BY <1>3 DEF CallsStand
  <2>1. CASE u = t
    <3> HIDE DEF new, next
    <3>1. next \in {"load", "store"} => mine.step = "load"
      BY <1>1 DEF next
    <3> QED
      BY <1>1, <1>4, <1>5, <2>1, <3>1 DEF ColumnsInvariant, CallsStand
  <2>2. CASE u # t
    BY <1>4, <2>2 DEF ColumnsInvariant, CallsStand
  <2> QED
    BY <2>1, <2>2
<1>9. Counted'
  <2>1. \A j \in unbound' : book'[j].unboundReads > 0
    BY <1>1, <1>3, <1>7 DEF ColumnsInvariant, Counted, TypeOK
  <2>2. ASSUME NEW u \in Thread, call'[u] # Idle, call'[u].outcome.note = "unbound",
               call'[u].step \notin {"load", "store"}
        PROVE  book'[call'[u].instance].unboundReads > 0
    <3>1. CASE u = t
      <4>1. step \notin {"load", "store"} => old.unboundReads > 0
        BY <1>1, <1>4, <1>5, <2>2, <3>1 DEF ColumnsInvariant, Counted
      <4>2. step # "load"
        <5>1. SUFFICES ASSUME step = "load" PROVE FALSE
          OBVIOUS
        <5>2. next = "store"
          BY <5>1 DEF StepAfter
        <5> QED
          BY <1>4, <1>5, <2>2, <3>1, <5>2
      <4>3. b.unboundReads > 0
        BY <4>1, <4>2
      <4> QED
        BY <1>4, <1>5, <3>1, <4>3
    <3>2. CASE u # t
      <4>1. call'[u] = call[u] /\ call[u] \in Calls
        BY <1>1, <1>4, <2>2, <3>2 DEF TypeOK
      <4>2. call[u].instance \in Instance /\ book[call[u].instance].unboundReads > 0
        BY <2>2, <4>1 DEF Calls, ColumnsInvariant, Counted
      <4> QED
        BY <1>7, <4>1, <4>2
    <3> QED
      BY <3>1, <3>2
  <2> QED
    BY <2>1, <2>2 DEF Counted
<1>10. ClearMarked'
  <2>1. ASSUME NEW c \in Column, origin[c] # Null, IsString(cell[c]),
               cell[c].layers = << >>
        PROVE  types[c].namespace \in book'[Provided(types[c], origin[c])].warnedDormant
    <3>1. types[c] \in ColumnType /\ origin[c] \in Instance
      BY <1>1, <2>1 DEF TypeOK
    <3>2. types[c].namespace \in book[Provided(types[c], origin[c])].warnedDormant
      BY <2>1 DEF ColumnsInvariant, ClearMarked
    <3> QED
      BY <1>7, <3>1, <3>2, ProvidedType
  <2>2. ASSUME NEW u \in Thread, call'[u] # Idle, call'[u].outcome.note = "dormant",
               call'[u].step \in {"warn", "finish"}
        PROVE  call'[u].namespace \in book'[call'[u].instance].warnedDormant
    <3>1. CASE u = t
      <4> HIDE DEF new
      <4>1. mine.namespace \in b.warnedDormant
        BY <1>4, <1>5, <2>2, <3>1
      <4> QED
        BY <1>4, <1>5, <3>1, <4>1
    <3>2. CASE u # t
      <4>1. call'[u] = call[u] /\ call[u] \in Calls
        BY <1>1, <1>4, <2>2, <3>2 DEF TypeOK
      <4>2. /\ call[u].instance \in Instance
            /\ call[u].namespace \in book[call[u].instance].warnedDormant
        BY <2>2, <4>1 DEF Calls, ColumnsInvariant, ClearMarked
      <4> QED
        BY <1>7, <4>1, <4>2
    <3> QED
      BY <3>1, <3>2
  <2> QED
    BY <1>3, <2>1, <2>2 DEF ClearMarked
<1>11. MarkedAnnounced'
  <2> SUFFICES ASSUME NEW j \in Instance, NEW ns \in book'[j].warnedDormant
               PROVE  Logged(j, "dormant", ns)' \/ \E u \in Thread : AnnouncesNow(u, j, ns)'
    BY DEF MarkedAnnounced
  <2>1. Logged(j, "dormant", ns) => Logged(j, "dormant", ns)'
    BY <1>4 DEF Logged
  <2>2. \A u \in Thread : u # t => (AnnouncesNow(u, j, ns) => AnnouncesNow(u, j, ns)')
    BY <1>4 DEF AnnouncesNow, At
  <2>3. CASE j # i
    <3>1. ns \in book[j].warnedDormant /\ ~ AnnouncesNow(t, j, ns)
      BY <1>4, <2>3 DEF AnnouncesNow
    <3> QED
      BY <2>1, <2>2, <3>1 DEF ColumnsInvariant, MarkedAnnounced
  <2>4. CASE j = i
    <3>1. ns \in b.warnedDormant
      BY <1>4, <2>4
    <3>2. CASE \E n \in DOMAIN b.log :
                 b.log[n] = [about |-> "dormant", namespace |-> ns]
      BY <1>4, <2>4, <3>2 DEF Logged
    <3>3. CASE /\ ns \in old.warnedDormant
               /\ ~ (step = "warn" /\ mine.outcome.note = "dormant" /\ mine.namespace = ns)
      <4>1. ~ AnnouncesNow(t, j, ns)
        BY <1>1, <3>3 DEF AnnouncesNow, At
      <4> QED
        BY <1>2, <2>1, <2>2, <2>4, <3>3, <4>1 DEF ColumnsInvariant, MarkedAnnounced
    <3>4. CASE ns = mine.namespace /\ mine.outcome.note = "dormant" /\ next = "warn"
      <4>1. call'[t] # Idle
        BY <1>4, <1>5, IdleAssumption
      <4>2. call'[t].step = "warn" /\ call'[t].instance = j /\ call'[t].namespace = ns
            /\ call'[t].outcome.note = "dormant"
        BY <1>4, <1>5, <2>4, <3>4
      <4> QED
        BY <4>1, <4>2 DEF AnnouncesNow, At
    <3> QED
      BY <3>1, <3>2, <3>3, <3>4
  <2> QED
    BY <2>3, <2>4
<1>12. ColumnsAreTheirOwn'
  BY <1>3 DEF ColumnsInvariant, ColumnsAreTheirOwn
<1> QED
  BY <1>6, <1>8, <1>9, <1>10, <1>11, <1>12 DEF ColumnsInvariant

(* Who is at a step has a warning to give.                                 *)
LEMMA AtStep ==
  ASSUME ColumnsInvariant, NEW t \in Thread,
         NEW step \in {"load", "store", "check", "add", "warn"}, At(t, step)
  PROVE  /\ call[t] \in Calls /\ call[t].instance \in Instance
         /\ call[t].namespace \in Namespace /\ call[t].held \in Nat
         /\ call[t].outcome.note \in {"unbound", "dormant"}
         /\ book[call[t].instance] \in Books
         /\ step = "warn" /\ call[t].outcome.note = "dormant"
            => call[t].namespace \in book[call[t].instance].warnedDormant
<1>1. TypeOK /\ call[t] # Idle /\ call[t].step = step
  BY DEF ColumnsInvariant, At
<1>2. call[t] \in Calls
  BY <1>1 DEF TypeOK
<1>3. /\ call[t].instance \in Instance /\ call[t].namespace \in Namespace
      /\ call[t].held \in Nat /\ call[t].outcome.note \in {"none", "unbound", "dormant"}
  BY <1>2 DEF Calls
<1>4. call[t].outcome.note # "none"
  BY <1>1 DEF ColumnsInvariant, CallsStand
<1>5. book[call[t].instance] \in Books
  BY <1>1, <1>3 DEF TypeOK
<1>6. step = "warn" /\ call[t].outcome.note = "dormant"
      => call[t].namespace \in book[call[t].instance].warnedDormant
  BY <1>1 DEF ColumnsInvariant, ClearMarked
<1> QED
  BY <1>2, <1>3, <1>4, <1>5, <1>6

(* The count is read.                                                      *)
LEMMA LoadKeeps ==
  ASSUME ColumnsInvariant, NEW t \in Thread, Load(t)
  PROVE  ColumnsInvariant'
<1> DEFINE old == book[call[t].instance]
<1>1. /\ At(t, "load") /\ Take(t, "load", old, old.unboundReads)
  BY DEF Load
<1>2. old \in Books /\ old.unboundReads \in Nat
  BY <1>1, AtStep DEF Books
<1>3. \A note, warned : StepAfter("load", note, warned) = "store"
  BY DEF StepAfter
<1> HIDE DEF old
<1> QED
  BY <1>1, <1>2, <1>3, TakeKeeps DEF old, Steps

(* The count is stored.                                                    *)
LEMMA StoreCountKeeps ==
  ASSUME ColumnsInvariant, NEW t \in Thread, StoreCount(t)
  PROVE  ColumnsInvariant'
<1> DEFINE old == book[call[t].instance]
           b == [old EXCEPT !.unboundReads = call[t].held + 1]
<1>1. /\ At(t, "store") /\ Take(t, "store", b, 0)
  BY DEF StoreCount
<1>2. old \in Books /\ call[t].held \in Nat
  BY <1>1, AtStep
<1>3. b \in Books /\ b.unboundReads > 0 /\ b.log = old.log
      /\ b.warnedDormant = old.warnedDormant
  BY <1>2 DEF Books
<1>4. \A note, warned : StepAfter("store", note, warned) = "check"
  BY DEF StepAfter
<1> HIDE DEF old, b
<1> QED
  BY <1>1, <1>3, <1>4, TakeKeeps DEF old, Steps

(* The marks are looked at.                                                *)
LEMMA CheckWarnedKeeps ==
  ASSUME ColumnsInvariant, NEW t \in Thread, CheckWarned(t)
  PROVE  ColumnsInvariant'
<1> DEFINE mine == call[t]
           old == book[mine.instance]
           warned == Warned(mine.instance, mine.outcome.note, mine.namespace)
<1>1. /\ At(t, "check") /\ Take(t, "check", old, 0)
  BY DEF CheckWarned
<1>2. old \in Books
  BY <1>1, AtStep
<1>3. StepAfter("check", mine.outcome.note, warned) = IF warned THEN "finish" ELSE "add"
  BY DEF StepAfter
<1>4. warned /\ mine.outcome.note = "dormant" => mine.namespace \in old.warnedDormant
  BY DEF Warned
<1> HIDE DEF old, warned
<1> QED
  BY <1>1, <1>2, <1>3, <1>4, TakeKeeps DEF old, warned, Steps

(* The namespace is marked.                                                *)
LEMMA AddWarnedKeeps ==
  ASSUME ColumnsInvariant, NEW t \in Thread, AddWarned(t)
  PROVE  ColumnsInvariant'
<1> DEFINE mine == call[t]
           old == book[mine.instance]
           b == MarkWarned(old, mine.outcome.note, mine.namespace)
<1>1. /\ At(t, "add") /\ Take(t, "add", b, 0)
  BY DEF AddWarned
<1>2. /\ old \in Books /\ mine.namespace \in Namespace
      /\ mine.outcome.note \in {"unbound", "dormant"}
  BY <1>1, AtStep
<1>3. /\ b \in Books /\ b.log = old.log /\ b.unboundReads = old.unboundReads
      /\ b.warnedDormant = IF mine.outcome.note = "dormant"
                           THEN old.warnedDormant \cup {mine.namespace}
                           ELSE old.warnedDormant
  <2>1. CASE mine.outcome.note = "unbound"
    <3>1. old.warnedFallback \cup {mine.namespace} \in SUBSET Namespace
      BY <1>2 DEF Books
    <3>2. b = [old EXCEPT !.warnedFallback = @ \cup {mine.namespace}]
      BY <2>1 DEF MarkWarned
    <3> QED
      BY <1>2, <2>1, <3>1, <3>2 DEF Books
  <2>2. CASE mine.outcome.note = "dormant"
    <3>1. old.warnedDormant \cup {mine.namespace} \in SUBSET Namespace
      BY <1>2 DEF Books
    <3>2. b = [old EXCEPT !.warnedDormant = @ \cup {mine.namespace}]
      BY <2>2 DEF MarkWarned
    <3> QED
      BY <1>2, <2>2, <3>1, <3>2 DEF Books
  <2> QED
    BY <1>2, <2>1, <2>2
<1>4. \A note, warned : StepAfter("add", note, warned) = "warn"
  BY DEF StepAfter
<1> DEFINE next == StepAfter("add", mine.outcome.note,
                     Warned(mine.instance, mine.outcome.note, mine.namespace))
<1>5. /\ next \in Steps
      /\ next \in {"load", "store"} => "add" = "load"
      /\ old.unboundReads > 0 => b.unboundReads > 0
      /\ "add" = "store" => b.unboundReads > 0
      /\ old.warnedDormant \subseteq b.warnedDormant
      /\ (mine.outcome.note = "dormant" /\ next \in {"warn", "finish"})
         => mine.namespace \in b.warnedDormant
      /\ \A n \in DOMAIN old.log : n \in DOMAIN b.log /\ b.log[n] = old.log[n]
      /\ \A ns \in b.warnedDormant :
           \/ \E n \in DOMAIN b.log :
                b.log[n] = [about |-> "dormant", namespace |-> ns]
           \/ /\ ns \in old.warnedDormant
              /\ ~ ("add" = "warn" /\ mine.outcome.note = "dormant"
                    /\ mine.namespace = ns)
           \/ /\ ns = mine.namespace /\ mine.outcome.note = "dormant"
              /\ next = "warn"
  <2>1. next = "warn"
    BY <1>4
  <2> HIDE DEF old, b, next
  <2> QED
    BY <1>2, <1>3, <2>1 DEF Steps
<1> HIDE DEF b
<1> QED
  BY <1>1, <1>3, <1>5, TakeKeeps

(* The warning is logged.                                                  *)
LEMMA WarnKeeps ==
  ASSUME ColumnsInvariant, NEW t \in Thread, Warn(t)
  PROVE  ColumnsInvariant'
<1> DEFINE mine == call[t]
           old == book[mine.instance]
           warning == [about |-> mine.outcome.note, namespace |-> mine.namespace]
           b == [old EXCEPT !.log = Append(@, warning)]
<1>1. /\ At(t, "warn") /\ Take(t, "warn", b, 0)
  BY DEF Warn
<1>2. /\ old \in Books /\ mine.namespace \in Namespace
      /\ mine.outcome.note \in {"unbound", "dormant"}
      /\ mine.outcome.note = "dormant" => mine.namespace \in old.warnedDormant
  BY <1>1, AtStep
<1>3. warning \in Warning /\ old.log \in Seq(Warning)
  BY <1>2 DEF Warning, Books
<1>4. /\ b.log = Append(old.log, warning) /\ b.unboundReads = old.unboundReads
      /\ b.warnedDormant = old.warnedDormant
  BY <1>2 DEF Books
<1>5. Append(old.log, warning) \in Seq(Warning)
  BY <1>3
<1>6. b \in Books
  BY <1>2, <1>5 DEF Books
<1>7. /\ \A n \in DOMAIN old.log : n \in DOMAIN b.log /\ b.log[n] = old.log[n]
      /\ \E n \in DOMAIN b.log : b.log[n] = warning
  <2> HIDE DEF warning, old, b
  <2>1. DOMAIN old.log = 1 .. Len(old.log) /\ Len(old.log) \in Nat
        /\ DOMAIN Append(old.log, warning) = 1 .. (Len(old.log) + 1)
    BY <1>3
  <2>2. /\ Append(old.log, warning)[Len(old.log) + 1] = warning
        /\ \A n \in 1 .. Len(old.log) : Append(old.log, warning)[n] = old.log[n]
    BY <1>3
  <2>3. Len(old.log) + 1 \in 1 .. (Len(old.log) + 1)
        /\ \A n \in 1 .. Len(old.log) : n \in 1 .. (Len(old.log) + 1)
    BY <2>1
  <2> QED
    BY <1>4, <2>1, <2>2, <2>3
<1>8. \A note, warned : StepAfter("warn", note, warned) = "finish"
  BY DEF StepAfter
<1>9. ASSUME NEW ns \in b.warnedDormant
      PROVE  \/ \E n \in DOMAIN b.log :
                  b.log[n] = [about |-> "dormant", namespace |-> ns]
             \/ /\ ns \in old.warnedDormant
                /\ ~ (mine.outcome.note = "dormant" /\ mine.namespace = ns)
  BY <1>4, <1>7
<1> DEFINE next == StepAfter("warn", mine.outcome.note,
                     Warned(mine.instance, mine.outcome.note, mine.namespace))
<1>10. /\ next \in Steps
       /\ next \in {"load", "store"} => "warn" = "load"
       /\ old.unboundReads > 0 => b.unboundReads > 0
       /\ "warn" = "store" => b.unboundReads > 0
       /\ old.warnedDormant \subseteq b.warnedDormant
       /\ (mine.outcome.note = "dormant" /\ next \in {"warn", "finish"})
          => mine.namespace \in b.warnedDormant
       /\ \A n \in DOMAIN old.log : n \in DOMAIN b.log /\ b.log[n] = old.log[n]
       /\ \A ns \in b.warnedDormant :
            \/ \E n \in DOMAIN b.log :
                 b.log[n] = [about |-> "dormant", namespace |-> ns]
            \/ /\ ns \in old.warnedDormant
               /\ ~ ("warn" = "warn" /\ mine.outcome.note = "dormant"
                     /\ mine.namespace = ns)
            \/ /\ ns = mine.namespace /\ mine.outcome.note = "dormant"
               /\ next = "warn"
  <2>1. next = "finish"
    BY <1>8
  <2> HIDE DEF old, b, next
  <2> QED
    BY <1>2, <1>4, <1>7, <1>9, <2>1 DEF Steps
<1> HIDE DEF b
<1> QED
  BY <1>1, <1>6, <1>10, TakeKeeps

(* A statement ends.                                                       *)
LEMMA FinishKeeps ==
  ASSUME ColumnsInvariant, NEW t \in Thread, Finish(t)
  PROVE  ColumnsInvariant'
<1> DEFINE mine == call[t]
           c == mine.column
           stores == mine.op = "write" /\ mine.outcome.status = "ok"
<1>1. TypeOK /\ mine # Idle /\ mine.step = "finish"
  BY DEF ColumnsInvariant, Finish, At
<1>2. mine \in Calls
  BY <1>1 DEF TypeOK
<1>3. /\ c \in Column /\ mine.asked \in Instance /\ mine.instance \in Instance
      /\ mine.outcome.value \in CellValue /\ mine.value \in CellValue
      /\ types[c] \in ColumnType
  BY <1>1, <1>2 DEF Calls, TypeOK
<1>4. /\ cell' = IF stores THEN [cell EXCEPT ![c] = mine.outcome.value] ELSE cell
      /\ written' = IF stores THEN [written EXCEPT ![c] = mine.value] ELSE written
      /\ origin' = IF stores THEN [origin EXCEPT ![c] = mine.asked] ELSE origin
      /\ unbound' = IF mine.outcome.note = "unbound" THEN unbound \cup {mine.instance}
                    ELSE unbound
      /\ call' = [call EXCEPT ![t] = Idle]
      /\ UNCHANGED <<types, current, cache, book, statements, swaps>>
  BY DEF Finish
<1>5. call'[t] = Idle /\ \A u \in Thread : u # t => call'[u] = call[u]
  BY <1>1, <1>4 DEF TypeOK
<1>6. TypeOK'
  BY <1>1, <1>3, <1>4 DEF TypeOK
<1>7. CallsStand'
  BY <1>4, <1>5 DEF ColumnsInvariant, CallsStand
<1>8. Counted'
  <2>1. mine.outcome.note = "unbound" => book[mine.instance].unboundReads > 0
    BY <1>1 DEF ColumnsInvariant, Counted
  <2> QED
    BY <1>4, <1>5, <2>1 DEF ColumnsInvariant, Counted
<1>9. MarkedAnnounced'
  <2>1. \A i, ns : Logged(i, "dormant", ns) => Logged(i, "dormant", ns)'
    BY <1>4 DEF Logged
  <2>2. \A u \in Thread : \A i, ns : AnnouncesNow(u, i, ns) => AnnouncesNow(u, i, ns)'
    BY <1>1, <1>5 DEF AnnouncesNow, At
  <2> QED
    BY <1>4, <2>1, <2>2 DEF ColumnsInvariant, MarkedAnnounced
<1>10. \A u \in Thread :
         (/\ call'[u] # Idle /\ call'[u].outcome.note = "dormant"
          /\ call'[u].step \in {"warn", "finish"})
         => call'[u].namespace \in book'[call'[u].instance].warnedDormant
  BY <1>4, <1>5 DEF ColumnsInvariant, ClearMarked
<1>11. CASE stores
  <2>1. /\ cell'[c] = mine.outcome.value /\ origin'[c] = mine.asked
        /\ \A d \in Column : d # c => cell'[d] = cell[d] /\ origin'[d] = origin[d]
    BY <1>1, <1>3, <1>4, <1>11 DEF TypeOK
  <2>2. /\ mine.namespace = types[c].namespace
        /\ mine.instance = Provided(types[c], mine.asked)
        /\ IsString(mine.outcome.value)
           => /\ OwnString(mine.instance, types[c], mine.outcome.value)
              /\ mine.outcome.value.layers = << >> => mine.outcome.note = "dormant"
    BY <1>1, <1>11 DEF ColumnsInvariant, CallsStand
  <2>3. ColumnsAreTheirOwn'
    <3> SUFFICES ASSUME NEW d \in Column, origin'[d] # Null, IsString(cell'[d])
                 PROVE  OwnString(Provided(types[d], origin'[d]), types[d], cell'[d])
      BY <1>4 DEF ColumnsAreTheirOwn, OwnString
    <3>1. CASE d = c
      BY <2>1, <2>2, <3>1
    <3>2. CASE d # c
      BY <2>1, <3>2 DEF ColumnsInvariant, ColumnsAreTheirOwn, OwnString
    <3> QED
      BY <3>1, <3>2
  <2>4. ClearMarked'
    <3> SUFFICES ASSUME NEW d \in Column, origin'[d] # Null, IsString(cell'[d]),
                        cell'[d].layers = << >>
                 PROVE  types[d].namespace
                          \in book[Provided(types[d], origin'[d])].warnedDormant
      BY <1>4, <1>10 DEF ClearMarked
    <3>1. CASE d = c
      <4>1. mine.outcome.note = "dormant"
        BY <2>1, <2>2, <3>1
      <4>2. mine.namespace \in book[mine.instance].warnedDormant
        BY <1>1, <4>1 DEF ColumnsInvariant, ClearMarked
      <4> QED
        BY <2>1, <2>2, <3>1, <4>2
    <3>2. CASE d # c
      BY <2>1, <3>2 DEF ColumnsInvariant, ClearMarked
    <3> QED
      BY <3>1, <3>2
  <2> QED
    BY <1>6, <1>7, <1>8, <1>9, <2>3, <2>4 DEF ColumnsInvariant
<1>12. CASE ~ stores
  <2>1. UNCHANGED <<cell, origin, types, book>>
    BY <1>4, <1>12
  <2>2. ColumnsAreTheirOwn'
    BY <2>1 DEF ColumnsInvariant, ColumnsAreTheirOwn
  <2>3. ClearMarked'
    BY <1>10, <2>1 DEF ColumnsInvariant, ClearMarked
  <2> QED
    BY <1>6, <1>7, <1>8, <1>9, <2>2, <2>3 DEF ColumnsInvariant
<1> QED
  BY <1>11, <1>12

(* The callable returns another instance from now on.                      *)
LEMMA SwapKeeps ==
  ASSUME ColumnsInvariant, NEW i \in Instance, Swap(i)
  PROVE  ColumnsInvariant'
<1>1. /\ UNCHANGED <<types, cell, written, origin, cache, book, call, unbound, statements>>
      /\ current' = i /\ swaps' = swaps + 1 /\ swaps < MaxSwaps
  BY DEF Swap
<1>2. TypeOK'
  BY <1>1, ColumnsAssumption DEF ColumnsInvariant, TypeOK
<1>3. CallsStand' /\ Counted' /\ ClearMarked' /\ ColumnsAreTheirOwn'
  BY <1>1 DEF ColumnsInvariant, CallsStand, Counted, ClearMarked, ColumnsAreTheirOwn
<1>4. MarkedAnnounced'
  BY <1>1 DEF ColumnsInvariant, MarkedAnnounced, Logged, AnnouncesNow, At
<1> QED
  BY <1>2, <1>3, <1>4 DEF ColumnsInvariant

(* Every step keeps the invariant.                                         *)
LEMMA ColumnsNext ==
  ASSUME ColumnsInvariant, [Next]_vars
  PROVE  ColumnsInvariant'
<1>1. TypeOK
  BY DEF ColumnsInvariant
<1>2. \A c \in Column : types[c] \in ColumnType /\ Cached(types[c]) = types[c]
  BY <1>1, CachedIsOwn DEF TypeOK
<1>3. ASSUME NEW t \in Thread, NEW c \in Column, NEW value \in ToWrite[types[c].class],
             Write(t, c, value)
      PROVE  ColumnsInvariant'
  <2> DEFINE i == Provided(types[c], current)
             outcome == ProcessBindParam(i, types[c], value)
  <2>1. i \in Instance
    BY <1>1, <1>2, ProvidedType DEF TypeOK
  <2>2. Execute(t, "write", c, value, outcome)
    BY <1>2, <1>3 DEF Write
  <2>3. /\ value \in CellValue /\ outcome \in ColumnOutcomes /\ outcome.note # "unbound"
        /\ (outcome.status = "ok" /\ IsString(outcome.value))
           => /\ OwnString(i, types[c], outcome.value)
              /\ outcome.value.layers = << >> => outcome.note = "dormant"
    BY <1>2, <2>1, BindReturns
  <2> HIDE DEF outcome
  <2> QED
    BY <2>2, <2>3, ExecuteKeeps
<1>4. ASSUME NEW t \in Thread, NEW c \in Column, Read(t, c)
      PROVE  ColumnsInvariant'
  <2> DEFINE i == Provided(types[c], current)
             outcome == ProcessResultValue(i, types[c], cell[c])
  <2>1. i \in Instance /\ cell[c] \in CellValue /\ written[c] \in CellValue
    BY <1>1, <1>2, ProvidedType DEF TypeOK
  <2>2. Execute(t, "read", c, written[c], outcome)
    BY <1>2, <1>4 DEF Read
  <2>3. outcome \in ColumnOutcomes
    BY <1>2, <2>1, ResultType
  <2> HIDE DEF outcome
  <2> QED
    BY <2>1, <2>2, <2>3, ExecuteKeeps
<1>5. ASSUME NEW t \in Thread, Bookkeeping(t) \/ Finish(t)
      PROVE  ColumnsInvariant'
  BY <1>5, LoadKeeps, StoreCountKeeps, CheckWarnedKeeps, AddWarnedKeeps, WarnKeeps,
     FinishKeeps DEF Bookkeeping
<1>6. ASSUME NEW i \in Instance, Swap(i)
      PROVE  ColumnsInvariant'
  BY <1>6, SwapKeeps
<1>7. CASE UNCHANGED vars
  BY <1>7 DEF vars, ColumnsInvariant, TypeOK, CallsStand, Counted, ClearMarked,
              MarkedAnnounced, ColumnsAreTheirOwn, Logged, AnnouncesNow, At
<1> QED
  BY <1>3, <1>4, <1>5, <1>6, <1>7 DEF Next

(* The invariant holds for any number of threads, columns and instances.   *)
THEOREM ColumnsKeepInvariant == Spec => []ColumnsInvariant
<1>1. Init => ColumnsInvariant
  BY ColumnsInit
<1>2. ColumnsInvariant /\ [Next]_vars => ColumnsInvariant'
  BY ColumnsNext
<1> QED
  BY <1>1, <1>2, PTL DEF Spec

-----------------------------------------------------------------------------
(* Warnings stop: once a namespace is marked no thread sets out to warn of *)
(* it again, so those on their way when it was are the last.               *)

(* The lines of a log that are about a namespace.                          *)
Lines(i, about, ns) ==
  {n \in DOMAIN book[i].log : book[i].log[n] = [about |-> about, namespace |-> ns]}

(* The threads that found the namespace unmarked and have not warned yet.  *)
Announcers(i, about, ns) ==
  {t \in Thread : /\ call[t] # Idle /\ call[t].step \in {"add", "warn"}
                  /\ call[t].instance = i /\ call[t].namespace = ns
                  /\ call[t].outcome.note = about}

Marked(i, about, ns) ==
  (\/ Lines(i, about, ns) # {}
   \/ \E t \in Announcers(i, about, ns) : call[t].step = "warn")
  => Warned(i, about, ns)

OnceEach(i, about, ns) ==
  Cardinality(Lines(i, about, ns)) + Cardinality(Announcers(i, about, ns))
    <= Cardinality(Thread)

Warnings ==
  \A i \in Instance, about \in {"unbound", "dormant"}, ns \in Namespace :
    Marked(i, about, ns) /\ OnceEach(i, about, ns)

(* Lines and threads can be counted.                                       *)
LEMMA WarningsAreCounted ==
  ASSUME TypeOK, NEW i \in Instance, NEW about, NEW ns
  PROVE  /\ IsFiniteSet(Lines(i, about, ns)) /\ IsFiniteSet(Announcers(i, about, ns))
         /\ IsFiniteSet(Thread)
         /\ Cardinality(Lines(i, about, ns)) \in Nat
         /\ Cardinality(Announcers(i, about, ns)) \in Nat
         /\ Cardinality(Thread) \in Nat
         /\ Cardinality(Announcers(i, about, ns)) <= Cardinality(Thread)
<1>1. book[i].log \in Seq(Warning)
  BY DEF TypeOK, Books
<1>2. DOMAIN book[i].log = 1 .. Len(book[i].log) /\ Len(book[i].log) \in Int
  BY <1>1
<1>3. IsFiniteSet(DOMAIN book[i].log)
  BY <1>2, FS_Interval
<1>4. Lines(i, about, ns) \in SUBSET DOMAIN book[i].log
  BY DEF Lines
<1>5. Announcers(i, about, ns) \in SUBSET Thread
  BY DEF Announcers
<1>6. IsFiniteSet(Lines(i, about, ns))
  BY <1>3, <1>4, FS_Subset
<1>7. IsFiniteSet(Thread)
  BY ColumnsAssumption
<1>8. /\ IsFiniteSet(Announcers(i, about, ns))
      /\ Cardinality(Announcers(i, about, ns)) <= Cardinality(Thread)
  BY <1>5, <1>7, FS_Subset
<1> QED
  BY <1>6, <1>7, <1>8, FS_CardinalityType

(* What a step of the bookkeeping changes.                                 *)
LEMMA TakeChanges ==
  ASSUME TypeOK, NEW t \in Thread, NEW step, NEW b, NEW held, NEW next,
         At(t, step), Take(t, step, b, held),
         next = StepAfter(step, call[t].outcome.note,
                  Warned(call[t].instance, call[t].outcome.note, call[t].namespace))
  PROVE  /\ call[t] \in Calls /\ call[t] # Idle /\ call[t].step = step
         /\ call[t].instance \in Instance
         /\ call'[t].step = next /\ call'[t].instance = call[t].instance
         /\ call'[t].namespace = call[t].namespace /\ call'[t].outcome = call[t].outcome
         /\ \A u \in Thread : u # t => call'[u] = call[u]
         /\ book'[call[t].instance] = b
         /\ \A j \in Instance : j # call[t].instance => book'[j] = book[j]
<1>1. call[t] \in Calls /\ call[t] # Idle /\ call[t].step = step
  BY DEF At, TypeOK
<1>2. call[t].instance \in Instance
  BY <1>1 DEF Calls
<1>3. call' = [call EXCEPT ![t].held = held, ![t].step = next]
  BY DEF Take
<1>4. call'[t] = [call[t] EXCEPT !.held = held, !.step = next]
      /\ \A u \in Thread : u # t => call'[u] = call[u]
  BY <1>3 DEF TypeOK
<1>5. call'[t].step = next /\ call'[t].instance = call[t].instance
      /\ call'[t].namespace = call[t].namespace /\ call'[t].outcome = call[t].outcome
  BY <1>1, <1>4 DEF Calls
<1> QED
  BY <1>1, <1>2, <1>4, <1>5 DEF Take, TypeOK

(* A step that logs nothing, sets no thread out to warn and unmarks        *)
(* nothing.                                                                *)
LEMMA QuietKeeps ==
  ASSUME TypeOK, TypeOK', NEW i \in Instance, NEW about, NEW ns,
         Marked(i, about, ns), OnceEach(i, about, ns),
         Lines(i, about, ns)' = Lines(i, about, ns),
         Announcers(i, about, ns)' \subseteq Announcers(i, about, ns),
         Warned(i, about, ns) => Warned(i, about, ns)',
         \A t \in Announcers(i, about, ns)' :
           call'[t].step = "warn" => call[t].step = "warn" \/ Warned(i, about, ns)'
  PROVE  Marked(i, about, ns)' /\ OnceEach(i, about, ns)'
<1>1. Marked(i, about, ns)'
  BY DEF Marked
<1>2. Cardinality(Announcers(i, about, ns)') <= Cardinality(Announcers(i, about, ns))
  BY WarningsAreCounted, FS_Subset
<1>3. /\ Cardinality(Announcers(i, about, ns)') \in Nat
      /\ Cardinality(Announcers(i, about, ns)) \in Nat
      /\ Cardinality(Lines(i, about, ns)) \in Nat /\ Cardinality(Thread) \in Nat
  <2>1. IsFiniteSet(Announcers(i, about, ns)')
    BY WarningsAreCounted, FS_Subset
  <2> QED
    BY <2>1, WarningsAreCounted, FS_CardinalityType
<1>4. OnceEach(i, about, ns)'
  BY <1>2, <1>3 DEF OnceEach
<1> QED
  BY <1>1, <1>4

(* The marks are looked at: who finds none is the only one to set out.     *)
LEMMA CheckWarnedCounts ==
  ASSUME ColumnsInvariant, ColumnsInvariant', Warnings, NEW t \in Thread, CheckWarned(t),
         NEW i \in Instance, NEW about \in {"unbound", "dormant"}, NEW ns \in Namespace
  PROVE  Marked(i, about, ns)' /\ OnceEach(i, about, ns)'
<1> DEFINE mine == call[t]
           warned == Warned(mine.instance, mine.outcome.note, mine.namespace)
           next == IF warned THEN "finish" ELSE "add"
<1>1. TypeOK /\ TypeOK' /\ Marked(i, about, ns) /\ OnceEach(i, about, ns)
  BY DEF ColumnsInvariant, Warnings
<1>2. /\ At(t, "check") /\ Take(t, "check", book[mine.instance], 0)
  BY DEF CheckWarned
<1>3. next = StepAfter("check", mine.outcome.note, warned)
  BY DEF StepAfter
<1> HIDE DEF next
<1>4. /\ mine \in Calls /\ mine # Idle /\ mine.step = "check"
      /\ \A u \in Thread : u # t => call'[u] = call[u]
      /\ \A j \in Instance : book'[j] = book[j]
  BY <1>1, <1>2, <1>3, TakeChanges
<1>5. /\ call'[t].step = next /\ call'[t].instance = mine.instance
      /\ call'[t].namespace = mine.namespace /\ call'[t].outcome = mine.outcome
  BY <1>1, <1>2, <1>3, TakeChanges
<1>6. /\ Lines(i, about, ns)' = Lines(i, about, ns)
      /\ Warned(i, about, ns)' <=> Warned(i, about, ns)
  BY <1>4 DEF Lines, Warned
<1>7. CASE ~ warned /\ mine.instance = i /\ mine.outcome.note = about /\ mine.namespace = ns
  <2>1. Lines(i, about, ns) = {} /\ ~ \E u \in Announcers(i, about, ns) : call[u].step = "warn"
    BY <1>1, <1>7 DEF Marked
  <2>2. ~ \E u \in Announcers(i, about, ns)' : call'[u].step = "warn"
    <3>1. next = "add"
      BY <1>7 DEF next
    <3> QED
      BY <1>4, <1>5, <2>1, <3>1 DEF Announcers
  <2>3. Marked(i, about, ns)'
    BY <1>6, <2>1, <2>2 DEF Marked
  <2>4. Cardinality(Lines(i, about, ns)') = 0
    BY <1>6, <2>1, FS_EmptySet
  <2>5. Announcers(i, about, ns)' \in SUBSET Thread
    BY DEF Announcers
  <2>6. /\ Cardinality(Announcers(i, about, ns)') <= Cardinality(Thread)
        /\ Cardinality(Announcers(i, about, ns)') \in Nat
    BY <1>1, <2>5, WarningsAreCounted, FS_Subset, FS_CardinalityType
  <2>7. OnceEach(i, about, ns)'
    BY <2>4, <2>6 DEF OnceEach
  <2> QED
    BY <2>3, <2>7
<1>8. CASE ~ (~ warned /\ mine.instance = i /\ mine.outcome.note = about
              /\ mine.namespace = ns)
  <2>1. \A u \in Announcers(i, about, ns)' : u # t
    BY <1>5, <1>8 DEF Announcers, next
  <2>2. /\ Announcers(i, about, ns)' \subseteq Announcers(i, about, ns)
        /\ \A u \in Announcers(i, about, ns)' : call'[u] = call[u]
    BY <1>4, <2>1 DEF Announcers
  <2> QED
    BY <1>1, <1>6, <2>2, QuietKeeps
<1> QED
  BY <1>7, <1>8

(* The namespace is marked by one that is on its way already.              *)
LEMMA AddWarnedCounts ==
  ASSUME ColumnsInvariant, ColumnsInvariant', Warnings, NEW t \in Thread, AddWarned(t),
         NEW i \in Instance, NEW about \in {"unbound", "dormant"}, NEW ns \in Namespace
  PROVE  Marked(i, about, ns)' /\ OnceEach(i, about, ns)'
<1> DEFINE mine == call[t]
           old == book[mine.instance]
           b == MarkWarned(old, mine.outcome.note, mine.namespace)
<1>1. TypeOK /\ TypeOK' /\ Marked(i, about, ns) /\ OnceEach(i, about, ns)
  BY DEF ColumnsInvariant, Warnings
<1>2. /\ At(t, "add") /\ Take(t, "add", b, 0)
  BY DEF AddWarned
<1>3. "warn" = StepAfter("add", mine.outcome.note,
                  Warned(mine.instance, mine.outcome.note, mine.namespace))
  BY DEF StepAfter
<1> HIDE DEF b
<1>4. /\ mine \in Calls /\ mine # Idle /\ mine.step = "add" /\ mine.instance \in Instance
      /\ \A u \in Thread : u # t => call'[u] = call[u]
      /\ book'[mine.instance] = b
      /\ \A j \in Instance : j # mine.instance => book'[j] = book[j]
  BY <1>1, <1>2, <1>3, TakeChanges
<1>5. /\ call'[t].step = "warn" /\ call'[t].instance = mine.instance
      /\ call'[t].namespace = mine.namespace /\ call'[t].outcome = mine.outcome
  BY <1>1, <1>2, <1>3, TakeChanges
<1>6. old \in Books /\ mine.outcome.note \in {"unbound", "dormant"}
  BY <1>2, AtStep
<1>7. /\ b.log = old.log
      /\ old.warnedDormant \subseteq b.warnedDormant
      /\ old.warnedFallback \subseteq b.warnedFallback
      /\ mine.outcome.note = "unbound" => mine.namespace \in b.warnedFallback
      /\ mine.outcome.note = "dormant" => mine.namespace \in b.warnedDormant
  <2>1. CASE mine.outcome.note = "unbound"
    <3>1. b = [old EXCEPT !.warnedFallback = @ \cup {mine.namespace}]
      BY <2>1 DEF b, MarkWarned
    <3> HIDE DEF old, mine
    <3> QED
      BY <1>6, <2>1, <3>1 DEF Books
  <2>2. CASE mine.outcome.note = "dormant"
    <3>1. b = [old EXCEPT !.warnedDormant = @ \cup {mine.namespace}]
      BY <2>2 DEF b, MarkWarned
    <3> HIDE DEF old, mine
    <3> QED
      BY <1>6, <2>2, <3>1 DEF Books
  <2> QED
    BY <1>6, <2>1, <2>2
<1>8. Lines(i, about, ns)' = Lines(i, about, ns)
  BY <1>4, <1>7 DEF Lines
<1>9. Warned(i, about, ns) => Warned(i, about, ns)'
  BY <1>4, <1>7 DEF Warned
<1>10. /\ Announcers(i, about, ns)' \subseteq Announcers(i, about, ns)
       /\ \A u \in Announcers(i, about, ns)' : u # t => call'[u] = call[u]
  BY <1>4, <1>5 DEF Announcers
<1>11. t \in Announcers(i, about, ns)' => Warned(i, about, ns)'
  BY <1>4, <1>5, <1>7 DEF Announcers, Warned
<1> QED
  BY <1>1, <1>8, <1>9, <1>10, <1>11, QuietKeeps

(* A warning is logged, and one thread less has to.                        *)
LEMMA WarnCounts ==
  ASSUME ColumnsInvariant, ColumnsInvariant', Warnings, NEW t \in Thread, Warn(t),
         NEW i \in Instance, NEW about \in {"unbound", "dormant"}, NEW ns \in Namespace
  PROVE  Marked(i, about, ns)' /\ OnceEach(i, about, ns)'
<1> DEFINE mine == call[t]
           old == book[mine.instance]
           warning == [about |-> mine.outcome.note, namespace |-> mine.namespace]
           b == [old EXCEPT !.log = Append(@, warning)]
<1>1. TypeOK /\ TypeOK' /\ Marked(i, about, ns) /\ OnceEach(i, about, ns)
  BY DEF ColumnsInvariant, Warnings
<1>2. /\ At(t, "warn") /\ Take(t, "warn", b, 0)
  BY DEF Warn
<1>3. "finish" = StepAfter("warn", mine.outcome.note,
                    Warned(mine.instance, mine.outcome.note, mine.namespace))
  BY DEF StepAfter
<1> HIDE DEF b
<1>4. /\ mine \in Calls /\ mine # Idle /\ mine.step = "warn" /\ mine.instance \in Instance
      /\ \A u \in Thread : u # t => call'[u] = call[u]
      /\ book'[mine.instance] = b
      /\ \A j \in Instance : j # mine.instance => book'[j] = book[j]
  BY <1>1, <1>2, <1>3, TakeChanges
<1>5. call'[t].step = "finish"
  BY <1>1, <1>2, <1>3, TakeChanges
<1>6. old \in Books /\ mine.outcome.note \in {"unbound", "dormant"}
      /\ mine.namespace \in Namespace
  BY <1>2, AtStep
<1>7. old.log \in Seq(Warning) /\ warning \in Warning
  BY <1>6 DEF Books, Warning
<1>8. /\ b.log = Append(old.log, warning)
      /\ b.warnedDormant = old.warnedDormant /\ b.warnedFallback = old.warnedFallback
  BY <1>6 DEF b, Books
<1> DEFINE last == Len(old.log) + 1
<1>9. /\ DOMAIN b.log = DOMAIN old.log \cup {last} /\ last \notin DOMAIN old.log
      /\ b.log[last] = warning /\ \A n \in DOMAIN old.log : b.log[n] = old.log[n]
  <2> HIDE DEF warning, old, b
  <2>1. /\ DOMAIN old.log = 1 .. Len(old.log) /\ Len(old.log) \in Nat
        /\ DOMAIN b.log = 1 .. (Len(old.log) + 1)
    BY <1>7, <1>8
  <2>2. b.log[last] = warning /\ \A n \in 1 .. Len(old.log) : b.log[n] = old.log[n]
    BY <1>7, <1>8
  <2> QED
    BY <2>1, <2>2
<1>10. /\ Warned(i, about, ns)' <=> Warned(i, about, ns)
  BY <1>4, <1>8 DEF Warned
<1>11. /\ Announcers(i, about, ns)' = Announcers(i, about, ns) \ {t}
       /\ \A u \in Announcers(i, about, ns)' : call'[u] = call[u]
  BY <1>4, <1>5 DEF Announcers
<1>12. CASE mine.instance = i /\ mine.outcome.note = about /\ mine.namespace = ns
  <2>1. t \in Announcers(i, about, ns)
    BY <1>4, <1>12 DEF Announcers
  <2>2. Warned(i, about, ns)
    BY <1>1, <1>4, <2>1 DEF Marked
  <2>3. Marked(i, about, ns)'
    BY <1>10, <2>2 DEF Marked
  <2>4. Lines(i, about, ns)' = Lines(i, about, ns) \cup {last}
        /\ last \notin Lines(i, about, ns)
    <3>1. book'[i].log = b.log /\ book[i].log = old.log
          /\ warning = [about |-> about, namespace |-> ns]
      BY <1>4, <1>12
    <3> HIDE DEF b, old, last, warning
    <3> QED
      BY <1>9, <3>1 DEF Lines
  <2>5. /\ Cardinality(Lines(i, about, ns)') = Cardinality(Lines(i, about, ns)) + 1
        /\ Cardinality(Announcers(i, about, ns)')
             = Cardinality(Announcers(i, about, ns)) - 1
    <3>1. IsFiniteSet(Lines(i, about, ns)) /\ IsFiniteSet(Announcers(i, about, ns))
      BY <1>1, WarningsAreCounted
    <3>2. Cardinality(Lines(i, about, ns) \cup {last}) = Cardinality(Lines(i, about, ns)) + 1
      BY <2>4, <3>1, FS_AddElement
    <3>3. Cardinality(Announcers(i, about, ns) \ {t})
            = Cardinality(Announcers(i, about, ns)) - 1
      BY <2>1, <3>1, FS_RemoveElement
    <3> QED
      BY <1>11, <2>4, <3>2, <3>3
  <2>6. OnceEach(i, about, ns)'
    BY <1>1, <2>5, WarningsAreCounted DEF OnceEach
  <2> QED
    BY <2>3, <2>6
<1>13. CASE ~ (mine.instance = i /\ mine.outcome.note = about /\ mine.namespace = ns)
  <2>1. Lines(i, about, ns)' = Lines(i, about, ns)
    <3>1. CASE mine.instance = i
      <4>1. book'[i].log = b.log /\ book[i].log = old.log
            /\ warning # [about |-> about, namespace |-> ns]
        BY <1>4, <1>13, <3>1
      <4> HIDE DEF b, old, last, warning
      <4> QED
        BY <1>9, <4>1 DEF Lines
    <3>2. CASE mine.instance # i
      BY <1>4, <3>2 DEF Lines
    <3> QED
      BY <3>1, <3>2
  <2> QED
    BY <1>1, <1>10, <1>11, <2>1, QuietKeeps
<1> QED
  BY <1>12, <1>13

(* Every step keeps the count of warnings below the number of threads.     *)
LEMMA WarningsNext ==
  ASSUME ColumnsInvariant, ColumnsInvariant', Warnings, [Next]_vars
  PROVE  Warnings'
<1> SUFFICES ASSUME NEW i \in Instance, NEW about \in {"unbound", "dormant"},
                    NEW ns \in Namespace
             PROVE  Marked(i, about, ns)' /\ OnceEach(i, about, ns)'
  BY DEF Warnings
<1>1. TypeOK /\ TypeOK' /\ Marked(i, about, ns) /\ OnceEach(i, about, ns)
  BY DEF ColumnsInvariant, Warnings
<1> DEFINE Unmarking == /\ Lines(i, about, ns)' = Lines(i, about, ns)
                        /\ Warned(i, about, ns)' <=> Warned(i, about, ns)
           Setting == \A u \in Thread :
                        (call'[u] # Idle /\ call'[u].step \in {"add", "warn"})
                        => call'[u] = call[u]
<1>2. Unmarking /\ Setting => Marked(i, about, ns)' /\ OnceEach(i, about, ns)'
  <2> SUFFICES ASSUME Unmarking, Setting
               PROVE  Marked(i, about, ns)' /\ OnceEach(i, about, ns)'
    OBVIOUS
  <2>1. /\ Announcers(i, about, ns)' \subseteq Announcers(i, about, ns)
        /\ \A u \in Announcers(i, about, ns)' : call'[u] = call[u]
    BY DEF Announcers
  <2> QED
    BY <1>1, <2>1, QuietKeeps
<1>3. ASSUME UNCHANGED book
      PROVE  Unmarking
  BY <1>3 DEF Lines, Warned
<1>4. ASSUME NEW t \in Thread, NEW c \in Column, NEW op, NEW value, NEW outcome,
             outcome.note \in {"none", "unbound", "dormant"},
             Execute(t, op, c, value, outcome)
      PROVE  Unmarking /\ Setting
  <2>1. /\ call'[t].step = StepAfter("call", outcome.note, FALSE)
        /\ \A u \in Thread : u # t => call'[u] = call[u]
        /\ UNCHANGED book
    BY <1>1, <1>4 DEF Execute, TypeOK
  <2>2. StepAfter("call", outcome.note, FALSE) \in {"finish", "check", "load"}
    BY <1>4 DEF StepAfter
  <2> QED
    BY <1>3, <2>1, <2>2
<1>5. ASSUME NEW t \in Thread, NEW c \in Column, NEW value \in ToWrite[types[c].class],
             Write(t, c, value)
      PROVE  Unmarking /\ Setting
  <2> DEFINE j == Provided(types[c], current)
             outcome == ProcessBindParam(j, types[c], value)
  <2>1. types[c] \in ColumnType /\ j \in Instance /\ Cached(types[c]) = types[c]
    BY <1>1, ProvidedType, CachedIsOwn DEF TypeOK
  <2>2. outcome \in ColumnOutcomes
    BY <2>1, BindReturns
  <2>3. Execute(t, "write", c, value, outcome)
    BY <1>5, <2>1 DEF Write
  <2>4. outcome.note \in {"none", "unbound", "dormant"}
    BY <2>2 DEF ColumnOutcomes
  <2> HIDE DEF outcome, Unmarking, Setting
  <2> QED
    BY <1>4, <2>3, <2>4
<1>6. ASSUME NEW t \in Thread, NEW c \in Column, Read(t, c)
      PROVE  Unmarking /\ Setting
  <2> DEFINE j == Provided(types[c], current)
             outcome == ProcessResultValue(j, types[c], cell[c])
  <2>1. /\ types[c] \in ColumnType /\ j \in Instance /\ Cached(types[c]) = types[c]
        /\ cell[c] \in CellValue
    BY <1>1, ProvidedType, CachedIsOwn DEF TypeOK
  <2>2. outcome \in ColumnOutcomes
    BY <2>1, ResultType
  <2>3. Execute(t, "read", c, written[c], outcome)
    BY <1>6, <2>1 DEF Read
  <2>4. outcome.note \in {"none", "unbound", "dormant"}
    BY <2>2 DEF ColumnOutcomes
  <2> HIDE DEF outcome, Unmarking, Setting
  <2> QED
    BY <1>4, <2>3, <2>4
<1>7. ASSUME NEW t \in Thread, Load(t)
      PROVE  Unmarking /\ Setting
  <2> DEFINE old == book[call[t].instance]
  <2>1. /\ At(t, "load") /\ Take(t, "load", old, old.unboundReads)
    BY <1>7 DEF Load
  <2>2. "store" = StepAfter("load", call[t].outcome.note,
                  Warned(call[t].instance, call[t].outcome.note, call[t].namespace))
    BY DEF StepAfter
  <2>3. /\ \A u \in Thread : u # t => call'[u] = call[u]
        /\ \A j \in Instance : book'[j] = book[j]
    BY <1>1, <2>1, <2>2, TakeChanges
  <2>4. call'[t].step = "store"
    BY <1>1, <2>1, <2>2, TakeChanges
  <2> QED
    BY <2>3, <2>4 DEF Lines, Warned
<1>8. ASSUME NEW t \in Thread, StoreCount(t)
      PROVE  Unmarking /\ Setting
  <2> DEFINE old == book[call[t].instance]
             b == [old EXCEPT !.unboundReads = call[t].held + 1]
  <2>1. /\ At(t, "store") /\ Take(t, "store", b, 0)
    BY <1>8 DEF StoreCount
  <2>2. "check" = StepAfter("store", call[t].outcome.note,
                  Warned(call[t].instance, call[t].outcome.note, call[t].namespace))
    BY DEF StepAfter
  <2> HIDE DEF b
  <2>3. /\ call[t].instance \in Instance
        /\ \A u \in Thread : u # t => call'[u] = call[u]
        /\ book'[call[t].instance] = b
        /\ \A j \in Instance : j # call[t].instance => book'[j] = book[j]
    BY <1>1, <2>1, <2>2, TakeChanges
  <2>4. call'[t].step = "check"
    BY <1>1, <2>1, <2>2, TakeChanges
  <2>5. old \in Books
    BY <2>1, AtStep
  <2>6. b.log = old.log /\ b.warnedDormant = old.warnedDormant
        /\ b.warnedFallback = old.warnedFallback
    BY <2>5 DEF b, Books
  <2>7. book'[i].log = book[i].log /\ book'[i].warnedDormant = book[i].warnedDormant
        /\ book'[i].warnedFallback = book[i].warnedFallback
    BY <2>3, <2>6
  <2> QED
    BY <2>3, <2>4, <2>7 DEF Lines, Warned
<1>9. ASSUME NEW t \in Thread, Finish(t)
      PROVE  Unmarking /\ Setting
  <2>1. /\ call'[t] = Idle /\ \A u \in Thread : u # t => call'[u] = call[u]
        /\ UNCHANGED book
    BY <1>1, <1>9 DEF Finish, TypeOK
  <2> QED
    BY <1>3, <2>1
<1>10. ASSUME NEW j \in Instance, Swap(j)
       PROVE  Unmarking /\ Setting
  BY <1>3, <1>10 DEF Swap
<1>11. CASE UNCHANGED vars
  <2>1. Unmarking /\ Setting
    BY <1>3, <1>11 DEF vars
  <2> QED
    BY <1>2, <2>1
<1> HIDE DEF Unmarking, Setting
<1>12. ASSUME NEW t \in Thread, Bookkeeping(t)
       PROVE  Marked(i, about, ns)' /\ OnceEach(i, about, ns)'
  BY <1>2, <1>7, <1>8, <1>12, CheckWarnedCounts, AddWarnedCounts, WarnCounts
     DEF Bookkeeping
<1> QED
  BY <1>2, <1>5, <1>6, <1>9, <1>10, <1>11, <1>12 DEF Next

(* However many calls there are, an instance never warns of a namespace    *)
(* more often than it has threads.                                         *)
THEOREM WarningsAlwaysStop == Spec => []WarningsStop
<1>1. Init => Warnings
  <2> SUFFICES ASSUME Init, NEW i \in Instance, NEW about \in {"unbound", "dormant"},
                      NEW ns \in Namespace
               PROVE  Marked(i, about, ns) /\ OnceEach(i, about, ns)
    BY DEF Warnings
  <2>1. Lines(i, about, ns) = {} /\ Announcers(i, about, ns) = {}
    BY DEF Init, NewInstance, Lines, Announcers
  <2>2. Cardinality(Thread) \in Nat
    BY ColumnsAssumption, FS_CardinalityType
  <2> QED
    BY <2>1, <2>2, FS_EmptySet DEF Marked, OnceEach
<1>2. ColumnsInvariant /\ ColumnsInvariant' /\ Warnings /\ [Next]_vars => Warnings'
  BY WarningsNext
<1>3. ColumnsInvariant /\ Warnings => WarningsStop
  <2> SUFFICES ASSUME ColumnsInvariant, Warnings, NEW i \in Instance,
                      NEW about \in {"unbound", "dormant"}, NEW ns \in Namespace
               PROVE  Cardinality(Lines(i, about, ns)) <= Cardinality(Thread)
    BY DEF WarningsStop, Lines
  <2>1. OnceEach(i, about, ns) /\ TypeOK
    BY DEF Warnings, ColumnsInvariant
  <2> QED
    BY <2>1, WarningsAreCounted DEF OnceEach
<1> QED
  BY <1>1, <1>2, <1>3, ColumnsKeepInvariant, PTL DEF Spec

-----------------------------------------------------------------------------
(* Reads give what was written: whatever an instance stores for a column,  *)
(* each of those the column may be given reads back.                       *)

ReadBack ==
  /\ \A c \in Column : InstancesAgree(types[c])
  /\ \A c \in Column : \A i \in Given(types[c]) : Reads(i, types[c], cell[c], written[c])
  /\ \A t \in Thread :
       LET mine == call[t]  type == types[mine.column] IN
       /\ mine # Idle /\ mine.op = "write" /\ mine.outcome.status = "ok"
       => \A i \in Given(type) : Reads(i, type, mine.outcome.value, mine.value)

(* What one instance seals or leaves in the clear, another that agrees     *)
(* with it unseals.                                                        *)
LEMMA SealedReadsBack ==
  ASSUME NEW type \in ColumnType, NEW i \in Given(type), NEW j \in Given(type),
         InstancesAgree(type), NEW text \in Text,
         Seal(ConfigOf[i], Plain(text), Options(type)).status = "ok",
         LET stored == Seal(ConfigOf[i], Plain(text), Options(type)).value IN
         stored.layers # << >> => RingOf(ConfigOf[j], type.namespace) # NoRing
  PROVE  LET stored == Seal(ConfigOf[i], Plain(text), Options(type)).value IN
         Unseal(ConfigOf[j], stored, Options(type)) = Ok(Plain(text))
<1> DEFINE mine == ConfigOf[i]  his == ConfigOf[j]
           ring == RingOf(mine, type.namespace)  other == RingOf(his, type.namespace)
           options == Options(type)
           outcome == Seal(mine, Plain(text), options)
           stored == outcome.value
<1>1. /\ i \in Instance /\ j \in Instance /\ mine \in Config /\ his \in Config
  BY ColumnsAssumption DEF Given, ColumnType
<1>2. /\ options \in SealOptions /\ ResolveNs(mine, options) = type.namespace
      /\ ResolveNs(his, options) = type.namespace /\ options.context = type.context
      /\ type.context \in Context \cup {NoContext}
      /\ type.namespace # NoNamespace
  BY <1>1, TypeOptions, SealedFieldsAssumption DEF Options, ColumnType
<1>3. Plain(text) \in Str /\ Plain(text).layers = << >> /\ Plain(text).text = text
  BY DEF Plain, Str
<1>4. OptionsStatus(his, options) = "ok"
  BY <1>2, SealedFieldsAssumption DEF InstancesAgree, OptionsStatus
<1>5. Unseal(his, stored, options) =
        IF ParseToken(stored)
        THEN IF other = NoRing THEN UnsealTokenWithoutRing(his, stored)
             ELSE UnsealToken(his, stored, other, type.context)
        ELSE IF other # NoRing /\ MatchesLegacy(stored, his.legacy)
             THEN UnsealLegacy(his, stored, other, type.context)
             ELSE UnsealPlaintext(his, stored)
  BY <1>2, <1>4 DEF Unseal
<1>6. OptionsStatus(mine, options) = "ok"
  BY <1>1, <1>2, <1>3, SealReturns
<1>7. CASE ring # NoRing
  <2> DEFINE layer == TokenLayer(ring, type.context)
  <2>1. stored = Wrap(Plain(text), layer)
    BY <1>1, <1>2, <1>3, <1>7, SealReturns
  <2>2. ring \in Ring /\ ring.keys[ring.activeVersion] \in Key
    BY <1>1, <1>2, <1>6, <1>7, RingOfType
  <2>3. layer \in Layer
    BY <1>2, <2>2, TokenLayerType
  <2>4. /\ stored.layers # << >> /\ Head(stored.layers) = layer
        /\ Unwrap(stored) = Plain(text)
    BY <1>3, <2>1, <2>3, UnwrapWrap
  <2>5. Shape(stored) = "token" /\ ParseToken(stored)
    BY <2>4 DEF Shape, ParseToken, TokenLayer
  <2>6. VersionLabel(stored) = ring.activeVersion
    BY <2>4 DEF VersionLabel, TokenLayer
  <2>7. other # NoRing
    BY <2>4
  <2>8. other.keys[ring.activeVersion] = ring.keys[ring.activeVersion]
    BY <1>7, <2>7 DEF InstancesAgree
  <2>9. Authenticates(stored, other.keys[ring.activeVersion],
                      BuildAad(ring.activeVersion, type.context))
    BY <2>4, <2>8 DEF Authenticates, TokenLayer
  <2>10. UnsealWithKeyring(stored, other, his.onUnknownVersion, type.context)
           = Ok(Plain(text))
    <3>1. other.keys[VersionLabel(stored)] # NoKey
      BY <2>2, <2>6, <2>8, TokensAssumption
    <3> QED
      BY <2>4, <2>5, <2>6, <2>9, <3>1 DEF UnsealWithKeyring
  <2>11. UnsealToken(his, stored, other, type.context) = Ok(Plain(text))
    BY <2>10 DEF UnsealToken, Ok, Outcome
  <2> QED
    BY <1>5, <2>5, <2>7, <2>11
<1>8. CASE ring = NoRing
  <2>1. stored = Plain(text) /\ mine.mode # "strict"
    BY <1>1, <1>2, <1>3, <1>8, SealReturns
  <2>2. outcome = SealDormant(mine, Plain(text))
    BY <1>2, <1>6, <1>8 DEF Seal
  <2>3. ~ ParseToken(stored) /\ ~ MatchesLegacy(stored, mine.legacy)
    BY <2>1, <2>2 DEF SealDormant, Err, Outcome
  <2>4. /\ his.plaintext # "reject"
        /\ other # NoRing => his.legacy \subseteq mine.legacy
    BY <1>8 DEF InstancesAgree
  <2>5. ~ (other # NoRing /\ MatchesLegacy(stored, his.legacy))
    BY <2>3, <2>4 DEF MatchesLegacy
  <2>6. UnsealPlaintext(his, stored) = Ok(Plain(text))
    BY <2>1, <2>4 DEF UnsealPlaintext
  <2> QED
    BY <1>5, <2>3, <2>5, <2>6
<1> QED
  BY <1>7, <1>8

(* json.loads gives back what json.dumps was given.                        *)
LEMMA LoadedDumps ==
  ASSUME NEW value \in ToWrite["SealedJSON"], value # Null
  PROVE  /\ \E text \in Text : Dumped(value) = Plain(text)
         /\ Dumped(value) # EmptyStr
         /\ Loaded(Dumped(value)) = value
<1>1. PICK a \in DOMAIN Dumps : value = IF a \in Thing THEN a ELSE Plain(a)
  BY ColumnsAssumption
<1>2. a \in Thing \cup Text /\ Dumps[a] \in Text /\ Dumps[a] # Empty
  BY ColumnsAssumption
<1>3. Dumped(value) = Plain(Dumps[a])
  <2>1. CASE a \in Thing
    BY <1>1, <2>1 DEF Dumped
  <2>2. CASE a \notin Thing
    <3>1. value = Plain(a) /\ value \in Str /\ value.text = a
      BY <1>1, <1>2, <2>2 DEF Plain, Str
    <3>2. value \notin Thing
      BY <3>1, ColumnsAssumption
    <3> QED
      BY <3>1, <3>2 DEF Dumped
  <2> QED
    BY <2>1, <2>2
<1> DEFINE s == Plain(Dumps[a])
<1>4. s.text = Dumps[a] /\ s.layers = << >> /\ EmptyStr.text = Empty
  BY DEF Plain, EmptyStr
<1>5. (CHOOSE b \in DOMAIN Dumps : Dumps[b] = s.text) = a
  <2>1. \A b \in DOMAIN Dumps : Dumps[b] = s.text => b = a
    BY <1>4, ColumnsAssumption
  <2> QED
    BY <1>4, <2>1
<1>6. Loaded(s) = IF a \in Thing THEN a ELSE Plain(a)
  <2> HIDE DEF s
  <2> QED
    BY <1>4, <1>5 DEF Loaded
<1> QED
  BY <1>1, <1>2, <1>3, <1>4, <1>6

(* What is bound for a column is read back from it.                        *)
LEMMA BoundReadsBack ==
  ASSUME NEW type \in ColumnType, NEW i \in Given(type), NEW j \in Given(type),
         InstancesAgree(type), NEW value \in ToWrite[type.class],
         ProcessBindParam(i, type, value).status = "ok"
  PROVE  Reads(j, type, ProcessBindParam(i, type, value).value, value)
<1> DEFINE bound == ProcessBindParam(i, type, value)
           payload == IF type.class = "SealedJSON" THEN Dumped(value) ELSE value
<1>1. CASE value = Null
  <2>1. bound = Ok(Null) /\ ~ IsString(Null)
    BY <1>1 DEF ProcessBindParam, IsString
  <2>2. bound.value = Null
    BY <2>1 DEF Ok, Outcome
  <2>3. ProcessResultValue(j, type, Null) = Ok(Null)
    BY <2>1 DEF ProcessResultValue
  <2> QED
    BY <1>1, <2>2, <2>3 DEF Reads, Ok, Outcome
<1>2. CASE value # Null
  <2>1. bound = Seal(ConfigOf[i], payload, Options(type))
    BY <1>2 DEF ProcessBindParam
  <2>2. PICK text \in Text : payload = Plain(text)
    BY <1>2, WrittenType
  <2> DEFINE stored == bound.value
             outcome == Unseal(ConfigOf[j], stored, Options(type))
  <2>3. SUFFICES ASSUME IsString(stored) /\ stored.layers # << >>
                          => RingOf(ConfigOf[j], type.namespace) # NoRing
                 PROVE  /\ ProcessResultValue(j, type, stored).status = "ok"
                        /\ ProcessResultValue(j, type, stored).value = value
    BY DEF Reads
  <2>4. stored \in Str
    <3>1. i \in Instance /\ ConfigOf[i] \in Config
      BY ColumnsAssumption DEF Given, ColumnType
    <3>2. Plain(text) \in Str
      BY DEF Plain, Str
    <3>3. Seal(ConfigOf[i], Plain(text), Options(type)) \in Outcomes
      BY <3>1, <3>2, TypeOptions, SealType
    <3> QED
      BY <2>1, <2>2, <3>3 DEF Outcomes
  <2>5. IsString(stored)
    BY <2>4, ColumnsAssumption, SealedFieldsAssumption DEF IsString
  <2>6. outcome = Ok(payload)
    <3>1. /\ Seal(ConfigOf[i], Plain(text), Options(type)).status = "ok"
          /\ stored = Seal(ConfigOf[i], Plain(text), Options(type)).value
      BY <2>1, <2>2
    <3>2. stored.layers # << >> => RingOf(ConfigOf[j], type.namespace) # NoRing
      BY <2>3, <2>5
    <3> HIDE DEF stored
    <3>3. Unseal(ConfigOf[j], stored, Options(type)) = Ok(Plain(text))
      BY <3>1, <3>2, SealedReadsBack
    <3> QED
      BY <2>2, <3>3
  <2> HIDE DEF bound, stored
  <2>7. outcome.status = "ok" /\ outcome.value = payload
    BY <2>6 DEF Ok, Outcome
  <2>8. CASE type.class = "SealedText"
    <3>1. ProcessResultValue(j, type, stored) = outcome /\ payload = value
      BY <2>5, <2>8 DEF ProcessResultValue
    <3> QED
      BY <2>7, <3>1
  <2>9. CASE type.class = "SealedJSON"
    <3>1. /\ payload # EmptyStr /\ Loaded(payload) = value
      BY <1>2, <2>9, LoadedDumps
    <3>2. ProcessResultValue(j, type, stored) = [Ok(payload) EXCEPT !.value = Loaded(payload)]
      <4>1. ProcessResultValue(j, type, stored)
              = [outcome EXCEPT !.value = IF @ = EmptyStr THEN Null ELSE Loaded(@)]
        BY <2>5, <2>7, <2>9 DEF ProcessResultValue
      <4> HIDE DEF outcome, payload
      <4> QED
        BY <2>6, <2>7, <3>1, <4>1
    <3> HIDE DEF payload
    <3> QED
      BY <3>1, <3>2 DEF Ok, Outcome
  <2> QED
    BY <2>8, <2>9 DEF ColumnType, Classes
<1> QED
  BY <1>1, <1>2

(* A provider gives one of the instances of the column.                    *)
LEMMA ProvidedIsGiven ==
  ASSUME NEW type \in ColumnType, NEW i \in Instance
  PROVE  Provided(type, i) \in Given(type)
  BY DEF Provided, Given

(* The columns hold what stands for something at first.                    *)
LEMMA ReadBackInit ==
  ASSUME ColumnsAgree, Init
  PROVE  ReadBack
<1>1. PICK setup \in Setups :
        /\ types = setup.types
        /\ cell = [c \in Column |-> setup.row[c].value]
        /\ written = [c \in Column |-> setup.row[c].text]
  BY DEF Init
<1>2. \A c \in Column : cell[c] = setup.row[c].value /\ written[c] = setup.row[c].text
  BY <1>1
<1>3. \A t \in Thread : call[t] = Idle
  BY DEF Init
<1> QED
  BY <1>1, <1>2, <1>3 DEF ReadBack, ColumnsAgree

(* Every step keeps what is stored readable.                               *)
LEMMA ReadBackNext ==
  ASSUME ColumnsInvariant, ReadBack, [Next]_vars
  PROVE  ReadBack'
<1>1. TypeOK /\ \A c \in Column : types[c] \in ColumnType /\ Cached(types[c]) = types[c]
  BY CachedIsOwn DEF ColumnsInvariant, TypeOK
<1> DEFINE Binds(mine) ==
             /\ mine # Idle /\ mine.op = "write" /\ mine.outcome.status = "ok"
             => \A i \in Given(types[mine.column]) :
                  Reads(i, types[mine.column], mine.outcome.value, mine.value)
<1>2. \A t \in Thread : Binds(call[t])
  BY DEF ReadBack
<1>3. ASSUME UNCHANGED <<types, cell, written>>, \A t \in Thread : Binds(call'[t])
      PROVE  ReadBack'
  BY <1>3 DEF ReadBack
<1>4. ASSUME NEW t \in Thread, NEW c \in Column, NEW value \in ToWrite[types[c].class],
             Write(t, c, value)
      PROVE  ReadBack'
  <2> DEFINE j == Provided(types[c], current)
             outcome == ProcessBindParam(j, types[c], value)
  <2>1. Execute(t, "write", c, value, outcome)
    BY <1>1, <1>4 DEF Write
  <2>2. types[c] \in ColumnType /\ j \in Given(types[c]) /\ InstancesAgree(types[c])
    BY <1>1, ProvidedIsGiven DEF TypeOK, ReadBack
  <2>3. outcome.status = "ok"
        => \A i \in Given(types[c]) : Reads(i, types[c], outcome.value, value)
    BY <2>2, BoundReadsBack
  <2> HIDE DEF outcome
  <2>4. /\ call'[t].column = c /\ call'[t].outcome = outcome /\ call'[t].value = value
        /\ \A u \in Thread : u # t => call'[u] = call[u]
        /\ UNCHANGED <<types, cell, written>>
    BY <1>1, <2>1 DEF Execute, TypeOK
  <2>5. Binds(call'[t])
    BY <2>3, <2>4
  <2> HIDE DEF Binds
  <2> QED
    BY <1>2, <1>3, <2>4, <2>5
<1>5. ASSUME NEW t \in Thread, NEW c \in Column, Read(t, c)
      PROVE  ReadBack'
  <2> DEFINE outcome == ProcessResultValue(Provided(types[c], current), types[c], cell[c])
  <2>1. Execute(t, "read", c, written[c], outcome)
    BY <1>1, <1>5 DEF Read
  <2> HIDE DEF outcome
  <2>2. /\ call'[t].op = "read"
        /\ \A u \in Thread : u # t => call'[u] = call[u]
        /\ UNCHANGED <<types, cell, written>>
    BY <1>1, <2>1 DEF Execute, TypeOK
  <2>3. Binds(call'[t])
    BY <2>2
  <2> HIDE DEF Binds
  <2> QED
    BY <1>2, <1>3, <2>2, <2>3
<1>6. ASSUME NEW t \in Thread, Bookkeeping(t)
      PROVE  ReadBack'
  <2>1. PICK step, b, held : At(t, step) /\ Take(t, step, b, held)
    BY <1>6 DEF Bookkeeping, Load, StoreCount, CheckWarned, AddWarned, Warn
  <2> DEFINE next == StepAfter(step, call[t].outcome.note,
                       Warned(call[t].instance, call[t].outcome.note, call[t].namespace))
  <2>2. /\ call' = [call EXCEPT ![t].held = held, ![t].step = next]
        /\ UNCHANGED <<types, cell, written>>
    BY <2>1 DEF Take
  <2> HIDE DEF next
  <2>3. call[t] \in Calls /\ call[t] # Idle
    BY <1>1, <2>1 DEF At, TypeOK
  <2>4. /\ call'[t].op = call[t].op /\ call'[t].column = call[t].column
        /\ call'[t].outcome = call[t].outcome /\ call'[t].value = call[t].value
        /\ \A u \in Thread : u # t => call'[u] = call[u]
    BY <1>1, <2>2, <2>3 DEF TypeOK, Calls
  <2>5. Binds(call[t])
    BY <1>2
  <2>6. Binds(call'[t])
    BY <2>3, <2>4, <2>5
  <2> HIDE DEF Binds
  <2> QED
    BY <1>2, <1>3, <2>2, <2>4, <2>6
<1>7. ASSUME NEW t \in Thread, Finish(t)
      PROVE  ReadBack'
  <2> DEFINE mine == call[t]  c == mine.column
             stores == mine.op = "write" /\ mine.outcome.status = "ok"
  <2>1. /\ mine # Idle /\ mine \in Calls /\ c \in Column
    BY <1>1, <1>7 DEF Finish, At, TypeOK, Calls
  <2>2. /\ cell' = IF stores THEN [cell EXCEPT ![c] = mine.outcome.value] ELSE cell
        /\ written' = IF stores THEN [written EXCEPT ![c] = mine.value] ELSE written
        /\ UNCHANGED types
        /\ call'[t] = Idle /\ \A u \in Thread : u # t => call'[u] = call[u]
    BY <1>1, <1>7 DEF Finish, TypeOK
  <2>3. \A u \in Thread : Binds(call'[u])
    BY <1>2, <2>2
  <2>4. ASSUME NEW d \in Column, NEW i \in Given(types[d])
        PROVE  Reads(i, types[d], cell'[d], written'[d])
    <3>1. CASE stores /\ d = c
      <4>1. cell'[d] = mine.outcome.value /\ written'[d] = mine.value
        BY <1>1, <2>2, <3>1 DEF TypeOK
      <4> QED
        BY <1>2, <2>1, <3>1, <4>1
    <3>2. CASE ~ (stores /\ d = c)
      <4>1. cell'[d] = cell[d] /\ written'[d] = written[d]
        BY <1>1, <2>2, <3>2 DEF TypeOK
      <4> QED
        BY <4>1 DEF ReadBack
    <3> QED
      BY <3>1, <3>2
  <2> QED
    BY <2>2, <2>3, <2>4 DEF ReadBack
<1>8. ASSUME NEW i \in Instance, Swap(i)
      PROVE  ReadBack'
  BY <1>2, <1>3, <1>8 DEF Swap
<1>9. CASE UNCHANGED vars
  BY <1>2, <1>3, <1>9 DEF vars
<1> QED
  BY <1>4, <1>5, <1>6, <1>7, <1>8, <1>9 DEF Next

(* What a running read has computed is what its column stood for when it   *)
(* began, whatever is written meanwhile.                                   *)
LEMMA ReadsNext ==
  ASSUME ColumnsInvariant, ReadBack, ReadsGiveWhatWasWritten, [Next]_vars
  PROVE  ReadsGiveWhatWasWritten'
<1>1. TypeOK /\ \A c \in Column : types[c] \in ColumnType /\ Cached(types[c]) = types[c]
  BY CachedIsOwn DEF ColumnsInvariant, TypeOK
<1> DEFINE Gives(mine) ==
             /\ mine # Idle /\ mine.op = "read"
             /\ IsString(mine.stored) /\ mine.stored.layers # << >>
                => RingOf(ConfigOf[mine.instance], mine.namespace) # NoRing
             => mine.outcome.status = "ok" /\ mine.outcome.value = mine.value
<1>2. \A t \in Thread : Gives(call[t])
  BY DEF ReadsGiveWhatWasWritten
<1>3. ASSUME \A t \in Thread : Gives(call'[t])
      PROVE  ReadsGiveWhatWasWritten'
  BY <1>3 DEF ReadsGiveWhatWasWritten
<1>4. ASSUME NEW t \in Thread, NEW c \in Column, NEW value, Write(t, c, value)
      PROVE  ReadsGiveWhatWasWritten'
  <2> DEFINE outcome == ProcessBindParam(Provided(types[c], current), types[c], value)
  <2>1. Execute(t, "write", c, value, outcome)
    BY <1>1, <1>4 DEF Write
  <2> HIDE DEF outcome
  <2>2. /\ call'[t].op = "write"
        /\ \A u \in Thread : u # t => call'[u] = call[u]
    BY <1>1, <2>1 DEF Execute, TypeOK
  <2>3. Gives(call'[t])
    BY <2>2
  <2> HIDE DEF Gives
  <2> QED
    BY <1>2, <1>3, <2>2, <2>3
<1>5. ASSUME NEW t \in Thread, NEW c \in Column, Read(t, c)
      PROVE  ReadsGiveWhatWasWritten'
  <2> DEFINE i == Provided(types[c], current)
             outcome == ProcessResultValue(i, types[c], cell[c])
  <2>1. Execute(t, "read", c, written[c], outcome)
    BY <1>1, <1>5 DEF Read
  <2>2. Reads(i, types[c], cell[c], written[c])
    BY <1>1, ProvidedIsGiven DEF TypeOK, ReadBack
  <2>3. (IsString(cell[c]) /\ cell[c].layers # << >>
         => RingOf(ConfigOf[i], types[c].namespace) # NoRing)
        => outcome.status = "ok" /\ outcome.value = written[c]
    BY <2>2 DEF Reads
  <2> HIDE DEF outcome
  <2>4. /\ call'[t].instance = i /\ call'[t].namespace = types[c].namespace
        /\ call'[t].outcome = outcome /\ call'[t].value = written[c]
        /\ call'[t].stored = cell[c]
        /\ \A u \in Thread : u # t => call'[u] = call[u]
    BY <1>1, <2>1 DEF Execute, TypeOK
  <2> HIDE DEF i
  <2>5. Gives(call'[t])
    BY <2>3, <2>4
  <2> HIDE DEF Gives
  <2> QED
    BY <1>2, <1>3, <2>4, <2>5
<1>6. ASSUME NEW t \in Thread, Bookkeeping(t)
      PROVE  ReadsGiveWhatWasWritten'
  <2>1. PICK step, b, held : At(t, step) /\ Take(t, step, b, held)
    BY <1>6 DEF Bookkeeping, Load, StoreCount, CheckWarned, AddWarned, Warn
  <2> DEFINE next == StepAfter(step, call[t].outcome.note,
                       Warned(call[t].instance, call[t].outcome.note, call[t].namespace))
  <2>2. call' = [call EXCEPT ![t].held = held, ![t].step = next]
    BY <2>1 DEF Take
  <2> HIDE DEF next
  <2>3. call[t] \in Calls /\ call[t] # Idle
    BY <1>1, <2>1 DEF At, TypeOK
  <2>4. /\ call'[t].op = call[t].op /\ call'[t].stored = call[t].stored
        /\ call'[t].outcome = call[t].outcome /\ call'[t].value = call[t].value
        /\ call'[t].instance = call[t].instance /\ call'[t].namespace = call[t].namespace
        /\ \A u \in Thread : u # t => call'[u] = call[u]
    BY <1>1, <2>2, <2>3 DEF TypeOK, Calls
  <2>5. Gives(call[t])
    BY <1>2
  <2>6. Gives(call'[t])
    BY <2>3, <2>4, <2>5
  <2> HIDE DEF Gives
  <2> QED
    BY <1>2, <1>3, <2>4, <2>6
<1>7. ASSUME NEW t \in Thread, Finish(t)
      PROVE  ReadsGiveWhatWasWritten'
  <2>1. call'[t] = Idle /\ \A u \in Thread : u # t => call'[u] = call[u]
    BY <1>1, <1>7 DEF Finish, TypeOK
  <2> QED
    BY <1>2, <1>3, <2>1
<1>8. CASE UNCHANGED call
  BY <1>2, <1>3, <1>8
<1> QED
  BY <1>4, <1>5, <1>6, <1>7, <1>8 DEF Next, Swap, vars

(* Columns whose instances agree give back what was written to them:       *)
(* however many threads write and read, and whichever instance is current. *)
THEOREM ReadsAlwaysGiveWhatWasWritten ==
  ASSUME ColumnsAgree
  PROVE  Spec => []ReadsGiveWhatWasWritten
<1>1. Init => ReadBack /\ ReadsGiveWhatWasWritten
  BY ReadBackInit DEF Init, ReadsGiveWhatWasWritten
<1>2. ColumnsInvariant /\ ReadBack /\ [Next]_vars => ReadBack'
  BY ReadBackNext
<1>3. ColumnsInvariant /\ ReadBack /\ ReadsGiveWhatWasWritten /\ [Next]_vars
      => ReadsGiveWhatWasWritten'
  BY ReadsNext
<1> QED
  BY <1>1, <1>2, <1>3, ColumnsKeepInvariant, PTL DEF Spec

-----------------------------------------------------------------------------
(* What it is good for.                                                    *)

(* Every variable has its type, whatever the threads do.                   *)
THEOREM ColumnsTypeOK == Spec => []TypeOK
<1>1. ColumnsInvariant => TypeOK
  BY DEF ColumnsInvariant
<1> QED
  BY <1>1, ColumnsKeepInvariant, PTL

(* However many threads lose counts to each other, a count of zero says    *)
(* that nothing unbound was read.                                          *)
THEOREM ZeroAlwaysMeansNoUnboundRead == Spec => []ZeroMeansNoUnboundRead
<1>1. ColumnsInvariant => ZeroMeansNoUnboundRead
  BY DEF ColumnsInvariant, Counted, ZeroMeansNoUnboundRead
<1> QED
  BY <1>1, ColumnsKeepInvariant, PTL

(* No column ever holds what was sealed for another, whatever statements   *)
(* have been compiled and however often the instance was exchanged.        *)
THEOREM ColumnsAreAlwaysTheirOwn == Spec => []ColumnsAreTheirOwn
<1>1. ColumnsInvariant => ColumnsAreTheirOwn
  BY DEF ColumnsInvariant
<1> QED
  BY <1>1, ColumnsKeepInvariant, PTL

(* A column written in the clear is announced, or is just about to be.     *)
THEOREM ClearColumnsAreAnnounced == Spec => []ClearWritesAreAnnounced
<1>1. ColumnsInvariant => ClearWritesAreAnnounced
  <2> SUFFICES ASSUME ColumnsInvariant, NEW c \in Column, origin[c] # Null,
                      IsString(cell[c]), cell[c].layers = << >>
               PROVE  LET i == Provided(types[c], origin[c])
                          ns == types[c].namespace
                      IN Logged(i, "dormant", ns) \/ \E t \in Thread : AnnouncesNow(t, i, ns)
    BY DEF ClearWritesAreAnnounced
  <2>1. Provided(types[c], origin[c]) \in Instance
    BY ProvidedType DEF ColumnsInvariant, TypeOK
  <2>2. types[c].namespace \in book[Provided(types[c], origin[c])].warnedDormant
    BY DEF ColumnsInvariant, ClearMarked
  <2> QED
    BY <2>1, <2>2 DEF ColumnsInvariant, MarkedAnnounced
<1> QED
  BY <1>1, ColumnsKeepInvariant, PTL
=============================================================================
