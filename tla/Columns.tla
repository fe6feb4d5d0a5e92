------------------------------ MODULE Columns -------------------------------
(***************************************************************************)
(* The SQLAlchemy column types of the Python library                       *)
(* (python/src/sealed_fields/sqlalchemy.py) in a process whose threads     *)
(* share the instances their columns are given.                            *)
(*                                                                         *)
(* The statements have one shape, so nothing but the cache key of the type *)
(* keeps SQLAlchemy from running one with the processors of another.       *)
(* What seal and unseal compute is the TypeScript of SealedFields; their   *)
(* bookkeeping on an instance (__init__.py) is not atomic between threads, *)
(* and every read and write of it is a step here.                          *)
(***************************************************************************)
EXTENDS SealedFields

CONSTANTS
  Thread,
  Instance,       \* instances of the class SealedFields
  ConfigOf,       \* the configuration of each
  Callable,       \* a provider that is called for the current instance
  Column,         \* columns, of one row
  Setups,         \* how the types of the columns may be declared, with what
                  \* they hold at first and what that stands for
  Thing,          \* lists, dicts and numbers
  Dumps,          \* json.dumps, on what JSON columns are given
  ToWrite,        \* what the application writes to a column of each class
  Idle,           \* a thread without a statement
  MaxStatements,  \* bound: writes, and reads without context
  MaxSwaps        \* bound: changes of the current instance

Classes == {"SealedText", "SealedJSON"}

Steps == {"load", "store", "check", "add", "warn", "finish"}

CellValue == Str \cup {Null} \cup Thing

ColumnType == [class : Classes, provider : Instance \cup {Callable},
               namespace : Namespace, context : Context \cup {NoContext}]

ASSUME ColumnsAssumption ==
  /\ ConfigOf \in [Instance -> Config]
  /\ \A i \in Instance : Constructible(ConfigOf[i])
  /\ Callable \notin Instance
  /\ IsFiniteSet(Thread)
  /\ \A setup \in Setups :
       /\ setup.types \in [Column -> ColumnType]
       /\ setup.row \in [Column -> [value : CellValue, text : CellValue]]
  /\ Null \notin Thing /\ Thing \cap (Str \cup Text) = {}
  /\ DOMAIN Dumps \subseteq Thing \cup Text
  /\ \A a, b \in DOMAIN Dumps :
       Dumps[a] \in Text \ {Empty} /\ (Dumps[a] = Dumps[b] => a = b)
  /\ \A v \in ToWrite["SealedText"] : v = Null \/ v \in {Plain(text) : text \in Text}
  /\ \A v \in ToWrite["SealedJSON"] :
       v = Null \/ v \in {IF a \in Thing THEN a ELSE Plain(a) : a \in DOMAIN Dumps}
  /\ MaxStatements \in Nat /\ MaxSwaps \in Nat

VARIABLES
  types,    \* the declared type of each column
  current,  \* the instance a callable provider returns
  cell,     \* the row
  written,  \* history: what each column holds stands for
  origin,   \* history: the instance that was current when the statement that
            \* wrote a column began, Null for what was there before
  cache,    \* the types of the compiled statements
  book,     \* the bookkeeping of each instance
  call,     \* the statement of each thread
  unbound,  \* history: instances a read without context has returned from
  statements, swaps

vars == <<types, current, cell, written, origin, cache, book, call, unbound,
          statements, swaps>>

-----------------------------------------------------------------------------
(* The processors.                                                         *)

IsString(v) == v \notin Thing \cup {Null}

Dumped(v) == Plain(Dumps[IF v \in Thing THEN v ELSE v.text])

(* json.loads, and the text itself when it is no JSON.                     *)
Loaded(v) ==
  IF v.layers = << >> /\ \E a \in DOMAIN Dumps : Dumps[a] = v.text
  THEN LET a == CHOOSE a \in DOMAIN Dumps : Dumps[a] = v.text
       IN IF a \in Thing THEN a ELSE Plain(a)
  ELSE v

Options(type) == [namespace |-> type.namespace, context |-> type.context]

(* Seeded fault: an empty string is taken for None.                        *)
ProcessBindParamMaybe(i, type, value) ==
  IF value \in {Null, EmptyStr} THEN Ok(Null)
  ELSE Seal(ConfigOf[i],
            IF type.class = "SealedJSON" THEN Dumped(value) ELSE value, Options(type))

ProcessBindParam(i, type, value) ==
  IF value = Null THEN Ok(Null)
  ELSE Seal(ConfigOf[i],
            IF type.class = "SealedJSON" THEN Dumped(value) ELSE value, Options(type))

(* A value the driver has parsed already is returned as it is.             *)
ProcessResultValue(i, type, stored) ==
  LET outcome == Unseal(ConfigOf[i], stored, Options(type)) IN
  CASE ~ IsString(stored) -> Ok(stored)
    [] IsString(stored) /\ type.class = "SealedText" -> outcome
    [] IsString(stored) /\ type.class = "SealedJSON" ->
         IF outcome.status # "ok" THEN outcome
         ELSE [outcome EXCEPT !.value = IF @ = EmptyStr THEN Null ELSE Loaded(@)]

(* Seeded fault: the context is left out of the cache key.                 *)
CacheKeyWithoutContext(type) == <<type.class, type.provider, type.namespace>>

CacheKey(type) == <<type.class, type.provider, type.namespace, type.context>>

(* The type whose processors a statement runs: that of the statement which *)
(* was compiled first under the key.                                       *)
Cached(type) ==
  IF \E known \in cache : CacheKey(known) = CacheKey(type)
  THEN CHOOSE known \in cache : CacheKey(known) = CacheKey(type)
  ELSE type

Provided(type, now) == IF type.provider = Callable THEN now ELSE type.provider

-----------------------------------------------------------------------------
(* Bookkeeping.                                                            *)

(* Seeded fault: one warning per instance, not per namespace.              *)
WarnedAtAll(i, note, ns) ==
  IF note = "unbound" THEN book[i].warnedFallback # {} ELSE book[i].warnedDormant # {}

Warned(i, note, ns) ==
  IF note = "unbound" THEN ns \in book[i].warnedFallback ELSE ns \in book[i].warnedDormant

(* Seeded fault: the warning, with its early return, comes before the count. *)
StepAfterWarnFirst(step, note, warned) ==
  CASE step = "call" -> IF note = "none" THEN "finish" ELSE "check"
    [] step = "check" -> IF warned THEN "finish" ELSE "add"
    [] step = "add" -> "warn"
    [] step = "warn" -> IF note = "unbound" THEN "load" ELSE "finish"
    [] step = "load" -> "store"
    [] step = "store" -> "finish"

(* _note_unbound_read counts and then warns; _warn_dormant_once only warns. *)
StepAfter(step, note, warned) ==
  CASE step = "call" -> (CASE note = "none" -> "finish" [] note = "dormant" -> "check"
                           [] note = "unbound" -> "load")
    [] step = "load" -> "store"
    [] step = "store" -> "check"
    [] step = "check" -> IF warned THEN "finish" ELSE "add"
    [] step = "add" -> "warn"
    [] step = "warn" -> "finish"

(* Seeded fault: the sets hold what was warned about, not the namespace.   *)
MarkWarnedOfNote(b, note, ns) ==
  IF note = "unbound" THEN [b EXCEPT !.warnedFallback = @ \cup {note}]
  ELSE [b EXCEPT !.warnedDormant = @ \cup {note}]

MarkWarned(b, note, ns) ==
  IF note = "unbound" THEN [b EXCEPT !.warnedFallback = @ \cup {ns}]
  ELSE [b EXCEPT !.warnedDormant = @ \cup {ns}]

-----------------------------------------------------------------------------
Init ==
  /\ \E setup \in Setups :
       /\ types = setup.types
       /\ cell = [c \in Column |-> setup.row[c].value]
       /\ written = [c \in Column |-> setup.row[c].text]
  /\ current \in Instance
  /\ origin = [c \in Column |-> Null]
  /\ cache = {}
  /\ book = [i \in Instance |-> NewInstance]
  /\ call = [t \in Thread |-> Idle]
  /\ unbound = {}
  /\ statements = 0 /\ swaps = 0

(* A statement begins: the provider is asked, and seal or unseal computes  *)
(* its outcome, up to the first step of its bookkeeping.                   *)
Execute(t, op, c, value, outcome) ==
  LET type == Cached(types[c])
      bounded == op = "write" \/ outcome.note = "unbound"
  IN
  /\ call[t] = Idle
  /\ bounded => statements < MaxStatements
  /\ statements' = IF bounded THEN statements + 1 ELSE statements
  /\ cache' = cache \cup {type}
  /\ call' = [call EXCEPT ![t] =
                [op |-> op, column |-> c, stored |-> cell[c], value |-> value,
                 asked |-> current, instance |-> Provided(type, current),
                 namespace |-> type.namespace, outcome |-> outcome, held |-> 0,
                 step |-> StepAfter("call", outcome.note, FALSE)]]
  /\ UNCHANGED <<types, current, cell, written, origin, book, unbound, swaps>>

Write(t, c, value) ==
  LET type == Cached(types[c]) IN
  Execute(t, "write", c, value, ProcessBindParam(Provided(type, current), type, value))

Read(t, c) ==
  LET type == Cached(types[c]) IN
  Execute(t, "read", c, written[c],
          ProcessResultValue(Provided(type, current), type, cell[c]))

(* Thread t takes a step of its bookkeeping, which leaves b in the books.  *)
Take(t, step, b, held) ==
  LET mine == call[t] IN
  /\ book' = [book EXCEPT ![mine.instance] = b]
  /\ call' = [call EXCEPT ![t].held = held,
                          ![t].step = StepAfter(step, mine.outcome.note,
                                        Warned(mine.instance, mine.outcome.note, mine.namespace))]
  /\ UNCHANGED <<types, current, cell, written, origin, cache, unbound, statements, swaps>>

At(t, step) == call[t] # Idle /\ call[t].step = step

Load(t) ==
  /\ At(t, "load")
  /\ Take(t, "load", book[call[t].instance], book[call[t].instance].unboundReads)

StoreCount(t) ==
  /\ At(t, "store")
  /\ Take(t, "store",
          [book[call[t].instance] EXCEPT !.unboundReads = call[t].held + 1], 0)

CheckWarned(t) ==
  /\ At(t, "check")
  /\ Take(t, "check", book[call[t].instance], 0)

AddWarned(t) ==
  /\ At(t, "add")
  /\ Take(t, "add",
          MarkWarned(book[call[t].instance], call[t].outcome.note, call[t].namespace), 0)

Warn(t) ==
  /\ At(t, "warn")
  /\ Take(t, "warn",
          [book[call[t].instance] EXCEPT !.log =
             Append(@, [about |-> call[t].outcome.note, namespace |-> call[t].namespace])], 0)

(* The database stores what a write has bound, the application has what a  *)
(* read returns; an error leaves nothing behind.                           *)
Finish(t) ==
  LET mine == call[t]
      stores == mine.op = "write" /\ mine.outcome.status = "ok"
  IN /\ At(t, "finish")
     /\ cell' = IF stores THEN [cell EXCEPT ![mine.column] = mine.outcome.value] ELSE cell
     /\ written' = IF stores THEN [written EXCEPT ![mine.column] = mine.value] ELSE written
     /\ origin' = IF stores THEN [origin EXCEPT ![mine.column] = mine.asked] ELSE origin
     /\ unbound' = IF mine.outcome.note = "unbound" THEN unbound \cup {mine.instance}
                   ELSE unbound
     /\ call' = [call EXCEPT ![t] = Idle]
     /\ UNCHANGED <<types, current, cache, book, statements, swaps>>

(* The application lets its callable return another instance.              *)
Swap(i) ==
  /\ swaps < MaxSwaps
  /\ i # current
  /\ current' = i
  /\ swaps' = swaps + 1
  /\ UNCHANGED <<types, cell, written, origin, cache, book, call, unbound, statements>>

Bookkeeping(t) == Load(t) \/ StoreCount(t) \/ CheckWarned(t) \/ AddWarned(t) \/ Warn(t)

Next ==
  \/ \E t \in Thread, c \in Column :
       \/ \E value \in ToWrite[types[c].class] : Write(t, c, value)
       \/ Read(t, c)
  \/ \E t \in Thread : Bookkeeping(t) \/ Finish(t)
  \/ \E i \in Instance : Swap(i)

Spec == Init /\ [][Next]_vars

-----------------------------------------------------------------------------
Books == [unboundReads : Nat, warnedFallback : SUBSET Namespace,
          warnedDormant : SUBSET Namespace, log : Seq(Warning)]

Calls == [op : {"write", "read"}, column : Column, stored : CellValue,
          value : CellValue, asked : Instance, instance : Instance,
          namespace : Namespace,
          outcome : [status : Statuses, value : CellValue,
                     note : {"none", "unbound", "dormant"}],
          held : Nat, step : Steps]

ASSUME IdleAssumption == Idle \notin Calls

(* Every variable has its type; what a column holds is a string, null or a *)
(* value that was there before, and each statement is at a step of it.     *)
TypeOK ==
  /\ types \in [Column -> ColumnType]
  /\ current \in Instance
  /\ cell \in [Column -> CellValue] /\ written \in [Column -> CellValue]
  /\ origin \in [Column -> Instance \cup {Null}]
  /\ \A type \in cache : type \in ColumnType
  /\ book \in [Instance -> Books]
  /\ call \in [Thread -> Calls \cup {Idle}]
  /\ unbound \subseteq Instance
  /\ statements \in 0 .. MaxStatements /\ swaps \in 0 .. MaxSwaps

(* While stats()["unbound_reads"] of an instance is zero, no read of it    *)
(* has returned a token without its context: threads may lose counts to    *)
(* each other, but never all of them (__init__.py 423-437; the operator    *)
(* waits for zero, README.md 89).                                          *)
ZeroMeansNoUnboundRead ==
  \A i \in Instance : book[i].unboundReads = 0 => i \notin unbound

Logged(i, note, ns) ==
  \E n \in DOMAIN book[i].log : book[i].log[n] = [about |-> note, namespace |-> ns]

AnnouncesNow(t, i, ns) ==
  /\ At(t, "warn")
  /\ call[t].instance = i /\ call[t].namespace = ns /\ call[t].outcome.note = "dormant"

(* What a column was written in the clear is announced in the log of the   *)
(* instance, for that namespace, or a thread is just about to announce it  *)
(* (__init__.py 285-293).  python/README.md 89-90 and sqlalchemy.py 35-36  *)
(* speak of one warning per process; the code and CHANGELOG.md 52 keep one *)
(* for each namespace, and nothing less tells what is in the clear.        *)
ClearWritesAreAnnounced ==
  \A c \in Column :
    LET i == Provided(types[c], origin[c])
        ns == types[c].namespace
    IN (origin[c] # Null /\ IsString(cell[c]) /\ cell[c].layers = << >>)
       => Logged(i, "dormant", ns) \/ \E t \in Thread : AnnouncesNow(t, i, ns)

(* Threads may repeat a warning, of either kind, only by racing for the    *)
(* first: there is never more than one from each, however many calls there *)
(* are (__init__.py 285-293, 423-431).  The documents promise one for each *)
(* namespace (README.md 89), which holds for a single thread.              *)
WarningsStop ==
  \A i \in Instance, about \in {"unbound", "dormant"}, ns \in Namespace :
    Cardinality({n \in DOMAIN book[i].log :
                   book[i].log[n] = [about |-> about, namespace |-> ns]})
      <= Cardinality(Thread)

(* A column never holds what was sealed for another: a token a statement   *)
(* has stored is under the namespace and the context of that column, and   *)
(* under the active key of the instance its own provider gave when the     *)
(* statement began, whatever is in the statement cache and however often   *)
(* the instance has been exchanged (sqlalchemy.py 97-121).                 *)
ColumnsAreTheirOwn ==
  \A c \in Column :
    LET i == Provided(types[c], origin[c])
        ring == RingOf(ConfigOf[i], types[c].namespace)
    IN (origin[c] # Null /\ IsString(cell[c]))
       => IF ring = NoRing THEN cell[c].layers = << >>
          ELSE /\ cell[c].layers # << >>
               /\ Head(cell[c].layers) = TokenLayer(ring, types[c].context)

(* Instance i gives the application text for what is stored, unless that   *)
(* is a token and the instance has no key for the namespace.               *)
Reads(i, type, stored, text) ==
  LET outcome == ProcessResultValue(i, type, stored) IN
  (IsString(stored) /\ stored.layers # << >> => RingOf(ConfigOf[i], type.namespace) # NoRing)
  => outcome.status = "ok" /\ outcome.value = text

(* The instances a column may be given.                                    *)
Given(type) == IF type.provider = Callable THEN Instance ELSE {type.provider}

(* What those who configure them owe the column: the namespace is listed;  *)
(* who has keys has those the others seal with; and what is written in the *)
(* clear is neither rejected by the others nor in a legacy format only     *)
(* they know.                                                              *)
InstancesAgree(type) ==
  \A i, j \in Given(type) :
    LET ring == RingOf(ConfigOf[i], type.namespace)
        other == RingOf(ConfigOf[j], type.namespace)
    IN /\ type.namespace \in Names(ConfigOf[i])
       /\ ring # NoRing /\ other # NoRing
          => other.keys[ring.activeVersion] = ring.keys[ring.activeVersion]
       /\ ring = NoRing
          => /\ ConfigOf[j].plaintext # "reject"
             /\ other # NoRing => ConfigOf[j].legacy \subseteq ConfigOf[i].legacy

(* They agree, and read what the columns hold at first.                    *)
ColumnsAgree ==
  \A setup \in Setups, c \in Column :
    LET type == setup.types[c]  held == setup.row[c] IN
    /\ InstancesAgree(type)
    /\ \A i \in Given(type) : Reads(i, type, held.value, held.text)

(* A read gives the application what the column stands for: None, "" and   *)
(* JSON of any kind included, plaintext of before the migration, values    *)
(* the driver has parsed, and tokens of every era its instance has keys    *)
(* for (sqlalchemy.py 135-149, 178-195).                                   *)
ReadsGiveWhatWasWritten ==
  \A t \in Thread :
    LET mine == call[t]
        ring == RingOf(ConfigOf[mine.instance], mine.namespace)
    IN /\ mine # Idle
       /\ mine.op = "read"
       /\ IsString(mine.stored) /\ mine.stored.layers # << >> => ring # NoRing
       => mine.outcome.status = "ok" /\ mine.outcome.value = mine.value
=============================================================================
