----------------------------- MODULE PagesProofs -----------------------------
(***************************************************************************)
(* What rows get from sealRow and unsealRow, however many fields a spec    *)
(* lists and however often it lists them.                                  *)
(*                                                                         *)
(* The helpers are folds over the listed fields.  What they do to one      *)
(* field depends on that field alone, and is done once for each time it is *)
(* listed.                                                                 *)
(***************************************************************************)
EXTENDS Pages, LibraryLemmas, FiniteSetTheorems

(* JSON.stringify has a text for every value; a table of the run has those *)
(* that the run needs.                                                     *)
JsonIsTotal == DOMAIN Stringify = Thing \cup Text

(* The arguments of the helpers besides the row.                           *)
Arguments(c, id, s, ns) ==
  /\ c \in Config /\ id \in RowId /\ s \in FieldSpec
  /\ ns \in Namespace \cup {NoNamespace}

AllFields(s) == s.fields \o s.jsonFields

-----------------------------------------------------------------------------
(* Values.                                                                 *)

(* A value that is no string is null or a thing.                           *)
LEMMA ValueKinds ==
  ASSUME NEW v \in FieldValue
  PROVE  /\ IsString(v) <=> v \in Str
         /\ v # Null => v \in Str \cup Thing
         /\ ~ IsString(v) => v \in Thing \cup {Null}
  BY RowHelpersAssumption, SealedFieldsAssumption DEF FieldValue, IsString

(* JSON text is text, and not empty.                                       *)
LEMMA JsonTextType ==
  ASSUME JsonIsTotal, NEW v \in FieldValue, v # Null
  PROVE  JsonText(v) \in Str /\ JsonText(v) # EmptyStr /\ JsonText(v).layers = << >>
<1> DEFINE a == IF v \in Thing THEN v ELSE v.text
<1>1. a \in Thing \cup Text
  BY ValueKinds DEF Str
<1>2. Stringify[a] \in Text \ {Empty}
  BY <1>1, RowHelpersAssumption DEF JsonIsTotal
<1>3. JsonText(v) = [text |-> Stringify[a], layers |-> << >>]
  BY DEF JsonText, Plain
<1>4. << >> \in Seq(Layer)
  OBVIOUS
<1> HIDE DEF a
<1> QED
  BY <1>2, <1>3, <1>4 DEF EmptyStr, Plain, Str

(* Parsing gives a value, and undoes what stringify has done.              *)
LEMMA JsonValueType ==
  ASSUME NEW v \in Str
  PROVE  JsonValue(v) \in FieldValue
<1>1. ASSUME NEW a \in DOMAIN Stringify
      PROVE  (IF a \in Thing THEN a ELSE Plain(a)) \in FieldValue
  <2>1. CASE a \in Thing
    BY <2>1 DEF FieldValue
  <2>2. CASE a \notin Thing
    <3>1. a \in Text
      BY <2>2, RowHelpersAssumption
    <3>2. << >> \in Seq(Layer)
      OBVIOUS
    <3> QED
      BY <2>2, <3>1, <3>2 DEF Plain, Str, FieldValue
  <2> QED
    BY <2>1, <2>2
<1>2. CASE v.layers = << >> /\ \E a \in DOMAIN Stringify : Stringify[a] = v.text
  <2> DEFINE a == CHOOSE a \in DOMAIN Stringify : Stringify[a] = v.text
  <2>1. a \in DOMAIN Stringify
    BY <1>2
  <2>2. JsonValue(v) = IF a \in Thing THEN a ELSE Plain(a)
    BY <1>2 DEF JsonValue
  <2> HIDE DEF a
  <2> QED
    BY <1>1, <2>1, <2>2
<1>3. CASE ~ (v.layers = << >> /\ \E a \in DOMAIN Stringify : Stringify[a] = v.text)
  BY <1>3 DEF JsonValue, FieldValue
<1> QED
  BY <1>2, <1>3

LEMMA JsonUndone ==
  ASSUME JsonIsTotal, NEW v \in FieldValue, v # Null, IsString(v) => v.layers = << >>
  PROVE  JsonValue(JsonText(v)) = v
<1> DEFINE a == IF v \in Thing THEN v ELSE v.text
<1>1. a \in DOMAIN Stringify
  BY ValueKinds DEF Str, JsonIsTotal
<1>2. JsonText(v).text = Stringify[a] /\ JsonText(v).layers = << >>
  BY DEF JsonText, Plain
<1> DEFINE b == CHOOSE b \in DOMAIN Stringify : Stringify[b] = Stringify[a]
<1>3. b \in DOMAIN Stringify /\ Stringify[b] = Stringify[a]
  BY <1>1
<1>4. b = a
  BY <1>1, <1>3, RowHelpersAssumption
<1>5. JsonValue(JsonText(v)) = IF b \in Thing THEN b ELSE Plain(b)
  BY <1>1, <1>2 DEF JsonValue
<1>6. CASE v \in Thing
  BY <1>4, <1>5, <1>6
<1>7. CASE v \notin Thing
  <2>1. v \in Str /\ v.layers = << >>
    BY <1>7, ValueKinds DEF IsString
  <2>2. a = v.text /\ v.text \in Text
    BY <1>7, <2>1 DEF Str
  <2>3. v.text \notin Thing
    BY <2>2, RowHelpersAssumption
  <2>4. v = Plain(v.text)
    BY <2>1 DEF Str, Plain
  <2> QED
    BY <1>4, <1>5, <2>2, <2>3, <2>4
<1> QED
  BY <1>6, <1>7
-----------------------------------------------------------------------------
(* One step of each fold keeps the type of what it works on.               *)

SealWork == [status : Statuses, row : Row, instance : InstanceType]

UnsealWork == [row : Row, failures : Nat, attempts : Nat, instance : InstanceType]

(* The lists of a spec.                                                    *)
LEMMA ListTypes ==
  ASSUME NEW s \in FieldSpec
  PROVE  /\ Len(s.jsonFields) \in Nat /\ Len(AllFields(s)) \in Nat
         /\ DOMAIN s.jsonFields = 1 .. Len(s.jsonFields)
         /\ DOMAIN AllFields(s) = 1 .. Len(AllFields(s))
         /\ \A i \in 1 .. Len(s.jsonFields) : s.jsonFields[i] \in Field
         /\ \A i \in 1 .. Len(AllFields(s)) : AllFields(s)[i] \in Field
<1>1. s.fields \in Seq(Field) /\ s.jsonFields \in Seq(Field)
  BY DEF FieldSpec
<1>2. AllFields(s) \in Seq(Field)
  BY <1>1 DEF AllFields
<1> QED
  BY <1>1, <1>2

(* The options a row helper calls with.                                    *)
LEMMA RowOptionsType ==
  ASSUME NEW c, NEW id, NEW s, NEW ns, Arguments(c, id, s, ns), NEW f \in Field
  PROVE  /\ RowOptions(s, ns, f, id) \in SealOptions
         /\ RowOptions(s, ns, f, id).context = s.context[<<f, id>>]
         /\ ResolveNs(c, RowOptions(s, ns, f, id)) = NsOf(c, ns)
<1>1. s.context[<<f, id>>] \in Context \cup {NoContext, InvalidContext}
  BY DEF Arguments, FieldSpec
<1> QED
  BY <1>1 DEF Arguments, RowOptions, SealOptions, NsOf, ResolveNs

(* What the calls for one field come back with, and owe.                   *)
LEMMA FieldOutcomes ==
  ASSUME NEW c, NEW id, NEW s, NEW ns, Arguments(c, id, s, ns), NEW f \in Field,
         NEW v \in Str
  PROVE  LET options == RowOptions(s, ns, f, id)
             sealed == Seal(c, v, options)
             unsealed == Unseal(c, v, options)
         IN /\ sealed \in Outcomes /\ unsealed \in Outcomes
            /\ sealed.note # "none" => NsOf(c, ns) \in Namespace
            /\ unsealed.note # "none" => NsOf(c, ns) \in Namespace
<1> DEFINE options == RowOptions(s, ns, f, id)
<1>1. c \in Config /\ options \in SealOptions /\ ResolveNs(c, options) = NsOf(c, ns)
  BY RowOptionsType DEF Arguments
<1> HIDE DEF options
<1>2. Seal(c, v, options) \in Outcomes /\ Unseal(c, v, options) \in Outcomes
  BY <1>1, SealType, UnsealType
<1>3. Seal(c, v, options).note # "none" => ResolveNs(c, options) \in Namespace
  BY <1>1, SealOwes
<1>4. Unseal(c, v, options).note # "none" => ResolveNs(c, options) \in Namespace
  BY <1>1, FailuresOweNothing, UnsealReturns, ActsForNamespace
<1> QED
  BY <1>1, <1>2, <1>3, <1>4 DEF options

LEMMA StringifyFieldType ==
  ASSUME JsonIsTotal, NEW row \in Row, NEW f \in Field
  PROVE  StringifyField(row, f) \in Row
<1>1. row[f] \in FieldValue
  BY DEF Row
<1>2. row[f] # Null => JsonText(row[f]) \in FieldValue
  BY <1>1, JsonTextType DEF FieldValue
<1> QED
  BY <1>2 DEF StringifyField, Row

LEMMA ParseFieldType ==
  ASSUME NEW row \in Row, NEW f \in Field
  PROVE  ParseField(row, f) \in Row
<1>1. row[f] \in FieldValue
  BY DEF Row
<1>2. IsNonemptyString(row[f]) => JsonValue(row[f]) \in FieldValue
  BY <1>1, ValueKinds, JsonValueType DEF IsNonemptyString
<1> QED
  BY <1>2 DEF ParseField, Row

LEMMA SealFieldType ==
  ASSUME NEW c, NEW id, NEW s, NEW ns, Arguments(c, id, s, ns), NEW f \in Field,
         NEW work \in SealWork
  PROVE  SealField(c, id, s, ns, work, f) \in SealWork
<1> DEFINE v == work.row[f]
           outcome == Seal(c, v, RowOptions(s, ns, f, id))
<1>1. work.row \in Row /\ v \in FieldValue /\ work.instance \in InstanceType
  BY DEF SealWork, Row
<1>2. CASE work.status # "ok" \/ ~ IsNonemptyString(v)
  BY <1>2 DEF SealField
<1>3. CASE work.status = "ok" /\ IsNonemptyString(v)
  <2>1. v \in Str
    BY <1>1, <1>3, ValueKinds DEF IsNonemptyString
  <2>2. outcome \in Outcomes /\ (outcome.note # "none" => NsOf(c, ns) \in Namespace)
    BY <2>1, FieldOutcomes
  <2>3. SealField(c, id, s, ns, work, f) =
          [status |-> outcome.status, row |-> [work.row EXCEPT ![f] = outcome.value],
           instance |-> Account(work.instance, NsOf(c, ns), outcome)]
    BY <1>3 DEF SealField
  <2> HIDE DEF outcome
  <2>4. Account(work.instance, NsOf(c, ns), outcome) \in InstanceType
    BY <1>1, <2>2, AccountType DEF Outcomes
  <2>5. [work.row EXCEPT ![f] = outcome.value] \in Row
    BY <1>1, <2>2 DEF Outcomes, Row, FieldValue
  <2> QED
    BY <2>2, <2>3, <2>4, <2>5 DEF SealWork, Outcomes
<1> QED
  BY <1>2, <1>3

LEMMA UnsealFieldType ==
  ASSUME NEW c, NEW id, NEW s, NEW ns, Arguments(c, id, s, ns), NEW f \in Field,
         NEW work \in UnsealWork
  PROVE  UnsealField(c, id, s, ns, work, f) \in UnsealWork
<1> DEFINE v == work.row[f]
           outcome == Unseal(c, v, RowOptions(s, ns, f, id))
           value == IF outcome.status = "ok" THEN outcome.value ELSE Null
<1>1. /\ work.row \in Row /\ v \in FieldValue /\ work.instance \in InstanceType
      /\ work.failures \in Nat /\ work.attempts \in Nat
  BY DEF UnsealWork, Row
<1>2. CASE ~ Attempted(c, v)
  BY <1>2 DEF UnsealField
<1>3. CASE Attempted(c, v)
  <2>1. v \in Str
    BY <1>1, <1>3, ValueKinds DEF Attempted, IsNonemptyString
  <2>2. outcome \in Outcomes /\ (outcome.note # "none" => NsOf(c, ns) \in Namespace)
    BY <2>1, FieldOutcomes
  <2>3. UnsealField(c, id, s, ns, work, f) =
          [row |-> [work.row EXCEPT ![f] = value],
           failures |-> work.failures + (IF outcome.status = "ok" THEN 0 ELSE 1),
           attempts |-> work.attempts + 1,
           instance |-> Account(work.instance, NsOf(c, ns), outcome)]
    BY <1>3 DEF UnsealField, Attempt
  <2> HIDE DEF outcome
  <2>4. Account(work.instance, NsOf(c, ns), outcome) \in InstanceType
    BY <1>1, <2>2, AccountType DEF Outcomes
  <2>5. [work.row EXCEPT ![f] = value] \in Row
    BY <1>1, <2>2 DEF Outcomes, Row, FieldValue
  <2>6. /\ work.failures + (IF outcome.status = "ok" THEN 0 ELSE 1) \in Nat
        /\ work.attempts + 1 \in Nat
    BY <1>1
  <2> HIDE DEF value
  <2> QED
    BY <2>3, <2>4, <2>5, <2>6 DEF UnsealWork
<1> QED
  BY <1>2, <1>3

-----------------------------------------------------------------------------
(* The values the folds go through, one after each field listed.           *)

SealRun(c, id, s, ns, work) ==
  /\ work \in [0 .. Len(AllFields(s)) -> SealWork]
  /\ \A k \in 1 .. Len(AllFields(s)) :
       work[k] = SealField(c, id, s, ns, work[k - 1], AllFields(s)[k])

UnsealRun(c, id, s, ns, work) ==
  /\ work \in [0 .. Len(AllFields(s)) -> UnsealWork]
  /\ \A k \in 1 .. Len(AllFields(s)) :
       work[k] = UnsealField(c, id, s, ns, work[k - 1], AllFields(s)[k])

StringifyRun(s, rows) ==
  /\ rows \in [0 .. Len(s.jsonFields) -> Row]
  /\ \A k \in 1 .. Len(s.jsonFields) :
       rows[k] = StringifyField(rows[k - 1], s.jsonFields[k])

ParseRun(s, rows) ==
  /\ rows \in [0 .. Len(s.jsonFields) -> Row]
  /\ \A k \in 1 .. Len(s.jsonFields) :
       rows[k] = ParseField(rows[k - 1], s.jsonFields[k])

(* What FoldLeft chooses for each of them.                                 *)
SealFold(c, id, s, ns, base, f) ==
  f = [x \in SUBSET DOMAIN AllFields(s) |->
         IF x = {} THEN base
         ELSE SealField(c, id, s, ns, f[x \ {Max(x)}], AllFields(s)[Max(x)])]

UnsealFold(c, id, s, ns, base, f) ==
  f = [x \in SUBSET DOMAIN AllFields(s) |->
         IF x = {} THEN base
         ELSE UnsealField(c, id, s, ns, f[x \ {Max(x)}], AllFields(s)[Max(x)])]

StringifyFold(s, base, f) ==
  f = [x \in SUBSET DOMAIN s.jsonFields |->
         IF x = {} THEN base
         ELSE StringifyField(f[x \ {Max(x)}], s.jsonFields[Max(x)])]

ParseFold(s, base, f) ==
  f = [x \in SUBSET DOMAIN s.jsonFields |->
         IF x = {} THEN base
         ELSE ParseField(f[x \ {Max(x)}], s.jsonFields[Max(x)])]

LEMMA SealFoldRuns ==
  ASSUME NEW c, NEW id, NEW s, NEW ns, Arguments(c, id, s, ns), NEW base \in SealWork
  PROVE  \E work : /\ SealRun(c, id, s, ns, work) /\ work[0] = base
                   /\ work[Len(AllFields(s))]
                      = (CHOOSE f : SealFold(c, id, s, ns, base, f))[DOMAIN AllFields(s)]
<1> SUFFICES ASSUME NEW n, n = Len(AllFields(s)),
                    NEW step, step = [p \in SealWork \X (1 .. n) |->
                                        SealField(c, id, s, ns, p[1], AllFields(s)[p[2]])],
                    NEW fold, fold = CHOOSE f : SealFold(c, id, s, ns, base, f)
             PROVE  \E work : /\ SealRun(c, id, s, ns, work) /\ work[0] = base
                              /\ work[n] = fold[DOMAIN AllFields(s)]
  OBVIOUS
<1>1. /\ n \in Nat /\ DOMAIN AllFields(s) = 1 .. n
      /\ \A i \in 1 .. n : AllFields(s)[i] \in Field
  BY ListTypes DEF Arguments
<1>2. \A work \in SealWork, i \in 1 .. n :
        /\ SealField(c, id, s, ns, work, AllFields(s)[i]) \in SealWork
        /\ step[<<work, i>>] = SealField(c, id, s, ns, work, AllFields(s)[i])
  BY <1>1, SealFieldType
<1>3. step \in [SealWork \X (1 .. n) -> SealWork]
  BY <1>2
<1>4. \A x \in SUBSET (1 .. n) :
        x # {} => Max(x) \in 1 .. n /\ x \ {Max(x)} \in SUBSET (1 .. n)
  BY <1>1, MaxOfPlaces
<1>5. ASSUME NEW f, Folds(f, n, SealWork, base, step), f \in [SUBSET (1 .. n) -> SealWork]
      PROVE  SealFold(c, id, s, ns, base, f)
  <2>1. \A x \in SUBSET (1 .. n) :
          x # {} => f[x] = SealField(c, id, s, ns, f[x \ {Max(x)}], AllFields(s)[Max(x)])
    BY <1>2, <1>4, <1>5 DEF Folds
  <2>2. f = [x \in SUBSET (1 .. n) |-> f[x]]
    BY <1>5
  <2>3. f[{}] = base
    BY <1>5 DEF Folds
  <2> QED
    BY <1>1, <2>1, <2>2, <2>3 DEF SealFold
<1>6. SealFold(c, id, s, ns, base, fold)
  <2>1. \E f \in [SUBSET (1 .. n) -> SealWork] : Folds(f, n, SealWork, base, step)
    BY <1>1, <1>3, FoldingEnds
  <2>2. \E f : SealFold(c, id, s, ns, base, f)
    BY <1>5, <2>1
  <2> QED
    BY <2>2, Zenon
<1>7. Folds(fold, n, SealWork, base, step)
  <2>1. fold[{}] = base
    BY <1>6 DEF SealFold
  <2>2. ASSUME NEW x \in SUBSET (1 .. n), x # {}, fold[x \ {Max(x)}] \in SealWork
        PROVE  fold[x] = step[<<fold[x \ {Max(x)}], Max(x)>>]
    <3>1. fold[x] = SealField(c, id, s, ns, fold[x \ {Max(x)}], AllFields(s)[Max(x)])
      BY <1>1, <1>6, <2>2 DEF SealFold
    <3>2. Max(x) \in 1 .. n
      BY <1>4, <2>2
    <3> QED
      BY <1>2, <2>2, <3>1, <3>2
  <2> QED
    BY <2>1, <2>2 DEF Folds
<1>8. PICK work \in [0 .. n -> SealWork] :
        Stepwise(work, n, base, step) /\ fold[1 .. n] = work[n]
  <2>1. Chained(fold, n, SealWork, base, step)
    BY <1>1, <1>3, <1>7, FoldIsChain
  <2> QED
    BY <2>1 DEF Chained
<1>9. \A k \in 1 .. n : work[k] = SealField(c, id, s, ns, work[k - 1], AllFields(s)[k])
  <2>1. \A k \in 1 .. n : work[k - 1] \in SealWork
    BY <1>1, <1>8
  <2> QED
    BY <1>2, <1>8, <2>1 DEF Stepwise
<1>10. SealRun(c, id, s, ns, work) /\ work[0] = base /\ work[n] = fold[DOMAIN AllFields(s)]
  BY <1>1, <1>8, <1>9 DEF SealRun, Stepwise
<1> QED
  BY <1>10

LEMMA UnsealFoldRuns ==
  ASSUME NEW c, NEW id, NEW s, NEW ns, Arguments(c, id, s, ns), NEW base \in UnsealWork
  PROVE  \E work : /\ UnsealRun(c, id, s, ns, work) /\ work[0] = base
                   /\ work[Len(AllFields(s))]
                      = (CHOOSE f : UnsealFold(c, id, s, ns, base, f))[DOMAIN AllFields(s)]
<1> SUFFICES ASSUME NEW n, n = Len(AllFields(s)),
                    NEW step, step = [p \in UnsealWork \X (1 .. n) |->
                                        UnsealField(c, id, s, ns, p[1], AllFields(s)[p[2]])],
                    NEW fold, fold = CHOOSE f : UnsealFold(c, id, s, ns, base, f)
             PROVE  \E work : /\ UnsealRun(c, id, s, ns, work) /\ work[0] = base
                              /\ work[n] = fold[DOMAIN AllFields(s)]
  OBVIOUS
<1>1. /\ n \in Nat /\ DOMAIN AllFields(s) = 1 .. n
      /\ \A i \in 1 .. n : AllFields(s)[i] \in Field
  BY ListTypes DEF Arguments
<1>2. \A work \in UnsealWork, i \in 1 .. n :
        /\ UnsealField(c, id, s, ns, work, AllFields(s)[i]) \in UnsealWork
        /\ step[<<work, i>>] = UnsealField(c, id, s, ns, work, AllFields(s)[i])
  BY <1>1, UnsealFieldType
<1>3. step \in [UnsealWork \X (1 .. n) -> UnsealWork]
  BY <1>2
<1>4. \A x \in SUBSET (1 .. n) :
        x # {} => Max(x) \in 1 .. n /\ x \ {Max(x)} \in SUBSET (1 .. n)
  BY <1>1, MaxOfPlaces
<1>5. ASSUME NEW f, Folds(f, n, UnsealWork, base, step), f \in [SUBSET (1 .. n) -> UnsealWork]
      PROVE  UnsealFold(c, id, s, ns, base, f)
  <2>1. \A x \in SUBSET (1 .. n) :
          x # {} => f[x] = UnsealField(c, id, s, ns, f[x \ {Max(x)}], AllFields(s)[Max(x)])
    BY <1>2, <1>4, <1>5 DEF Folds
  <2>2. f = [x \in SUBSET (1 .. n) |-> f[x]]
    BY <1>5
  <2>3. f[{}] = base
    BY <1>5 DEF Folds
  <2> QED
    BY <1>1, <2>1, <2>2, <2>3 DEF UnsealFold
<1>6. UnsealFold(c, id, s, ns, base, fold)
  <2>1. \E f \in [SUBSET (1 .. n) -> UnsealWork] : Folds(f, n, UnsealWork, base, step)
    BY <1>1, <1>3, FoldingEnds
  <2>2. \E f : UnsealFold(c, id, s, ns, base, f)
    BY <1>5, <2>1
  <2> QED
    BY <2>2, Zenon
<1>7. Folds(fold, n, UnsealWork, base, step)
  <2>1. fold[{}] = base
    BY <1>6 DEF UnsealFold
  <2>2. ASSUME NEW x \in SUBSET (1 .. n), x # {}, fold[x \ {Max(x)}] \in UnsealWork
        PROVE  fold[x] = step[<<fold[x \ {Max(x)}], Max(x)>>]
    <3>1. fold[x] = UnsealField(c, id, s, ns, fold[x \ {Max(x)}], AllFields(s)[Max(x)])
      BY <1>1, <1>6, <2>2 DEF UnsealFold
    <3>2. Max(x) \in 1 .. n
      BY <1>4, <2>2
    <3> QED
      BY <1>2, <2>2, <3>1, <3>2
  <2> QED
    BY <2>1, <2>2 DEF Folds
<1>8. PICK work \in [0 .. n -> UnsealWork] :
        Stepwise(work, n, base, step) /\ fold[1 .. n] = work[n]
  <2>1. Chained(fold, n, UnsealWork, base, step)
    BY <1>1, <1>3, <1>7, FoldIsChain
  <2> QED
    BY <2>1 DEF Chained
<1>9. \A k \in 1 .. n : work[k] = UnsealField(c, id, s, ns, work[k - 1], AllFields(s)[k])
  <2>1. \A k \in 1 .. n : work[k - 1] \in UnsealWork
    BY <1>1, <1>8
  <2> QED
    BY <1>2, <1>8, <2>1 DEF Stepwise
<1>10. UnsealRun(c, id, s, ns, work) /\ work[0] = base /\ work[n] = fold[DOMAIN AllFields(s)]
  BY <1>1, <1>8, <1>9 DEF UnsealRun, Stepwise
<1> QED
  BY <1>10

LEMMA StringifyFoldRuns ==
  ASSUME JsonIsTotal, NEW s \in FieldSpec, NEW base \in Row
  PROVE  \E rows : /\ StringifyRun(s, rows) /\ rows[0] = base
                   /\ rows[Len(s.jsonFields)]
                      = (CHOOSE f : StringifyFold(s, base, f))[DOMAIN s.jsonFields]
<1> SUFFICES ASSUME NEW n, n = Len(s.jsonFields),
                    NEW step, step = [p \in Row \X (1 .. n) |->
                                        StringifyField(p[1], s.jsonFields[p[2]])],
                    NEW fold, fold = CHOOSE f : StringifyFold(s, base, f)
             PROVE  \E rows : /\ StringifyRun(s, rows) /\ rows[0] = base
                              /\ rows[n] = fold[DOMAIN s.jsonFields]
  OBVIOUS
<1>1. /\ n \in Nat /\ DOMAIN s.jsonFields = 1 .. n
      /\ \A i \in 1 .. n : s.jsonFields[i] \in Field
  BY ListTypes
<1>2. \A rows \in Row, i \in 1 .. n :
        /\ StringifyField(rows, s.jsonFields[i]) \in Row
        /\ step[<<rows, i>>] = StringifyField(rows, s.jsonFields[i])
  BY <1>1, StringifyFieldType
<1>3. step \in [Row \X (1 .. n) -> Row]
  BY <1>2
<1>4. \A x \in SUBSET (1 .. n) :
        x # {} => Max(x) \in 1 .. n /\ x \ {Max(x)} \in SUBSET (1 .. n)
  BY <1>1, MaxOfPlaces
<1>5. ASSUME NEW f, Folds(f, n, Row, base, step), f \in [SUBSET (1 .. n) -> Row]
      PROVE  StringifyFold(s, base, f)
  <2>1. \A x \in SUBSET (1 .. n) :
          x # {} => f[x] = StringifyField(f[x \ {Max(x)}], s.jsonFields[Max(x)])
    BY <1>2, <1>4, <1>5 DEF Folds
  <2>2. f = [x \in SUBSET (1 .. n) |-> f[x]]
    BY <1>5
  <2>3. f[{}] = base
    BY <1>5 DEF Folds
  <2> QED
    BY <1>1, <2>1, <2>2, <2>3 DEF StringifyFold
<1>6. StringifyFold(s, base, fold)
  <2>1. \E f \in [SUBSET (1 .. n) -> Row] : Folds(f, n, Row, base, step)
    BY <1>1, <1>3, FoldingEnds
  <2>2. \E f : StringifyFold(s, base, f)
    BY <1>5, <2>1
  <2> QED
    BY <2>2, Zenon
<1>7. Folds(fold, n, Row, base, step)
  <2>1. fold[{}] = base
    BY <1>6 DEF StringifyFold
  <2>2. ASSUME NEW x \in SUBSET (1 .. n), x # {}, fold[x \ {Max(x)}] \in Row
        PROVE  fold[x] = step[<<fold[x \ {Max(x)}], Max(x)>>]
    <3>1. fold[x] = StringifyField(fold[x \ {Max(x)}], s.jsonFields[Max(x)])
      BY <1>1, <1>6, <2>2 DEF StringifyFold
    <3>2. Max(x) \in 1 .. n
      BY <1>4, <2>2
    <3> QED
      BY <1>2, <2>2, <3>1, <3>2
  <2> QED
    BY <2>1, <2>2 DEF Folds
<1>8. PICK rows \in [0 .. n -> Row] :
        Stepwise(rows, n, base, step) /\ fold[1 .. n] = rows[n]
  <2>1. Chained(fold, n, Row, base, step)
    BY <1>1, <1>3, <1>7, FoldIsChain
  <2> QED
    BY <2>1 DEF Chained
<1>9. \A k \in 1 .. n : rows[k] = StringifyField(rows[k - 1], s.jsonFields[k])
  <2>1. \A k \in 1 .. n : rows[k - 1] \in Row
    BY <1>1, <1>8
  <2> QED
    BY <1>2, <1>8, <2>1 DEF Stepwise
<1>10. StringifyRun(s, rows) /\ rows[0] = base /\ rows[n] = fold[DOMAIN s.jsonFields]
  BY <1>1, <1>8, <1>9 DEF StringifyRun, Stepwise
<1> QED
  BY <1>10

LEMMA ParseFoldRuns ==
  ASSUME NEW s \in FieldSpec, NEW base \in Row
  PROVE  \E rows : /\ ParseRun(s, rows) /\ rows[0] = base
                   /\ rows[Len(s.jsonFields)]
                      = (CHOOSE f : ParseFold(s, base, f))[DOMAIN s.jsonFields]
<1> SUFFICES ASSUME NEW n, n = Len(s.jsonFields),
                    NEW step, step = [p \in Row \X (1 .. n) |->
                                        ParseField(p[1], s.jsonFields[p[2]])],
                    NEW fold, fold = CHOOSE f : ParseFold(s, base, f)
             PROVE  \E rows : /\ ParseRun(s, rows) /\ rows[0] = base
                              /\ rows[n] = fold[DOMAIN s.jsonFields]
  OBVIOUS
<1>1. /\ n \in Nat /\ DOMAIN s.jsonFields = 1 .. n
      /\ \A i \in 1 .. n : s.jsonFields[i] \in Field
  BY ListTypes
<1>2. \A rows \in Row, i \in 1 .. n :
        /\ ParseField(rows, s.jsonFields[i]) \in Row
        /\ step[<<rows, i>>] = ParseField(rows, s.jsonFields[i])
  BY <1>1, ParseFieldType
<1>3. step \in [Row \X (1 .. n) -> Row]
  BY <1>2
<1>4. \A x \in SUBSET (1 .. n) :
        x # {} => Max(x) \in 1 .. n /\ x \ {Max(x)} \in SUBSET (1 .. n)
  BY <1>1, MaxOfPlaces
<1>5. ASSUME NEW f, Folds(f, n, Row, base, step), f \in [SUBSET (1 .. n) -> Row]
      PROVE  ParseFold(s, base, f)
  <2>1. \A x \in SUBSET (1 .. n) :
          x # {} => f[x] = ParseField(f[x \ {Max(x)}], s.jsonFields[Max(x)])
    BY <1>2, <1>4, <1>5 DEF Folds
  <2>2. f = [x \in SUBSET (1 .. n) |-> f[x]]
    BY <1>5
  <2>3. f[{}] = base
    BY <1>5 DEF Folds
  <2> QED
    BY <1>1, <2>1, <2>2, <2>3 DEF ParseFold
<1>6. ParseFold(s, base, fold)
  <2>1. \E f \in [SUBSET (1 .. n) -> Row] : Folds(f, n, Row, base, step)
    BY <1>1, <1>3, FoldingEnds
  <2>2. \E f : ParseFold(s, base, f)
    BY <1>5, <2>1
  <2> QED
    BY <2>2, Zenon
<1>7. Folds(fold, n, Row, base, step)
  <2>1. fold[{}] = base
    BY <1>6 DEF ParseFold
  <2>2. ASSUME NEW x \in SUBSET (1 .. n), x # {}, fold[x \ {Max(x)}] \in Row
        PROVE  fold[x] = step[<<fold[x \ {Max(x)}], Max(x)>>]
    <3>1. fold[x] = ParseField(fold[x \ {Max(x)}], s.jsonFields[Max(x)])
      BY <1>1, <1>6, <2>2 DEF ParseFold
    <3>2. Max(x) \in 1 .. n
      BY <1>4, <2>2
    <3> QED
      BY <1>2, <2>2, <3>1, <3>2
  <2> QED
    BY <2>1, <2>2 DEF Folds
<1>8. PICK rows \in [0 .. n -> Row] :
        Stepwise(rows, n, base, step) /\ fold[1 .. n] = rows[n]
  <2>1. Chained(fold, n, Row, base, step)
    BY <1>1, <1>3, <1>7, FoldIsChain
  <2> QED
    BY <2>1 DEF Chained
<1>9. \A k \in 1 .. n : rows[k] = ParseField(rows[k - 1], s.jsonFields[k])
  <2>1. \A k \in 1 .. n : rows[k - 1] \in Row
    BY <1>1, <1>8
  <2> QED
    BY <1>2, <1>8, <2>1 DEF Stepwise
<1>10. ParseRun(s, rows) /\ rows[0] = base /\ rows[n] = fold[DOMAIN s.jsonFields]
  BY <1>1, <1>8, <1>9 DEF ParseRun, Stepwise
<1> QED
  BY <1>10

(* sealRow and unsealRow go through such runs.                             *)
SealRowSteps(c, id, s, ns, row, i, rows, work) ==
  /\ StringifyRun(s, rows) /\ rows[0] = row
  /\ SealRun(c, id, s, ns, work)
  /\ work[0] = [status |-> "ok", row |-> rows[Len(s.jsonFields)], instance |-> i]
  /\ SealRow(c, i, row, id, s, ns) = work[Len(AllFields(s))]

UnsealRowSteps(c, id, s, ns, row, i, work, rows) ==
  /\ UnsealRun(c, id, s, ns, work)
  /\ work[0] = [row |-> row, failures |-> 0, attempts |-> 0, instance |-> i]
  /\ ParseRun(s, rows) /\ rows[0] = work[Len(AllFields(s))].row
  /\ UnsealRowInternal(c, i, row, id, s, ns)
     = [work[Len(AllFields(s))] EXCEPT !.row = rows[Len(s.jsonFields)]]

LEMMA SealRowRuns ==
  ASSUME JsonIsTotal, NEW c, NEW id, NEW s, NEW ns, Arguments(c, id, s, ns),
         NEW row \in Row, NEW i \in InstanceType
  PROVE  \E rows, work : SealRowSteps(c, id, s, ns, row, i, rows, work)
<1>1. s \in FieldSpec
  BY DEF Arguments
<1>2. PICK rows : /\ StringifyRun(s, rows) /\ rows[0] = row
                  /\ rows[Len(s.jsonFields)]
                     = (CHOOSE f : StringifyFold(s, row, f))[DOMAIN s.jsonFields]
  BY <1>1, StringifyFoldRuns
<1>3. rows[Len(s.jsonFields)] \in Row
  <2>1. Len(s.jsonFields) \in 0 .. Len(s.jsonFields)
    BY <1>1, ListTypes
  <2> QED
    BY <1>2, <2>1 DEF StringifyRun
<1> DEFINE base == [status |-> "ok", row |-> rows[Len(s.jsonFields)], instance |-> i]
<1>4. base \in SealWork
  BY <1>3, StatusNames DEF SealWork
<1>5. SealRow(c, i, row, id, s, ns)
      = (CHOOSE f : SealFold(c, id, s, ns, base, f))[DOMAIN AllFields(s)]
  <2>1. FoldLeft(StringifyField, row, s.jsonFields)
        = (CHOOSE f : StringifyFold(s, row, f))[DOMAIN s.jsonFields]
    BY DEF FoldLeft, MapThenFoldSet, StringifyFold
  <2>2. base = [status |-> "ok", row |-> FoldLeft(StringifyField, row, s.jsonFields),
                instance |-> i]
    BY <1>2, <2>1
  <2> QED
    BY <2>2 DEF SealRow, FoldLeft, MapThenFoldSet, SealFold, AllFields
<1> HIDE DEF base
<1>6. PICK work : /\ SealRun(c, id, s, ns, work) /\ work[0] = base
                  /\ work[Len(AllFields(s))]
                     = (CHOOSE f : SealFold(c, id, s, ns, base, f))[DOMAIN AllFields(s)]
  BY <1>4, SealFoldRuns
<1> QED
  BY <1>2, <1>5, <1>6 DEF base, SealRowSteps

LEMMA UnsealRowRuns ==
  ASSUME NEW c, NEW id, NEW s, NEW ns, Arguments(c, id, s, ns),
         NEW row \in Row, NEW i \in InstanceType
  PROVE  \E work, rows : UnsealRowSteps(c, id, s, ns, row, i, work, rows)
<1>1. s \in FieldSpec
  BY DEF Arguments
<1> DEFINE base == [row |-> row, failures |-> 0, attempts |-> 0, instance |-> i]
           n == Len(AllFields(s))
<1>2. base \in UnsealWork
  BY DEF UnsealWork
<1>3. PICK work : /\ UnsealRun(c, id, s, ns, work) /\ work[0] = base
                  /\ work[n]
                     = (CHOOSE f : UnsealFold(c, id, s, ns, base, f))[DOMAIN AllFields(s)]
  BY <1>2, UnsealFoldRuns
<1>4. work[n].row \in Row
  <2>1. n \in 0 .. n
    BY <1>1, ListTypes
  <2>2. work[n] \in UnsealWork
    BY <1>3, <2>1 DEF UnsealRun
  <2> QED
    BY <2>2 DEF UnsealWork
<1>5. PICK rows : /\ ParseRun(s, rows) /\ rows[0] = work[n].row
                  /\ rows[Len(s.jsonFields)]
                     = (CHOOSE f : ParseFold(s, work[n].row, f))[DOMAIN s.jsonFields]
  BY <1>1, <1>4, ParseFoldRuns
<1>6. UnsealRowInternal(c, i, row, id, s, ns)
      = LET done == (CHOOSE f : UnsealFold(c, id, s, ns, base, f))[DOMAIN AllFields(s)]
        IN [done EXCEPT !.row =
              (CHOOSE f : ParseFold(s, done.row, f))[DOMAIN s.jsonFields]]
  BY DEF UnsealRowInternal, FoldLeft, MapThenFoldSet, UnsealFold, ParseFold, AllFields
<1> HIDE DEF base
<1>7. UnsealRowInternal(c, i, row, id, s, ns)
      = [work[n] EXCEPT !.row = rows[Len(s.jsonFields)]]
  BY <1>3, <1>5, <1>6
<1> QED
  BY <1>3, <1>5, <1>7 DEF base, UnsealRowSteps

-----------------------------------------------------------------------------
(* Field by field: what becomes of a field depends on its own value alone. *)

Places(list, f) == {k \in DOMAIN list : list[k] = f}

Stringifying == [v \in FieldValue |-> IF v = Null THEN v ELSE JsonText(v)]

Parsing == [v \in FieldValue |-> IF IsNonemptyString(v) THEN JsonValue(v) ELSE v]

Sealing(c, id, s, ns, f) ==
  [v \in FieldValue |->
     IF IsNonemptyString(v) THEN Seal(c, v, RowOptions(s, ns, f, id)).value ELSE v]

Opening(c, id, s, ns, f) ==
  [v \in FieldValue |->
     LET outcome == Unseal(c, v, RowOptions(s, ns, f, id)) IN
     IF ~ Attempted(c, v) THEN v
     ELSE IF outcome.status = "ok" THEN outcome.value ELSE Null]

(* The values one field has in a run.                                      *)
Column(rows, n, f) == [k \in 0 .. n |-> rows[k][f]]

WorkColumn(work, n, f) == [k \in 0 .. n |-> work[k].row[f]]

LEMMA StringifiedByField ==
  ASSUME NEW s \in FieldSpec, NEW rows, StringifyRun(s, rows), NEW f \in Field
  PROVE  LET m == Len(s.jsonFields) IN
         /\ Column(rows, m, f) \in [0 .. m -> FieldValue]
         /\ DoneAt(Column(rows, m, f), m, Places(s.jsonFields, f), Stringifying)
<1> SUFFICES ASSUME NEW m, m = Len(s.jsonFields), NEW column, column = Column(rows, m, f)
             PROVE  /\ column \in [0 .. m -> FieldValue]
                    /\ DoneAt(column, m, Places(s.jsonFields, f), Stringifying)
  OBVIOUS
<1>1. /\ m \in Nat /\ DOMAIN s.jsonFields = 1 .. m
      /\ \A k \in 1 .. m : s.jsonFields[k] \in Field
  BY ListTypes
<1>2. \A k \in 0 .. m : column[k] = rows[k][f] /\ rows[k] \in Row /\ rows[k][f] \in FieldValue
  BY DEF Column, StringifyRun, Row
<1>3. ASSUME NEW k \in 1 .. m
      PROVE  column[k] = IF k \in Places(s.jsonFields, f)
                         THEN Stringifying[column[k - 1]] ELSE column[k - 1]
  <2>1. k \in 0 .. m /\ k - 1 \in 0 .. m
    BY <1>1
  <2>2. rows[k] = StringifyField(rows[k - 1], s.jsonFields[k]) /\ rows[k - 1] \in Row
    BY <1>2, <2>1 DEF StringifyRun
  <2>3. rows[k][f] = IF s.jsonFields[k] = f /\ rows[k - 1][f] # Null
                     THEN JsonText(rows[k - 1][f]) ELSE rows[k - 1][f]
    BY <1>1, <2>2 DEF StringifyField, Row
  <2>4. k \in Places(s.jsonFields, f) <=> s.jsonFields[k] = f
    BY <1>1 DEF Places
  <2> QED
    BY <1>2, <2>1, <2>3, <2>4 DEF Stringifying
<1>4. column \in [0 .. m -> FieldValue]
  BY <1>2 DEF Column
<1> QED
  BY <1>3, <1>4 DEF DoneAt

LEMMA ParsedByField ==
  ASSUME NEW s \in FieldSpec, NEW rows, ParseRun(s, rows), NEW f \in Field
  PROVE  LET m == Len(s.jsonFields) IN
         /\ Column(rows, m, f) \in [0 .. m -> FieldValue]
         /\ DoneAt(Column(rows, m, f), m, Places(s.jsonFields, f), Parsing)
<1> SUFFICES ASSUME NEW m, m = Len(s.jsonFields), NEW column, column = Column(rows, m, f)
             PROVE  /\ column \in [0 .. m -> FieldValue]
                    /\ DoneAt(column, m, Places(s.jsonFields, f), Parsing)
  OBVIOUS
<1>1. /\ m \in Nat /\ DOMAIN s.jsonFields = 1 .. m
      /\ \A k \in 1 .. m : s.jsonFields[k] \in Field
  BY ListTypes
<1>2. \A k \in 0 .. m : column[k] = rows[k][f] /\ rows[k] \in Row /\ rows[k][f] \in FieldValue
  BY DEF Column, ParseRun, Row
<1>3. ASSUME NEW k \in 1 .. m
      PROVE  column[k] = IF k \in Places(s.jsonFields, f)
                         THEN Parsing[column[k - 1]] ELSE column[k - 1]
  <2>1. k \in 0 .. m /\ k - 1 \in 0 .. m
    BY <1>1
  <2>2. rows[k] = ParseField(rows[k - 1], s.jsonFields[k]) /\ rows[k - 1] \in Row
    BY <1>2, <2>1 DEF ParseRun
  <2>3. rows[k][f] = IF s.jsonFields[k] = f /\ IsNonemptyString(rows[k - 1][f])
                     THEN JsonValue(rows[k - 1][f]) ELSE rows[k - 1][f]
    BY <1>1, <2>2 DEF ParseField, Row
  <2>4. k \in Places(s.jsonFields, f) <=> s.jsonFields[k] = f
    BY <1>1 DEF Places
  <2> QED
    BY <1>2, <2>1, <2>3, <2>4 DEF Parsing
<1>4. column \in [0 .. m -> FieldValue]
  BY <1>2 DEF Column
<1> QED
  BY <1>3, <1>4 DEF DoneAt

LEMMA OpenedByField ==
  ASSUME NEW c, NEW id, NEW s, NEW ns, Arguments(c, id, s, ns),
         NEW work, UnsealRun(c, id, s, ns, work), NEW f \in Field
  PROVE  LET n == Len(AllFields(s)) IN
         /\ WorkColumn(work, n, f) \in [0 .. n -> FieldValue]
         /\ DoneAt(WorkColumn(work, n, f), n, Places(AllFields(s), f), Opening(c, id, s, ns, f))
<1> SUFFICES ASSUME NEW n, n = Len(AllFields(s)), NEW column, column = WorkColumn(work, n, f)
             PROVE  /\ column \in [0 .. n -> FieldValue]
                    /\ DoneAt(column, n, Places(AllFields(s), f), Opening(c, id, s, ns, f))
  OBVIOUS
<1>1. /\ n \in Nat /\ DOMAIN AllFields(s) = 1 .. n
      /\ \A k \in 1 .. n : AllFields(s)[k] \in Field
  BY ListTypes DEF Arguments
<1>2. \A k \in 0 .. n : /\ column[k] = work[k].row[f] /\ work[k].row \in Row
                        /\ work[k].row[f] \in FieldValue
  BY DEF WorkColumn, UnsealRun, UnsealWork, Row
<1>3. ASSUME NEW k \in 1 .. n
      PROVE  column[k] = IF k \in Places(AllFields(s), f)
                         THEN Opening(c, id, s, ns, f)[column[k - 1]] ELSE column[k - 1]
  <2>1. k \in 0 .. n /\ k - 1 \in 0 .. n
    BY <1>1
  <2>2. work[k] = UnsealField(c, id, s, ns, work[k - 1], AllFields(s)[k])
        /\ work[k - 1].row \in Row
    BY <1>2, <2>1 DEF UnsealRun
  <2>3. work[k].row[f] =
          LET outcome == Unseal(c, work[k - 1].row[f], RowOptions(s, ns, f, id)) IN
          IF AllFields(s)[k] = f /\ Attempted(c, work[k - 1].row[f])
          THEN IF outcome.status = "ok" THEN outcome.value ELSE Null
          ELSE work[k - 1].row[f]
    BY <1>1, <2>2 DEF UnsealField, Attempt, Row
  <2>4. k \in Places(AllFields(s), f) <=> AllFields(s)[k] = f
    BY <1>1 DEF Places
  <2> QED
    BY <1>2, <2>1, <2>3, <2>4 DEF Opening
<1>4. column \in [0 .. n -> FieldValue]
  BY <1>2 DEF WorkColumn
<1> QED
  BY <1>3, <1>4 DEF DoneAt

(* A row that could be sealed was sealed in every field: the first error   *)
(* is kept.                                                                *)
LEMMA SealedAllAlong ==
  ASSUME NEW c, NEW id, NEW s, NEW ns, Arguments(c, id, s, ns),
         NEW work, SealRun(c, id, s, ns, work), work[Len(AllFields(s))].status = "ok"
  PROVE  \A k \in 0 .. Len(AllFields(s)) : work[k].status = "ok"
<1> SUFFICES ASSUME NEW n, n = Len(AllFields(s))
             PROVE  \A k \in 0 .. n : work[k].status = "ok"
  OBVIOUS
<1> DEFINE fine == {j \in 0 .. n : work[n - j].status = "ok"}
<1>1. n \in Nat
  BY ListTypes DEF Arguments
<1>2. \A k \in 1 .. n : work[k].status = "ok" => work[k - 1].status = "ok"
  BY DEF SealRun, SealField
<1>3. 0 \in fine
  BY <1>1
<1>4. \A j \in 0 .. n - 1 : j \in fine => j + 1 \in fine
  <2> SUFFICES ASSUME NEW j \in 0 .. n - 1, j \in fine PROVE j + 1 \in fine
    OBVIOUS
  <2>1. n - j \in 1 .. n /\ (n - j) - 1 = n - (j + 1) /\ j + 1 \in 0 .. n
    BY <1>1
  <2> QED
    BY <1>2, <2>1
<1> HIDE DEF fine
<1>5. \A j \in 0 .. n : j \in fine
  BY <1>1, <1>3, <1>4, EveryPlace
<1>6. \A k \in 0 .. n : n - k \in 0 .. n /\ n - (n - k) = k
  BY <1>1
<1> QED
  BY <1>5, <1>6 DEF fine

LEMMA SealedByField ==
  ASSUME NEW c, NEW id, NEW s, NEW ns, Arguments(c, id, s, ns),
         NEW work, SealRun(c, id, s, ns, work), work[Len(AllFields(s))].status = "ok",
         NEW f \in Field
  PROVE  LET n == Len(AllFields(s))
             column == WorkColumn(work, n, f)
         IN /\ column \in [0 .. n -> FieldValue]
            /\ DoneAt(column, n, Places(AllFields(s), f), Sealing(c, id, s, ns, f))
            /\ \A k \in Places(AllFields(s), f) :
                 IsNonemptyString(column[k - 1])
                 => Seal(c, column[k - 1], RowOptions(s, ns, f, id)).status = "ok"
<1> SUFFICES ASSUME NEW n, n = Len(AllFields(s)), NEW column, column = WorkColumn(work, n, f)
             PROVE  /\ column \in [0 .. n -> FieldValue]
                    /\ DoneAt(column, n, Places(AllFields(s), f), Sealing(c, id, s, ns, f))
                    /\ \A k \in Places(AllFields(s), f) :
                         IsNonemptyString(column[k - 1])
                         => Seal(c, column[k - 1], RowOptions(s, ns, f, id)).status = "ok"
  OBVIOUS
<1>1. /\ n \in Nat /\ DOMAIN AllFields(s) = 1 .. n
      /\ \A k \in 1 .. n : AllFields(s)[k] \in Field
  BY ListTypes DEF Arguments
<1>2. \A k \in 0 .. n : /\ column[k] = work[k].row[f] /\ work[k].row \in Row
                        /\ work[k].row[f] \in FieldValue
  BY DEF WorkColumn, SealRun, SealWork, Row
<1>3. \A k \in 0 .. n : work[k].status = "ok"
  BY SealedAllAlong
<1>4. ASSUME NEW k \in 1 .. n
      PROVE  /\ column[k] = IF k \in Places(AllFields(s), f)
                            THEN Sealing(c, id, s, ns, f)[column[k - 1]] ELSE column[k - 1]
             /\ k \in Places(AllFields(s), f) /\ IsNonemptyString(column[k - 1])
                => Seal(c, column[k - 1], RowOptions(s, ns, f, id)).status = "ok"
  <2> DEFINE outcome == Seal(c, work[k - 1].row[f], RowOptions(s, ns, f, id))
  <2>1. k \in 0 .. n /\ k - 1 \in 0 .. n
    BY <1>1
  <2>2. work[k] = SealField(c, id, s, ns, work[k - 1], AllFields(s)[k])
        /\ work[k - 1].row \in Row /\ work[k - 1].status = "ok" /\ work[k].status = "ok"
    BY <1>2, <1>3, <2>1 DEF SealRun
  <2>3. work[k].row[f] = IF AllFields(s)[k] = f /\ IsNonemptyString(work[k - 1].row[f])
                         THEN outcome.value ELSE work[k - 1].row[f]
    BY <1>1, <2>2 DEF SealField, Row
  <2>4. AllFields(s)[k] = f /\ IsNonemptyString(work[k - 1].row[f]) => outcome.status = "ok"
    BY <2>2 DEF SealField
  <2>5. k \in Places(AllFields(s), f) <=> AllFields(s)[k] = f
    BY <1>1 DEF Places
  <2> QED
    BY <1>2, <2>1, <2>3, <2>4, <2>5 DEF Sealing
<1>5. column \in [0 .. n -> FieldValue]
  BY <1>2 DEF WorkColumn
<1>6. \A k \in Places(AllFields(s), f) : k \in 1 .. n
  BY <1>1 DEF Places
<1> QED
  BY <1>4, <1>5, <1>6 DEF DoneAt

-----------------------------------------------------------------------------
(* There and back.                                                         *)

(* Under a ring a sealed value is attempted, and opens to what it was.     *)
LEMMA SealedOpens ==
  ASSUME NEW c, NEW id, NEW s, NEW ns, Arguments(c, id, s, ns), Constructible(c),
         NEW f \in Field, NEW v \in Str,
         Seal(c, v, RowOptions(s, ns, f, id)).status = "ok",
         RingOf(c, NsOf(c, ns)) # NoRing
  PROVE  /\ Seal(c, v, RowOptions(s, ns, f, id)).value \in Str
         /\ Opening(c, id, s, ns, f)[Seal(c, v, RowOptions(s, ns, f, id)).value] = v
<1> SUFFICES ASSUME NEW options, options = RowOptions(s, ns, f, id),
                    NEW sealed, sealed = Seal(c, v, options).value
             PROVE  sealed \in Str /\ Opening(c, id, s, ns, f)[sealed] = v
  OBVIOUS
<1>1. c \in Config /\ options \in SealOptions /\ ResolveNs(c, options) = NsOf(c, ns)
  BY RowOptionsType DEF Arguments
<1> DEFINE ring == RingOf(c, NsOf(c, ns))
           layer == TokenLayer(ring, options.context)
<1>2. OptionsStatus(c, options) = "ok" /\ sealed = Wrap(v, layer)
  BY <1>1, SealReturns
<1>3. layer \in Layer
  BY <1>1, <1>2, OptionsType, RingOfType, TokenLayerType
<1>4. sealed \in Str
  BY <1>2, <1>3, WrapType
<1>5. sealed.layers # << >> /\ Head(sealed.layers) = layer
  BY <1>2, <1>3, UnwrapWrap
<1>6. LooksSealed(sealed)
  BY <1>5 DEF LooksSealed, Shape, TokenLayer
<1>7. IsNonemptyString(sealed)
  <2>1. IsString(sealed)
    BY <1>4, ValueKinds DEF FieldValue
  <2> QED
    BY <1>5, <2>1 DEF IsNonemptyString, EmptyStr, Plain
<1>8. Attempted(c, sealed)
  BY <1>6, <1>7 DEF Attempted
<1>9. Unseal(c, sealed, options).status = "ok" /\ Unseal(c, sealed, options).value = v
  BY <1>1, SealRoundTrip
<1> QED
  BY <1>4, <1>8, <1>9 DEF Opening, FieldValue

(* What is not encrypted is handed on as it is.                            *)
LEMMA NotAttempted ==
  ASSUME NEW c, NEW id, NEW s, NEW ns, Arguments(c, id, s, ns), NEW f \in Field,
         NEW v \in FieldValue, ~ Attempted(c, v)
  PROVE  Opening(c, id, s, ns, f)[v] = v
  BY DEF Opening

(* Without a ring seal leaves alone what it accepts, and unseal does not   *)
(* attempt it.                                                             *)
LEMMA DormantIsLeftAlone ==
  ASSUME NEW c, NEW id, NEW s, NEW ns, Arguments(c, id, s, ns), Constructible(c),
         NEW f \in Field, NEW v \in Str,
         Seal(c, v, RowOptions(s, ns, f, id)).status = "ok",
         RingOf(c, NsOf(c, ns)) = NoRing
  PROVE  Seal(c, v, RowOptions(s, ns, f, id)).value = v /\ ~ Attempted(c, v)
<1> SUFFICES ASSUME NEW options, options = RowOptions(s, ns, f, id)
             PROVE  Seal(c, v, options).value = v /\ ~ Attempted(c, v)
  OBVIOUS
<1>1. c \in Config /\ options \in SealOptions /\ ResolveNs(c, options) = NsOf(c, ns)
  BY RowOptionsType DEF Arguments
<1>2. /\ Seal(c, v, options).value = v /\ c.mode # "strict"
      /\ ~ ParseToken(v) /\ ~ MatchesLegacy(v, c.legacy)
  BY <1>1, SealReturns
<1>3. c.plaintext = "passthrough"
  BY <1>2 DEF Constructible
<1>4. ~ LooksSealed(v)
  BY <1>2 DEF ParseToken, LooksSealed
<1> QED
  BY <1>2, <1>3, <1>4 DEF Attempted

LEMMA SealingTypes ==
  ASSUME NEW c, NEW id, NEW s, NEW ns, Arguments(c, id, s, ns), NEW f \in Field
  PROVE  Opening(c, id, s, ns, f) \in [FieldValue -> FieldValue]
<1> SUFFICES ASSUME NEW v \in FieldValue
             PROVE  Opening(c, id, s, ns, f)[v] \in FieldValue
  BY DEF Opening
<1>1. CASE ~ Attempted(c, v)
  BY <1>1, NotAttempted
<1>2. CASE Attempted(c, v)
  <2>1. v \in Str
    BY <1>2, ValueKinds DEF Attempted, IsNonemptyString
  <2>2. Unseal(c, v, RowOptions(s, ns, f, id)).value \in Str
    BY <2>1, FieldOutcomes DEF Outcomes
  <2> QED
    BY <1>2, <2>2 DEF Opening, FieldValue
<1> QED
  BY <1>1, <1>2

(* A field that was sealed at some places of the list, and is unsealed at  *)
(* the same, has its value again.                                          *)
LEMMA ColumnReturns ==
  ASSUME NEW c, NEW id, NEW s, NEW ns, Arguments(c, id, s, ns), Constructible(c),
         NEW f \in Field, NEW n \in Nat, NEW places \in SUBSET (1 .. n),
         NEW y \in [0 .. n -> FieldValue], DoneAt(y, n, places, Sealing(c, id, s, ns, f)),
         \A k \in places : IsNonemptyString(y[k - 1])
                           => Seal(c, y[k - 1], RowOptions(s, ns, f, id)).status = "ok",
         NEW z, z[0] = y[n], DoneAt(z, n, places, Opening(c, id, s, ns, f))
  PROVE  z[n] = y[0]
<1> DEFINE options == RowOptions(s, ns, f, id)
           do == Sealing(c, id, s, ns, f)
           undo == Opening(c, id, s, ns, f)
           ring == RingOf(c, NsOf(c, ns))
<1>1. c \in Config /\ options \in SealOptions /\ ResolveNs(c, options) = NsOf(c, ns)
  BY RowOptionsType DEF Arguments
<1>2. 0 \in 0 .. n /\ n \in 0 .. n /\ \A k \in 1 .. n : k - 1 \in 0 .. n
  OBVIOUS
(* Where sealing does not move the value, nor does unsealing.              *)
<1>3. ASSUME \A k \in 1 .. n : y[k - 1] = y[0] => y[k] = y[0],
             places # {} => ~ Attempted(c, y[0])
      PROVE  z[n] = y[0]
  <2>1. z[0] = y[0]
    BY <1>2, <1>3, StaysPut
  <2>2. \A k \in 1 .. n : z[k - 1] = z[0] => z[k] = z[0]
    <3> SUFFICES ASSUME NEW k \in 1 .. n, z[k - 1] = z[0] PROVE z[k] = z[0]
      OBVIOUS
    <3>1. CASE k \in places
      <4>1. z[k] = undo[z[0]]
        BY <3>1 DEF DoneAt
      <4>2. undo[y[0]] = y[0]
        BY <1>2, <1>3, <3>1, NotAttempted
      <4> QED
        BY <2>1, <4>1, <4>2
    <3>2. CASE k \notin places
      BY <3>2 DEF DoneAt
    <3> QED
      BY <3>1, <3>2
  <2> QED
    BY <1>2, <2>1, <2>2, StaysPut
<1>4. CASE ~ IsNonemptyString(y[0])
  <2>1. do[y[0]] = y[0]
    BY <1>2, <1>4 DEF Sealing
  <2>2. \A k \in 1 .. n : y[k - 1] = y[0] => y[k] = y[0]
    BY <2>1 DEF DoneAt
  <2> QED
    BY <1>3, <1>4, <2>2 DEF Attempted
<1>5. CASE IsNonemptyString(y[0]) /\ OptionsStatus(c, options) # "ok"
  <2>1. \A k \in places : ~ IsNonemptyString(y[k - 1])
    BY <1>5 DEF Seal, Err, Outcome
  <2>2. \A k \in 1 .. n : y[k - 1] = y[0] => y[k] = y[0]
    BY <1>5, <2>1 DEF DoneAt
  <2>3. \A k \in 0 .. n : y[k] = y[0]
    BY <2>2, StaysPut
  <2>4. places = {}
    BY <1>2, <1>5, <2>1, <2>3
  <2> QED
    BY <1>3, <2>2, <2>4
<1>6. CASE IsNonemptyString(y[0]) /\ OptionsStatus(c, options) = "ok" /\ ring = NoRing
  <2>1. y[0] \in Str
    BY <1>2, <1>6, ValueKinds DEF IsNonemptyString
  <2>2. ASSUME NEW k \in places, y[k - 1] = y[0]
        PROVE  y[k] = y[0] /\ ~ Attempted(c, y[0])
    <3>1. Seal(c, y[0], options).status = "ok"
      BY <1>6, <2>2
    <3>2. Seal(c, y[0], options).value = y[0] /\ ~ Attempted(c, y[0])
      BY <1>6, <2>1, <3>1, DormantIsLeftAlone
    <3>3. y[k] = do[y[0]]
      BY <2>2 DEF DoneAt
    <3> QED
      BY <1>2, <1>6, <3>2, <3>3 DEF Sealing
  <2>3. \A k \in 1 .. n : y[k - 1] = y[0] => y[k] = y[0]
    BY <2>2 DEF DoneAt
  <2>4. \A k \in 0 .. n : y[k] = y[0]
    BY <2>3, StaysPut
  <2>5. places # {} => ~ Attempted(c, y[0])
    BY <1>2, <2>2, <2>4
  <2> QED
    BY <1>3, <2>3, <2>5
<1>7. CASE OptionsStatus(c, options) = "ok" /\ ring # NoRing
  <2>1. ASSUME NEW v \in FieldValue
        PROVE  do[v] \in FieldValue /\ undo[do[v]] = v
    <3>1. CASE IsNonemptyString(v)
      <4>1. v \in Str
        BY <3>1, ValueKinds DEF IsNonemptyString
      <4>2. Seal(c, v, options).status = "ok"
        BY <1>1, <1>7 DEF Seal, Ok, Outcome
      <4>3. Seal(c, v, options).value \in Str /\ undo[Seal(c, v, options).value] = v
        BY <1>7, <4>1, <4>2, SealedOpens
      <4>4. do[v] = Seal(c, v, options).value
        BY <3>1 DEF Sealing
      <4> QED
        BY <4>3, <4>4 DEF FieldValue
    <3>2. CASE ~ IsNonemptyString(v)
      <4>1. do[v] = v
        BY <3>2 DEF Sealing
      <4>2. undo[v] = v
        BY <3>2, NotAttempted DEF Attempted
      <4> QED
        BY <4>1, <4>2
    <3> QED
      BY <3>1, <3>2
  <2>2. do \in [FieldValue -> FieldValue]
    <3>1. do = [v \in FieldValue |-> do[v]]
      BY DEF Sealing
    <3> HIDE DEF do
    <3> QED
      BY <2>1, <3>1
  <2>3. undo \in [FieldValue -> FieldValue]
    BY SealingTypes
  <2>4. y[0] \in FieldValue
    BY <1>2
  <2> HIDE DEF do, undo
  <2> QED
    BY <2>1, <2>2, <2>3, <2>4, DoneAndUndone DEF do, undo
<1> QED
  BY <1>4, <1>5, <1>6, <1>7

(* What JSON fields may hold: no ciphertext.                               *)
JsonReady(v) == v \in FieldValue /\ (IsString(v) => v.layers = << >>)

(* A field that was stringified at some places, and is parsed at the same, *)
(* has its value again.                                                    *)
LEMMA JsonColumnReturns ==
  ASSUME JsonIsTotal, NEW m \in Nat, NEW places \in SUBSET (1 .. m),
         NEW x \in [0 .. m -> FieldValue], DoneAt(x, m, places, Stringifying),
         places # {} => JsonReady(x[0]),
         NEW w, w[0] = x[m], DoneAt(w, m, places, Parsing)
  PROVE  w[m] = x[0]
<1>1. 0 \in 0 .. m /\ m \in 0 .. m /\ \A k \in 1 .. m : k - 1 \in 0 .. m /\ k \in 0 .. m
  OBVIOUS
<1>2. CASE places = {}
  <2>1. x[m] = x[0]
    BY <1>1, <1>2, StaysPut DEF DoneAt
  <2>2. w[m] = w[0]
    BY <1>1, <1>2, StaysPut DEF DoneAt
  <2> QED
    BY <2>1, <2>2
<1>3. CASE places # {}
  <2> DEFINE V == {v \in FieldValue : JsonReady(v)}
             do == [v \in V |-> Stringifying[v]]
             undo == [v \in V |-> Parsing[v]]
  <2>1. ASSUME NEW v \in V
        PROVE  Stringifying[v] \in V /\ Parsing[Stringifying[v]] = v
    <3>1. CASE v = Null
      <4>1. Stringifying[v] = v /\ ~ IsString(v)
        BY <3>1 DEF Stringifying, IsString
      <4> QED
        BY <4>1 DEF Parsing, IsNonemptyString
    <3>2. CASE v # Null
      <4>1. Stringifying[v] = JsonText(v)
        BY <3>2 DEF Stringifying
      <4>2. JsonText(v) \in Str /\ JsonText(v) # EmptyStr /\ JsonText(v).layers = << >>
        BY <3>2, JsonTextType
      <4>3. JsonText(v) \in FieldValue /\ IsNonemptyString(JsonText(v))
        BY <4>2, ValueKinds DEF FieldValue, IsNonemptyString
      <4>4. JsonValue(JsonText(v)) = v
        BY <3>2, JsonUndone DEF JsonReady
      <4> QED
        BY <4>1, <4>2, <4>3, <4>4 DEF Parsing, JsonReady
    <3> QED
      BY <3>1, <3>2
  <2>2. ASSUME NEW v \in V
        PROVE  Parsing[v] \in V
    <3>1. CASE ~ IsNonemptyString(v)
      BY <3>1 DEF Parsing
    <3>2. CASE IsNonemptyString(v)
      <4>1. v \in Str /\ v.layers = << >> /\ Parsing[v] = JsonValue(v)
        BY <3>2, ValueKinds DEF Parsing, IsNonemptyString, JsonReady
      <4>2. JsonValue(v) \in FieldValue
        BY <4>1, JsonValueType
      <4>3. IsString(JsonValue(v)) => JsonValue(v).layers = << >>
        <5> DEFINE a == CHOOSE a \in DOMAIN Stringify : Stringify[a] = v.text
        <5>1. \/ JsonValue(v) = v
              \/ JsonValue(v) = a /\ a \in Thing
              \/ JsonValue(v) = Plain(a)
          BY DEF JsonValue
        <5> HIDE DEF a
        <5> QED
          BY <4>1, <5>1 DEF IsString, Plain
      <4> QED
        BY <4>1, <4>2, <4>3 DEF JsonReady
    <3> QED
      BY <3>1, <3>2
  <2>3. do \in [V -> V] /\ undo \in [V -> V] /\ \A v \in V : undo[do[v]] = v
    BY <2>1, <2>2
  <2>4. x[0] \in V
    BY <1>1, <1>3
  <2>5. \A k \in 0 .. m : x[k] \in V
    <3> DEFINE ready == {k \in 0 .. m : x[k] \in V}
    <3>1. 0 \in ready
      BY <1>1, <2>4
    <3>2. \A k \in 0 .. m - 1 : k \in ready => k + 1 \in ready
      <4> SUFFICES ASSUME NEW k \in 0 .. m - 1, k \in ready PROVE k + 1 \in ready
        OBVIOUS
      <4>1. k + 1 \in 1 .. m /\ (k + 1) - 1 = k /\ k + 1 \in 0 .. m /\ x[k] \in V
        OBVIOUS
      <4>2. x[k + 1] \in {Stringifying[x[k]], x[k]}
        BY <4>1 DEF DoneAt
      <4> QED
        BY <2>1, <4>1, <4>2
    <3> HIDE DEF ready
    <3>3. \A k \in 0 .. m : k \in ready
      BY <3>1, <3>2, EveryPlace
    <3> QED
      BY <3>3 DEF ready
  <2>6. DoneAt(x, m, places, do)
    BY <1>1, <2>5 DEF DoneAt
  <2>7. \A k \in 0 .. m : w[k] \in V
    <3> DEFINE ready == {k \in 0 .. m : w[k] \in V}
    <3>1. 0 \in ready
      BY <1>1, <2>5
    <3>2. \A k \in 0 .. m - 1 : k \in ready => k + 1 \in ready
      <4> SUFFICES ASSUME NEW k \in 0 .. m - 1, k \in ready PROVE k + 1 \in ready
        OBVIOUS
      <4>1. k + 1 \in 1 .. m /\ (k + 1) - 1 = k /\ k + 1 \in 0 .. m /\ w[k] \in V
        OBVIOUS
      <4>2. w[k + 1] \in {Parsing[w[k]], w[k]}
        BY <4>1 DEF DoneAt
      <4> QED
        BY <2>2, <4>1, <4>2
    <3> HIDE DEF ready
    <3>3. \A k \in 0 .. m : k \in ready
      BY <3>1, <3>2, EveryPlace
    <3> QED
      BY <3>3 DEF ready
  <2>8. DoneAt(w, m, places, undo)
    BY <1>1, <2>7 DEF DoneAt
  <2> HIDE DEF V, do, undo
  <2> QED
    BY <2>3, <2>4, <2>6, <2>8, DoneAndUndone
<1> QED
  BY <1>2, <1>3

LEMMA SealRowType ==
  ASSUME JsonIsTotal, NEW c, NEW id, NEW s, NEW ns, Arguments(c, id, s, ns),
         NEW row \in Row, NEW i \in InstanceType
  PROVE  SealRow(c, i, row, id, s, ns) \in SealWork
<1>1. PICK rows, work : SealRowSteps(c, id, s, ns, row, i, rows, work)
  BY SealRowRuns
<1>2. Len(AllFields(s)) \in 0 .. Len(AllFields(s))
  BY ListTypes DEF Arguments
<1> QED
  BY <1>1, <1>2 DEF SealRowSteps, SealRun

LEMMA UnsealRowType ==
  ASSUME NEW c, NEW id, NEW s, NEW ns, Arguments(c, id, s, ns),
         NEW row \in Row, NEW i \in InstanceType
  PROVE  /\ UnsealRowInternal(c, i, row, id, s, ns) \in UnsealWork
         /\ UnsealRow(c, i, row, id, s, ns) \in Row
<1>1. PICK work, rows : UnsealRowSteps(c, id, s, ns, row, i, work, rows)
  BY UnsealRowRuns
<1>2. /\ Len(AllFields(s)) \in 0 .. Len(AllFields(s))
      /\ Len(s.jsonFields) \in 0 .. Len(s.jsonFields)
  BY ListTypes DEF Arguments
<1>3. work[Len(AllFields(s))] \in UnsealWork /\ rows[Len(s.jsonFields)] \in Row
  BY <1>1, <1>2 DEF UnsealRowSteps, UnsealRun, ParseRun
<1>4. UnsealRowInternal(c, i, row, id, s, ns) \in UnsealWork
  BY <1>1, <1>3 DEF UnsealRowSteps, UnsealWork
<1> QED
  BY <1>4 DEF UnsealRow, UnsealWork

(* What a field is read as depends on its stored value alone: not on the   *)
(* other fields, nor on what the instance remembers.                       *)
LEMMA ReadByField ==
  ASSUME NEW c, NEW id, NEW s, NEW ns, Arguments(c, id, s, ns), NEW f \in Field,
         NEW row \in Row, NEW other \in Row, row[f] = other[f],
         NEW i \in InstanceType, NEW j \in InstanceType
  PROVE  UnsealRow(c, i, row, id, s, ns)[f] = UnsealRow(c, j, other, id, s, ns)[f]
<1> SUFFICES ASSUME NEW n, n = Len(AllFields(s)), NEW m, m = Len(s.jsonFields)
             PROVE  UnsealRow(c, i, row, id, s, ns)[f] = UnsealRow(c, j, other, id, s, ns)[f]
  OBVIOUS
<1>1. n \in Nat /\ n \in 0 .. n /\ 0 \in 0 .. n /\ m \in Nat /\ m \in 0 .. m /\ 0 \in 0 .. m
  BY ListTypes DEF Arguments
<1>2. PICK work, rows :
        /\ UnsealRun(c, id, s, ns, work)
        /\ work[0] = [row |-> row, failures |-> 0, attempts |-> 0, instance |-> i]
        /\ ParseRun(s, rows) /\ rows[0] = work[n].row
        /\ UnsealRowInternal(c, i, row, id, s, ns) = [work[n] EXCEPT !.row = rows[m]]
  <2>1. PICK work, rows : UnsealRowSteps(c, id, s, ns, row, i, work, rows)
    BY UnsealRowRuns
  <2> QED
    BY <2>1 DEF UnsealRowSteps
<1>3. PICK work2, rows2 :
        /\ UnsealRun(c, id, s, ns, work2)
        /\ work2[0] = [row |-> other, failures |-> 0, attempts |-> 0, instance |-> j]
        /\ ParseRun(s, rows2) /\ rows2[0] = work2[n].row
        /\ UnsealRowInternal(c, j, other, id, s, ns) = [work2[n] EXCEPT !.row = rows2[m]]
  <2>1. PICK work2, rows2 : UnsealRowSteps(c, id, s, ns, other, j, work2, rows2)
    BY UnsealRowRuns
  <2> QED
    BY <2>1 DEF UnsealRowSteps
<1>4. work[n].row[f] = work2[n].row[f]
  <2> DEFINE x == WorkColumn(work, n, f)
             y == WorkColumn(work2, n, f)
  <2>1. x[0] = y[0] /\ x[n] = work[n].row[f] /\ y[n] = work2[n].row[f]
    BY <1>1, <1>2, <1>3 DEF WorkColumn
  <2>2. /\ DoneAt(x, n, Places(AllFields(s), f), Opening(c, id, s, ns, f))
        /\ DoneAt(y, n, Places(AllFields(s), f), Opening(c, id, s, ns, f))
    BY <1>2, <1>3, OpenedByField
  <2> HIDE DEF x, y
  <2>3. x[n] = y[n]
    BY <1>1, <2>1, <2>2, DoneAlike
  <2> QED
    BY <2>1, <2>3
<1>5. rows[m][f] = rows2[m][f]
  <2> DEFINE x == Column(rows, m, f)
             y == Column(rows2, m, f)
  <2>1. x[0] = y[0] /\ x[m] = rows[m][f] /\ y[m] = rows2[m][f]
    BY <1>1, <1>2, <1>3, <1>4 DEF Column
  <2>2. /\ DoneAt(x, m, Places(s.jsonFields, f), Parsing)
        /\ DoneAt(y, m, Places(s.jsonFields, f), Parsing)
    BY <1>2, <1>3, ParsedByField DEF Arguments
  <2> HIDE DEF x, y
  <2>3. x[m] = y[m]
    BY <1>1, <2>1, <2>2, DoneAlike
  <2> QED
    BY <2>1, <2>3
<1>6. work[n] \in UnsealWork /\ work2[n] \in UnsealWork
  BY <1>1, <1>2, <1>3 DEF UnsealRun
<1>7. /\ UnsealRow(c, i, row, id, s, ns) = rows[m]
      /\ UnsealRow(c, j, other, id, s, ns) = rows2[m]
  BY <1>2, <1>3, <1>6 DEF UnsealRow, UnsealWork
<1> QED
  BY <1>5, <1>7

(* What sealRow made of a row, unsealRow makes into the row again, on any  *)
(* instance with the same configuration: sealed as strings or as JSON,     *)
(* listed once, twice or in both lists.                                    *)
THEOREM RowReturns ==
  ASSUME JsonIsTotal, NEW c, NEW id, NEW s, NEW ns, Arguments(c, id, s, ns),
         Constructible(c), NEW row \in Row,
         \A k \in DOMAIN s.jsonFields : JsonReady(row[s.jsonFields[k]]),
         NEW i \in InstanceType, NEW j \in InstanceType,
         SealRow(c, i, row, id, s, ns).status = "ok"
  PROVE  UnsealRow(c, j, SealRow(c, i, row, id, s, ns).row, id, s, ns) = row
<1> SUFFICES ASSUME NEW n, n = Len(AllFields(s)), NEW m, m = Len(s.jsonFields),
                    NEW stored, stored = SealRow(c, i, row, id, s, ns).row
             PROVE  UnsealRow(c, j, stored, id, s, ns) = row
  OBVIOUS
<1>1. /\ n \in Nat /\ n \in 0 .. n /\ 0 \in 0 .. n /\ m \in Nat /\ m \in 0 .. m /\ 0 \in 0 .. m
      /\ DOMAIN AllFields(s) = 1 .. n /\ DOMAIN s.jsonFields = 1 .. m /\ s \in FieldSpec
  BY ListTypes DEF Arguments
<1>2. PICK rows, work :
        /\ StringifyRun(s, rows) /\ rows[0] = row
        /\ SealRun(c, id, s, ns, work)
        /\ work[0] = [status |-> "ok", row |-> rows[m], instance |-> i]
        /\ SealRow(c, i, row, id, s, ns) = work[n]
  <2>1. PICK rows, work : SealRowSteps(c, id, s, ns, row, i, rows, work)
    BY SealRowRuns
  <2> QED
    BY <2>1 DEF SealRowSteps
<1>3. stored \in Row
  BY SealRowType DEF SealWork
<1>4. PICK work2, rows2 :
        /\ UnsealRun(c, id, s, ns, work2)
        /\ work2[0] = [row |-> stored, failures |-> 0, attempts |-> 0, instance |-> j]
        /\ ParseRun(s, rows2) /\ rows2[0] = work2[n].row
        /\ UnsealRowInternal(c, j, stored, id, s, ns) = [work2[n] EXCEPT !.row = rows2[m]]
  <2>1. PICK work2, rows2 : UnsealRowSteps(c, id, s, ns, stored, j, work2, rows2)
    BY <1>3, UnsealRowRuns
  <2> QED
    BY <2>1 DEF UnsealRowSteps
<1>5. ASSUME NEW f \in Field
      PROVE  rows2[m][f] = row[f]
  <2> SUFFICES ASSUME NEW x, x = Column(rows, m, f), NEW y, y = WorkColumn(work, n, f),
                      NEW z, z = WorkColumn(work2, n, f), NEW w, w = Column(rows2, m, f),
                      NEW listed, listed = Places(AllFields(s), f),
                      NEW json, json = Places(s.jsonFields, f)
               PROVE  rows2[m][f] = row[f]
    OBVIOUS
  <2>1. listed \in SUBSET (1 .. n) /\ json \in SUBSET (1 .. m)
    BY <1>1 DEF Places
  <2>2. x[0] = row[f] /\ y[0] = x[m] /\ z[0] = y[n] /\ w[0] = z[n] /\ w[m] = rows2[m][f]
    BY <1>1, <1>2, <1>4 DEF Column, WorkColumn
  <2>3. /\ y \in [0 .. n -> FieldValue] /\ DoneAt(y, n, listed, Sealing(c, id, s, ns, f))
        /\ \A k \in listed : IsNonemptyString(y[k - 1])
                             => Seal(c, y[k - 1], RowOptions(s, ns, f, id)).status = "ok"
    BY <1>2, SealedByField
  <2>4. DoneAt(z, n, listed, Opening(c, id, s, ns, f))
    BY <1>4, OpenedByField
  <2>5. z[n] = y[0]
    BY <1>1, <2>1, <2>2, <2>3, <2>4, ColumnReturns
  <2>6. x \in [0 .. m -> FieldValue] /\ DoneAt(x, m, json, Stringifying)
    BY <1>1, <1>2, StringifiedByField
  <2>7. DoneAt(w, m, json, Parsing)
    BY <1>1, <1>4, ParsedByField
  <2>8. json # {} => JsonReady(x[0])
    BY <2>2 DEF Places
  <2>9. w[0] = x[m]
    BY <2>2, <2>5
  <2>10. w[m] = x[0]
    BY <1>1, <2>1, <2>6, <2>7, <2>8, <2>9, JsonColumnReturns
  <2> QED
    BY <2>2, <2>10
<1>6. work2[n] \in UnsealWork /\ rows2[m] \in Row
  BY <1>1, <1>4 DEF UnsealRun, ParseRun
<1>7. UnsealRow(c, j, stored, id, s, ns) = rows2[m]
  BY <1>4, <1>6 DEF UnsealRow, UnsealWork
<1> QED
  BY <1>5, <1>6, <1>7 DEF Row

-----------------------------------------------------------------------------
(* Pages: row after row, with one instance.                                *)

TableArguments(c, s, ns) ==
  c \in Config /\ s \in FieldSpec /\ ns \in Namespace \cup {NoNamespace}

Entry == [id : RowId, row : Row]

PageWork == [rows : Seq(Entry), failures : Nat, attempts : Nat, instance : InstanceType]

PageStep(c, s, ns, work, entry) ==
  AddRow(work, entry.id,
         UnsealRowInternal(c, work.instance, entry.row, entry.id, s, ns))

PageRun(c, s, ns, entries, work) ==
  /\ work \in [0 .. Len(entries) -> PageWork]
  /\ \A k \in 1 .. Len(entries) : work[k] = PageStep(c, s, ns, work[k - 1], entries[k])

PageFold(c, s, ns, entries, base, f) ==
  f = [x \in SUBSET DOMAIN entries |->
         IF x = {} THEN base
         ELSE PageStep(c, s, ns, f[x \ {Max(x)}], entries[Max(x)])]

LEMMA PageStepType ==
  ASSUME NEW c, NEW s, NEW ns, TableArguments(c, s, ns),
         NEW work \in PageWork, NEW entry \in Entry
  PROVE  PageStep(c, s, ns, work, entry) \in PageWork
<1> SUFFICES ASSUME NEW one,
                    one = UnsealRowInternal(c, work.instance, entry.row, entry.id, s, ns)
             PROVE  AddRow(work, entry.id, one) \in PageWork
  BY DEF PageStep
<1>1. /\ work.instance \in InstanceType /\ work.rows \in Seq(Entry)
      /\ work.failures \in Nat /\ work.attempts \in Nat
      /\ entry.id \in RowId /\ entry.row \in Row
  BY DEF PageWork, Entry
<1>2. one \in UnsealWork
  <2>1. Arguments(c, entry.id, s, ns)
    BY <1>1 DEF TableArguments, Arguments
  <2> QED
    BY <1>1, <2>1, UnsealRowType
<1>3. /\ one.row \in Row /\ one.failures \in Nat /\ one.attempts \in Nat
      /\ one.instance \in InstanceType
  BY <1>2 DEF UnsealWork
<1>4. Append(work.rows, [id |-> entry.id, row |-> one.row]) \in Seq(Entry)
  <2>1. [id |-> entry.id, row |-> one.row] \in Entry
    BY <1>1, <1>3 DEF Entry
  <2> QED
    BY <1>1, <2>1
<1>5. work.failures + one.failures \in Nat /\ work.attempts + one.attempts \in Nat
  BY <1>1, <1>3
<1> QED
  BY <1>3, <1>4, <1>5 DEF AddRow, PageWork

LEMMA PageFoldRuns ==
  ASSUME NEW c, NEW s, NEW ns, TableArguments(c, s, ns),
         NEW entries \in Seq(Entry), NEW base \in PageWork
  PROVE  \E work : /\ PageRun(c, s, ns, entries, work) /\ work[0] = base
                   /\ work[Len(entries)]
                      = (CHOOSE f : PageFold(c, s, ns, entries, base, f))[DOMAIN entries]
<1> SUFFICES ASSUME NEW n, n = Len(entries),
                    NEW step, step = [p \in PageWork \X (1 .. n) |->
                                        PageStep(c, s, ns, p[1], entries[p[2]])],
                    NEW fold, fold = CHOOSE f : PageFold(c, s, ns, entries, base, f)
             PROVE  \E work : /\ PageRun(c, s, ns, entries, work) /\ work[0] = base
                              /\ work[n] = fold[DOMAIN entries]
  OBVIOUS
<1>1. /\ n \in Nat /\ DOMAIN entries = 1 .. n
      /\ \A i \in 1 .. n : entries[i] \in Entry
  OBVIOUS
<1>2. \A work \in PageWork, i \in 1 .. n :
        /\ PageStep(c, s, ns, work, entries[i]) \in PageWork
        /\ step[<<work, i>>] = PageStep(c, s, ns, work, entries[i])
  BY <1>1, PageStepType
<1>3. step \in [PageWork \X (1 .. n) -> PageWork]
  BY <1>2
<1>4. \A x \in SUBSET (1 .. n) :
        x # {} => Max(x) \in 1 .. n /\ x \ {Max(x)} \in SUBSET (1 .. n)
  BY <1>1, MaxOfPlaces
<1>5. ASSUME NEW f, Folds(f, n, PageWork, base, step), f \in [SUBSET (1 .. n) -> PageWork]
      PROVE  PageFold(c, s, ns, entries, base, f)
  <2>1. \A x \in SUBSET (1 .. n) :
          x # {} => f[x] = PageStep(c, s, ns, f[x \ {Max(x)}], entries[Max(x)])
    BY <1>2, <1>4, <1>5 DEF Folds
  <2>2. f = [x \in SUBSET (1 .. n) |-> f[x]]
    BY <1>5
  <2>3. f[{}] = base
    BY <1>5 DEF Folds
  <2> QED
    BY <1>1, <2>1, <2>2, <2>3 DEF PageFold
<1>6. PageFold(c, s, ns, entries, base, fold)
  <2>1. \E f \in [SUBSET (1 .. n) -> PageWork] : Folds(f, n, PageWork, base, step)
    BY <1>1, <1>3, FoldingEnds
  <2>2. \E f : PageFold(c, s, ns, entries, base, f)
    BY <1>5, <2>1
  <2> QED
    BY <2>2, Zenon
<1>7. Folds(fold, n, PageWork, base, step)
  <2>1. fold[{}] = base
    BY <1>6 DEF PageFold
  <2>2. ASSUME NEW x \in SUBSET (1 .. n), x # {}, fold[x \ {Max(x)}] \in PageWork
        PROVE  fold[x] = step[<<fold[x \ {Max(x)}], Max(x)>>]
    <3>1. fold[x] = PageStep(c, s, ns, fold[x \ {Max(x)}], entries[Max(x)])
      BY <1>1, <1>6, <2>2 DEF PageFold
    <3>2. Max(x) \in 1 .. n
      BY <1>4, <2>2
    <3> QED
      BY <1>2, <2>2, <3>1, <3>2
  <2> QED
    BY <2>1, <2>2 DEF Folds
<1>8. PICK work \in [0 .. n -> PageWork] :
        Stepwise(work, n, base, step) /\ fold[1 .. n] = work[n]
  <2>1. Chained(fold, n, PageWork, base, step)
    BY <1>1, <1>3, <1>7, FoldIsChain
  <2> QED
    BY <2>1 DEF Chained
<1>9. \A k \in 1 .. n : work[k] = PageStep(c, s, ns, work[k - 1], entries[k])
  <2>1. \A k \in 1 .. n : work[k - 1] \in PageWork
    BY <1>1, <1>8
  <2> QED
    BY <1>2, <1>8, <2>1 DEF Stepwise
<1>10. PageRun(c, s, ns, entries, work) /\ work[0] = base /\ work[n] = fold[DOMAIN entries]
  BY <1>1, <1>8, <1>9 DEF PageRun, Stepwise
<1> QED
  BY <1>10


(* What unsealRows returns: the rows of the page in order, each as         *)
(* unsealRow would return it, or none.                                     *)
PageAsRead(c, s, ns, entries, result) ==
  /\ result.status \in {"ok", "Systemic"} /\ result.instance \in InstanceType
  /\ result.rows \in Seq(Entry)
  /\ \A k \in DOMAIN result.rows :
       /\ k \in DOMAIN entries
       /\ result.rows[k].id = entries[k].id
       /\ result.rows[k].row
          = UnsealRow(c, NewInstance, entries[k].row, entries[k].id, s, ns)

LEMMA ReadAlike ==
  ASSUME NEW c, NEW id, NEW s, NEW ns, Arguments(c, id, s, ns), NEW row \in Row,
         NEW i \in InstanceType, NEW j \in InstanceType
  PROVE  UnsealRow(c, i, row, id, s, ns) = UnsealRow(c, j, row, id, s, ns)
<1>1. UnsealRow(c, i, row, id, s, ns) \in Row /\ UnsealRow(c, j, row, id, s, ns) \in Row
  BY UnsealRowType
<1>2. \A f \in Field :
        UnsealRow(c, i, row, id, s, ns)[f] = UnsealRow(c, j, row, id, s, ns)[f]
  BY ReadByField
<1> QED
  BY <1>1, <1>2 DEF Row

LEMMA NewInstanceType == NewInstance \in InstanceType
<1>1. << >> \in Seq(Warning)
  OBVIOUS
<1> QED
  BY <1>1 DEF NewInstance, InstanceType

(* The run of a page, and what is made of its end.                         *)
PageSteps(c, s, ns, entries, i, work) ==
  /\ PageRun(c, s, ns, entries, work)
  /\ work[0] = [rows |-> << >>, failures |-> 0, attempts |-> 0, instance |-> i]
  /\ UnsealRows(c, i, entries, s, ns) = Weigh(work[Len(entries)])

LEMMA UnsealRowsRuns ==
  ASSUME NEW c, NEW s, NEW ns, TableArguments(c, s, ns),
         NEW entries \in Seq(Entry), NEW i \in InstanceType
  PROVE  \E work : PageSteps(c, s, ns, entries, i, work)
<1> DEFINE base == [rows |-> << >>, failures |-> 0, attempts |-> 0, instance |-> i]
<1>1. base \in PageWork
  <2>1. << >> \in Seq(Entry)
    OBVIOUS
  <2> QED
    BY <2>1 DEF PageWork
<1>2. UnsealRows(c, i, entries, s, ns)
      = Weigh((CHOOSE f : PageFold(c, s, ns, entries, base, f))[DOMAIN entries])
  BY DEF UnsealRows, FoldLeft, MapThenFoldSet, PageFold, PageStep
<1> HIDE DEF base
<1>3. PICK work : /\ PageRun(c, s, ns, entries, work) /\ work[0] = base
                  /\ work[Len(entries)]
                     = (CHOOSE f : PageFold(c, s, ns, entries, base, f))[DOMAIN entries]
  BY <1>1, PageFoldRuns
<1> QED
  BY <1>2, <1>3 DEF base, PageSteps

LEMMA UnsealRowsReturns ==
  ASSUME NEW c, NEW s, NEW ns, TableArguments(c, s, ns),
         NEW entries \in Seq(Entry), NEW i \in InstanceType
  PROVE  PageAsRead(c, s, ns, entries, UnsealRows(c, i, entries, s, ns))
<1> DEFINE n == Len(entries)
<1>1. PICK work : PageSteps(c, s, ns, entries, i, work)
  BY UnsealRowsRuns
<1>2. /\ PageRun(c, s, ns, entries, work)
      /\ work[0] = [rows |-> << >>, failures |-> 0, attempts |-> 0, instance |-> i]
  BY <1>1 DEF PageSteps
<1>3. UnsealRows(c, i, entries, s, ns) = Weigh(work[n])
  BY <1>1 DEF PageSteps
<1> DEFINE Read(k) == UnsealRow(c, NewInstance, entries[k].row, entries[k].id, s, ns)
           read == {k \in 0 .. n : /\ Len(work[k].rows) = k
                                   /\ \A l \in 1 .. k : /\ work[k].rows[l].id = entries[l].id
                                                        /\ work[k].rows[l].row = Read(l)}
<1>4. n \in Nat /\ DOMAIN entries = 1 .. n /\ \A k \in 1 .. n : entries[k] \in Entry
  OBVIOUS
<1>5. \A k \in 0 .. n : work[k] \in PageWork
  BY <1>2 DEF PageRun
<1>6. 0 \in read
  BY <1>2, <1>4
<1>7. ASSUME NEW k \in 0 .. n - 1, k \in read
      PROVE  k + 1 \in read
  <2> DEFINE one == UnsealRowInternal(c, work[k].instance, entries[k + 1].row,
                                      entries[k + 1].id, s, ns)
             added == [id |-> entries[k + 1].id, row |-> one.row]
  <2>1. k + 1 \in 1 .. n /\ (k + 1) - 1 = k /\ k + 1 \in 0 .. n /\ k \in 0 .. n /\ k \in Nat
    BY <1>4
  <2>2. work[k + 1].rows = Append(work[k].rows, added)
    <3>1. work[k + 1] = PageStep(c, s, ns, work[k], entries[k + 1])
      BY <1>2, <2>1 DEF PageRun
    <3> QED
      BY <3>1 DEF PageStep, AddRow
  <2>3. /\ work[k].rows \in Seq(Entry) /\ Len(work[k].rows) = k
        /\ work[k].instance \in InstanceType
    BY <1>5, <1>7, <2>1 DEF PageWork
  <2>4. added.row = Read(k + 1)
    <3>1. entries[k + 1].row \in Row /\ entries[k + 1].id \in RowId
      BY <1>4, <2>1 DEF Entry
    <3>2. UnsealRow(c, work[k].instance, entries[k + 1].row, entries[k + 1].id, s, ns)
          = Read(k + 1)
      <4>1. Arguments(c, entries[k + 1].id, s, ns)
        BY <3>1 DEF TableArguments, Arguments
      <4> QED
        BY <2>3, <3>1, <4>1, NewInstanceType, ReadAlike
    <3> QED
      BY <3>2 DEF UnsealRow
  <2> HIDE DEF added, Read
  <2>5. /\ Len(Append(work[k].rows, added)) = k + 1
        /\ Append(work[k].rows, added)[k + 1] = added
        /\ \A l \in 1 .. k : Append(work[k].rows, added)[l] = work[k].rows[l]
    BY <2>1, <2>3
  <2>6. added.id = entries[k + 1].id
    BY DEF added
  <2>7. \A l \in 1 .. k + 1 : l \in 1 .. k \/ l = k + 1
    BY <2>1
  <2>8. \A l \in 1 .. k + 1 : /\ work[k + 1].rows[l].id = entries[l].id
                             /\ work[k + 1].rows[l].row = Read(l)
    BY <1>7, <2>2, <2>4, <2>5, <2>6, <2>7
  <2> QED
    BY <2>1, <2>2, <2>5, <2>8
<1>8. n \in read
  <2> HIDE DEF read, n
  <2>1. \A k \in 0 .. n - 1 : k \in read => k + 1 \in read
    BY <1>7
  <2>2. n \in 0 .. n
    BY <1>4
  <2> QED
    BY <1>4, <1>6, <2>1, <2>2, EveryPlace
<1>9. /\ work[n].rows \in Seq(Entry) /\ Len(work[n].rows) = n
      /\ work[n].instance \in InstanceType
      /\ \A l \in 1 .. n : work[n].rows[l].id = entries[l].id /\ work[n].rows[l].row = Read(l)
  BY <1>4, <1>5, <1>8 DEF PageWork
<1>10. << >> \in Seq(Entry) /\ DOMAIN << >> = {}
  OBVIOUS
<1> HIDE DEF Read
<1>11. CASE Systemic(work[n].failures, work[n].attempts)
  <2>1. Weigh(work[n]) = [status |-> "Systemic", rows |-> << >>,
                          instance |-> work[n].instance]
    BY <1>11 DEF Weigh
  <2> QED
    BY <1>3, <1>9, <1>10, <2>1 DEF PageAsRead
<1>12. CASE ~ Systemic(work[n].failures, work[n].attempts)
  <2>1. Weigh(work[n]) = [status |-> "ok", rows |-> work[n].rows,
                          instance |-> work[n].instance]
    BY <1>12 DEF Weigh
  <2>2. DOMAIN work[n].rows = 1 .. n
    BY <1>9
  <2> QED
    BY <1>3, <1>4, <1>9, <2>1, <2>2 DEF PageAsRead, Read
<1> QED
  BY <1>11, <1>12

-----------------------------------------------------------------------------
(* The invariant of a table and its pages.                                 *)

(* What a row reads as, whatever the instance remembers.                   *)
ReadNow(id) == UnsealRow(config, NewInstance, table[id], id, spec, TableNs)

(* The page shows the table as it is: whoever changes a row makes the      *)
(* application read again before it edits.                                 *)
PageStands ==
  /\ page.call = "unsealRow" => Len(page.rows) = 1
  /\ \A i \in DOMAIN page.rows :
       page.rows[i].id \in Present /\ page.rows[i].row = ReadNow(page.rows[i].id)

(* RowsRoundTrip, of any instance.                                         *)
Remembered ==
  \A id \in Present, f \in Field :
    <<id, f>> \notin touched => ReadNow(id)[f] = entered[id][f]

PagesInvariant == TypeOK /\ Constructible(config) /\ PageStands /\ Remembered

(* The table is one the helpers are called for.                            *)
LEMMA TableType ==
  ASSUME TypeOK
  PROVE  /\ TableArguments(config, spec, TableNs)
         /\ \A id \in RowId : Arguments(config, id, spec, TableNs)
         /\ \A id \in Present : id \in RowId /\ table[id] \in Row
         /\ Listed \subseteq Field
         /\ \A k \in DOMAIN spec.jsonFields : spec.jsonFields[k] \in Listed
<1>1. config \in Config /\ spec \in FieldSpec
  BY PagesAssumption DEF TypeOK
<1>2. spec.fields \in Seq(Field) /\ spec.jsonFields \in Seq(Field)
  BY <1>1 DEF FieldSpec
<1>3. Listed \subseteq Field /\ \A k \in DOMAIN spec.jsonFields : spec.jsonFields[k] \in Listed
  BY <1>2 DEF Listed
<1>4. \A id \in Present : id \in RowId /\ table[id] \in Row
  BY DEF TypeOK, Present
<1> QED
  BY <1>1, <1>3, <1>4, PagesAssumption DEF TableArguments, Arguments

LEMMA ReadNowType ==
  ASSUME TypeOK, NEW id \in Present
  PROVE  /\ ReadNow(id) \in Row
         /\ \A i \in InstanceType :
              UnsealRow(config, i, table[id], id, spec, TableNs) = ReadNow(id)
<1>1. Arguments(config, id, spec, TableNs) /\ table[id] \in Row
  BY TableType
<1> QED
  BY <1>1, NewInstanceType, UnsealRowType, ReadAlike DEF ReadNow

(* No page, of the right type.                                             *)
LEMMA NoPageType ==
  ASSUME page' = NoPage
  PROVE  /\ PageStands'
         /\ page' \in [call : {"none", "unsealRow", "unsealRows"}, query : Seq(RowId),
                       status : {"ok", "Systemic"}, rows : Seq([id : RowId, row : Row])]
<1>1. << >> \in Seq(RowId) /\ << >> \in Seq([id : RowId, row : Row]) /\ DOMAIN << >> = {}
  OBVIOUS
<1> QED
  BY <1>1 DEF NoPage, PageStands

LEMMA PagesInit == ASSUME JsonIsTotal PROVE Init => PagesInvariant
<1> SUFFICES ASSUME Init PROVE PagesInvariant
  OBVIOUS
<1>1. PICK setup \in Setups :
        Constructible(setup.config) /\ config = setup.config /\ spec = setup.spec
  BY DEF Init
<1>2. Present = {}
  BY DEF Init, Present
<1>3. config.mode \in {"strict", "dormant"}
  BY <1>1 DEF Constructible
<1>4. [config |-> config, spec |-> spec] \in Setups
  <2>1. setup = [config |-> setup.config, spec |-> setup.spec]
    BY PagesAssumption
  <2> QED
    BY <1>1, <2>1
<1>5. << >> \in Seq(RowId) /\ << >> \in Seq([id : RowId, row : Row]) /\ DOMAIN << >> = {}
  OBVIOUS
<1>6. TypeOK
  BY <1>3, <1>4, <1>5, NewInstanceType, PagesAssumption DEF Init, TypeOK, NoPage
<1>7. PageStands
  BY <1>5 DEF Init, PageStands, NoPage
<1> QED
  BY <1>1, <1>2, <1>6, <1>7 DEF PagesInvariant, Remembered

(* A row is written under an identity: it reads as it was, and all others  *)
(* as before.                                                              *)
RowReplaced(id, row) ==
  /\ table' \in [RowId -> Row \cup {Absent}]
  /\ ReadNow(id)' = row
  /\ \A other \in RowId \ {id} : table'[other] = table[other]
                                 /\ ReadNow(other)' = ReadNow(other)

(* A row the application may store: plaintext in the fields of the spec.   *)
ClearRow(row) == \A f \in Listed : IsString(row[f]) => row[f].layers = << >>

LEMMA WrittenReads ==
  ASSUME JsonIsTotal, PagesInvariant, UNCHANGED <<config, spec>>,
         NEW id \in RowId, NEW row \in Row,
         ClearRow(row), SealRow(config, instance, row, id, spec, TableNs).status = "ok",
         table' = [table EXCEPT ![id] =
                     SealRow(config, instance, row, id, spec, TableNs).row]
  PROVE  RowReplaced(id, row)
<1> DEFINE result == SealRow(config, instance, row, id, spec, TableNs)
<1>1. /\ TypeOK /\ Constructible(config) /\ Arguments(config, id, spec, TableNs)
      /\ instance \in InstanceType /\ table \in [RowId -> Row \cup {Absent}]
  BY TableType DEF PagesInvariant, TypeOK
<1>2. result.row \in Row
  BY <1>1, SealRowType DEF SealWork
<1>3. \A k \in DOMAIN spec.jsonFields : JsonReady(row[spec.jsonFields[k]])
  <2>1. \A k \in DOMAIN spec.jsonFields :
          spec.jsonFields[k] \in Listed /\ spec.jsonFields[k] \in Field
    BY <1>1, TableType
  <2> QED
    BY <2>1 DEF JsonReady, ClearRow, Row
<1>4. UnsealRow(config, NewInstance, result.row, id, spec, TableNs) = row
  BY <1>1, <1>3, NewInstanceType, RowReturns
<1> HIDE DEF result
<1>5. table' = [table EXCEPT ![id] = result.row]
  BY DEF result
<1> QED
  BY <1>1, <1>2, <1>4, <1>5 DEF RowReplaced, ReadNow

(* The history of what was written keeps its type.                         *)
LEMMA HistoryType ==
  ASSUME TypeOK, NEW id \in RowId, NEW row \in Row,
         written' = written \cup Slots(id, row)
  PROVE  written' \subseteq RowId \X Field \X FieldValue
<1>1. \A f \in Field : <<id, f, row[f]>> \in RowId \X Field \X FieldValue
  BY DEF Row
<1> QED
  BY <1>1 DEF TypeOK, Slots

LEMMA InsertKeeps ==
  ASSUME JsonIsTotal, PagesInvariant, NEW id \in RowId, NEW row \in Rows, Insert(id, row)
  PROVE  PagesInvariant'
<1> DEFINE result == SealRow(config, instance, row, id, spec, TableNs)
<1>1. /\ TypeOK /\ Constructible(config) /\ Remembered
      /\ UNCHANGED <<config, spec, touched, writes, copies, edits>>
      /\ instance' = result.instance /\ page' = NoPage /\ table[id] = Absent
      /\ row \in Row /\ \A f \in Field : IsString(row[f]) => row[f].layers = << >>
  BY PagesAssumption DEF PagesInvariant, Insert
<1>2. result \in SealWork
  BY <1>1, TableType, SealRowType DEF TypeOK
<1>3. instance' \in InstanceType
  BY <1>1, <1>2 DEF SealWork
<1>4. CASE result.status = "ok"
  <2>1. table' = [table EXCEPT ![id] = result.row] /\ entered' = [entered EXCEPT ![id] = row]
    BY <1>4 DEF Insert
  <2>2. RowReplaced(id, row)
    <3>1. ClearRow(row)
      BY <1>1, TableType DEF ClearRow
    <3> QED
      BY <1>1, <1>4, <2>1, <3>1, WrittenReads
  <2>3. entered' \in [RowId -> Row \cup {Absent}] /\ entered'[id] = row
        /\ \A other \in RowId \ {id} : entered'[other] = entered[other]
    BY <1>1, <2>1 DEF TypeOK
  <2>4. TypeOK'
    <3>1. written' \subseteq RowId \X Field \X FieldValue
      <4>1. written' = written \cup Slots(id, row)
        BY <1>4 DEF Insert
      <4> QED
        BY <1>1, <4>1, HistoryType
    <3> QED
      BY <1>1, <1>3, <2>2, <2>3, <3>1, NoPageType DEF TypeOK, RowReplaced
  <2>5. Remembered'
    BY <1>1, <2>2, <2>3 DEF Remembered, Present, RowReplaced
  <2> QED
    BY <1>1, <2>4, <2>5, NoPageType DEF PagesInvariant
<1>5. CASE result.status # "ok"
  <2>1. UNCHANGED <<table, entered, written>>
    BY <1>5 DEF Insert
  <2>2. TypeOK'
    BY <1>1, <1>3, <2>1, NoPageType DEF TypeOK
  <2>3. Remembered'
    BY <1>1, <2>1 DEF Remembered, Present, ReadNow
  <2> QED
    BY <1>1, <2>2, <2>3, NoPageType DEF PagesInvariant
<1> QED
  BY <1>4, <1>5

(* A page of rows that are there, read as they are.                        *)
LEMMA ServeKeeps ==
  ASSUME PagesInvariant, NEW call \in {"unsealRow", "unsealRows"},
         NEW query \in Seq(RowId), NEW status \in {"ok", "Systemic"},
         NEW rows \in Seq(Entry), NEW newInstance \in InstanceType,
         Serve(call, query, status, rows, newInstance),
         call = "unsealRow" => Len(rows) = 1,
         \A i \in DOMAIN rows :
           rows[i].id \in Present /\ rows[i].row = ReadNow(rows[i].id)
  PROVE  PagesInvariant'
<1>1. /\ TypeOK /\ Constructible(config) /\ Remembered
      /\ UNCHANGED <<config, spec, table, entered, written, touched, writes, copies, edits>>
      /\ instance' = newInstance
      /\ page' = [call |-> call, query |-> query, status |-> status, rows |-> rows]
  BY DEF PagesInvariant, Serve
<1>2. rows \in Seq([id : RowId, row : Row])
  BY DEF Entry
<1>3. TypeOK'
  BY <1>1, <1>2 DEF TypeOK
<1>4. Present' = Present /\ \A id : ReadNow(id)' = ReadNow(id)
  BY <1>1 DEF Present, ReadNow
<1>5. PageStands'
  BY <1>1, <1>4 DEF PageStands
<1>6. Remembered'
  BY <1>1, <1>4 DEF Remembered
<1> QED
  BY <1>1, <1>3, <1>5, <1>6 DEF PagesInvariant

LEMMA ServeRowKeeps ==
  ASSUME PagesInvariant, NEW id \in RowId, ServeRow(id)
  PROVE  PagesInvariant'
<1> DEFINE result == UnsealRowInternal(config, instance, table[id], id, spec, TableNs)
           rows == <<[id |-> id, row |-> result.row]>>
<1>1. TypeOK /\ instance \in InstanceType /\ id \in Present
  BY DEF PagesInvariant, TypeOK, ServeRow, Present
<1>2. result \in UnsealWork
  BY <1>1, TableType, UnsealRowType
<1>3. result.row = ReadNow(id)
  BY <1>1, ReadNowType DEF UnsealRow
<1>4. Serve("unsealRow", <<id>>, "ok", rows, result.instance)
  BY DEF ServeRow
<1> HIDE DEF result
<1>5. result.row \in Row /\ result.instance \in InstanceType
  BY <1>2 DEF UnsealWork
<1>6. [id |-> id, row |-> result.row] \in Entry
  BY <1>5 DEF Entry
<1>7. rows \in Seq(Entry) /\ <<id>> \in Seq(RowId)
  BY <1>6
<1>8. Len(rows) = 1 /\ \A i \in DOMAIN rows : rows[i].id = id /\ rows[i].row = result.row
  OBVIOUS
<1> HIDE DEF rows
<1> QED
  BY <1>1, <1>3, <1>4, <1>5, <1>7, <1>8, ServeKeeps

LEMMA ServePageKeeps ==
  ASSUME PagesInvariant, NEW query \in Queries, ServePage(query)
  PROVE  PagesInvariant'
<1> DEFINE entries == [i \in DOMAIN query |-> [id |-> query[i], row |-> table[query[i]]]]
           result == UnsealRows(config, instance, entries, spec, TableNs)
<1>1. /\ TypeOK /\ instance \in InstanceType /\ query \in Seq(RowId)
      /\ \A i \in DOMAIN query : query[i] \in Present /\ table[query[i]] \in Row
  BY TableType, PagesAssumption DEF PagesInvariant, TypeOK, ServePage
<1>2. entries \in Seq(Entry)
  <2>1. \A i \in DOMAIN query : [id |-> query[i], row |-> table[query[i]]] \in Entry
    BY <1>1 DEF Entry, Present
  <2>2. DOMAIN query = 1 .. Len(query) /\ Len(query) \in Nat
    BY <1>1
  <2> QED
    BY <2>1, <2>2
<1>3. PageAsRead(config, spec, TableNs, entries, result)
  <2>1. TableArguments(config, spec, TableNs)
    BY <1>1, TableType
  <2> HIDE DEF entries
  <2> QED
    BY <1>1, <1>2, <2>1, UnsealRowsReturns
<1>4. Serve("unsealRows", query, result.status, result.rows, result.instance)
  BY DEF ServePage
<1> HIDE DEF result
<1>5. \A i \in DOMAIN result.rows :
        result.rows[i].id \in Present /\ result.rows[i].row = ReadNow(result.rows[i].id)
  BY <1>1, <1>3 DEF PageAsRead, ReadNow
<1>6. /\ result.status \in {"ok", "Systemic"} /\ result.rows \in Seq(Entry)
      /\ result.instance \in InstanceType
  BY <1>3 DEF PageAsRead
<1> QED
  BY <1>1, <1>4, <1>5, <1>6, ServeKeeps

(* The application writes a row it has read back with a field of its own:  *)
(* what it read in the other fields is what it meant to be there.          *)
LEMMA EditKeeps ==
  ASSUME JsonIsTotal, PagesInvariant, NEW f \in Field, NEW value \in FieldValue, Edit(f, value)
  PROVE  PagesInvariant'
<1> SUFFICES ASSUME NEW id, id = page.rows[1].id,
                    NEW row, row = [page.rows[1].row EXCEPT ![f] = value],
                    NEW result, result = SealRow(config, instance, row, id, spec, TableNs)
             PROVE  PagesInvariant'
  OBVIOUS
<1>1. /\ TypeOK /\ Constructible(config) /\ Remembered
      /\ UNCHANGED <<config, spec, writes, copies>>
      /\ page.call = "unsealRow" /\ edits < MaxEdits /\ edits' = edits + 1
      /\ instance' = result.instance /\ page' = NoPage
      /\ \A g \in Listed : IsString(row[g]) => row[g].layers = << >>
  BY DEF PagesInvariant, Edit
<1>2. id \in Present /\ id \in RowId /\ page.rows[1].row = ReadNow(id)
  <2>1. 1 \in DOMAIN page.rows
    <3>1. page.rows \in Seq([id : RowId, row : Row]) /\ Len(page.rows) = 1
      BY <1>1 DEF PagesInvariant, PageStands, TypeOK
    <3> QED
      BY <3>1
  <2> QED
    BY <2>1 DEF PagesInvariant, PageStands, Present
<1>3. ReadNow(id) \in Row /\ row \in Row
      /\ \A g \in Field : row[g] = IF g = f THEN value ELSE ReadNow(id)[g]
  <2>1. ReadNow(id) \in Row
    BY <1>1, <1>2, ReadNowType
  <2> QED
    BY <1>2, <2>1 DEF Row
<1>4. result \in SealWork
  BY <1>1, <1>2, <1>3, TableType, SealRowType DEF TypeOK
<1>5. instance' \in InstanceType
  BY <1>1, <1>4 DEF SealWork
<1>6. edits' \in 0 .. MaxEdits
  BY <1>1, PagesAssumption DEF TypeOK
<1>7. CASE result.status = "ok"
  <2> DEFINE meant == [g \in Field |-> IF g # f /\ <<id, g>> \notin touched
                                       THEN entered[id][g] ELSE row[g]]
  <2>1. /\ table' = [table EXCEPT ![id] = result.row]
        /\ entered' = [entered EXCEPT ![id] = meant]
        /\ touched' = touched \ ({id} \X Field)
    BY <1>7 DEF Edit
  <2>2. meant = row
    <3>1. \A g \in Field : meant[g] = row[g]
      BY <1>1, <1>2, <1>3 DEF Remembered
    <3>2. row = [g \in Field |-> row[g]]
      BY <1>3 DEF Row
    <3> QED
      BY <3>1, <3>2
  <2> HIDE DEF meant
  <2>3. RowReplaced(id, row)
    <3>1. UNCHANGED <<config, spec>> /\ id \in RowId /\ row \in Row /\ ClearRow(row)
      BY <1>1, <1>2, <1>3 DEF ClearRow
    <3>2. /\ SealRow(config, instance, row, id, spec, TableNs).status = "ok"
          /\ table' = [table EXCEPT ![id] =
                         SealRow(config, instance, row, id, spec, TableNs).row]
      BY <1>7, <2>1
    <3> QED
      BY <3>1, <3>2, WrittenReads
  <2>4. entered' \in [RowId -> Row \cup {Absent}] /\ entered'[id] = row
        /\ \A other \in RowId \ {id} : entered'[other] = entered[other]
    BY <1>1, <1>2, <1>3, <2>1, <2>2 DEF TypeOK
  <2>5. touched' \subseteq RowId \X Field
        /\ \A other \in RowId \ {id}, g \in Field :
             <<other, g>> \notin touched' => <<other, g>> \notin touched
    BY <1>1, <2>1 DEF TypeOK
  <2>6. TypeOK'
    <3>1. written' \subseteq RowId \X Field \X FieldValue
      <4>1. written' = written \cup Slots(id, row)
        BY <1>7 DEF Edit
      <4> QED
        BY <1>1, <1>2, <1>3, <4>1, HistoryType
    <3> QED
      BY <1>1, <1>5, <1>6, <2>3, <2>4, <2>5, <3>1, NoPageType DEF TypeOK, RowReplaced
  <2>7. Remembered'
    BY <1>1, <2>3, <2>4, <2>5 DEF Remembered, Present, RowReplaced
  <2> QED
    BY <1>1, <2>6, <2>7, NoPageType DEF PagesInvariant
<1>8. CASE result.status # "ok"
  <2>1. UNCHANGED <<table, entered, written, touched>>
    BY <1>8 DEF Edit
  <2>2. TypeOK'
    BY <1>1, <1>5, <1>6, <2>1, NoPageType DEF TypeOK
  <2>3. Remembered'
    BY <1>1, <2>1 DEF Remembered, Present, ReadNow
  <2> QED
    BY <1>1, <2>2, <2>3, NoPageType DEF PagesInvariant
<1> QED
  BY <1>7, <1>8

(* Others write a field: the rest of the row reads as before.              *)
LEMMA AroundKeeps ==
  ASSUME PagesInvariant, NEW id \in RowId, NEW f \in Field, NEW value \in FieldValue,
         Around(id, f, value), writes' \in 0 .. MaxWrites, copies' \in 0 .. MaxCopies
  PROVE  PagesInvariant'
<1>1. /\ TypeOK /\ Constructible(config) /\ Remembered
      /\ UNCHANGED <<config, spec, instance, entered, written, edits>>
      /\ table[id] # Absent /\ table' = [table EXCEPT ![id][f] = value]
      /\ touched' = touched \cup {<<id, f>>} /\ page' = NoPage
  BY DEF PagesInvariant, Around
<1>2. id \in Present /\ table[id] \in Row /\ table \in [RowId -> Row \cup {Absent}]
  BY <1>1 DEF Present, TypeOK
<1>3. [table[id] EXCEPT ![f] = value] \in Row
  BY <1>2 DEF Row
<1>4. /\ table' \in [RowId -> Row \cup {Absent}] /\ table'[id] \in Row
      /\ \A g \in Field \ {f} : table'[id][g] = table[id][g]
      /\ \A other \in RowId \ {id} : table'[other] = table[other]
  <2>1. table' = [table EXCEPT ![id] = [table[id] EXCEPT ![f] = value]]
    BY <1>1
  <2>2. \A g \in Field \ {f} : [table[id] EXCEPT ![f] = value][g] = table[id][g]
    BY <1>2 DEF Row
  <2> QED
    BY <1>2, <1>3, <2>1, <2>2
<1>5. \A g \in Field \ {f} : ReadNow(id)'[g] = ReadNow(id)[g]
  <2> SUFFICES ASSUME NEW g \in Field \ {f} PROVE ReadNow(id)'[g] = ReadNow(id)[g]
    OBVIOUS
  <2>1. Arguments(config, id, spec, TableNs) /\ table'[id][g] = table[id][g]
    BY <1>1, <1>4, TableType
  <2>2. UnsealRow(config, NewInstance, table'[id], id, spec, TableNs)[g]
        = UnsealRow(config, NewInstance, table[id], id, spec, TableNs)[g]
    BY <1>2, <1>4, <2>1, NewInstanceType, ReadByField
  <2> QED
    BY <1>1, <2>2 DEF ReadNow
<1>6. \A other \in RowId \ {id} : ReadNow(other)' = ReadNow(other)
  BY <1>1, <1>4 DEF ReadNow
<1>7. touched' \subseteq RowId \X Field
  BY <1>1 DEF TypeOK
<1>8. TypeOK'
  BY <1>1, <1>4, <1>7, NoPageType DEF TypeOK
<1>9. Remembered'
  <2> SUFFICES ASSUME NEW other \in Present', NEW g \in Field, <<other, g>> \notin touched'
               PROVE  ReadNow(other)'[g] = entered'[other][g]
    BY DEF Remembered
  <2>1. <<other, g>> \notin touched /\ <<other, g>> # <<id, f>>
    BY <1>1
  <2>2. other \in Present
    BY <1>2, <1>4 DEF Present
  <2>3. ReadNow(other)'[g] = ReadNow(other)[g]
    <3>1. CASE other = id
      BY <1>5, <2>1, <3>1
    <3>2. CASE other # id
      BY <1>6, <2>2, <3>2 DEF Present
    <3> QED
      BY <3>1, <3>2
  <2> QED
    BY <1>1, <2>1, <2>2, <2>3 DEF Remembered
<1> QED
  BY <1>1, <1>8, <1>9, NoPageType DEF PagesInvariant

LEMMA RestartKeeps ==
  ASSUME PagesInvariant, Restart
  PROVE  PagesInvariant'
<1>1. /\ TypeOK /\ Constructible(config) /\ Remembered
      /\ UNCHANGED <<config, spec, table, entered, written, touched, writes, copies, edits>>
      /\ instance' = NewInstance /\ page' = NoPage
  BY DEF PagesInvariant, Restart
<1>2. TypeOK'
  BY <1>1, NoPageType, NewInstanceType DEF TypeOK
<1>3. Remembered'
  BY <1>1 DEF Remembered, Present, ReadNow
<1> QED
  BY <1>1, <1>2, <1>3, NoPageType DEF PagesInvariant

LEMMA PagesNext ==
  ASSUME JsonIsTotal, PagesInvariant, [Next]_vars
  PROVE  PagesInvariant'
<1>1. TypeOK /\ Listed \subseteq Field
  BY TableType DEF PagesInvariant
<1>2. ASSUME NEW id \in RowId, NEW row \in Rows, Insert(id, row)
      PROVE  PagesInvariant'
  BY <1>2, InsertKeeps
<1>3. ASSUME NEW id \in RowId, ServeRow(id)
      PROVE  PagesInvariant'
  BY <1>3, ServeRowKeeps
<1>4. ASSUME NEW query \in Queries, ServePage(query)
      PROVE  PagesInvariant'
  BY <1>4, ServePageKeeps
<1>5. ASSUME NEW edit \in Edits, Edit(edit[1], edit[2])
      PROVE  PagesInvariant'
  BY <1>5, EditKeeps, PagesAssumption
<1>6. CASE Restart
  BY <1>6, RestartKeeps
<1>7. ASSUME NEW id \in RowId, NEW f \in Listed, NEW value \in Foreign,
             WriteAround(id, f, value)
      PROVE  PagesInvariant'
  <2>1. /\ f \in Field /\ value \in FieldValue /\ Around(id, f, value)
        /\ writes < MaxWrites /\ writes' = writes + 1 /\ copies' = copies
    BY <1>1, <1>7, PagesAssumption DEF WriteAround
  <2>2. writes' \in 0 .. MaxWrites /\ copies' \in 0 .. MaxCopies
    BY <1>1, <2>1, PagesAssumption DEF TypeOK
  <2> QED
    BY <2>1, <2>2, AroundKeeps
<1>8. ASSUME NEW from \in RowId, NEW to \in RowId, NEW f \in Listed, NEW g \in Listed,
             CopyAround(from, f, to, g)
      PROVE  PagesInvariant'
  <2>1. /\ f \in Field /\ g \in Field /\ Around(to, g, table[from][f])
        /\ table[from] # Absent
        /\ copies < MaxCopies /\ copies' = copies + 1 /\ writes' = writes
    BY <1>1, <1>8 DEF CopyAround
  <2>2. writes' \in 0 .. MaxWrites /\ copies' \in 0 .. MaxCopies
    BY <1>1, <2>1, PagesAssumption DEF TypeOK
  <2>3. table[from][f] \in FieldValue
    BY <1>1, <2>1 DEF TypeOK, Row
  <2> QED
    BY <2>1, <2>2, <2>3, AroundKeeps
<1>9. CASE UNCHANGED vars
  BY <1>9 DEF vars, PagesInvariant, TypeOK, PageStands, Remembered, Present, ReadNow
<1> QED
  BY <1>2, <1>3, <1>4, <1>5, <1>6, <1>7, <1>8, <1>9 DEF Next

(* The invariant holds for any number of rows, fields, writers and edits.  *)
THEOREM PagesKeepInvariant == ASSUME JsonIsTotal PROVE Spec => []PagesInvariant
<1>1. Init => PagesInvariant
  BY PagesInit
<1>2. PagesInvariant /\ [Next]_vars => PagesInvariant'
  BY PagesNext
<1> QED
  BY <1>1, <1>2, PTL DEF Spec

(* Every variable keeps its type.                                          *)
THEOREM PagesTypes == ASSUME JsonIsTotal PROVE Spec => []TypeOK
<1>1. PagesInvariant => TypeOK
  BY DEF PagesInvariant
<1> QED
  BY <1>1, PagesKeepInvariant, PTL

(* A field nobody else touched reads as the application left it, after any *)
(* edits of the rest of its row, whatever others did to that rest.         *)
THEOREM RowsSurvive == ASSUME JsonIsTotal PROVE Spec => []RowsRoundTrip
<1>1. PagesInvariant => RowsRoundTrip
  <2> SUFFICES ASSUME PagesInvariant, NEW id \in Present, NEW f \in Field,
                      <<id, f>> \notin touched
               PROVE  UnsealRow(config, instance, table[id], id, spec, TableNs)[f]
                      = entered[id][f]
    BY DEF RowsRoundTrip
  <2>1. UnsealRow(config, instance, table[id], id, spec, TableNs) = ReadNow(id)
    BY ReadNowType DEF PagesInvariant, TypeOK
  <2> QED
    BY <2>1 DEF PagesInvariant, Remembered
<1> QED
  BY <1>1, PagesKeepInvariant, PTL

-----------------------------------------------------------------------------
(* No ciphertext is shown.                                                 *)

ClearValue(v) == IsString(v) => v.layers = << >>

(* Nothing but text, or text under one layer of a kind that is recognised. *)
Readable(c, v) ==
  \/ ClearValue(v)
  \/ Tail(v.layers) = << >> /\ (LooksSealed(v) \/ MatchesLegacy(v, c.legacy))

(* With a ring that fails closed, opening what is readable leaves no layer. *)
LEMMA OpensClear ==
  ASSUME NEW c, NEW id, NEW s, NEW ns, Arguments(c, id, s, ns), NEW f \in Field,
         RingOf(c, NsOf(c, ns)) # NoRing, c.onUnknownVersion = "throw",
         NEW v \in FieldValue, Readable(c, v)
  PROVE  ClearValue(Opening(c, id, s, ns, f)[v])
<1> SUFFICES ASSUME NEW options, options = RowOptions(s, ns, f, id)
             PROVE  ClearValue(Opening(c, id, s, ns, f)[v])
  OBVIOUS
<1>1. c \in Config /\ options \in SealOptions /\ ResolveNs(c, options) = NsOf(c, ns)
  BY RowOptionsType DEF Arguments
<1>2. CASE ~ Attempted(c, v)
  <2>1. Opening(c, id, s, ns, f)[v] = v
    BY <1>2, NotAttempted
  <2>2. ClearValue(v)
    <3>1. IsNonemptyString(v) => v.layers = << >>
      BY <1>2 DEF Attempted, Readable, ClearValue, IsNonemptyString
    <3> QED
      BY <3>1 DEF ClearValue, IsNonemptyString, EmptyStr, Plain
  <2> QED
    BY <2>1, <2>2
<1>3. CASE Attempted(c, v) /\ Unseal(c, v, options).status # "ok"
  <2>1. Opening(c, id, s, ns, f)[v] = Null
    BY <1>3 DEF Opening
  <2> QED
    BY <2>1 DEF ClearValue, IsString
<1>4. CASE Attempted(c, v) /\ Unseal(c, v, options).status = "ok"
  <2> DEFINE opened == Unseal(c, v, options).value
  <2>1. Opening(c, id, s, ns, f)[v] = opened
    BY <1>4 DEF Opening
  <2>2. v \in Str /\ IsString(v)
    BY <1>4, ValueKinds DEF Attempted, IsNonemptyString
  <2>3. UnsealedAs(c, v, options, RingOf(c, NsOf(c, ns)), Unseal(c, v, options))
    BY <1>1, <1>4, <2>2, UnsealReturns
  <2>4. CASE opened = v
    <3>1. CASE v.layers = << >>
      BY <2>1, <2>4, <3>1 DEF ClearValue
    <3>2. CASE v.layers # << >>
      <4>1. LooksSealed(v) \/ MatchesLegacy(v, c.legacy)
        BY <2>2, <3>2 DEF Readable, ClearValue
      <4>2. LooksSealed(v) => ParseToken(v)
        BY DEF LooksSealed, ParseToken
      <4>3. v # Unwrap(v)
        BY <2>2, <3>2, UnwrapDiffers
      <4> QED
        BY <2>3, <2>4, <4>1, <4>2, <4>3 DEF UnsealedAs
    <3> QED
      BY <3>1, <3>2
  <2>5. CASE opened # v
    <3>1. v.layers # << >> /\ opened = Unwrap(v)
      BY <2>3, <2>5 DEF UnsealedAs
    <3>2. Tail(v.layers) = << >>
      BY <2>2, <3>1 DEF Readable, ClearValue
    <3> QED
      BY <2>1, <3>1, <3>2 DEF ClearValue, Unwrap
  <2> QED
    BY <2>4, <2>5
<1> QED
  BY <1>2, <1>3, <1>4

(* Parsing adds no layer.                                                  *)
LEMMA ParsesClear ==
  ASSUME NEW v \in FieldValue, ClearValue(v)
  PROVE  ClearValue(Parsing[v])
<1>1. CASE ~ IsNonemptyString(v)
  BY <1>1 DEF Parsing
<1>2. CASE IsNonemptyString(v)
  <2> DEFINE a == CHOOSE a \in DOMAIN Stringify : Stringify[a] = v.text
  <2>1. Parsing[v] = JsonValue(v) /\ v.layers = << >>
    BY <1>2 DEF Parsing, ClearValue, IsNonemptyString
  <2>2. \/ JsonValue(v) = v
        \/ JsonValue(v) = a /\ a \in Thing
        \/ JsonValue(v) = Plain(a)
    BY DEF JsonValue
  <2> HIDE DEF a
  <2> QED
    BY <2>1, <2>2 DEF ClearValue, IsString, Plain
<1> QED
  BY <1>1, <1>2

(* What starts in a set that no step leaves stays there.                   *)
LEMMA StaysWithin ==
  ASSUME NEW n \in Nat, NEW x, NEW S, NEW start \in 0 .. n, x[start] \in S,
         \A k \in start + 1 .. n : x[k - 1] \in S => x[k] \in S
  PROVE  \A k \in start .. n : x[k] \in S
<1> DEFINE within == {k \in 0 .. n : k >= start => x[k] \in S}
<1>1. 0 \in within
  OBVIOUS
<1>2. \A k \in 0 .. n - 1 : k \in within => k + 1 \in within
  <2> SUFFICES ASSUME NEW k \in 0 .. n - 1, k \in within, k + 1 >= start
               PROVE  x[k + 1] \in S
    OBVIOUS
  <2>1. CASE k >= start
    <3>1. k + 1 \in start + 1 .. n /\ (k + 1) - 1 = k
      BY <2>1
    <3> QED
      BY <2>1, <3>1
  <2>2. CASE ~ (k >= start)
    <3>1. k + 1 = start
      BY <2>2
    <3> QED
      BY <3>1
  <2> QED
    BY <2>1, <2>2
<1> HIDE DEF within
<1>3. \A k \in 0 .. n : k \in within
  BY <1>1, <1>2, EveryPlace
<1>4. \A k \in start .. n : k \in 0 .. n /\ k >= start
  OBVIOUS
<1> QED
  BY <1>3, <1>4 DEF within

(* A listed field of a row with readable values is read in the clear.      *)
LEMMA ReadsClear ==
  ASSUME NEW c, NEW id, NEW s, NEW ns, Arguments(c, id, s, ns),
         RingOf(c, NsOf(c, ns)) # NoRing, c.onUnknownVersion = "throw",
         NEW f \in Field, Places(AllFields(s), f) # {},
         NEW row \in Row, Readable(c, row[f]), NEW i \in InstanceType
  PROVE  ClearValue(UnsealRow(c, i, row, id, s, ns)[f])
<1> SUFFICES ASSUME NEW n, n = Len(AllFields(s)), NEW m, m = Len(s.jsonFields)
             PROVE  ClearValue(UnsealRow(c, i, row, id, s, ns)[f])
  OBVIOUS
<1>1. /\ n \in Nat /\ n \in 0 .. n /\ 0 \in 0 .. n /\ m \in Nat /\ m \in 0 .. m /\ 0 \in 0 .. m
      /\ DOMAIN AllFields(s) = 1 .. n
  BY ListTypes DEF Arguments
<1>2. PICK work, rows :
        /\ UnsealRun(c, id, s, ns, work)
        /\ work[0] = [row |-> row, failures |-> 0, attempts |-> 0, instance |-> i]
        /\ ParseRun(s, rows) /\ rows[0] = work[n].row
        /\ UnsealRowInternal(c, i, row, id, s, ns) = [work[n] EXCEPT !.row = rows[m]]
  <2>1. PICK work, rows : UnsealRowSteps(c, id, s, ns, row, i, work, rows)
    BY UnsealRowRuns
  <2> QED
    BY <2>1 DEF UnsealRowSteps
<1> DEFINE clear == {v \in FieldValue : ClearValue(v)}
           readable == {v \in FieldValue : Readable(c, v)}
           opening == Opening(c, id, s, ns, f)
<1>3. \A v \in readable : opening[v] \in clear /\ opening[v] \in readable
  BY OpensClear, SealingTypes DEF Readable
<1>4. \A v \in clear : v \in readable /\ Parsing[v] \in clear
  <2>1. ASSUME NEW v \in clear PROVE Parsing[v] \in FieldValue
    BY <2>1, JsonValueType, ValueKinds DEF Parsing, IsNonemptyString
  <2> QED
    BY <2>1, ParsesClear DEF Readable
<1> HIDE DEF clear, readable, opening
<1>5. work[n].row[f] \in clear
  <2> SUFFICES ASSUME NEW z, z = WorkColumn(work, n, f),
                      NEW listed, listed = Places(AllFields(s), f)
               PROVE  work[n].row[f] \in clear
    OBVIOUS
  <2>1. PICK first \in listed : TRUE
    OBVIOUS
  <2>2. first \in 1 .. n /\ first \in 0 .. n /\ first - 1 \in 0 .. n
    BY <1>1, <2>1 DEF Places
  <2>3. DoneAt(z, n, listed, opening)
    BY <1>2, OpenedByField DEF opening
  <2>4. z[0] \in readable /\ z[n] = work[n].row[f]
    BY <1>1, <1>2 DEF WorkColumn, readable, Row
  <2>5. \A k \in 0 .. n : z[k] \in readable
    <3>1. \A k \in 0 + 1 .. n : z[k - 1] \in readable => z[k] \in readable
      BY <1>3, <2>3 DEF DoneAt
    <3> QED
      BY <1>1, <2>4, <3>1, StaysWithin
  <2>6. z[first] \in clear
    BY <1>3, <2>1, <2>2, <2>3, <2>5 DEF DoneAt
  <2>7. \A k \in first + 1 .. n : z[k - 1] \in clear => z[k] \in clear
    <3> SUFFICES ASSUME NEW k \in first + 1 .. n, z[k - 1] \in clear PROVE z[k] \in clear
      OBVIOUS
    <3>1. k \in 1 .. n
      BY <2>2
    <3> QED
      BY <1>3, <1>4, <2>3, <3>1 DEF DoneAt
  <2>8. \A k \in first .. n : z[k] \in clear
    BY <1>1, <2>2, <2>6, <2>7, StaysWithin
  <2> QED
    BY <1>1, <2>2, <2>4, <2>8
<1>6. rows[m][f] \in clear
  <2> SUFFICES ASSUME NEW w, w = Column(rows, m, f), NEW json, json = Places(s.jsonFields, f)
               PROVE  rows[m][f] \in clear
    OBVIOUS
  <2>1. DoneAt(w, m, json, Parsing)
    BY <1>2, ParsedByField DEF Arguments
  <2>2. w[0] \in clear /\ w[m] = rows[m][f]
    BY <1>1, <1>2, <1>5 DEF Column
  <2>3. \A k \in 0 + 1 .. m : w[k - 1] \in clear => w[k] \in clear
    BY <1>4, <2>1 DEF DoneAt
  <2>4. \A k \in 0 .. m : w[k] \in clear
    BY <1>1, <2>2, <2>3, StaysWithin
  <2> QED
    BY <1>1, <2>2, <2>4
<1>7. UnsealRow(c, i, row, id, s, ns) = rows[m]
  <2>1. work[n] \in UnsealWork
    BY <1>1, <1>2 DEF UnsealRun
  <2> QED
    BY <1>2, <2>1 DEF UnsealRow, UnsealWork
<1> QED
  BY <1>6, <1>7 DEF clear

(* A field listed at most once, and written in the clear, is stored under  *)
(* one layer at most.                                                      *)
LEMMA SealsOnce ==
  ASSUME JsonIsTotal, NEW c, NEW id, NEW s, NEW ns, Arguments(c, id, s, ns),
         Constructible(c), RingOf(c, NsOf(c, ns)) # NoRing,
         NEW f \in Field, \A k, l \in Places(AllFields(s), f) : k = l,
         NEW row \in Row, ClearValue(row[f]), NEW i \in InstanceType,
         SealRow(c, i, row, id, s, ns).status = "ok"
  PROVE  Readable(c, SealRow(c, i, row, id, s, ns).row[f])
<1> SUFFICES ASSUME NEW n, n = Len(AllFields(s)), NEW m, m = Len(s.jsonFields)
             PROVE  Readable(c, SealRow(c, i, row, id, s, ns).row[f])
  OBVIOUS
<1>1. /\ n \in Nat /\ n \in 0 .. n /\ 0 \in 0 .. n /\ m \in Nat /\ m \in 0 .. m /\ 0 \in 0 .. m
      /\ DOMAIN AllFields(s) = 1 .. n /\ DOMAIN s.jsonFields = 1 .. m /\ s \in FieldSpec
  BY ListTypes DEF Arguments
<1>2. PICK rows, work :
        /\ StringifyRun(s, rows) /\ rows[0] = row
        /\ SealRun(c, id, s, ns, work)
        /\ work[0] = [status |-> "ok", row |-> rows[m], instance |-> i]
        /\ SealRow(c, i, row, id, s, ns) = work[n]
  <2>1. PICK rows, work : SealRowSteps(c, id, s, ns, row, i, rows, work)
    BY SealRowRuns
  <2> QED
    BY <2>1 DEF SealRowSteps
<1> DEFINE clear == {v \in FieldValue : ClearValue(v)}
           once == {v \in FieldValue : Readable(c, v)}
<1>3. rows[m][f] \in clear
  <2> SUFFICES ASSUME NEW x, x = Column(rows, m, f)
               PROVE  rows[m][f] \in clear
    OBVIOUS
  <2>1. DoneAt(x, m, Places(s.jsonFields, f), Stringifying)
    BY <1>1, <1>2, StringifiedByField
  <2>2. x[0] \in clear /\ x[m] = rows[m][f]
    BY <1>1, <1>2 DEF Column, Row
  <2>3. \A v \in clear : Stringifying[v] \in clear
    BY JsonTextType DEF Stringifying, ClearValue, FieldValue
  <2> HIDE DEF clear
  <2>4. \A k \in 0 + 1 .. m : x[k - 1] \in clear => x[k] \in clear
    <3> SUFFICES ASSUME NEW k \in 0 + 1 .. m, x[k - 1] \in clear PROVE x[k] \in clear
      OBVIOUS
    <3>1. x[k] \in {Stringifying[x[k - 1]], x[k - 1]}
      BY <2>1 DEF DoneAt
    <3> QED
      BY <2>3, <3>1
  <2>5. \A k \in 0 .. m : x[k] \in clear
    BY <1>1, <2>2, <2>4, StaysWithin
  <2> QED
    BY <1>1, <2>2, <2>5
<1> SUFFICES ASSUME NEW y, y = WorkColumn(work, n, f),
                    NEW listed, listed = Places(AllFields(s), f)
             PROVE  y[n] \in once
  <2>1. WorkColumn(work, n, f)[n] = work[n].row[f]
    BY <1>1 DEF WorkColumn
  <2> QED
    BY <1>2, <2>1
<1>4. /\ y \in [0 .. n -> FieldValue] /\ DoneAt(y, n, listed, Sealing(c, id, s, ns, f))
      /\ \A k \in listed : IsNonemptyString(y[k - 1])
                           => Seal(c, y[k - 1], RowOptions(s, ns, f, id)).status = "ok"
  BY <1>2, SealedByField
<1>5. y[0] \in clear
  BY <1>1, <1>2, <1>3 DEF WorkColumn
<1>6. ASSUME NEW k \in listed, y[k - 1] \in clear
      PROVE  y[k] \in once
  <2> DEFINE v == y[k - 1]
             options == RowOptions(s, ns, f, id)
  <2>1. y[k] = Sealing(c, id, s, ns, f)[v] /\ v \in FieldValue
    <3>1. k \in 1 .. n /\ k - 1 \in 0 .. n
      BY <1>1 DEF Places
    <3> QED
      BY <1>4, <3>1 DEF DoneAt
  <2>2. CASE ~ IsNonemptyString(v)
    BY <1>6, <2>1, <2>2 DEF Sealing, Readable
  <2>3. CASE IsNonemptyString(v)
    <3>1. v \in Str /\ v.layers = << >> /\ Seal(c, v, options).status = "ok"
      BY <1>4, <1>6, <2>1, <2>3, ValueKinds DEF ClearValue, IsNonemptyString
    <3>2. y[k] = Seal(c, v, options).value
      BY <2>1, <2>3 DEF Sealing
    <3>3. c \in Config /\ options \in SealOptions /\ ResolveNs(c, options) = NsOf(c, ns)
      BY RowOptionsType DEF Arguments
    <3> DEFINE layer == TokenLayer(RingOf(c, NsOf(c, ns)), options.context)
    <3> HIDE DEF options, v
    <3>4. OptionsStatus(c, options) = "ok" /\ y[k] = Wrap(v, layer)
      BY <3>1, <3>2, <3>3, SealReturns
    <3>5. layer \in Layer
      BY <3>3, <3>4, OptionsType, RingOfType, TokenLayerType
    <3>6. y[k] \in Str
      BY <3>1, <3>4, <3>5, WrapType
    <3>7. y[k].layers # << >> /\ Head(y[k].layers) = layer
      BY <3>1, <3>4, <3>5, UnwrapWrap
    <3>8. LooksSealed(y[k])
      BY <3>7 DEF LooksSealed, Shape, TokenLayer
    <3>9. Tail(y[k].layers) = << >>
      <4>1. y[k].layers = <<layer>> \o << >>
        BY <3>1, <3>4 DEF Wrap
      <4> HIDE DEF layer
      <4> QED
        BY <4>1
    <3> QED
      BY <3>6, <3>8, <3>9 DEF Readable, FieldValue
  <2> QED
    BY <2>2, <2>3
<1>7. \A v \in clear : v \in once
  BY DEF Readable
<1> HIDE DEF clear, once
<1>8. CASE listed = {}
  <2>1. \A k \in 0 + 1 .. n : y[k - 1] \in clear => y[k] \in clear
    BY <1>4, <1>8 DEF DoneAt
  <2>2. \A k \in 0 .. n : y[k] \in clear
    BY <1>1, <1>5, <2>1, StaysWithin
  <2> QED
    BY <1>1, <1>7, <2>2
<1>9. CASE listed # {}
  <2>1. PICK place \in listed : \A k \in listed : k = place
    BY <1>9
  <2>2. place \in 1 .. n /\ place - 1 \in 0 .. n /\ place \in 0 .. n /\ place - 1 \in Nat
    BY <1>1, <2>1 DEF Places
  <2>3. y[place - 1] \in clear
    <3>1. \A k \in 0 + 1 .. place - 1 : y[k - 1] \in clear => y[k] \in clear
      <4> SUFFICES ASSUME NEW k \in 0 + 1 .. place - 1, y[k - 1] \in clear
                   PROVE  y[k] \in clear
        OBVIOUS
      <4>1. k \in 1 .. n /\ k # place
        BY <1>1, <2>2
      <4> QED
        BY <1>4, <2>1, <4>1 DEF DoneAt
    <3>2. 0 \in 0 .. place - 1 /\ place - 1 \in 0 .. place - 1
      BY <2>2
    <3>3. \A k \in 0 .. place - 1 : y[k] \in clear
      BY <1>5, <2>2, <3>1, <3>2, StaysWithin
    <3> QED
      BY <3>2, <3>3
  <2>4. y[place] \in once
    BY <1>6, <2>1, <2>3
  <2>5. \A k \in place + 1 .. n : y[k - 1] \in once => y[k] \in once
    <3> SUFFICES ASSUME NEW k \in place + 1 .. n, y[k - 1] \in once PROVE y[k] \in once
      OBVIOUS
    <3>1. k \in 1 .. n /\ k # place
      BY <1>1, <2>2
    <3> QED
      BY <1>4, <2>1, <3>1 DEF DoneAt
  <2>6. \A k \in place .. n : y[k] \in once
    BY <1>1, <2>2, <2>4, <2>5, StaysWithin
  <2> QED
    BY <1>1, <2>2, <2>6
<1> QED
  BY <1>8, <1>9

(* The assumption of the next theorem: a field is listed once, so that it  *)
(* is opened as often as it was sealed wherever its value is copied, and   *)
(* others write what an instance can take for encrypted.                   *)
SealedOnce ==
  \A setup \in Setups :
    /\ \A i, j \in DOMAIN AllFields(setup.spec) :
         AllFields(setup.spec)[i] = AllFields(setup.spec)[j] => i = j
    /\ \A value \in Foreign : Readable(setup.config, value)

FailsClosed == RingOfTable # NoRing /\ config.onUnknownVersion = "throw"

StoredReadable ==
  FailsClosed => \A id \in Present, f \in Listed : Readable(config, table[id][f])

(* What either of two lists has, they have together.                       *)
LEMMA ConcatHas ==
  ASSUME NEW S, NEW a \in Seq(S), NEW b \in Seq(S), NEW e,
         Places(a, e) # {} \/ Places(b, e) # {}
  PROVE  Places(a \o b, e) # {}
<1>1. DOMAIN a = 1 .. Len(a) /\ DOMAIN b = 1 .. Len(b) /\ Len(a) \in Nat /\ Len(b) \in Nat
  OBVIOUS
<1>2. a \o b \in Seq(S) /\ Len(a \o b) = Len(a) + Len(b)
  OBVIOUS
<1>3. DOMAIN (a \o b) = 1 .. Len(a) + Len(b)
  BY <1>2
<1>4. CASE Places(a, e) # {}
  <2>1. PICK k \in 1 .. Len(a) : a[k] = e
    BY <1>1, <1>4 DEF Places
  <2>2. (a \o b)[k] = a[k] /\ k \in 1 .. Len(a) + Len(b)
    BY <1>1
  <2> QED
    BY <1>3, <2>1, <2>2 DEF Places
<1>5. CASE Places(b, e) # {}
  <2>1. PICK k \in 1 .. Len(b) : b[k] = e
    BY <1>1, <1>5 DEF Places
  <2>2. (a \o b)[Len(a) + k] = b[k] /\ Len(a) + k \in 1 .. Len(a) + Len(b)
    BY <1>1
  <2> QED
    BY <1>3, <2>1, <2>2 DEF Places
<1> QED
  BY <1>4, <1>5

(* The listed fields are those the lists have a place for.                 *)
LEMMA ListedPlaces ==
  ASSUME TypeOK, NEW f \in Listed
  PROVE  Places(AllFields(spec), f) # {}
<1> SUFFICES ASSUME NEW a, a = spec.fields, NEW b, b = spec.jsonFields
             PROVE  Places(a \o b, f) # {}
  BY DEF AllFields
<1>1. a \in Seq(Field) /\ b \in Seq(Field)
  BY PagesAssumption DEF TypeOK, FieldSpec
<1>2. Places(a, f) # {} \/ Places(b, f) # {}
  BY DEF Listed, Places
<1> QED
  BY <1>1, <1>2, ConcatHas

LEMMA PagesClear ==
  ASSUME PagesInvariant, StoredReadable
  PROVE  NoCiphertextShown
<1> SUFFICES ASSUME NEW i \in DOMAIN page.rows, NEW f \in Listed, FailsClosed
             PROVE  ClearValue(page.rows[i].row[f])
  BY DEF NoCiphertextShown, FailsClosed, ClearValue
<1> DEFINE id == page.rows[i].id
<1>1. TypeOK /\ id \in Present /\ page.rows[i].row = ReadNow(id)
  BY DEF PagesInvariant, PageStands
<1>2. Arguments(config, id, spec, TableNs) /\ table[id] \in Row /\ f \in Field
  BY <1>1, TableType
<1>3. Places(AllFields(spec), f) # {} /\ Readable(config, table[id][f])
  BY <1>1, ListedPlaces DEF StoredReadable
<1>4. RingOf(config, NsOf(config, TableNs)) # NoRing /\ config.onUnknownVersion = "throw"
  BY DEF FailsClosed, RingOfTable
<1> HIDE DEF id
<1>5. ClearValue(ReadNow(id)[f])
  BY <1>2, <1>3, <1>4, NewInstanceType, ReadsClear DEF ReadNow
<1> QED
  BY <1>1, <1>5

(* A row the helpers write.                                                *)
LEMMA WritesReadable ==
  ASSUME JsonIsTotal, SealedOnce, PagesInvariant, StoredReadable,
         UNCHANGED <<config, spec>>, NEW id \in RowId, NEW row \in Row, ClearRow(row),
         SealRow(config, instance, row, id, spec, TableNs).status = "ok",
         table' = [table EXCEPT ![id] =
                     SealRow(config, instance, row, id, spec, TableNs).row]
  PROVE  StoredReadable'
<1> SUFFICES ASSUME NEW stored,
                    stored = SealRow(config, instance, row, id, spec, TableNs).row
             PROVE  StoredReadable'
  OBVIOUS
<1>1. /\ TypeOK /\ Constructible(config) /\ Arguments(config, id, spec, TableNs)
      /\ instance \in InstanceType /\ table \in [RowId -> Row \cup {Absent}]
      /\ Listed \subseteq Field
  BY TableType DEF PagesInvariant, TypeOK
<1>2. Listed' = Listed /\ FailsClosed' = FailsClosed /\ config' = config
  BY DEF Listed, FailsClosed, RingOfTable
<1>3. ASSUME FailsClosed, NEW f \in Listed
      PROVE  Readable(config, stored[f])
  <2>1. \A k, l \in Places(AllFields(spec), f) : k = l
    <3>1. \A i, j \in DOMAIN AllFields(spec) : AllFields(spec)[i] = AllFields(spec)[j] => i = j
      BY <1>1 DEF TypeOK, SealedOnce
    <3> QED
      BY <3>1 DEF Places
  <2>2. ClearValue(row[f]) /\ f \in Field
    BY <1>1 DEF ClearRow, ClearValue
  <2>3. RingOf(config, NsOf(config, TableNs)) # NoRing
    BY <1>3 DEF FailsClosed, RingOfTable
  <2> QED
    BY <1>1, <2>1, <2>2, <2>3, SealsOnce
<1>4. /\ table'[id] = stored
      /\ \A other \in Present' : other # id => other \in Present /\ table'[other] = table[other]
  BY <1>1 DEF Present
<1> QED
  BY <1>2, <1>3, <1>4 DEF StoredReadable

LEMMA AroundReadable ==
  ASSUME PagesInvariant, StoredReadable, NEW id \in RowId, NEW f \in Field,
         NEW value \in FieldValue, Around(id, f, value),
         FailsClosed => Readable(config, value)
  PROVE  StoredReadable'
<1>1. /\ TypeOK /\ UNCHANGED <<config, spec>> /\ id \in Present /\ table[id] \in Row
      /\ table \in [RowId -> Row \cup {Absent}] /\ Listed \subseteq Field
      /\ table' = [table EXCEPT ![id] = [table[id] EXCEPT ![f] = value]]
  BY TableType DEF PagesInvariant, TypeOK, Around, Present
<1>2. Listed' = Listed /\ FailsClosed' = FailsClosed /\ config' = config
  BY <1>1 DEF Listed, FailsClosed, RingOfTable
<1>3. \A g \in Field : table'[id][g] = IF g = f THEN value ELSE table[id][g]
  BY <1>1 DEF Present, Row
<1>4. \A other \in Present' : /\ other \in Present
                              /\ other # id => table'[other] = table[other]
  BY <1>1 DEF Present
<1> QED
  BY <1>1, <1>2, <1>3, <1>4 DEF StoredReadable

(* The row an edit writes back.                                            *)
LEMMA EditedRowType ==
  ASSUME PagesInvariant, page.call = "unsealRow", NEW f \in Field, NEW value \in FieldValue
  PROVE  page.rows[1].id \in RowId /\ [page.rows[1].row EXCEPT ![f] = value] \in Row
<1>1. page.rows \in Seq([id : RowId, row : Row]) /\ Len(page.rows) = 1
  BY DEF PagesInvariant, PageStands, TypeOK
<1>2. 1 \in DOMAIN page.rows
  BY <1>1
<1> DEFINE S == [id : RowId, row : Row]
<1>3. page.rows[1] \in S
  <2> HIDE DEF S
  <2>1. page.rows \in Seq(S)
    BY <1>1 DEF S
  <2> QED
    BY <1>2, <2>1
<1> QED
  BY <1>3 DEF Row

LEMMA ReadableNext ==
  ASSUME JsonIsTotal, SealedOnce, PagesInvariant, StoredReadable, [Next]_vars
  PROVE  StoredReadable'
<1>1. TypeOK /\ Listed \subseteq Field
  BY TableType DEF PagesInvariant
<1>2. ASSUME UNCHANGED <<config, spec, table>>
      PROVE  StoredReadable'
  BY <1>2 DEF StoredReadable, FailsClosed, RingOfTable, Present, Listed
<1>3. ASSUME NEW id \in RowId, NEW row \in Rows, Insert(id, row)
      PROVE  StoredReadable'
  <2>1. row \in Row /\ ClearRow(row) /\ UNCHANGED <<config, spec>>
    BY <1>1, <1>3, PagesAssumption DEF ClearRow, Insert
  <2>2. \/ /\ SealRow(config, instance, row, id, spec, TableNs).status = "ok"
           /\ table' = [table EXCEPT ![id] =
                          SealRow(config, instance, row, id, spec, TableNs).row]
        \/ UNCHANGED table
    BY <1>3 DEF Insert
  <2> QED
    BY <1>2, <2>1, <2>2, WritesReadable
<1>4. ASSUME NEW id \in RowId, ServeRow(id)
      PROVE  StoredReadable'
  BY <1>2, <1>4 DEF ServeRow, Serve
<1>5. ASSUME NEW query \in Queries, ServePage(query)
      PROVE  StoredReadable'
  BY <1>2, <1>5 DEF ServePage, Serve
<1>6. ASSUME NEW edit \in Edits, Edit(edit[1], edit[2])
      PROVE  StoredReadable'
  <2> SUFFICES ASSUME NEW f, f = edit[1], NEW value, value = edit[2],
                      NEW id, id = page.rows[1].id,
                      NEW row, row = [page.rows[1].row EXCEPT ![f] = value]
               PROVE  StoredReadable'
    OBVIOUS
  <2>1. ClearRow(row) /\ UNCHANGED <<config, spec>> /\ page.call = "unsealRow"
    BY <1>6 DEF ClearRow, Edit
  <2>2. id \in RowId /\ row \in Row
    <3>1. f \in Field /\ value \in FieldValue
      BY PagesAssumption
    <3> QED
      BY <2>1, <3>1, EditedRowType
  <2>3. \/ /\ SealRow(config, instance, row, id, spec, TableNs).status = "ok"
           /\ table' = [table EXCEPT ![id] =
                          SealRow(config, instance, row, id, spec, TableNs).row]
        \/ UNCHANGED table
    BY <1>6 DEF Edit
  <2> QED
    BY <1>2, <2>1, <2>2, <2>3, WritesReadable
<1>7. CASE Restart
  BY <1>2, <1>7 DEF Restart
<1>8. ASSUME NEW id \in RowId, NEW f \in Listed, NEW value \in Foreign,
             WriteAround(id, f, value)
      PROVE  StoredReadable'
  <2>1. f \in Field /\ value \in FieldValue /\ Around(id, f, value)
    BY <1>1, <1>8, PagesAssumption DEF WriteAround
  <2>2. Readable(config, value)
    BY <1>1 DEF TypeOK, SealedOnce
  <2> QED
    BY <2>1, <2>2, AroundReadable
<1>9. ASSUME NEW from \in RowId, NEW to \in RowId, NEW f \in Listed, NEW g \in Listed,
             CopyAround(from, f, to, g)
      PROVE  StoredReadable'
  <2>1. /\ f \in Field /\ g \in Field /\ Around(to, g, table[from][f])
        /\ from \in Present
    BY <1>1, <1>9 DEF CopyAround, Present
  <2>2. table[from][f] \in FieldValue
    BY <1>1, <2>1, TableType DEF Row
  <2>3. FailsClosed => Readable(config, table[from][f])
    BY <2>1 DEF StoredReadable
  <2> QED
    BY <2>1, <2>2, <2>3, AroundReadable
<1>10. CASE UNCHANGED vars
  BY <1>2, <1>10 DEF vars
<1> QED
  BY <1>3, <1>4, <1>5, <1>6, <1>7, <1>8, <1>9, <1>10 DEF Next

(* Under a keyring that fails closed no page hands out ciphertext, however *)
(* many values others copy from row to row and write of their own.         *)
THEOREM PagesShowNoCiphertext ==
  ASSUME JsonIsTotal, SealedOnce
  PROVE  Spec => []NoCiphertextShown
<1>1. Init => PagesInvariant /\ StoredReadable
  <2>1. Init => StoredReadable
    BY DEF Init, StoredReadable, Present
  <2> QED
    BY <2>1, PagesInit
<1>2. PagesInvariant /\ StoredReadable /\ [Next]_vars => PagesInvariant' /\ StoredReadable'
  BY PagesNext, ReadableNext
<1>3. PagesInvariant /\ StoredReadable => NoCiphertextShown
  BY PagesClear
<1> QED
  BY <1>1, <1>2, <1>3, PTL DEF Spec
-----------------------------------------------------------------------------
(* What is shown was written there.                                        *)

(* A bound token of another context, or of a key the ring does not have    *)
(* for its version.                                                        *)
Shut(c, id, s, ns, f, v) ==
  /\ v \in Str /\ Bound(v) /\ Head(v.layers).format = "token"
  /\ \/ Head(v.layers).aad.context # s.context[<<f, id>>]
     \/ Head(v.layers).key # RingOf(c, NsOf(c, ns)).keys[Head(v.layers).version]

(* A token opens under the key of its version and its own context only.    *)
LEMMA TokenOpens ==
  ASSUME NEW v \in Str, v.layers # << >>, Head(v.layers).format = "token", NEW ring,
         NEW context, UnsealWithKeyring(v, ring, "throw", context).status = "ok"
  PROVE  /\ Head(v.layers).key = ring.keys[Head(v.layers).version]
         /\ Head(v.layers).aad.context = context
<1> DEFINE version == VersionLabel(v)
           key == ring.keys[version]
<1>1. version = Head(v.layers).version
  BY DEF VersionLabel
<1>2. key # NoKey /\ Shape(v) # "short"
  BY DEF UnsealWithKeyring, Err, Outcome, Shape
<1>3. Authenticates(v, key, BuildAad(version, context))
  BY <1>2 DEF UnsealWithKeyring, Err, Outcome
<1> QED
  BY <1>1, <1>3 DEF Authenticates, BuildAad

LEMMA ShutIsNull ==
  ASSUME NEW c, NEW id, NEW s, NEW ns, Arguments(c, id, s, ns), NEW f \in Field,
         RingOf(c, NsOf(c, ns)) # NoRing, c.onUnknownVersion = "throw",
         NEW v, Shut(c, id, s, ns, f, v)
  PROVE  Opening(c, id, s, ns, f)[v] = Null
<1> SUFFICES ASSUME NEW options, options = RowOptions(s, ns, f, id),
                    NEW ring, ring = RingOf(c, NsOf(c, ns))
             PROVE  Opening(c, id, s, ns, f)[v] = Null
  OBVIOUS
<1>1. /\ c \in Config /\ options \in SealOptions /\ ResolveNs(c, options) = NsOf(c, ns)
      /\ options.context = s.context[<<f, id>>]
  BY RowOptionsType DEF Arguments
<1>2. /\ v \in Str /\ IsString(v) /\ v.layers # << >>
      /\ Head(v.layers).format = "token" /\ Head(v.layers).aad.context # NoContext
      /\ \/ Head(v.layers).aad.context # options.context
         \/ Head(v.layers).key # ring.keys[Head(v.layers).version]
  BY <1>1 DEF Shut, Bound
<1>3. LooksSealed(v) /\ ParseToken(v)
  BY <1>2 DEF LooksSealed, ParseToken, Shape
<1>4. Attempted(c, v) /\ v \in FieldValue
  BY <1>2, <1>3 DEF Attempted, IsNonemptyString, EmptyStr, Plain, FieldValue
<1>5. Unseal(c, v, options).status # "ok"
  <2> SUFFICES ASSUME Unseal(c, v, options).status = "ok" PROVE FALSE
    OBVIOUS
  <2>1. OptionsStatus(c, options) = "ok"
    BY <1>1, <1>2, UnsealReturns
  <2>2. UnsealToken(c, v, ring, options.context).status = "ok"
    BY <1>1, <1>3, <2>1 DEF Unseal
  <2> DEFINE bound == UnsealWithKeyring(v, ring, "throw", options.context)
             unbound == UnsealWithKeyring(v, ring, "throw", NoContext)
  <2>3. bound.status = "ok" \/ unbound.status = "ok"
    BY <2>2 DEF UnsealToken
  <2> HIDE DEF bound, unbound
  <2>4. bound.status # "ok"
    BY <1>2, TokenOpens DEF bound
  <2>5. unbound.status # "ok"
    BY <1>2, TokenOpens DEF unbound
  <2> QED
    BY <2>3, <2>4, <2>5
<1> QED
  BY <1>4, <1>5 DEF Opening

(* A listed field that stores such a token reads as null.                  *)
LEMMA ReadsShut ==
  ASSUME NEW c, NEW id, NEW s, NEW ns, Arguments(c, id, s, ns),
         RingOf(c, NsOf(c, ns)) # NoRing, c.onUnknownVersion = "throw",
         NEW f \in Field, Places(AllFields(s), f) # {},
         NEW row \in Row, Shut(c, id, s, ns, f, row[f]), NEW i \in InstanceType
  PROVE  UnsealRow(c, i, row, id, s, ns)[f] = Null
<1> SUFFICES ASSUME NEW n, n = Len(AllFields(s)), NEW m, m = Len(s.jsonFields)
             PROVE  UnsealRow(c, i, row, id, s, ns)[f] = Null
  OBVIOUS
<1>1. /\ n \in Nat /\ n \in 0 .. n /\ 0 \in 0 .. n /\ m \in Nat /\ m \in 0 .. m /\ 0 \in 0 .. m
      /\ DOMAIN AllFields(s) = 1 .. n
  BY ListTypes DEF Arguments
<1>2. PICK work, rows :
        /\ UnsealRun(c, id, s, ns, work)
        /\ work[0] = [row |-> row, failures |-> 0, attempts |-> 0, instance |-> i]
        /\ ParseRun(s, rows) /\ rows[0] = work[n].row
        /\ UnsealRowInternal(c, i, row, id, s, ns) = [work[n] EXCEPT !.row = rows[m]]
  <2>1. PICK work, rows : UnsealRowSteps(c, id, s, ns, row, i, work, rows)
    BY UnsealRowRuns
  <2> QED
    BY <2>1 DEF UnsealRowSteps
<1> DEFINE opening == Opening(c, id, s, ns, f)
           either == {row[f], Null}
           shut == {Null}
<1>3. opening[row[f]] = Null
  BY ShutIsNull
<1>4. opening[Null] = Null /\ Parsing[Null] = Null
  <2>1. Null \in FieldValue /\ ~ IsNonemptyString(Null)
    BY DEF FieldValue, IsNonemptyString, IsString
  <2> QED
    BY <2>1 DEF Opening, Attempted, Parsing
<1> HIDE DEF opening
<1>5. work[n].row[f] \in shut
  <2> SUFFICES ASSUME NEW z, z = WorkColumn(work, n, f),
                      NEW listed, listed = Places(AllFields(s), f)
               PROVE  work[n].row[f] \in shut
    OBVIOUS
  <2>1. PICK first \in listed : TRUE
    OBVIOUS
  <2>2. first \in 1 .. n /\ first \in 0 .. n /\ first - 1 \in 0 .. n
    BY <1>1, <2>1 DEF Places
  <2>3. DoneAt(z, n, listed, opening)
    BY <1>2, OpenedByField DEF opening
  <2>4. z[0] \in either /\ z[n] = work[n].row[f]
    BY <1>1, <1>2 DEF WorkColumn
  <2>5. \A k \in 0 .. n : z[k] \in either
    <3>1. \A k \in 0 + 1 .. n : z[k - 1] \in either => z[k] \in either
      BY <1>3, <1>4, <2>3 DEF DoneAt
    <3> HIDE DEF either
    <3> QED
      BY <1>1, <2>4, <3>1, StaysWithin
  <2>6. z[first] \in shut
    <3>1. z[first] = opening[z[first - 1]] /\ z[first - 1] \in either
      BY <2>1, <2>2, <2>3, <2>5 DEF DoneAt
    <3> QED
      BY <1>3, <1>4, <3>1
  <2>7. \A k \in first + 1 .. n : z[k - 1] \in shut => z[k] \in shut
    <3> SUFFICES ASSUME NEW k \in first + 1 .. n, z[k - 1] \in shut PROVE z[k] \in shut
      OBVIOUS
    <3>1. k \in 1 .. n
      BY <2>2
    <3> QED
      BY <1>4, <2>3, <3>1 DEF DoneAt
  <2> HIDE DEF shut
  <2>8. \A k \in first .. n : z[k] \in shut
    BY <1>1, <2>2, <2>6, <2>7, StaysWithin
  <2> QED
    BY <1>1, <2>2, <2>4, <2>8
<1>6. rows[m][f] \in shut
  <2> SUFFICES ASSUME NEW w, w = Column(rows, m, f), NEW json, json = Places(s.jsonFields, f)
               PROVE  rows[m][f] \in shut
    OBVIOUS
  <2>1. DoneAt(w, m, json, Parsing)
    BY <1>2, ParsedByField DEF Arguments
  <2>2. w[0] \in shut /\ w[m] = rows[m][f]
    BY <1>1, <1>2, <1>5 DEF Column
  <2>3. \A k \in 0 + 1 .. m : w[k - 1] \in shut => w[k] \in shut
    BY <1>4, <2>1 DEF DoneAt
  <2> HIDE DEF shut
  <2>4. \A k \in 0 .. m : w[k] \in shut
    BY <1>1, <2>2, <2>3, StaysWithin
  <2> QED
    BY <1>1, <2>2, <2>4
<1>7. UnsealRow(c, i, row, id, s, ns) = rows[m]
  <2>1. work[n] \in UnsealWork
    BY <1>1, <1>2 DEF UnsealRun
  <2> QED
    BY <1>2, <2>1 DEF UnsealRow, UnsealWork
<1> QED
  BY <1>6, <1>7

(* A bound value is a token of the field's own context.                    *)
Own(s, id, f, v) ==
  Bound(v) => /\ v \in Str /\ Head(v.layers).format = "token"
              /\ Head(v.layers).aad.context = s.context[<<f, id>>]

LEMMA SealsOwn ==
  ASSUME JsonIsTotal, NEW c, NEW id, NEW s, NEW ns, Arguments(c, id, s, ns),
         RingOf(c, NsOf(c, ns)) # NoRing, NEW f \in Field,
         NEW row \in Row, ClearValue(row[f]), NEW i \in InstanceType,
         SealRow(c, i, row, id, s, ns).status = "ok"
  PROVE  Own(s, id, f, SealRow(c, i, row, id, s, ns).row[f])
<1> SUFFICES ASSUME NEW n, n = Len(AllFields(s)), NEW m, m = Len(s.jsonFields)
             PROVE  Own(s, id, f, SealRow(c, i, row, id, s, ns).row[f])
  OBVIOUS
<1>1. /\ n \in Nat /\ n \in 0 .. n /\ 0 \in 0 .. n /\ m \in Nat /\ m \in 0 .. m /\ 0 \in 0 .. m
      /\ DOMAIN AllFields(s) = 1 .. n /\ DOMAIN s.jsonFields = 1 .. m /\ s \in FieldSpec
  BY ListTypes DEF Arguments
<1>2. PICK rows, work :
        /\ StringifyRun(s, rows) /\ rows[0] = row
        /\ SealRun(c, id, s, ns, work)
        /\ work[0] = [status |-> "ok", row |-> rows[m], instance |-> i]
        /\ SealRow(c, i, row, id, s, ns) = work[n]
  <2>1. PICK rows, work : SealRowSteps(c, id, s, ns, row, i, rows, work)
    BY SealRowRuns
  <2> QED
    BY <2>1 DEF SealRowSteps
<1> DEFINE clear == {v \in FieldValue : ClearValue(v)}
           own == {v \in FieldValue : Own(s, id, f, v)}
<1>3. \A v \in clear : v \in own
  BY DEF ClearValue, Own, Bound
<1>4. rows[m][f] \in clear
  <2> SUFFICES ASSUME NEW x, x = Column(rows, m, f) PROVE rows[m][f] \in clear
    OBVIOUS
  <2>1. DoneAt(x, m, Places(s.jsonFields, f), Stringifying)
    BY <1>1, <1>2, StringifiedByField
  <2>2. x[0] \in clear /\ x[m] = rows[m][f]
    BY <1>1, <1>2 DEF Column, Row
  <2>3. \A v \in clear : Stringifying[v] \in clear
    BY JsonTextType DEF Stringifying, ClearValue, FieldValue
  <2> HIDE DEF clear
  <2>4. \A k \in 0 + 1 .. m : x[k - 1] \in clear => x[k] \in clear
    <3> SUFFICES ASSUME NEW k \in 0 + 1 .. m, x[k - 1] \in clear PROVE x[k] \in clear
      OBVIOUS
    <3>1. x[k] \in {Stringifying[x[k - 1]], x[k - 1]}
      BY <2>1 DEF DoneAt
    <3> QED
      BY <2>3, <3>1
  <2>5. \A k \in 0 .. m : x[k] \in clear
    BY <1>1, <2>2, <2>4, StaysWithin
  <2> QED
    BY <1>1, <2>2, <2>5
<1> SUFFICES ASSUME NEW y, y = WorkColumn(work, n, f),
                    NEW listed, listed = Places(AllFields(s), f)
             PROVE  y[n] \in own
  <2>1. WorkColumn(work, n, f)[n] = work[n].row[f]
    BY <1>1 DEF WorkColumn
  <2> QED
    BY <1>2, <2>1
<1>5. /\ y \in [0 .. n -> FieldValue] /\ DoneAt(y, n, listed, Sealing(c, id, s, ns, f))
      /\ \A k \in listed : IsNonemptyString(y[k - 1])
                           => Seal(c, y[k - 1], RowOptions(s, ns, f, id)).status = "ok"
  BY <1>2, SealedByField
<1>6. y[0] \in own
  BY <1>1, <1>2, <1>3, <1>4 DEF WorkColumn
<1>7. ASSUME NEW k \in 1 .. n, y[k - 1] \in own
      PROVE  y[k] \in own
  <2> DEFINE v == y[k - 1]
             options == RowOptions(s, ns, f, id)
  <2>1. v \in FieldValue
    BY <1>7
  <2>2. CASE k \notin listed \/ ~ IsNonemptyString(v)
    BY <1>5, <1>7, <2>1, <2>2 DEF DoneAt, Sealing
  <2>3. CASE k \in listed /\ IsNonemptyString(v)
    <3>1. v \in Str /\ Seal(c, v, options).status = "ok"
      BY <1>5, <2>1, <2>3, ValueKinds DEF IsNonemptyString
    <3>2. y[k] = Seal(c, v, options).value
      BY <1>5, <2>1, <2>3 DEF DoneAt, Sealing
    <3>3. /\ c \in Config /\ options \in SealOptions /\ ResolveNs(c, options) = NsOf(c, ns)
          /\ options.context = s.context[<<f, id>>]
      BY RowOptionsType DEF Arguments
    <3> DEFINE layer == TokenLayer(RingOf(c, NsOf(c, ns)), options.context)
    <3> HIDE DEF options, v
    <3>4. OptionsStatus(c, options) = "ok" /\ y[k] = Wrap(v, layer)
      BY <3>1, <3>2, <3>3, SealReturns
    <3>5. layer \in Layer
      BY <3>3, <3>4, OptionsType, RingOfType, TokenLayerType
    <3>6. y[k] \in Str /\ Head(y[k].layers) = layer
      BY <3>1, <3>4, <3>5, WrapType, UnwrapWrap
    <3>7. layer.format = "token" /\ layer.aad.context = s.context[<<f, id>>]
      BY <3>3 DEF TokenLayer, BuildAad
    <3> HIDE DEF layer
    <3> QED
      BY <3>6, <3>7 DEF Own, FieldValue
  <2> QED
    BY <2>2, <2>3
<1> HIDE DEF own
<1>8. \A k \in 0 + 1 .. n : y[k - 1] \in own => y[k] \in own
  BY <1>7
<1>9. \A k \in 0 .. n : y[k] \in own
  BY <1>1, <1>6, <1>8, StaysWithin
<1> QED
  BY <1>1, <1>9

(* What a value reads as in a field of a row, wherever it came from.       *)
ReadAs(id, f, v) ==
  UnsealRow(config, NewInstance, [g \in Field |-> v], id, spec, TableNs)[f]

(* A bound value reads nowhere as what was not written there.              *)
Belongs(v) ==
  Bound(v) => \A id \in RowId, f \in Listed :
                ReadAs(id, f, v) = Null \/ <<id, f, ReadAs(id, f, v)>> \in written

StoredBelong == FailsClosed => \A id \in Present, f \in Listed : Belongs(table[id][f])

LEMMA ReadAsNow ==
  ASSUME TypeOK, NEW id \in Present, NEW f \in Field
  PROVE  ReadNow(id)[f] = ReadAs(id, f, table[id][f])
<1> DEFINE alike == [g \in Field |-> table[id][f]]
<1>1. Arguments(config, id, spec, TableNs) /\ table[id] \in Row
  BY TableType
<1>2. alike \in Row /\ alike[f] = table[id][f]
  BY <1>1 DEF Row
<1>3. ReadNow(id)[f] = UnsealRow(config, NewInstance, alike, id, spec, TableNs)[f]
  <2> HIDE DEF alike
  <2> QED
    BY <1>1, <1>2, NewInstanceType, ReadByField DEF ReadNow
<1> QED
  BY <1>3 DEF ReadAs

LEMMA ShutReadsAsNull ==
  ASSUME TypeOK, FailsClosed, NEW id \in RowId, NEW f \in Listed,
         NEW v, Shut(config, id, spec, TableNs, f, v)
  PROVE  ReadAs(id, f, v) = Null
<1> DEFINE alike == [g \in Field |-> v]
<1>1. Arguments(config, id, spec, TableNs) /\ f \in Field /\ Places(AllFields(spec), f) # {}
  BY TableType, ListedPlaces
<1>2. v \in FieldValue
  BY DEF Shut, FieldValue
<1>3. alike \in Row /\ alike[f] = v
  BY <1>1, <1>2 DEF Row
<1>4. RingOf(config, NsOf(config, TableNs)) # NoRing /\ config.onUnknownVersion = "throw"
  BY DEF FailsClosed, RingOfTable
<1>5. UnsealRow(config, NewInstance, alike, id, spec, TableNs)[f] = Null
  <2> HIDE DEF alike
  <2> QED
    BY <1>1, <1>3, <1>4, NewInstanceType, ReadsShut
<1> QED
  BY <1>5 DEF ReadAs

LEMMA PagesBelong ==
  ASSUME PagesInvariant, StoredBelong
  PROVE  ShownValuesBelongHere
<1> SUFFICES ASSUME NEW i \in DOMAIN page.rows, NEW f \in Listed, FailsClosed,
                    Bound(table[page.rows[i].id][f])
             PROVE  \/ page.rows[i].row[f] = Null
                    \/ <<page.rows[i].id, f, page.rows[i].row[f]>> \in written
  BY DEF ShownValuesBelongHere, FailsClosed, Bound
<1> SUFFICES ASSUME NEW id, id = page.rows[i].id
             PROVE  \/ page.rows[i].row[f] = Null
                    \/ <<id, f, page.rows[i].row[f]>> \in written
  OBVIOUS
<1>1. TypeOK /\ id \in Present /\ page.rows[i].row = ReadNow(id)
  BY DEF PagesInvariant, PageStands
<1>2. f \in Field /\ id \in RowId
  BY <1>1, TableType
<1>3. page.rows[i].row[f] = ReadAs(id, f, table[id][f])
  BY <1>1, <1>2, ReadAsNow
<1>4. Belongs(table[id][f])
  BY <1>1 DEF StoredBelong
<1> QED
  BY <1>2, <1>3, <1>4 DEF Belongs

(* What is read of a value, and the history, only grow.                    *)
LEMMA BelongsStill ==
  ASSUME UNCHANGED <<config, spec>>, written \subseteq written'
  PROVE  /\ Listed' = Listed /\ FailsClosed' = FailsClosed
         /\ \A id, f, v : ReadAs(id, f, v)' = ReadAs(id, f, v)
         /\ \A v : Belongs(v) => Belongs(v)'
<1>1. Listed' = Listed /\ FailsClosed' = FailsClosed
  BY DEF Listed, FailsClosed, RingOfTable
<1>2. \A id, f, v : ReadAs(id, f, v)' = ReadAs(id, f, v)
  BY DEF ReadAs
<1> QED
  BY <1>1, <1>2 DEF Belongs

(* A row the helpers write.                                                *)
LEMMA WritesBelong ==
  ASSUME JsonIsTotal, BoundApart, PagesInvariant, StoredBelong,
         UNCHANGED <<config, spec>>, NEW id \in RowId, NEW row \in Row, ClearRow(row),
         SealRow(config, instance, row, id, spec, TableNs).status = "ok",
         table' = [table EXCEPT ![id] =
                     SealRow(config, instance, row, id, spec, TableNs).row],
         written' = written \cup Slots(id, row)
  PROVE  StoredBelong'
<1> SUFFICES ASSUME NEW stored,
                    stored = SealRow(config, instance, row, id, spec, TableNs).row
             PROVE  StoredBelong'
  OBVIOUS
<1>1. /\ TypeOK /\ Constructible(config) /\ Arguments(config, id, spec, TableNs)
      /\ instance \in InstanceType /\ table \in [RowId -> Row \cup {Absent}]
      /\ Listed \subseteq Field
  BY TableType DEF PagesInvariant, TypeOK
<1>2. stored \in Row
  BY <1>1, SealRowType DEF SealWork
<1>3. UnsealRow(config, NewInstance, stored, id, spec, TableNs) = row
  <2>1. \A k \in DOMAIN spec.jsonFields : JsonReady(row[spec.jsonFields[k]])
    <3>1. \A k \in DOMAIN spec.jsonFields :
            spec.jsonFields[k] \in Listed /\ spec.jsonFields[k] \in Field
      BY <1>1, TableType
    <3> QED
      BY <3>1 DEF JsonReady, ClearRow, Row
  <2> QED
    BY <1>1, <2>1, NewInstanceType, RowReturns
<1>4. written \subseteq written'
  OBVIOUS
<1>5. ASSUME FailsClosed, NEW f \in Listed, Bound(stored[f]),
             NEW other \in RowId, NEW g \in Listed
      PROVE  \/ ReadAs(other, g, stored[f]) = Null
             \/ <<other, g, ReadAs(other, g, stored[f])>> \in written'
  <2>1. f \in Field /\ g \in Field
    BY <1>1
  <2>2. CASE other = id /\ g = f
    <3>1. ReadAs(id, f, stored[f]) = row[f]
      <4> DEFINE alike == [h \in Field |-> stored[f]]
      <4>1. alike \in Row /\ alike[f] = stored[f]
        BY <1>2, <2>1 DEF Row
      <4>2. UnsealRow(config, NewInstance, alike, id, spec, TableNs)[f] = row[f]
        <5> HIDE DEF alike
        <5> QED
          BY <1>1, <1>2, <1>3, <2>1, <4>1, NewInstanceType, ReadByField
      <4> QED
        BY <4>2 DEF ReadAs
    <3>2. <<id, f, row[f]>> \in written'
      BY <2>1 DEF Slots
    <3> QED
      BY <2>2, <3>1, <3>2
  <2>3. CASE ~ (other = id /\ g = f)
    <3>1. Own(spec, id, f, stored[f])
      <4>1. RingOf(config, NsOf(config, TableNs)) # NoRing
        BY <1>5 DEF FailsClosed, RingOfTable
      <4>2. ClearValue(row[f])
        BY DEF ClearRow, ClearValue
      <4> QED
        BY <1>1, <2>1, <4>1, <4>2, SealsOwn
    <3>2. /\ stored[f] \in Str /\ Head(stored[f].layers).format = "token"
          /\ Head(stored[f].layers).aad.context = spec.context[<<f, id>>]
      BY <1>5, <3>1 DEF Own
    <3>3. spec.context[<<f, id>>] \in Context
      <4>1. Head(stored[f].layers) \in Layer
        BY <1>5, <3>2, HeadLayer DEF Bound
      <4>2. Head(stored[f].layers).aad \in Aad
        BY <4>1 DEF Layer
      <4> QED
        BY <1>5, <3>2, <4>2 DEF Bound, Aad
    <3>4. spec.context[<<f, id>>] # spec.context[<<g, other>>]
      <4> DEFINE list == AllFields(spec)
      <4>1. \A i, j \in DOMAIN list, a, b \in RowId :
              /\ spec.context[<<list[i], a>>] \in Context
              /\ spec.context[<<list[i], a>>] = spec.context[<<list[j], b>>]
              => list[i] = list[j] /\ a = b
        <5>1. ContextsAreDistinct(spec)
          BY <1>1 DEF TypeOK, BoundApart
        <5> QED
          BY <5>1 DEF ContextsAreDistinct, AllFields
      <4> HIDE DEF list
      <4>2. Places(list, f) # {} /\ Places(list, g) # {}
        BY <1>1, ListedPlaces DEF list
      <4>3. PICK i \in DOMAIN list : list[i] = f
        BY <4>2 DEF Places
      <4>4. PICK j \in DOMAIN list : list[j] = g
        BY <4>2 DEF Places
      <4> QED
        BY <2>3, <3>3, <4>1, <4>3, <4>4
    <3>5. Shut(config, other, spec, TableNs, g, stored[f])
      BY <1>5, <3>2, <3>4 DEF Shut
    <3> QED
      BY <1>1, <1>5, <3>5, ShutReadsAsNull
  <2> QED
    BY <2>2, <2>3
<1>6. /\ table'[id] = stored
      /\ \A other \in Present' : other # id => other \in Present /\ table'[other] = table[other]
  BY <1>1 DEF Present
<1>7. ASSUME FailsClosed, NEW f \in Listed
      PROVE  Belongs(stored[f])'
  <2> SUFFICES ASSUME NEW v, v = stored[f], Bound(v), NEW other \in RowId, NEW g \in Listed
               PROVE  \/ ReadAs(other, g, v)' = Null
                      \/ <<other, g, ReadAs(other, g, v)'>> \in written'
    BY <1>4, BelongsStill DEF Belongs
  <2>1. ReadAs(other, g, v)' = ReadAs(other, g, v)
    BY <1>4, BelongsStill
  <2> QED
    BY <1>5, <1>7, <2>1
<1>8. ASSUME FailsClosed, NEW other \in Present', NEW f \in Listed
      PROVE  Belongs(table[other][f])'
  <2>1. CASE other = id
    BY <1>6, <1>7, <1>8, <2>1 DEF Belongs
  <2>2. CASE other # id
    <3> SUFFICES ASSUME NEW v, v = table[other][f] PROVE Belongs(v)'
      BY <1>6, <2>2 DEF Belongs
    <3>1. Belongs(v)
      BY <1>6, <1>8, <2>2 DEF StoredBelong
    <3> QED
      BY <1>4, <3>1, BelongsStill
  <2> QED
    BY <2>1, <2>2
<1>9. Listed' = Listed /\ FailsClosed' = FailsClosed
  BY <1>4, BelongsStill
<1> SUFFICES ASSUME FailsClosed', NEW other \in Present', NEW f \in Listed'
             PROVE  Belongs(table[other][f])'
  BY DEF StoredBelong
<1> QED
  BY <1>8, <1>9

(* What others write of their own cannot be read anywhere.                 *)
LEMMA ForeignBelong ==
  ASSUME BoundApart, TypeOK, FailsClosed, NEW value \in Foreign
  PROVE  Belongs(value)
<1> SUFFICES ASSUME Bound(value), NEW id \in RowId, NEW f \in Listed
             PROVE  ReadAs(id, f, value) = Null
  BY DEF Belongs
<1>1. NotOurs(config, value)
  BY DEF TypeOK, BoundApart
<1>2. value \in Str
  BY ValueKinds, PagesAssumption DEF Bound
<1>3. Shut(config, id, spec, TableNs, f, value)
  BY <1>1, <1>2 DEF NotOurs, Shut
<1> QED
  BY <1>3, ShutReadsAsNull

LEMMA AroundBelong ==
  ASSUME PagesInvariant, StoredBelong, NEW id \in RowId, NEW f \in Field,
         NEW value \in FieldValue, Around(id, f, value), FailsClosed => Belongs(value)
  PROVE  StoredBelong'
<1>1. /\ TypeOK /\ UNCHANGED <<config, spec, written>> /\ id \in Present /\ table[id] \in Row
      /\ table \in [RowId -> Row \cup {Absent}] /\ Listed \subseteq Field
      /\ table' = [table EXCEPT ![id] = [table[id] EXCEPT ![f] = value]]
  BY TableType DEF PagesInvariant, TypeOK, Around, Present
<1>2. Listed' = Listed /\ FailsClosed' = FailsClosed /\ \A v : Belongs(v) => Belongs(v)'
  BY <1>1, BelongsStill
<1>3. \A g \in Field : table'[id][g] = IF g = f THEN value ELSE table[id][g]
  BY <1>1 DEF Present, Row
<1>4. \A other \in Present' : /\ other \in Present
                              /\ other # id => table'[other] = table[other]
  BY <1>1 DEF Present
<1> SUFFICES ASSUME FailsClosed, NEW other \in Present', NEW g \in Listed
             PROVE  Belongs(table[other][g])'
  BY <1>2 DEF StoredBelong
<1> SUFFICES ASSUME NEW v, v = table'[other][g]
             PROVE  Belongs(v)'
  BY DEF Belongs
<1>5. v = value \/ v = table[other][g]
  BY <1>1, <1>3, <1>4
<1>6. Belongs(v)
  BY <1>4, <1>5 DEF StoredBelong
<1> QED
  BY <1>2, <1>6

LEMMA BelongNext ==
  ASSUME JsonIsTotal, BoundApart, PagesInvariant, StoredBelong, [Next]_vars
  PROVE  StoredBelong'
<1>1. TypeOK /\ Listed \subseteq Field
  BY TableType DEF PagesInvariant
<1>2. ASSUME UNCHANGED <<config, spec, table, written>>
      PROVE  StoredBelong'
  <2>1. /\ Listed' = Listed /\ FailsClosed' = FailsClosed /\ Present' = Present
        /\ \A v : Belongs(v) => Belongs(v)'
    BY <1>2, BelongsStill DEF Present
  <2> SUFFICES ASSUME FailsClosed, NEW id \in Present, NEW f \in Listed
               PROVE  Belongs(table[id][f])'
    BY <2>1 DEF StoredBelong
  <2> SUFFICES ASSUME NEW v, v = table[id][f] PROVE Belongs(v)'
    BY <1>2 DEF Belongs
  <2> QED
    BY <2>1 DEF StoredBelong
<1>3. ASSUME NEW id \in RowId, NEW row \in Rows, Insert(id, row)
      PROVE  StoredBelong'
  <2>1. row \in Row /\ ClearRow(row) /\ UNCHANGED <<config, spec>>
    BY <1>1, <1>3, PagesAssumption DEF ClearRow, Insert
  <2>2. \/ /\ SealRow(config, instance, row, id, spec, TableNs).status = "ok"
           /\ table' = [table EXCEPT ![id] =
                          SealRow(config, instance, row, id, spec, TableNs).row]
           /\ written' = written \cup Slots(id, row)
        \/ UNCHANGED <<table, written>>
    BY <1>3 DEF Insert
  <2> QED
    BY <1>2, <2>1, <2>2, WritesBelong
<1>4. ASSUME NEW id \in RowId, ServeRow(id)
      PROVE  StoredBelong'
  BY <1>2, <1>4 DEF ServeRow, Serve
<1>5. ASSUME NEW query \in Queries, ServePage(query)
      PROVE  StoredBelong'
  BY <1>2, <1>5 DEF ServePage, Serve
<1>6. ASSUME NEW edit \in Edits, Edit(edit[1], edit[2])
      PROVE  StoredBelong'
  <2> SUFFICES ASSUME NEW f, f = edit[1], NEW value, value = edit[2],
                      NEW id, id = page.rows[1].id,
                      NEW row, row = [page.rows[1].row EXCEPT ![f] = value]
               PROVE  StoredBelong'
    OBVIOUS
  <2>1. ClearRow(row) /\ UNCHANGED <<config, spec>> /\ page.call = "unsealRow"
    BY <1>6 DEF ClearRow, Edit
  <2>2. id \in RowId /\ row \in Row
    <3>1. f \in Field /\ value \in FieldValue
      BY PagesAssumption
    <3> QED
      BY <2>1, <3>1, EditedRowType
  <2>3. \/ /\ SealRow(config, instance, row, id, spec, TableNs).status = "ok"
           /\ table' = [table EXCEPT ![id] =
                          SealRow(config, instance, row, id, spec, TableNs).row]
           /\ written' = written \cup Slots(id, row)
        \/ UNCHANGED <<table, written>>
    BY <1>6 DEF Edit
  <2> QED
    BY <1>2, <2>1, <2>2, <2>3, WritesBelong
<1>7. CASE Restart
  BY <1>2, <1>7 DEF Restart
<1>8. ASSUME NEW id \in RowId, NEW f \in Listed, NEW value \in Foreign,
             WriteAround(id, f, value)
      PROVE  StoredBelong'
  <2>1. f \in Field /\ value \in FieldValue /\ Around(id, f, value)
    BY <1>1, <1>8, PagesAssumption DEF WriteAround
  <2>2. FailsClosed => Belongs(value)
    BY <1>1, ForeignBelong
  <2> QED
    BY <2>1, <2>2, AroundBelong
<1>9. ASSUME NEW from \in RowId, NEW to \in RowId, NEW f \in Listed, NEW g \in Listed,
             CopyAround(from, f, to, g)
      PROVE  StoredBelong'
  <2>1. /\ f \in Field /\ g \in Field /\ Around(to, g, table[from][f])
        /\ from \in Present
    BY <1>1, <1>9 DEF CopyAround, Present
  <2>2. table[from][f] \in FieldValue
    BY <1>1, <2>1, TableType DEF Row
  <2>3. FailsClosed => Belongs(table[from][f])
    BY <2>1 DEF StoredBelong
  <2> QED
    BY <2>1, <2>2, <2>3, AroundBelong
<1>10. CASE UNCHANGED vars
  BY <1>2, <1>10 DEF vars
<1> QED
  BY <1>3, <1>4, <1>5, <1>6, <1>7, <1>8, <1>9, <1>10 DEF Next

(* Under a keyring that fails closed a bound value is shown only where it  *)
(* was written, however often others copy it, to whatever row and field.   *)
THEOREM ValuesStayWhereWritten ==
  ASSUME JsonIsTotal, BoundApart
  PROVE  Spec => []ShownValuesBelongHere
<1>1. Init => PagesInvariant /\ StoredBelong
  <2>1. Init => StoredBelong
    BY DEF Init, StoredBelong, Present
  <2> QED
    BY <2>1, PagesInit
<1>2. PagesInvariant /\ StoredBelong /\ [Next]_vars => PagesInvariant' /\ StoredBelong'
  BY PagesNext, BelongNext
<1>3. PagesInvariant /\ StoredBelong => ShownValuesBelongHere
  BY PagesBelong
<1> QED
  BY <1>1, <1>2, <1>3, PTL DEF Spec
-----------------------------------------------------------------------------
(* Counting attempts and failures.                                         *)

Counted(S, x) == IsFiniteSet(S) /\ Cardinality(S) = x

(* A tally goes over different elements, a whole set among them, and adds  *)
(* one for each that is in the set.                                        *)
Tally(n, e, S, x) ==
  /\ \A j, k \in 1 .. n : e[j] = e[k] => j = k
  /\ \A v \in S : \E k \in 1 .. n : e[k] = v
  /\ x[0] = 0
  /\ \A k \in 1 .. n : x[k] = x[k - 1] + (IF e[k] \in S THEN 1 ELSE 0)

LEMMA TallyCounts ==
  ASSUME NEW n \in Nat, NEW e, NEW S, NEW x, Tally(n, e, S, x)
  PROVE  Counted(S, x[n])
<1> DEFINE Seen(k) == {v \in S : \E j \in 1 .. k : e[j] = v}
           right == {k \in 0 .. n : Counted(Seen(k), x[k])}
<1>1. 0 \in right
  <2>1. Seen(0) = {}
    OBVIOUS
  <2> QED
    BY <2>1, FS_EmptySet DEF Counted, Tally
<1>2. ASSUME NEW k \in 0 .. n - 1, k \in right
      PROVE  k + 1 \in right
  <2>1. k + 1 \in 1 .. n /\ k + 1 \in 0 .. n /\ (k + 1) - 1 = k /\ k \in 0 .. n
    OBVIOUS
  <2>2. x[k + 1] = x[k] + (IF e[k + 1] \in S THEN 1 ELSE 0)
    BY <2>1 DEF Tally
  <2>3. IsFiniteSet(Seen(k)) /\ Cardinality(Seen(k)) = x[k]
    BY <1>2 DEF Counted
  <2>4. e[k + 1] \notin Seen(k)
    <3>1. \A j \in 1 .. k : j \in 1 .. n /\ j # k + 1
      BY <2>1
    <3> QED
      BY <2>1, <3>1 DEF Tally
  <2>5. \A v : (\E j \in 1 .. k + 1 : e[j] = v) <=> (\E j \in 1 .. k : e[j] = v) \/ e[k + 1] = v
    <3>1. \A j : j \in 1 .. k + 1 <=> j \in 1 .. k \/ j = k + 1
      BY <2>1
    <3> QED
      BY <3>1
  <2>6. CASE e[k + 1] \in S
    <3>1. Seen(k + 1) = Seen(k) \cup {e[k + 1]}
      BY <2>5, <2>6
    <3> HIDE DEF Seen
    <3>2. IsFiniteSet(Seen(k + 1)) /\ Cardinality(Seen(k + 1)) = Cardinality(Seen(k)) + 1
      BY <2>3, <2>4, <3>1, FS_AddElement
    <3> QED
      BY <2>1, <2>2, <2>3, <2>6, <3>2 DEF Counted
  <2>7. CASE e[k + 1] \notin S
    <3>1. Seen(k + 1) = Seen(k)
      BY <2>5, <2>7
    <3> HIDE DEF Seen
    <3>2. x[k] \in Nat
      BY <2>3, FS_CardinalityType
    <3> QED
      BY <2>1, <2>2, <2>3, <2>7, <3>1, <3>2 DEF Counted
  <2> QED
    BY <2>6, <2>7
<1>3. Seen(n) = S
  BY DEF Tally
<1> HIDE DEF right, Seen
<1>4. \A k \in 0 .. n : k \in right
  <2>1. \A k \in 0 .. n - 1 : k \in right => k + 1 \in right
    BY <1>2
  <2> QED
    BY <1>1, <2>1, EveryPlace
<1> QED
  BY <1>3, <1>4 DEF right

(* A sum of what is counted in parts that have nothing in common.          *)
Total(n, part, amount, x) ==
  /\ \A j, k \in 1 .. n : j # k => part[j] \cap part[k] = {}
  /\ \A k \in 1 .. n : Counted(part[k], amount[k])
  /\ x[0] = 0
  /\ \A k \in 1 .. n : x[k] = x[k - 1] + amount[k]

LEMMA TotalCounts ==
  ASSUME NEW n \in Nat, NEW part, NEW amount, NEW x, Total(n, part, amount, x)
  PROVE  Counted(UNION {part[k] : k \in 1 .. n}, x[n])
<1> DEFINE Seen(k) == UNION {part[j] : j \in 1 .. k}
           right == {k \in 0 .. n : Counted(Seen(k), x[k])}
<1>1. 0 \in right
  <2>1. Seen(0) = {}
    OBVIOUS
  <2>2. x[0] = 0
    BY DEF Total
  <2> QED
    BY <2>1, <2>2, FS_EmptySet DEF Counted
<1>2. ASSUME NEW k \in 0 .. n - 1, k \in right
      PROVE  k + 1 \in right
  <2>1. k + 1 \in 1 .. n /\ k + 1 \in 0 .. n /\ (k + 1) - 1 = k /\ k \in 0 .. n
    OBVIOUS
  <2>2. x[k + 1] = x[k] + amount[k + 1]
    BY <2>1 DEF Total
  <2>3. IsFiniteSet(Seen(k)) /\ Cardinality(Seen(k)) = x[k]
    BY <1>2 DEF Counted
  <2>4. IsFiniteSet(part[k + 1]) /\ Cardinality(part[k + 1]) = amount[k + 1]
    BY <2>1 DEF Counted, Total
  <2>5. Seen(k) \cap part[k + 1] = {}
    <3>1. \A j \in 1 .. k : j \in 1 .. n /\ j # k + 1
      BY <2>1
    <3> QED
      BY <2>1, <3>1 DEF Total
  <2>6. Seen(k + 1) = Seen(k) \cup part[k + 1]
    <3>1. \A j : j \in 1 .. k + 1 <=> j \in 1 .. k \/ j = k + 1
      BY <2>1
    <3> QED
      BY <3>1
  <2> HIDE DEF Seen
  <2>7. /\ IsFiniteSet(Seen(k + 1))
        /\ Cardinality(Seen(k + 1))
           = Cardinality(Seen(k)) + Cardinality(part[k + 1]) - Cardinality(Seen(k) \cap part[k + 1])
    BY <2>3, <2>4, <2>6, FS_Union
  <2>8. Cardinality(Seen(k) \cap part[k + 1]) = 0
    BY <2>5, FS_EmptySet
  <2>9. Cardinality(Seen(k)) \in Nat /\ Cardinality(part[k + 1]) \in Nat
    BY <2>3, <2>4, FS_CardinalityType
  <2>10. Cardinality(Seen(k + 1)) = x[k + 1]
    BY <2>2, <2>3, <2>4, <2>7, <2>8, <2>9
  <2> QED
    BY <2>1, <2>7, <2>10 DEF Counted
<1> HIDE DEF right, Seen
<1>3. \A k \in 0 .. n : k \in right
  <2>1. \A k \in 0 .. n - 1 : k \in right => k + 1 \in right
    BY <1>2
  <2> QED
    BY <1>1, <2>1, EveryPlace
<1>4. n \in right
  BY <1>3
<1>5. Counted(Seen(n), x[n])
  BY <1>4 DEF right
<1> QED
  BY <1>5 DEF Seen

(* No entry of the lists repeats another.                                  *)
FieldsOnce(s) ==
  \A i, j \in DOMAIN AllFields(s) : AllFields(s)[i] = AllFields(s)[j] => i = j

FieldsOf(s) == {AllFields(s)[k] : k \in DOMAIN AllFields(s)}

(* A value that is attempted and does not open.                            *)
Misses(c, id, s, ns, f, v) ==
  Attempted(c, v) /\ Unseal(c, v, RowOptions(s, ns, f, id)).status # "ok"

(* The attempts and failures of a row, under a tag.                        *)
RowAttempts(c, s, tag, row) ==
  {slot \in {tag} \X FieldsOf(s) : Attempted(c, row[slot[2]])}

RowFailures(c, id, s, ns, tag, row) ==
  {slot \in {tag} \X FieldsOf(s) : Misses(c, id, s, ns, slot[2], row[slot[2]])}

(* When the fields are listed once, each is met with the value it had.     *)
LEMMA FieldsAreFresh ==
  ASSUME NEW c, NEW id, NEW s, NEW ns, Arguments(c, id, s, ns), FieldsOnce(s),
         NEW work, UnsealRun(c, id, s, ns, work), NEW k \in 1 .. Len(AllFields(s))
  PROVE  work[k - 1].row[AllFields(s)[k]] = work[0].row[AllFields(s)[k]]
<1> SUFFICES ASSUME NEW n, n = Len(AllFields(s)), NEW f, f = AllFields(s)[k],
                    NEW y, y = WorkColumn(work, n, f)
             PROVE  work[k - 1].row[f] = work[0].row[f]
  OBVIOUS
<1>1. /\ n \in Nat /\ DOMAIN AllFields(s) = 1 .. n /\ f \in Field
  BY ListTypes DEF Arguments
<1>2. DoneAt(y, n, Places(AllFields(s), f), Opening(c, id, s, ns, f))
  BY <1>1, OpenedByField
<1>3. k - 1 \in Nat /\ k - 1 \in 0 .. n /\ 0 \in 0 .. n /\ 0 \in 0 .. k - 1
  BY <1>1
<1>4. ASSUME NEW l \in 0 + 1 .. k - 1
      PROVE  y[l] = y[l - 1]
  <2>1. l \in 1 .. n /\ l # k
    BY <1>1
  <2>2. l \notin Places(AllFields(s), f)
    BY <1>1, <2>1 DEF Places, FieldsOnce
  <2> QED
    BY <1>2, <2>1, <2>2 DEF DoneAt
<1>5. \A l \in 0 .. k - 1 : y[l] \in {y[0]}
  <2>1. \A l \in 0 + 1 .. k - 1 : y[l - 1] \in {y[0]} => y[l] \in {y[0]}
    BY <1>4
  <2>2. y[0] \in {y[0]}
    OBVIOUS
  <2> QED
    BY <1>3, <2>1, <2>2, StaysWithin
<1>6. y[k - 1] = y[0]
  <2>1. k - 1 \in 0 .. k - 1
    BY <1>3
  <2> QED
    BY <1>5, <2>1
<1> QED
  BY <1>3, <1>6 DEF WorkColumn

(* What unsealRowInternal counts in a row.                                 *)
LEMMA RowCounts ==
  ASSUME NEW c, NEW id, NEW s, NEW ns, Arguments(c, id, s, ns), FieldsOnce(s),
         NEW row \in Row, NEW i \in InstanceType, NEW tag
  PROVE  LET one == UnsealRowInternal(c, i, row, id, s, ns) IN
         /\ Counted(RowAttempts(c, s, tag, row), one.attempts)
         /\ Counted(RowFailures(c, id, s, ns, tag, row), one.failures)
<1> SUFFICES ASSUME NEW one, one = UnsealRowInternal(c, i, row, id, s, ns),
                    NEW n, n = Len(AllFields(s)), NEW list, list = AllFields(s),
                    NEW tries, tries = RowAttempts(c, s, tag, row),
                    NEW misses, misses = RowFailures(c, id, s, ns, tag, row)
             PROVE  Counted(tries, one.attempts) /\ Counted(misses, one.failures)
  OBVIOUS
<1>1. n \in Nat /\ DOMAIN list = 1 .. n /\ n \in 0 .. n /\ 0 \in 0 .. n
  BY ListTypes DEF Arguments
<1>2. PICK work, rows : UnsealRowSteps(c, id, s, ns, row, i, work, rows)
  BY UnsealRowRuns
<1>3. /\ UnsealRun(c, id, s, ns, work)
      /\ work[0] = [row |-> row, failures |-> 0, attempts |-> 0, instance |-> i]
      /\ one = [work[n] EXCEPT !.row = rows[Len(s.jsonFields)]]
  BY <1>2 DEF UnsealRowSteps
<1>4. work[n] \in UnsealWork
  BY <1>1, <1>3 DEF UnsealRun
<1>5. one.attempts = work[n].attempts /\ one.failures = work[n].failures
  BY <1>3, <1>4 DEF UnsealWork
<1> DEFINE e == [k \in 1 .. n |-> <<tag, list[k]>>]
           x == [k \in 0 .. n |-> work[k].attempts]
           y == [k \in 0 .. n |-> work[k].failures]
<1>6. \A j, k \in 1 .. n : e[j] = e[k] => j = k
  BY <1>1 DEF FieldsOnce
<1>7. \A v \in tries \cup misses : \E k \in 1 .. n : e[k] = v
  BY <1>1 DEF RowAttempts, RowFailures, FieldsOf
<1>8. ASSUME NEW k \in 1 .. n
      PROVE  /\ x[k] = x[k - 1] + (IF e[k] \in tries THEN 1 ELSE 0)
             /\ y[k] = y[k - 1] + (IF e[k] \in misses THEN 1 ELSE 0)
  <2> DEFINE f == list[k]
             v == row[f]
             outcome == Unseal(c, v, RowOptions(s, ns, f, id))
  <2>1. k - 1 \in 0 .. n /\ k \in 0 .. n
    BY <1>1
  <2>2. work[k] = UnsealField(c, id, s, ns, work[k - 1], f)
    BY <1>3 DEF UnsealRun
  <2>3. work[k - 1].row[f] = v
    BY <1>3, FieldsAreFresh
  <2>4. e[k] = <<tag, f>> /\ f \in FieldsOf(s)
    BY <1>1 DEF FieldsOf
  <2>5. e[k] \in tries <=> Attempted(c, v)
    BY <2>4 DEF RowAttempts
  <2>6. e[k] \in misses <=> Attempted(c, v) /\ outcome.status # "ok"
    BY <2>4 DEF RowFailures, Misses
  <2>7. work[k - 1].attempts \in Nat /\ work[k - 1].failures \in Nat
    BY <1>3, <2>1 DEF UnsealRun, UnsealWork
  <2> HIDE DEF outcome, v, f
  <2>8. CASE Attempted(c, v)
    <3>1. /\ work[k].attempts = work[k - 1].attempts + 1
          /\ work[k].failures
             = work[k - 1].failures + (IF outcome.status = "ok" THEN 0 ELSE 1)
      BY <2>2, <2>3, <2>8 DEF UnsealField, Attempt, outcome
    <3> QED
      BY <2>1, <2>5, <2>6, <2>7, <2>8, <3>1
  <2>9. CASE ~ Attempted(c, v)
    <3>1. work[k] = work[k - 1]
      BY <2>2, <2>3, <2>9 DEF UnsealField
    <3> QED
      BY <2>1, <2>5, <2>6, <2>7, <2>9, <3>1
  <2> QED
    BY <2>8, <2>9
<1>9. x[0] = 0 /\ y[0] = 0
  BY <1>1, <1>3
<1>10. x[n] = one.attempts /\ y[n] = one.failures
  BY <1>1, <1>5
<1> HIDE DEF e, x, y
<1>11. Tally(n, e, tries, x) /\ Tally(n, e, misses, y)
  BY <1>6, <1>7, <1>8, <1>9 DEF Tally
<1> QED
  BY <1>1, <1>10, <1>11, TallyCounts

(* The attempts and failures of a page, each in its place.                 *)
PageAttempts(c, s, entries) ==
  {slot \in (DOMAIN entries) \X FieldsOf(s) : Attempted(c, entries[slot[1]].row[slot[2]])}

PageFailures(c, s, ns, entries) ==
  {slot \in (DOMAIN entries) \X FieldsOf(s) :
     Misses(c, entries[slot[1]].id, s, ns, slot[2], entries[slot[1]].row[slot[2]])}

(* What unsealRows weighs: every attempt on the page and every failure.    *)
LEMMA PageCounts ==
  ASSUME NEW c, NEW s, NEW ns, TableArguments(c, s, ns), FieldsOnce(s),
         NEW entries \in Seq(Entry), NEW i \in InstanceType
  PROVE  \E attempts, failures :
           /\ Counted(PageAttempts(c, s, entries), attempts)
           /\ Counted(PageFailures(c, s, ns, entries), failures)
           /\ UnsealRows(c, i, entries, s, ns).status
              = IF Systemic(failures, attempts) THEN "Systemic" ELSE "ok"
<1> SUFFICES ASSUME NEW n, n = Len(entries)
             PROVE  \E attempts, failures :
                      /\ Counted(PageAttempts(c, s, entries), attempts)
                      /\ Counted(PageFailures(c, s, ns, entries), failures)
                      /\ UnsealRows(c, i, entries, s, ns).status
                         = IF Systemic(failures, attempts) THEN "Systemic" ELSE "ok"
  OBVIOUS
<1>1. PICK work : PageSteps(c, s, ns, entries, i, work)
  BY UnsealRowsRuns
<1>2. /\ work \in [0 .. n -> PageWork]
      /\ \A k \in 1 .. n : work[k] = PageStep(c, s, ns, work[k - 1], entries[k])
      /\ work[0] = [rows |-> << >>, failures |-> 0, attempts |-> 0, instance |-> i]
      /\ UnsealRows(c, i, entries, s, ns) = Weigh(work[n])
  BY <1>1 DEF PageSteps, PageRun
<1>3. n \in Nat /\ DOMAIN entries = 1 .. n /\ \A k \in 1 .. n : entries[k] \in Entry
  OBVIOUS
<1> DEFINE one == [k \in 1 .. n |-> UnsealRowInternal(c, work[k - 1].instance, entries[k].row,
                                                      entries[k].id, s, ns)]
           tries == [k \in 1 .. n |-> RowAttempts(c, s, k, entries[k].row)]
           misses == [k \in 1 .. n |->
                        RowFailures(c, entries[k].id, s, ns, k, entries[k].row)]
           tried == [k \in 1 .. n |-> one[k].attempts]
           missed == [k \in 1 .. n |-> one[k].failures]
           x == [k \in 0 .. n |-> work[k].attempts]
           y == [k \in 0 .. n |-> work[k].failures]
<1>4. ASSUME NEW k \in 1 .. n
      PROVE  /\ Counted(tries[k], tried[k]) /\ Counted(misses[k], missed[k])
             /\ x[k] = x[k - 1] + tried[k] /\ y[k] = y[k - 1] + missed[k]
  <2>1. k - 1 \in 0 .. n /\ k \in 0 .. n
    BY <1>3
  <2>2. work[k - 1].instance \in InstanceType
    BY <1>2, <2>1 DEF PageWork
  <2>3. entries[k].id \in RowId /\ entries[k].row \in Row
    BY <1>3 DEF Entry
  <2>4. Arguments(c, entries[k].id, s, ns)
    BY <2>3 DEF Arguments, TableArguments
  <2>5. Counted(tries[k], tried[k]) /\ Counted(misses[k], missed[k])
    BY <2>2, <2>3, <2>4, RowCounts
  <2>6. work[k] = AddRow(work[k - 1], entries[k].id, one[k])
    BY <1>2 DEF PageStep
  <2> HIDE DEF one
  <2>7. /\ work[k].attempts = work[k - 1].attempts + one[k].attempts
        /\ work[k].failures = work[k - 1].failures + one[k].failures
    BY <2>6 DEF AddRow
  <2> QED
    BY <2>1, <2>5, <2>7
<1>5. ASSUME NEW j \in 1 .. n, NEW k \in 1 .. n, j # k
      PROVE  tries[j] \cap tries[k] = {} /\ misses[j] \cap misses[k] = {}
  BY <1>5 DEF RowAttempts, RowFailures
<1>6. x[0] = 0 /\ y[0] = 0 /\ x[n] = work[n].attempts /\ y[n] = work[n].failures
  BY <1>2, <1>3
<1>7. UNION {tries[k] : k \in 1 .. n} = PageAttempts(c, s, entries)
  BY <1>3 DEF RowAttempts, PageAttempts
<1>8. UNION {misses[k] : k \in 1 .. n} = PageFailures(c, s, ns, entries)
  BY <1>3 DEF RowFailures, PageFailures
<1> HIDE DEF tries, misses, tried, missed, x, y
<1>9. Total(n, tries, tried, x) /\ Total(n, misses, missed, y)
  BY <1>4, <1>5, <1>6 DEF Total
<1>10. /\ Counted(UNION {tries[k] : k \in 1 .. n}, x[n])
       /\ Counted(UNION {misses[k] : k \in 1 .. n}, y[n])
  BY <1>3, <1>9, TotalCounts
<1>11. /\ Counted(PageAttempts(c, s, entries), work[n].attempts)
       /\ Counted(PageFailures(c, s, ns, entries), work[n].failures)
  BY <1>6, <1>7, <1>8, <1>10
<1>12. UnsealRows(c, i, entries, s, ns).status
       = IF Systemic(work[n].failures, work[n].attempts) THEN "Systemic" ELSE "ok"
  BY <1>2 DEF Weigh
<1> QED
  BY <1>11, <1>12

-----------------------------------------------------------------------------
(* What weighs, and what cannot be read.                                   *)

(* A value that weighs.                                                    *)
Weighs(v) ==
  IsNonemptyString(v) /\ (config.plaintext = "passthrough" => v.layers # << >>)

(* Values that are told from plaintext are attempted when they weigh.      *)
LEMMA AttemptedIfWeighs ==
  ASSUME NEW v, Recognised(config, v)
  PROVE  Attempted(config, v) <=> Weighs(v)
  BY DEF Attempted, Weighs, Recognised, IsNonemptyString

(* A token opens under its version's key and its AAD, and not otherwise.   *)
LEMMA TokenOpensExactly ==
  ASSUME NEW v \in Str, v.layers # << >>, Head(v.layers).format = "token",
         NEW ring, NEW context
  PROVE  LET layer == Head(v.layers)
             outcome == UnsealWithKeyring(v, ring, "throw", context)
         IN /\ outcome.status = "ok"
               <=> /\ ring.keys[layer.version] = layer.key
                   /\ layer.aad = BuildAad(layer.version, context)
            /\ (outcome.status # "ok" /\ ring.keys[layer.version] = layer.key)
               => outcome.status = "AuthFailure"
<1> DEFINE layer == Head(v.layers)
           outcome == UnsealWithKeyring(v, ring, "throw", context)
<1>1. VersionLabel(v) = layer.version /\ Shape(v) = "token"
  BY DEF VersionLabel, Shape
<1>2. layer.key # NoKey
  <2>1. layer \in Layer
    BY HeadLayer
  <2> QED
    BY <2>1, TokensAssumption DEF Layer
<1> HIDE DEF layer
<1>3. CASE ring.keys[layer.version] = NoKey
  <2>1. outcome.status = "UnknownKeyVersion"
    BY <1>1, <1>3 DEF UnsealWithKeyring, Err, Outcome
  <2> QED
    BY <1>2, <1>3, <2>1 DEF layer
<1>4. CASE ring.keys[layer.version] # NoKey
  <2> DEFINE key == ring.keys[layer.version]
             fits == Authenticates(v, key, BuildAad(layer.version, context))
  <2>1. outcome = IF fits THEN Ok(Unwrap(v)) ELSE Err("AuthFailure")
    BY <1>1, <1>4 DEF UnsealWithKeyring
  <2>2. fits <=> key = layer.key /\ layer.aad = BuildAad(layer.version, context)
    BY DEF Authenticates, layer
  <2> HIDE DEF fits
  <2>3. outcome.status = IF fits THEN "ok" ELSE "AuthFailure"
    BY <2>1 DEF Ok, Err, Outcome
  <2> QED
    BY <2>2, <2>3 DEF layer
<1> QED
  BY <1>3, <1>4

(* A value that weighs is failed exactly when its layer does not open.     *)
LEMMA FailsExactly ==
  ASSUME PagesInvariant, FailsClosed, NsOf(config, TableNs) \in Names(config),
         NEW id \in RowId, NEW f \in Field, NEW v \in Str,
         Recognised(config, v), Weighs(v)
  PROVE  Unseal(config, v, RowOptions(spec, TableNs, f, id)).status # "ok"
         <=> v.layers = << >> \/ ~ Opens(v, spec.context[<<f, id>>])
<1> SUFFICES ASSUME NEW options, options = RowOptions(spec, TableNs, f, id),
                    NEW context, context = spec.context[<<f, id>>],
                    NEW ring, ring = RingOfTable,
                    NEW outcome, outcome = Unseal(config, v, options)
             PROVE  outcome.status # "ok" <=> v.layers = << >> \/ ~ Opens(v, context)
  OBVIOUS
<1>1. /\ config \in Config /\ options.context = context
      /\ ResolveNs(config, options) = NsOf(config, TableNs)
      /\ ring = RingOf(config, ResolveNs(config, options)) /\ ring # NoRing
      /\ config.onUnknownVersion = "throw" /\ config.legacy \subseteq LegacyFormats
  <2>1. TypeOK /\ Arguments(config, id, spec, TableNs)
    BY TableType DEF PagesInvariant
  <2>2. config \in Config
    BY <2>1 DEF Arguments
  <2> QED
    BY <2>1, <2>2, RowOptionsType DEF FailsClosed, RingOfTable, Config
<1>2. CASE context = InvalidContext
  <2>1. outcome.status = "InvalidContext"
    BY <1>1, <1>2 DEF Unseal, OptionsStatus, Err, Outcome
  <2> QED
    BY <1>2, <2>1 DEF Opens
<1>3. CASE context # InvalidContext
  <2>1. outcome = IF ParseToken(v) THEN UnsealToken(config, v, ring, context)
                  ELSE IF MatchesLegacy(v, config.legacy)
                  THEN UnsealLegacy(config, v, ring, context)
                  ELSE UnsealPlaintext(config, v)
    <3>1. OptionsStatus(config, options) = "ok"
      BY <1>1, <1>3, SealedFieldsAssumption DEF OptionsStatus, Names
    <3> QED
      BY <1>1, <3>1 DEF Unseal
  <2>2. IsString(v)
    BY DEF Weighs, IsNonemptyString
  <2>3. CASE v.layers = << >>
    <3>1. config.plaintext = "reject"
      BY <2>3 DEF Weighs, PagesInvariant, Constructible
    <3>2. ~ LooksSealed(v) /\ ~ MatchesLegacy(v, config.legacy)
      BY <2>2, <2>3 DEF Recognised
    <3>3. CASE ParseToken(v)
      <4>1. Shape(v) = "short"
        BY <3>2, <3>3 DEF ParseToken, LooksSealed
      <4>2. \A c : UnsealWithKeyring(v, ring, "throw", c).status
                   \in {"UnknownKeyVersion", "TooShort"}
        BY <4>1 DEF UnsealWithKeyring, Err, Outcome
      <4>3. UnsealToken(config, v, ring, context).status # "ok"
        BY <1>1, <4>2 DEF UnsealToken
      <4> QED
        BY <2>1, <2>3, <3>3, <4>3
    <3>4. CASE ~ ParseToken(v)
      <4>1. outcome = Err("PlaintextRejected")
        BY <2>1, <3>1, <3>2, <3>4 DEF UnsealPlaintext
      <4> QED
        BY <2>3, <4>1 DEF Err, Outcome
    <3> QED
      BY <3>3, <3>4
  <2>4. CASE v.layers # << >> /\ Head(v.layers).format = "token"
    <3> DEFINE layer == Head(v.layers)
               bound == UnsealWithKeyring(v, ring, "throw", context)
               unbound == UnsealWithKeyring(v, ring, "throw", NoContext)
    <3>1. outcome = UnsealToken(config, v, ring, context)
      <4>1. ParseToken(v)
        BY <2>4 DEF ParseToken, Shape
      <4> QED
        BY <2>1, <4>1
    <3>2. outcome = IF /\ bound.status = "AuthFailure" /\ context # NoContext
                       /\ config.contextFallback /\ unbound.status = "ok"
                    THEN Noted(unbound.value, "unbound") ELSE bound
      BY <1>1, <3>1 DEF UnsealToken
    <3>3. outcome.status = "ok"
          <=> \/ bound.status = "ok"
              \/ /\ bound.status = "AuthFailure" /\ context # NoContext
                 /\ config.contextFallback /\ unbound.status = "ok"
      <4> HIDE DEF bound, unbound
      <4> QED
        BY <3>2 DEF Noted, Outcome
    <3>4. /\ bound.status = "ok" <=> /\ ring.keys[layer.version] = layer.key
                                     /\ layer.aad = BuildAad(layer.version, context)
          /\ (bound.status # "ok" /\ ring.keys[layer.version] = layer.key)
             => bound.status = "AuthFailure"
      BY <2>4, TokenOpensExactly
    <3>5. unbound.status = "ok" <=> /\ ring.keys[layer.version] = layer.key
                                    /\ layer.aad = BuildAad(layer.version, NoContext)
      BY <2>4, TokenOpensExactly
    <3>6. Opens(v, context)
          <=> /\ ring.keys[layer.version] = layer.key
              /\ \/ layer.aad = BuildAad(layer.version, context)
                 \/ config.contextFallback /\ layer.aad = BuildAad(layer.version, NoContext)
      BY <1>3, <2>4 DEF Opens
    <3> HIDE DEF bound, unbound, layer
    <3> QED
      BY <2>4, <3>3, <3>4, <3>5, <3>6
  <2>5. CASE v.layers # << >> /\ Head(v.layers).format # "token"
    <3> DEFINE layer == Head(v.layers)
               legacy == TryLegacyFormats(v, config.legacy, ring)
    <3>1. layer.format \in LegacyFormats
      <4>1. layer \in Layer
        BY <2>5, HeadLayer
      <4> QED
        BY <2>5, <4>1 DEF Layer
    <3>2. Shape(v) \in {"plain", layer.format}
      BY <2>5 DEF Shape
    <3>3. ~ ParseToken(v) /\ ~ LooksSealed(v)
      BY <3>1, <3>2 DEF ParseToken, LooksSealed, LegacyFormats
    <3>4. MatchesLegacy(v, config.legacy)
      BY <2>2, <2>5, <3>3 DEF Recognised
    <3>5. layer.format \in config.legacy /\ Shape(v) = layer.format
      BY <1>1, <3>2, <3>4 DEF MatchesLegacy, MatchLegacy, LegacyFormats
    <3>6. outcome = UnsealLegacy(config, v, ring, context)
      BY <2>1, <3>3, <3>4
    <3>7. legacy.status = "ok" <=> layer.key \in KeysOf(ring) /\ layer.aad = NoAad
      <4>1. (\E format \in config.legacy, key \in KeysOf(ring) :
               MatchLegacy(v, format) /\ Authenticates(v, key, NoAad))
            <=> layer.key \in KeysOf(ring) /\ layer.aad = NoAad
        BY <2>5, <3>5 DEF MatchLegacy, Authenticates
      <4> QED
        BY <4>1 DEF TryLegacyFormats, Ok, Err, Outcome
    <3>8. outcome.status = "ok"
          <=> legacy.status = "ok" /\ (context = NoContext \/ config.contextFallback)
      <4> HIDE DEF legacy
      <4>1. outcome = IF context # NoContext /\ ~ config.contextFallback
                      THEN Err("LegacyUnbound")
                      ELSE IF context # NoContext /\ legacy.status = "ok"
                      THEN Noted(legacy.value, "unbound") ELSE legacy
        BY <3>6 DEF UnsealLegacy, legacy
      <4> QED
        BY <4>1 DEF Err, Noted, Outcome
    <3>9. Opens(v, context)
          <=> /\ layer.format \in config.legacy
              /\ layer.key \in KeysOf(ring) /\ layer.aad = NoAad
              /\ context = NoContext \/ config.contextFallback
      BY <1>3, <2>5 DEF Opens
    <3> HIDE DEF legacy, layer
    <3> QED
      BY <2>5, <3>5, <3>7, <3>8, <3>9
  <2> QED
    BY <2>3, <2>4, <2>5
<1> QED
  BY <1>2, <1>3

(* What sealRow leaves in a listed field: no string, the empty one, or one *)
(* that shows its layer.                                                   *)
Told(v) == IsString(v) => v = EmptyStr \/ (v.layers # << >> /\ LooksSealed(v))

LEMMA ToldIsRecognised ==
  ASSUME NEW c \in Config, NEW v, Told(v)
  PROVE  Recognised(c, v)
<1>1. c.legacy \subseteq LegacyFormats
  BY DEF Config
<1>2. EmptyStr.layers = << >> /\ Shape(EmptyStr) = "plain"
  BY TokensAssumption DEF EmptyStr, Plain, Shape
<1>3. ~ LooksSealed(EmptyStr) /\ ~ MatchesLegacy(EmptyStr, c.legacy)
  BY <1>1, <1>2 DEF LooksSealed, MatchesLegacy, MatchLegacy, LegacyFormats
<1> QED
  BY <1>2, <1>3 DEF Told, Recognised

LEMMA SealsTold ==
  ASSUME JsonIsTotal, NEW c, NEW id, NEW s, NEW ns, Arguments(c, id, s, ns),
         RingOf(c, NsOf(c, ns)) # NoRing, NEW f \in Field, Places(AllFields(s), f) # {},
         NEW row \in Row, NEW i \in InstanceType,
         SealRow(c, i, row, id, s, ns).status = "ok"
  PROVE  Told(SealRow(c, i, row, id, s, ns).row[f])
<1> SUFFICES ASSUME NEW n, n = Len(AllFields(s)), NEW m, m = Len(s.jsonFields)
             PROVE  Told(SealRow(c, i, row, id, s, ns).row[f])
  OBVIOUS
<1>1. n \in Nat /\ n \in 0 .. n /\ DOMAIN AllFields(s) = 1 .. n
  BY ListTypes DEF Arguments
<1>2. PICK rows, work :
        /\ StringifyRun(s, rows) /\ rows[0] = row
        /\ SealRun(c, id, s, ns, work)
        /\ work[0] = [status |-> "ok", row |-> rows[m], instance |-> i]
        /\ SealRow(c, i, row, id, s, ns) = work[n]
  <2>1. PICK rows, work : SealRowSteps(c, id, s, ns, row, i, rows, work)
    BY SealRowRuns
  <2> QED
    BY <2>1 DEF SealRowSteps
<1> DEFINE told == {v \in FieldValue : Told(v)}
<1> SUFFICES ASSUME NEW y, y = WorkColumn(work, n, f),
                    NEW listed, listed = Places(AllFields(s), f)
             PROVE  y[n] \in told
  <2>1. WorkColumn(work, n, f)[n] = work[n].row[f]
    BY <1>1 DEF WorkColumn
  <2> QED
    BY <1>2, <2>1
<1>3. /\ y \in [0 .. n -> FieldValue] /\ DoneAt(y, n, listed, Sealing(c, id, s, ns, f))
      /\ \A k \in listed : IsNonemptyString(y[k - 1])
                           => Seal(c, y[k - 1], RowOptions(s, ns, f, id)).status = "ok"
  BY <1>2, SealedByField
<1>4. ASSUME NEW k \in listed
      PROVE  y[k] \in told
  <2> DEFINE v == y[k - 1]
             options == RowOptions(s, ns, f, id)
  <2>1. y[k] = Sealing(c, id, s, ns, f)[v] /\ v \in FieldValue
    <3>1. k \in 1 .. n /\ k - 1 \in 0 .. n
      BY <1>1 DEF Places
    <3> QED
      BY <1>3, <3>1 DEF DoneAt
  <2>2. CASE ~ IsNonemptyString(v)
    <3>1. y[k] = v
      BY <2>1, <2>2 DEF Sealing
    <3>2. Told(v)
      BY <2>2 DEF Told, IsNonemptyString
    <3> HIDE DEF v
    <3> QED
      BY <2>1, <3>1, <3>2
  <2>3. CASE IsNonemptyString(v)
    <3>1. v \in Str /\ Seal(c, v, options).status = "ok"
      BY <1>3, <2>1, <2>3, ValueKinds DEF IsNonemptyString
    <3>2. y[k] = Seal(c, v, options).value
      BY <2>1, <2>3 DEF Sealing
    <3>3. c \in Config /\ options \in SealOptions /\ ResolveNs(c, options) = NsOf(c, ns)
      BY RowOptionsType DEF Arguments
    <3> DEFINE layer == TokenLayer(RingOf(c, NsOf(c, ns)), options.context)
    <3> HIDE DEF options, v
    <3>4. OptionsStatus(c, options) = "ok" /\ y[k] = Wrap(v, layer)
      BY <3>1, <3>2, <3>3, SealReturns
    <3>5. layer \in Layer
      BY <3>3, <3>4, OptionsType, RingOfType, TokenLayerType
    <3>6. y[k] \in Str
      BY <3>1, <3>4, <3>5, WrapType
    <3>7. y[k].layers # << >> /\ Head(y[k].layers) = layer
      BY <3>1, <3>4, <3>5, UnwrapWrap
    <3>8. LooksSealed(y[k])
      BY <3>7 DEF LooksSealed, Shape, TokenLayer
    <3> QED
      BY <3>6, <3>7, <3>8 DEF Told, FieldValue
  <2> QED
    BY <2>2, <2>3
<1> HIDE DEF told
<1>5. PICK place \in listed : TRUE
  OBVIOUS
<1>6. place \in 0 .. n /\ n \in place .. n
  BY <1>1, <1>5 DEF Places
<1>7. \A k \in place + 1 .. n : y[k - 1] \in told => y[k] \in told
  <2> SUFFICES ASSUME NEW k \in place + 1 .. n, y[k - 1] \in told PROVE y[k] \in told
    OBVIOUS
  <2>1. k \in 1 .. n
    BY <1>1, <1>6
  <2>2. CASE k \in listed
    BY <1>4, <2>2
  <2>3. CASE k \notin listed
    BY <1>3, <2>1, <2>3 DEF DoneAt
  <2> QED
    BY <2>2, <2>3
<1>8. \A k \in place .. n : y[k] \in told
  BY <1>1, <1>4, <1>5, <1>6, <1>7, StaysWithin
<1> QED
  BY <1>6, <1>8

(* Whatever is stored in a listed field is told from plaintext.            *)
StoredRecognised ==
  RingOfTable # NoRing => \A id \in Present, f \in Listed : Recognised(config, table[id][f])

(* The last page was judged by the values that are still stored.           *)
PageOf(query) == [k \in DOMAIN query |-> [id |-> query[k], row |-> table[query[k]]]]

PageJudged ==
  page.call = "unsealRows" =>
    /\ \A k \in DOMAIN page.query : page.query[k] \in Present
    /\ \E i \in InstanceType :
         page.status = UnsealRows(config, i, PageOf(page.query), spec, TableNs).status

(* A row the helpers write.                                                *)
LEMMA WritesRecognised ==
  ASSUME JsonIsTotal, PagesInvariant, StoredRecognised,
         UNCHANGED <<config, spec>>, NEW id \in RowId, NEW row \in Row,
         SealRow(config, instance, row, id, spec, TableNs).status = "ok",
         table' = [table EXCEPT ![id] =
                     SealRow(config, instance, row, id, spec, TableNs).row]
  PROVE  StoredRecognised'
<1> SUFFICES ASSUME NEW stored,
                    stored = SealRow(config, instance, row, id, spec, TableNs).row
             PROVE  StoredRecognised'
  OBVIOUS
<1>1. /\ TypeOK /\ Arguments(config, id, spec, TableNs) /\ config \in Config
      /\ instance \in InstanceType /\ table \in [RowId -> Row \cup {Absent}]
      /\ Listed \subseteq Field
  BY TableType DEF PagesInvariant, TypeOK, Arguments
<1>2. Listed' = Listed /\ RingOfTable' = RingOfTable /\ config' = config
  BY DEF Listed, RingOfTable
<1>3. ASSUME RingOfTable # NoRing, NEW f \in Listed
      PROVE  Recognised(config, stored[f])
  <2>1. Places(AllFields(spec), f) # {} /\ f \in Field
    BY <1>1, ListedPlaces
  <2>2. RingOf(config, NsOf(config, TableNs)) # NoRing
    BY <1>3 DEF RingOfTable
  <2>3. Told(stored[f])
    BY <1>1, <2>1, <2>2, SealsTold
  <2> QED
    BY <1>1, <2>3, ToldIsRecognised
<1>4. /\ table'[id] = stored
      /\ \A other \in Present' : other # id => other \in Present /\ table'[other] = table[other]
  BY <1>1 DEF Present
<1> QED
  BY <1>2, <1>3, <1>4 DEF StoredRecognised

LEMMA AroundRecognised ==
  ASSUME PagesInvariant, StoredRecognised, NEW id \in RowId, NEW f \in Field,
         NEW value, Around(id, f, value), RingOfTable # NoRing => Recognised(config, value)
  PROVE  StoredRecognised'
<1>1. /\ TypeOK /\ UNCHANGED <<config, spec>> /\ id \in Present /\ table[id] \in Row
      /\ table \in [RowId -> Row \cup {Absent}] /\ Listed \subseteq Field
      /\ table' = [table EXCEPT ![id] = [table[id] EXCEPT ![f] = value]]
  BY TableType DEF PagesInvariant, TypeOK, Around, Present
<1>2. Listed' = Listed /\ RingOfTable' = RingOfTable /\ config' = config
  BY <1>1 DEF Listed, RingOfTable
<1>3. \A g \in Field : table'[id][g] = IF g = f THEN value ELSE table[id][g]
  BY <1>1 DEF Present, Row
<1>4. \A other \in Present' : /\ other \in Present
                              /\ other # id => table'[other] = table[other]
  BY <1>1 DEF Present
<1> QED
  BY <1>1, <1>2, <1>3, <1>4 DEF StoredRecognised

LEMMA RecognisedNext ==
  ASSUME JsonIsTotal, TellsCiphertext, PagesInvariant, StoredRecognised, [Next]_vars
  PROVE  StoredRecognised'
<1>1. TypeOK /\ Listed \subseteq Field
  BY TableType DEF PagesInvariant
<1>2. ASSUME UNCHANGED <<config, spec, table>>
      PROVE  StoredRecognised'
  BY <1>2 DEF StoredRecognised, RingOfTable, Present, Listed
<1>3. ASSUME NEW id \in RowId, NEW row \in Rows, Insert(id, row)
      PROVE  StoredRecognised'
  <2>1. row \in Row /\ UNCHANGED <<config, spec>>
    BY <1>3, PagesAssumption DEF Insert
  <2>2. \/ /\ SealRow(config, instance, row, id, spec, TableNs).status = "ok"
           /\ table' = [table EXCEPT ![id] =
                          SealRow(config, instance, row, id, spec, TableNs).row]
        \/ UNCHANGED table
    BY <1>3 DEF Insert
  <2> QED
    BY <1>2, <2>1, <2>2, WritesRecognised
<1>4. ASSUME NEW id \in RowId, ServeRow(id)
      PROVE  StoredRecognised'
  BY <1>2, <1>4 DEF ServeRow, Serve
<1>5. ASSUME NEW query \in Queries, ServePage(query)
      PROVE  StoredRecognised'
  BY <1>2, <1>5 DEF ServePage, Serve
<1>6. ASSUME NEW edit \in Edits, Edit(edit[1], edit[2])
      PROVE  StoredRecognised'
  <2> SUFFICES ASSUME NEW f, f = edit[1], NEW value, value = edit[2],
                      NEW id, id = page.rows[1].id,
                      NEW row, row = [page.rows[1].row EXCEPT ![f] = value]
               PROVE  StoredRecognised'
    OBVIOUS
  <2>1. UNCHANGED <<config, spec>> /\ page.call = "unsealRow"
    BY <1>6 DEF Edit
  <2>2. id \in RowId /\ row \in Row
    <3>1. f \in Field /\ value \in FieldValue
      BY PagesAssumption
    <3> QED
      BY <2>1, <3>1, EditedRowType
  <2>3. \/ /\ SealRow(config, instance, row, id, spec, TableNs).status = "ok"
           /\ table' = [table EXCEPT ![id] =
                          SealRow(config, instance, row, id, spec, TableNs).row]
        \/ UNCHANGED table
    BY <1>6 DEF Edit
  <2> QED
    BY <1>2, <2>1, <2>2, <2>3, WritesRecognised
<1>7. CASE Restart
  BY <1>2, <1>7 DEF Restart
<1>8. ASSUME NEW id \in RowId, NEW f \in Listed, NEW value \in Foreign,
             WriteAround(id, f, value)
      PROVE  StoredRecognised'
  <2>1. f \in Field /\ Around(id, f, value)
    BY <1>1, <1>8 DEF WriteAround
  <2>2. Recognised(config, value)
    BY <1>1 DEF TypeOK, TellsCiphertext
  <2> QED
    BY <2>1, <2>2, AroundRecognised
<1>9. ASSUME NEW from \in RowId, NEW to \in RowId, NEW f \in Listed, NEW g \in Listed,
             CopyAround(from, f, to, g)
      PROVE  StoredRecognised'
  <2>1. g \in Field /\ Around(to, g, table[from][f]) /\ from \in Present
    BY <1>1, <1>9 DEF CopyAround, Present
  <2>2. RingOfTable # NoRing => Recognised(config, table[from][f])
    BY <2>1 DEF StoredRecognised
  <2> QED
    BY <2>1, <2>2, AroundRecognised
<1>10. CASE UNCHANGED vars
  BY <1>2, <1>10 DEF vars
<1> QED
  BY <1>3, <1>4, <1>5, <1>6, <1>7, <1>8, <1>9, <1>10 DEF Next

LEMMA JudgedNext ==
  ASSUME PagesInvariant, PageJudged, [Next]_vars
  PROVE  PageJudged'
<1>1. ASSUME page'.call # "unsealRows"
      PROVE  PageJudged'
  BY <1>1 DEF PageJudged
<1>2. ASSUME page' = NoPage
      PROVE  PageJudged'
  BY <1>1, <1>2 DEF NoPage
<1>3. ASSUME NEW id \in RowId, NEW row \in Rows, Insert(id, row)
      PROVE  PageJudged'
  BY <1>2, <1>3 DEF Insert
<1>4. ASSUME NEW id \in RowId, ServeRow(id)
      PROVE  PageJudged'
  BY <1>1, <1>4 DEF ServeRow, Serve
<1>5. ASSUME NEW query \in Queries, ServePage(query)
      PROVE  PageJudged'
  <2> DEFINE result == UnsealRows(config, instance, PageOf(query), spec, TableNs)
  <2>1. /\ \A k \in DOMAIN query : query[k] \in Present
        /\ page'.query = query /\ page'.status = result.status
        /\ UNCHANGED <<config, spec, table>>
    BY <1>5 DEF ServePage, Serve, PageOf
  <2>2. Present' = Present /\ PageOf(query)' = PageOf(query)
    BY <2>1 DEF Present, PageOf
  <2>3. instance \in InstanceType
    BY DEF PagesInvariant, TypeOK
  <2>4. PageOf(page.query)' = PageOf(query)
    BY <2>1 DEF PageOf
  <2> QED
    BY <2>1, <2>2, <2>3, <2>4 DEF PageJudged
<1>6. ASSUME NEW edit \in Edits, Edit(edit[1], edit[2])
      PROVE  PageJudged'
  BY <1>2, <1>6 DEF Edit
<1>7. CASE Restart
  BY <1>2, <1>7 DEF Restart
<1>8. ASSUME NEW id \in RowId, NEW f \in Listed, NEW value \in Foreign,
             WriteAround(id, f, value)
      PROVE  PageJudged'
  BY <1>2, <1>8 DEF WriteAround, Around
<1>9. ASSUME NEW from \in RowId, NEW to \in RowId, NEW f \in Listed, NEW g \in Listed,
             CopyAround(from, f, to, g)
      PROVE  PageJudged'
  BY <1>2, <1>9 DEF CopyAround, Around
<1>10. CASE UNCHANGED vars
  BY <1>10 DEF vars, PageJudged, Present, PageOf
<1> QED
  BY <1>3, <1>4, <1>5, <1>6, <1>7, <1>8, <1>9, <1>10 DEF Next

(* What two lists have together, one of them has.                          *)
OfEither(a, b, e) == (\E i \in DOMAIN a : e = a[i]) \/ (\E i \in DOMAIN b : e = b[i])

LEMMA ConcatFrom ==
  ASSUME NEW S, NEW a \in Seq(S), NEW b \in Seq(S), NEW k \in DOMAIN (a \o b)
  PROVE  OfEither(a, b, (a \o b)[k])
<1> SUFFICES \/ \E i \in DOMAIN a : (a \o b)[k] = a[i]
             \/ \E i \in DOMAIN b : (a \o b)[k] = b[i]
  BY DEF OfEither
<1>1. DOMAIN a = 1 .. Len(a) /\ DOMAIN b = 1 .. Len(b) /\ Len(a) \in Nat /\ Len(b) \in Nat
  OBVIOUS
<1>2. a \o b \in Seq(S) /\ Len(a \o b) = Len(a) + Len(b)
  OBVIOUS
<1>3. k \in 1 .. Len(a) + Len(b)
  BY <1>2
<1>4. CASE k \in 1 .. Len(a)
  <2>1. (a \o b)[k] = a[k]
    BY <1>1, <1>4
  <2> QED
    BY <1>1, <1>4, <2>1
<1>5. CASE k \notin 1 .. Len(a)
  <2> DEFINE i == k - Len(a)
  <2>1. i \in 1 .. Len(b) /\ k = Len(a) + i
    BY <1>1, <1>3, <1>5
  <2> HIDE DEF i
  <2>2. (a \o b)[Len(a) + i] = b[i]
    BY <1>1, <2>1
  <2> QED
    BY <1>1, <2>1, <2>2
<1> QED
  BY <1>4, <1>5

(* The fields of the lists are the listed ones.                            *)
LEMMA FieldsAreListed ==
  ASSUME TypeOK
  PROVE  FieldsOf(spec) = Listed
<1> SUFFICES ASSUME NEW a, a = spec.fields, NEW b, b = spec.jsonFields
             PROVE  FieldsOf(spec) = Listed
  OBVIOUS
<1>1. a \in Seq(Field) /\ b \in Seq(Field)
  BY PagesAssumption DEF TypeOK, FieldSpec
<1>2. FieldsOf(spec) = {(a \o b)[k] : k \in DOMAIN (a \o b)}
  BY DEF FieldsOf, AllFields
<1>3. \A k \in DOMAIN (a \o b) : (a \o b)[k] \in Listed
  <2> SUFFICES ASSUME NEW k \in DOMAIN (a \o b) PROVE (a \o b)[k] \in Listed
    OBVIOUS
  <2>1. OfEither(a, b, (a \o b)[k])
    BY <1>1, ConcatFrom
  <2>2. Listed = {a[i] : i \in DOMAIN a} \cup {b[i] : i \in DOMAIN b}
    BY DEF Listed
  <2>3. \A e : OfEither(a, b, e) => e \in Listed
    BY <2>2 DEF OfEither
  <2> QED
    BY <2>1, <2>3
<1>4. FieldsOf(spec) \subseteq Listed
  BY <1>2, <1>3
<1>5. Listed \subseteq FieldsOf(spec)
  <2>1. \A f \in Listed : Places(AllFields(spec), f) # {}
    BY ListedPlaces
  <2> QED
    BY <2>1 DEF Places, FieldsOf
<1> QED
  BY <1>4, <1>5

(* A page is judged by the values that weigh and those that cannot be read. *)
LEMMA PagesWeighed ==
  ASSUME TellsCiphertext, PagesInvariant, StoredRecognised, PageJudged
  PROVE  RefusedExactlyWhenSystemic
<1> SUFFICES ASSUME page.call = "unsealRows", ListsFieldsOnce, FailsClosed
             PROVE  page.status = "Systemic"
                    <=> /\ Cardinality(Weighed) >= 5
                        /\ Cardinality(Unreadable) > Cardinality(Weighed \ Unreadable)
  BY DEF RefusedExactlyWhenSystemic, FailsClosed
<1> DEFINE query == page.query
           entries == PageOf(query)
<1>1. /\ TypeOK /\ TableArguments(config, spec, TableNs) /\ Listed \subseteq Field
      /\ \A id \in Present : id \in RowId /\ table[id] \in Row
      /\ RingOfTable # NoRing /\ NsOf(config, TableNs) \in Names(config)
  BY TableType DEF PagesInvariant, FailsClosed, TypeOK, TellsCiphertext
<1>2. FieldsOnce(spec) /\ FieldsOf(spec) = Listed
  BY <1>1, FieldsAreListed DEF FieldsOnce, ListsFieldsOnce, AllFields
<1>3. /\ query \in Seq(RowId) /\ DOMAIN query = 1 .. Len(query) /\ Len(query) \in Nat
      /\ \A k \in DOMAIN query : query[k] \in Present
  BY <1>1 DEF TypeOK, PageJudged
<1>4. /\ DOMAIN entries = DOMAIN query
      /\ \A k \in DOMAIN query : /\ entries[k].id = query[k]
                                 /\ entries[k].row = table[query[k]]
  BY DEF PageOf
<1>5. entries \in Seq(Entry)
  <2>1. \A k \in 1 .. Len(query) :
          [id |-> query[k], row |-> table[query[k]]] \in Entry
    BY <1>1, <1>3 DEF Entry
  <2>2. entries \in [1 .. Len(query) -> Entry]
    BY <1>3, <2>1 DEF PageOf
  <2> HIDE DEF entries
  <2> QED
    BY <1>3, <2>2
<1> HIDE DEF entries, query
<1>6. ASSUME NEW k \in DOMAIN query, NEW f \in Listed
      PROVE  LET id == query[k]
                 v == table[id][f]
             IN /\ Attempted(config, v) <=> Weighs(v)
                /\ Misses(config, id, spec, TableNs, f, v)
                   <=> /\ Weighs(v)
                       /\ v.layers = << >> \/ ~ Opens(v, spec.context[<<f, id>>])
  <2> DEFINE id == query[k]
             v == table[id][f]
  <2>1. id \in Present /\ id \in RowId /\ f \in Field
    BY <1>1, <1>3
  <2>2. v \in FieldValue
    BY <1>1, <2>1 DEF Row
  <2>3. Recognised(config, v)
    BY <1>1, <2>1 DEF StoredRecognised
  <2> HIDE DEF v, id
  <2>4. Attempted(config, v) <=> Weighs(v)
    BY <2>3, AttemptedIfWeighs
  <2>5. Weighs(v) => v \in Str
    BY <2>2, ValueKinds DEF Weighs, IsNonemptyString
  <2>6. Weighs(v) => (Unseal(config, v, RowOptions(spec, TableNs, f, id)).status # "ok"
                      <=> v.layers = << >> \/ ~ Opens(v, spec.context[<<f, id>>]))
    BY <1>1, <2>1, <2>3, <2>5, FailsExactly
  <2> QED
    BY <2>4, <2>6 DEF Misses, v, id
<1>7. PageAttempts(config, spec, entries) = Weighed
  <2>1. \A slot \in (DOMAIN query) \X Listed :
          Attempted(config, entries[slot[1]].row[slot[2]])
          <=> Weighs(table[query[slot[1]]][slot[2]])
    BY <1>4, <1>6
  <2>2. Weighed = {slot \in (DOMAIN query) \X Listed :
                     Weighs(table[query[slot[1]]][slot[2]])}
    BY DEF Weighed, Weighs, query
  <2> QED
    BY <1>2, <1>4, <2>1, <2>2 DEF PageAttempts
<1>8. PageFailures(config, spec, TableNs, entries) = Unreadable
  BY <1>2, <1>4, <1>6 DEF PageFailures, Unreadable, Weighed, Weighs, query
<1>9. PICK i \in InstanceType :
        page.status = UnsealRows(config, i, entries, spec, TableNs).status
  BY DEF PageJudged, entries, query
<1>10. PICK attempts, failures :
         /\ Counted(Weighed, attempts) /\ Counted(Unreadable, failures)
         /\ page.status = IF Systemic(failures, attempts) THEN "Systemic" ELSE "ok"
  BY <1>1, <1>2, <1>5, <1>7, <1>8, <1>9, PageCounts
<1>11. /\ Cardinality(Weighed) = attempts /\ Cardinality(Unreadable) = failures
       /\ Cardinality(Weighed \ Unreadable) = attempts - failures
       /\ attempts \in Nat /\ failures \in Nat
  <2>1. IsFiniteSet(Weighed) /\ IsFiniteSet(Unreadable)
    BY <1>10 DEF Counted
  <2>2. Weighed \cap Unreadable = Unreadable
    BY DEF Unreadable
  <2>3. Cardinality(Weighed \ Unreadable)
        = Cardinality(Weighed) - Cardinality(Weighed \cap Unreadable)
    BY <2>1, FS_Difference
  <2>4. Cardinality(Weighed) \in Nat /\ Cardinality(Unreadable) \in Nat
    BY <2>1, FS_CardinalityType
  <2> QED
    BY <1>10, <2>2, <2>3, <2>4 DEF Counted
<1>12. page.status = "Systemic" <=> attempts >= 5 /\ 2 * failures > attempts
  BY <1>10 DEF Systemic
<1> QED
  BY <1>11, <1>12

(* A page is refused exactly when it holds at least five values that weigh *)
(* and most of them cannot be read, however long it is, whatever rows it   *)
(* repeats and whatever others wrote.                                      *)
THEOREM PagesRefusedWhenSystemic ==
  ASSUME JsonIsTotal, TellsCiphertext
  PROVE  Spec => []RefusedExactlyWhenSystemic
<1>1. Init => PagesInvariant /\ StoredRecognised /\ PageJudged
  <2>1. Init => StoredRecognised /\ PageJudged
    BY DEF Init, StoredRecognised, Present, PageJudged, NoPage
  <2> QED
    BY <2>1, PagesInit
<1>2. PagesInvariant /\ StoredRecognised /\ PageJudged /\ [Next]_vars
      => PagesInvariant' /\ StoredRecognised' /\ PageJudged'
  BY PagesNext, RecognisedNext, JudgedNext
<1>3. PagesInvariant /\ StoredRecognised /\ PageJudged => RefusedExactlyWhenSystemic
  BY PagesWeighed
<1> QED
  BY <1>1, <1>2, <1>3, PTL DEF Spec
=============================================================================
