----------------------------- MODULE RowHelpers -----------------------------
(***************************************************************************)
(* sealRow, unsealRow and unsealRows (src/index.ts 359-439): rows are      *)
(* objects, a spec lists the fields to seal and how.                       *)
(*                                                                         *)
(* A row is a function from its fields to values: strings, null, and the   *)
(* members of Thing, JavaScript values that are neither (numbers, dates,   *)
(* objects).  JSON is a table: Stringify gives the JSON text of the things *)
(* and the user texts that JSON fields are given, and parsing is its       *)
(* inverse; a text Stringify does not yield is no JSON.  Ciphertext is     *)
(* never valid JSON, and is not given to JSON fields here.                 *)
(***************************************************************************)
EXTENDS SealedFields, SequencesExt

CONSTANTS
  Field,      \* the columns of the table
  RowId,      \* what the context function reads from a row besides the field
  Thing,      \* values that are neither strings nor null
  Stringify   \* JSON.stringify, on what JSON fields are given

ASSUME RowHelpersAssumption ==
  /\ Null \notin Thing
  /\ Thing \cap Text = {} /\ Thing \cap Str = {}
  /\ DOMAIN Stringify \subseteq Thing \cup Text
  /\ \A a, b \in DOMAIN Stringify :
       Stringify[a] \in Text \ {Empty} /\ (Stringify[a] = Stringify[b] => a = b)

FieldValue == Str \cup {Null} \cup Thing

Row == [Field -> FieldValue]

(* A normalised spec.  The context function is given the field and the row *)
(* as passed in; here it depends on the identity of the row.               *)
FieldSpec == [fields : Seq(Field),
              jsonFields : Seq(Field),
              context : [Field \X RowId -> Context \cup {NoContext, InvalidContext}]]

IsString(v) == v \notin Thing \cup {Null}

IsNonemptyString(v) == IsString(v) /\ v # EmptyStr

JsonText(v) == Plain(Stringify[IF v \in Thing THEN v ELSE v.text])

(* JSON.parse, with the raw string left in place when it throws.           *)
JsonValue(v) ==
  IF v.layers = << >> /\ \E a \in DOMAIN Stringify : Stringify[a] = v.text
  THEN LET a == CHOOSE a \in DOMAIN Stringify : Stringify[a] = v.text
       IN IF a \in Thing THEN a ELSE Plain(a)
  ELSE v

RowOptions(spec, ns, field, id) ==
  [namespace |-> ns, context |-> spec.context[<<field, id>>]]

NsOf(c, ns) == ResolveNs(c, [namespace |-> ns, context |-> NoContext])

-----------------------------------------------------------------------------
(* sealRow.  The copy it works on, the first error it threw, the instance. *)

(* Seeded fault: strings are left alone (the bug of README.md 127).        *)
StringifyThingsOnly(row, field) ==
  IF row[field] \in Thing THEN [row EXCEPT ![field] = JsonText(@)] ELSE row

StringifyField(row, field) ==
  IF row[field] = Null THEN row ELSE [row EXCEPT ![field] = JsonText(@)]

(* One field of the copy; after the first error nothing more is done.      *)
SealField(c, id, spec, ns, work, field) ==
  LET outcome == Seal(c, work.row[field], RowOptions(spec, ns, field, id)) IN
  IF work.status # "ok" \/ ~ IsNonemptyString(work.row[field]) THEN work
  ELSE [status |-> outcome.status,
        row |-> [work.row EXCEPT ![field] = outcome.value],
        instance |-> Account(work.instance, NsOf(c, ns), outcome)]

SealRow(c, instance, row, id, spec, ns) ==
  LET copy == FoldLeft(StringifyField, row, spec.jsonFields)
      Step(work, field) == SealField(c, id, spec, ns, work, field)
  IN FoldLeft(Step, [status |-> "ok", row |-> copy, instance |-> instance],
              spec.fields \o spec.jsonFields)

-----------------------------------------------------------------------------
(* unsealRowInternal.                                                      *)

(* Seeded fault: legacy tokens are not attempted (before 0.4.0).           *)
AttemptedCanonicalOnly(c, v) ==
  /\ IsNonemptyString(v)
  /\ c.plaintext = "passthrough" => LooksSealed(v)

(* In passthrough a value that looks like no token is not attempted.       *)
Attempted(c, v) ==
  /\ IsNonemptyString(v)
  /\ c.plaintext = "passthrough" => LooksSealed(v) \/ MatchesLegacy(v, c.legacy)

ParseField(row, field) ==
  IF IsNonemptyString(row[field]) THEN [row EXCEPT ![field] = JsonValue(@)] ELSE row

(* One attempt, added to the work on the row.                              *)
Attempt(work, field, ns, outcome) ==
  [row |-> [work.row EXCEPT ![field] =
              IF outcome.status = "ok" THEN outcome.value ELSE Null],
   failures |-> work.failures + (IF outcome.status = "ok" THEN 0 ELSE 1),
   attempts |-> work.attempts + 1,
   instance |-> Account(work.instance, ns, outcome)]

UnsealField(c, id, spec, ns, work, field) ==
  IF Attempted(c, work.row[field])
  THEN Attempt(work, field, NsOf(c, ns),
               Unseal(c, work.row[field], RowOptions(spec, ns, field, id)))
  ELSE work

UnsealRowInternal(c, instance, row, id, spec, ns) ==
  LET Step(work, field) == UnsealField(c, id, spec, ns, work, field)
      work == FoldLeft(Step,
                       [row |-> row, failures |-> 0, attempts |-> 0, instance |-> instance],
                       spec.fields \o spec.jsonFields)
  IN [work EXCEPT !.row = FoldLeft(ParseField, @, spec.jsonFields)]

UnsealRow(c, instance, row, id, spec, ns) ==
  UnsealRowInternal(c, instance, row, id, spec, ns).row

(* Seeded fault: half is enough.                                           *)
SystemicAtHalf(failures, attempts) == attempts >= 5 /\ 2 * failures >= attempts

(* More than half of at least five.                                        *)
Systemic(failures, attempts) == attempts >= 5 /\ 2 * failures > attempts

(* unsealRows on a page: a sequence of rows with their identities.  The    *)
(* whole page is unsealed, and accounted for, before the failures are      *)
(* weighed.                                                                *)
AddRow(work, id, one) ==
  [rows |-> Append(work.rows, [id |-> id, row |-> one.row]),
   failures |-> work.failures + one.failures,
   attempts |-> work.attempts + one.attempts,
   instance |-> one.instance]

Weigh(work) ==
  LET systemic == Systemic(work.failures, work.attempts) IN
  [status |-> IF systemic THEN "Systemic" ELSE "ok",
   rows |-> IF systemic THEN << >> ELSE work.rows,
   instance |-> work.instance]

UnsealRows(c, instance, page, spec, ns) ==
  LET UnsealOne(work, entry) ==
        AddRow(work, entry.id,
               UnsealRowInternal(c, work.instance, entry.row, entry.id, spec, ns))
  IN Weigh(FoldLeft(UnsealOne,
                    [rows |-> << >>, failures |-> 0, attempts |-> 0,
                     instance |-> instance], page))
=============================================================================
