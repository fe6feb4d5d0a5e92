--------------------------- MODULE ProcessProofs ----------------------------
(***************************************************************************)
(* What one instance guarantees about its column, for every configuration  *)
(* the constructor takes, every set of keys, contexts and namespaces, any  *)
(* number of layers on the stored string and any number of reads.          *)
(***************************************************************************)
EXTENDS Process, LibraryLemmas

-----------------------------------------------------------------------------
(* The invariant.                                                          *)

(* The last answer is what the call named gives for what was stored.       *)
AnswerStands ==
  answer.call # "none" =>
    \/ /\ answer.call = "unseal" /\ answer.input # Null
       /\ answer.outcome = Unseal(config, answer.input, answer.options)
    \/ /\ answer.call = "maybeUnseal"
       /\ answer.outcome = MaybeUnseal(config, answer.input, answer.options)

(* The column holds what the call that wrote it came back with.            *)
WriteStands ==
  /\ sealed.by = "seal" =>
       /\ sealed.value # Null
       /\ Seal(config, sealed.value, sealed.options).status = "ok"
       /\ Seal(config, sealed.value, sealed.options).value = stored
  /\ sealed.by = "maybeSeal" =>
       /\ MaybeSeal(config, sealed.value, sealed.options).status = "ok"
       /\ MaybeSeal(config, sealed.value, sealed.options).value = stored

(* A write left in the clear has marked its namespace.                     *)
ClearMarked ==
  (sealed.by # "others" /\ stored # Null /\ stored = sealed.value)
  => ResolveNs(config, sealed.options) \in instance.warnedDormant

(* The log holds one warning for each namespace marked, and no other.      *)
LogMatches ==
  /\ \A ns \in instance.warnedDormant : \E i \in DOMAIN instance.log :
       instance.log[i] = [about |-> "dormant", namespace |-> ns]
  /\ \A i \in DOMAIN instance.log :
       \/ /\ instance.log[i].about = "dormant"
          /\ instance.log[i].namespace \in instance.warnedDormant
       \/ /\ instance.log[i].about = "unbound"
          /\ instance.log[i].namespace \in instance.warnedFallback
  /\ \A i, j \in DOMAIN instance.log : instance.log[i] = instance.log[j] => i = j

ProcessInvariant ==
  /\ TypeOK
  /\ Constructible(config)
  /\ AnswerStands
  /\ WriteStands
  /\ ClearMarked
  /\ LogMatches
  /\ CountsEveryUnboundRead

-----------------------------------------------------------------------------
(* What a call leaves in the instance.                                     *)

(* What an unseal owes: a count exactly when it opened an unbound value    *)
(* for a caller who gave a context.                                        *)
LEMMA UnsealOwes ==
  ASSUME NEW c \in Config, NEW s \in Str, NEW options \in SealOptions
  PROVE  LET outcome == Unseal(c, s, options) IN
         /\ outcome.note \in {"none", "unbound", "dormant"}
         /\ outcome.note # "none" => ResolveNs(c, options) \in Namespace
         /\ outcome.note = "unbound" <=> OpensUnbound(s, options, outcome)
<1> DEFINE ring == RingOf(c, ResolveNs(c, options))
           outcome == Unseal(c, s, options)
<1>1. outcome.note \in {"none", "unbound", "dormant"}
  BY UnsealType DEF Outcomes
<1>2. CASE outcome.status # "ok"
  BY <1>1, <1>2, FailuresOweNothing DEF OpensUnbound
<1>3. CASE outcome.status = "ok"
  <2>1. OptionsStatus(c, options) = "ok" /\ UnsealedAs(c, s, options, ring, outcome)
    BY <1>3, UnsealReturns
  <2>2. ResolveNs(c, options) \in Namespace
    BY <2>1, ActsForNamespace
  <2>3. s.layers # << >> => Unwrap(s) # s /\ Unwrap(s) # Null
    BY UnwrapDiffers, UnwrapType, SealedFieldsAssumption
  <2>4. s # Null
    BY SealedFieldsAssumption
  <2>5. outcome.note = "unbound" => OpensUnbound(s, options, outcome)
    BY <1>3, <2>1, <2>3, <2>4 DEF UnsealedAs, OpensUnbound
  <2>6. OpensUnbound(s, options, outcome) => outcome.note = "unbound"
    BY <2>1, <2>3 DEF UnsealedAs, OpensUnbound
  <2> QED
    BY <1>1, <2>2, <2>5, <2>6
<1> QED
  BY <1>2, <1>3

(* The same of the nullable variants.                                      *)
LEMMA MaybeOwes ==
  ASSUME NEW c \in Config, NEW value \in Str \cup {Null}, NEW options \in SealOptions
  PROVE  LET write == MaybeSeal(c, value, options)
             read == MaybeUnseal(c, value, options)
         IN /\ write.note \in {"none", "dormant"}
            /\ read.note \in {"none", "unbound", "dormant"}
            /\ (write.note # "none" \/ read.note # "none")
               => ResolveNs(c, options) \in Namespace
            /\ write.status = "ok" /\ write.value = value /\ value # Null
               => write.note = "dormant"
            /\ read.note = "unbound" <=> OpensUnbound(value, options, read)
<1>1. CASE value \in {Null, EmptyStr}
  <2>1. MaybeSeal(c, value, options) = Ok(Null) /\ MaybeUnseal(c, value, options) = Ok(Null)
    BY <1>1 DEF MaybeSeal, MaybeUnseal
  <2> QED
    BY <2>1 DEF Ok, Outcome, OpensUnbound
<1>2. CASE value \notin {Null, EmptyStr}
  <2>1. /\ value \in Str
        /\ MaybeSeal(c, value, options) = Seal(c, value, options)
        /\ MaybeUnseal(c, value, options) = Unseal(c, value, options)
    BY <1>2 DEF MaybeSeal, MaybeUnseal
  <2> QED
    BY <2>1, SealOwes, UnsealOwes
<1> QED
  BY <1>1, <1>2

-----------------------------------------------------------------------------
(* The bookkeeping.                                                        *)

(* A log that is told of a namespace not marked yet still matches.         *)
LEMMA LogGrows ==
  ASSUME NEW log \in Seq(Warning), NEW warning \in Warning,
         \A i \in DOMAIN log : log[i] # warning,
         \A i, j \in DOMAIN log : log[i] = log[j] => i = j
  PROVE  LET longer == Append(log, warning) IN
         /\ longer \in Seq(Warning)
         /\ DOMAIN longer = DOMAIN log \cup {Len(log) + 1}
         /\ Len(log) + 1 \notin DOMAIN log
         /\ longer[Len(log) + 1] = warning
         /\ \A i \in DOMAIN log : longer[i] = log[i]
         /\ \A i, j \in DOMAIN longer : longer[i] = longer[j] => i = j
<1> DEFINE longer == Append(log, warning)
<1>1. longer \in Seq(Warning) /\ DOMAIN longer = 1..(Len(log) + 1)
  OBVIOUS
<1>2. DOMAIN log = 1..Len(log) /\ Len(log) \in Nat
  OBVIOUS
<1>3. DOMAIN longer = DOMAIN log \cup {Len(log) + 1} /\ Len(log) + 1 \notin DOMAIN log
  BY <1>1, <1>2
<1>4. longer[Len(log) + 1] = warning /\ \A i \in DOMAIN log : longer[i] = log[i]
  OBVIOUS
<1>5. \A i, j \in DOMAIN longer : longer[i] = longer[j] => i = j
  BY <1>3, <1>4
<1> QED
  BY <1>1, <1>3, <1>4, <1>5

(* What Account does, for every note of every call.                        *)
LEMMA AccountKeepsBooks ==
  ASSUME instance \in InstanceType, LogMatches, NEW ns, NEW outcome,
         outcome.note \in {"none", "unbound", "dormant"},
         outcome.note # "none" => ns \in Namespace,
         instance' = Account(instance, ns, outcome)
  PROVE  /\ instance' \in InstanceType
         /\ LogMatches'
         /\ instance.warnedDormant \subseteq instance'.warnedDormant
         /\ outcome.note = "dormant" => ns \in instance'.warnedDormant
         /\ instance'.unboundReads = IF outcome.note = "unbound"
                                     THEN instance.unboundReads + 1
                                     ELSE instance.unboundReads
<1>1. /\ instance.log \in Seq(Warning) /\ instance.unboundReads \in Nat
      /\ instance.warnedDormant \subseteq Namespace
      /\ instance.warnedFallback \subseteq Namespace
  BY DEF InstanceType
<1>2. CASE outcome.note = "none"
  <2>1. instance' = instance
    BY <1>2 DEF Account
  <2> QED
    BY <1>2, <2>1 DEF LogMatches
<1>3. CASE outcome.note = "unbound"
  <2> DEFINE warning == [about |-> "unbound", namespace |-> ns]
             log == IF ns \in instance.warnedFallback THEN instance.log
                    ELSE Append(instance.log, warning)
  <2>1. instance' = [instance EXCEPT !.unboundReads = @ + 1,
                                     !.warnedFallback = @ \cup {ns}, !.log = log]
    BY <1>3 DEF Account, NoteUnboundRead
  <2>2. /\ instance'.unboundReads = instance.unboundReads + 1
        /\ instance'.warnedFallback = instance.warnedFallback \cup {ns}
        /\ instance'.warnedDormant = instance.warnedDormant
        /\ instance'.log = log
    BY <2>1 DEF InstanceType
  <2>3. log \in Seq(Warning) /\ LogMatches'
    <3>1. CASE ns \in instance.warnedFallback
      BY <1>1, <2>2, <3>1 DEF LogMatches
    <3>2. CASE ns \notin instance.warnedFallback
      <4>1. warning \in Warning
        BY <1>3 DEF Warning
      <4>2. \A i \in DOMAIN instance.log : instance.log[i] # warning
        BY <3>2 DEF LogMatches
      <4>3. \A i, j \in DOMAIN instance.log : instance.log[i] = instance.log[j] => i = j
        BY DEF LogMatches
      <4>4. log = Append(instance.log, warning)
        BY <3>2
      <4>5. /\ log \in Seq(Warning)
            /\ DOMAIN log = DOMAIN instance.log \cup {Len(instance.log) + 1}
            /\ log[Len(instance.log) + 1] = warning
            /\ \A i \in DOMAIN instance.log : log[i] = instance.log[i]
            /\ \A i, j \in DOMAIN log : log[i] = log[j] => i = j
        BY <1>1, <4>1, <4>2, <4>3, <4>4, LogGrows
      <4> HIDE DEF log
      <4> QED
        BY <2>2, <4>5 DEF LogMatches
    <3> QED
      BY <3>1, <3>2
  <2>4. instance' \in InstanceType
    <3>1. log \in Seq(Warning)
      BY <2>3
    <3> HIDE DEF log
    <3>2. instance.warnedFallback \cup {ns} \in SUBSET Namespace
      BY <1>1, <1>3
    <3>3. instance.unboundReads + 1 \in Nat
      BY <1>1
    <3> QED
      BY <1>1, <2>1, <3>1, <3>2, <3>3, Zenon DEF InstanceType
  <2> QED
    BY <1>3, <2>2, <2>3, <2>4
<1>4. CASE outcome.note = "dormant"
  <2> DEFINE warning == [about |-> "dormant", namespace |-> ns]
             log == IF ns \in instance.warnedDormant THEN instance.log
                    ELSE Append(instance.log, warning)
  <2>1. instance' = [instance EXCEPT !.warnedDormant = @ \cup {ns}, !.log = log]
    BY <1>4 DEF Account, WarnDormantOnce
  <2>2. /\ instance'.unboundReads = instance.unboundReads
        /\ instance'.warnedFallback = instance.warnedFallback
        /\ instance'.warnedDormant = instance.warnedDormant \cup {ns}
        /\ instance'.log = log
    BY <2>1 DEF InstanceType
  <2>3. log \in Seq(Warning) /\ LogMatches'
    <3>1. CASE ns \in instance.warnedDormant
      BY <1>1, <2>2, <3>1 DEF LogMatches
    <3>2. CASE ns \notin instance.warnedDormant
      <4>1. warning \in Warning
        BY <1>4 DEF Warning
      <4>2. \A i \in DOMAIN instance.log : instance.log[i] # warning
        BY <3>2 DEF LogMatches
      <4>3. \A i, j \in DOMAIN instance.log : instance.log[i] = instance.log[j] => i = j
        BY DEF LogMatches
      <4>4. log = Append(instance.log, warning)
        BY <3>2
      <4>5. /\ log \in Seq(Warning)
            /\ DOMAIN log = DOMAIN instance.log \cup {Len(instance.log) + 1}
            /\ log[Len(instance.log) + 1] = warning
            /\ \A i \in DOMAIN instance.log : log[i] = instance.log[i]
            /\ \A i, j \in DOMAIN log : log[i] = log[j] => i = j
        BY <1>1, <4>1, <4>2, <4>3, <4>4, LogGrows
      <4> HIDE DEF log
      <4> QED
        BY <2>2, <4>5 DEF LogMatches
    <3> QED
      BY <3>1, <3>2
  <2>4. instance' \in InstanceType
    <3>1. log \in Seq(Warning)
      BY <2>3
    <3> HIDE DEF log
    <3>2. instance.warnedDormant \cup {ns} \in SUBSET Namespace
      BY <1>1, <1>4
    <3> QED
      BY <1>1, <2>1, <3>1, <3>2 DEF InstanceType
  <2> QED
    BY <1>4, <2>2, <2>3, <2>4
<1> QED
  BY <1>2, <1>3, <1>4

-----------------------------------------------------------------------------
(* A seal never makes a null or an empty string of anything else.          *)
LEMMA SealedIsThere ==
  ASSUME NEW c \in Config, NEW s \in Str, s # EmptyStr, NEW options \in SealOptions,
         Seal(c, s, options).status = "ok"
  PROVE  Seal(c, s, options).value \notin {Null, EmptyStr}
<1> DEFINE ring == RingOf(c, ResolveNs(c, options))
<1>1. Seal(c, s, options).value # Null
  BY SealType, SealedFieldsAssumption DEF Outcomes
<1>2. CASE ring = NoRing
  BY <1>1, <1>2, SealReturns
<1>3. CASE ring # NoRing
  <2>1. TokenLayer(ring, options.context) \in Layer
    BY <1>3, SealReturns, OptionsType, RingOfType, TokenLayerType
  <2>2. Seal(c, s, options).value.layers # << >>
    BY <1>3, <2>1, SealReturns, UnwrapWrap
  <2> QED
    BY <1>1, <2>2 DEF EmptyStr, Plain
<1> QED
  BY <1>2, <1>3

-----------------------------------------------------------------------------
(* Steps.                                                                  *)

(* A process comes up with nothing read and nothing counted.               *)
LEMMA ProcessInit == Init => ProcessInvariant
<1> SUFFICES ASSUME Init PROVE ProcessInvariant
  OBVIOUS
<1>1. /\ config \in Configs /\ config \in Config /\ Constructible(config)
      /\ instance = NewInstance /\ sealed = NoWrite /\ answer = NoAnswer /\ opened = 0
      /\ stored \in Str \cup {Null}
  BY ProcessAssumption DEF Init
<1>2. NewInstance \in InstanceType
  BY DEF NewInstance, InstanceType
<1>3. NoWrite.options \in SealOptions /\ NoAnswer.options \in SealOptions
  BY DEF NoWrite, NoAnswer, SealOptions
<1>4. TypeOK
  BY <1>1, <1>2, <1>3, StatusNames
     DEF TypeOK, Constructible, NoWrite, NoAnswer, Ok, Outcome
<1>5. AnswerStands /\ WriteStands /\ ClearMarked
  BY <1>1 DEF AnswerStands, WriteStands, ClearMarked, NoAnswer, NoWrite
<1>6. LogMatches /\ CountsEveryUnboundRead
  BY <1>1 DEF LogMatches, CountsEveryUnboundRead, NewInstance
<1> QED
  BY <1>1, <1>4, <1>5, <1>6 DEF ProcessInvariant

(* A write through the library, by either call.                            *)
LEMMA StoreKeeps ==
  ASSUME ProcessInvariant, NEW value \in Str \cup {Null}, NEW options \in SealOptions,
         NEW by, NEW outcome, Store(by, value, options, outcome),
         \/ /\ by = "seal" /\ value # Null
            /\ outcome = Seal(config, value, options)
         \/ by = "maybeSeal" /\ outcome = MaybeSeal(config, value, options)
  PROVE  ProcessInvariant'
<1> DEFINE ns == ResolveNs(config, options)
<1>1. /\ TypeOK /\ config \in Config /\ config' = config /\ opened' = opened
      /\ answer' = NoAnswer /\ instance' = Account(instance, ns, outcome)
  BY ProcessAssumption DEF ProcessInvariant, Store, TypeOK
<1>2. /\ outcome.note \in {"none", "dormant"}
      /\ outcome.note # "none" => ns \in Namespace
      /\ outcome.status = "ok" /\ outcome.value = value /\ value # Null
         => outcome.note = "dormant"
      /\ outcome.status = "ok" => outcome.value \in Str \cup {Null}
  <2>1. CASE by = "seal"
    BY <1>1, <2>1, SealOwes, SealType DEF Outcomes
  <2>2. CASE by = "maybeSeal"
    BY <1>1, <2>2, MaybeOwes, MaybeTypes
  <2> QED
    BY <2>1, <2>2
<1>3. /\ instance' \in InstanceType /\ LogMatches'
      /\ instance.warnedDormant \subseteq instance'.warnedDormant
      /\ outcome.note = "dormant" => ns \in instance'.warnedDormant
      /\ instance'.unboundReads = instance.unboundReads
  BY <1>1, <1>2, AccountKeepsBooks DEF ProcessInvariant, TypeOK
<1>4. CASE outcome.status = "ok"
  <2>1. /\ stored' = outcome.value
        /\ sealed' = [by |-> by, value |-> value, options |-> options]
    BY <1>4 DEF Store
  <2>2. NoAnswer.options \in SealOptions
    BY DEF NoAnswer, SealOptions
  <2>3. TypeOK'
    BY <1>1, <1>2, <1>3, <1>4, <2>1, <2>2, StatusNames DEF TypeOK, NoAnswer, Ok, Outcome
  <2>4. AnswerStands' /\ WriteStands'
    BY <1>1, <1>4, <2>1 DEF AnswerStands, WriteStands, NoAnswer
  <2>5. ClearMarked'
    BY <1>1, <1>2, <1>3, <1>4, <2>1 DEF ClearMarked
  <2> QED
    BY <1>1, <1>3, <2>3, <2>4, <2>5 DEF ProcessInvariant, CountsEveryUnboundRead
<1>5. CASE outcome.status # "ok"
  <2>1. UNCHANGED <<stored, sealed>>
    BY <1>5 DEF Store
  <2>2. NoAnswer.options \in SealOptions
    BY DEF NoAnswer, SealOptions
  <2>3. TypeOK'
    BY <1>1, <1>3, <2>1, <2>2, StatusNames DEF TypeOK, NoAnswer, Ok, Outcome
  <2>4. AnswerStands' /\ WriteStands' /\ ClearMarked'
    BY <1>1, <1>3, <2>1
       DEF ProcessInvariant, AnswerStands, WriteStands, ClearMarked, NoAnswer
  <2> QED
    BY <1>1, <1>3, <2>3, <2>4 DEF ProcessInvariant, CountsEveryUnboundRead
<1> QED
  BY <1>4, <1>5

(* A read, by either call.                                                 *)
LEMMA AnswerKeeps ==
  ASSUME ProcessInvariant, NEW options \in SealOptions, NEW name, NEW outcome,
         Answer(name, options, outcome),
         \/ /\ name = "unseal" /\ stored # Null
            /\ outcome = Unseal(config, stored, options)
         \/ name = "maybeUnseal" /\ outcome = MaybeUnseal(config, stored, options)
  PROVE  ProcessInvariant'
<1> DEFINE ns == ResolveNs(config, options)
<1>1. /\ TypeOK /\ config \in Config /\ stored \in Str \cup {Null}
      /\ UNCHANGED <<config, stored, sealed>>
      /\ answer' = [call |-> name, input |-> stored, options |-> options,
                    outcome |-> outcome]
      /\ instance' = Account(instance, ns, outcome)
      /\ opened' = IF OpensUnbound(stored, options, outcome) THEN opened + 1 ELSE opened
  BY ProcessAssumption DEF ProcessInvariant, Answer, TypeOK
<1>2. /\ outcome.note \in {"none", "unbound", "dormant"}
      /\ outcome.note # "none" => ns \in Namespace
      /\ outcome.note = "unbound" <=> OpensUnbound(stored, options, outcome)
      /\ outcome.status \in Statuses /\ outcome.value \in Str \cup {Null}
  <2>1. CASE name = "unseal"
    BY <1>1, <2>1, UnsealOwes, UnsealType DEF Outcomes
  <2>2. CASE name = "maybeUnseal"
    BY <1>1, <2>2, MaybeOwes, MaybeTypes
  <2> QED
    BY <2>1, <2>2
<1>3. /\ instance' \in InstanceType /\ LogMatches'
      /\ instance.warnedDormant \subseteq instance'.warnedDormant
      /\ instance'.unboundReads = IF outcome.note = "unbound"
                                  THEN instance.unboundReads + 1
                                  ELSE instance.unboundReads
  BY <1>1, <1>2, AccountKeepsBooks DEF ProcessInvariant, TypeOK
<1>4. instance'.unboundReads = opened' /\ opened' \in Nat
  BY <1>1, <1>2, <1>3 DEF ProcessInvariant, CountsEveryUnboundRead, TypeOK
<1>5. TypeOK'
  BY <1>1, <1>2, <1>3, <1>4 DEF TypeOK
<1>6. AnswerStands'
  BY <1>1 DEF AnswerStands
<1>7. WriteStands' /\ ClearMarked'
  BY <1>1, <1>3 DEF ProcessInvariant, WriteStands, ClearMarked
<1> QED
  BY <1>1, <1>3, <1>4, <1>5, <1>6, <1>7 DEF ProcessInvariant, CountsEveryUnboundRead

(* A write around the library.                                             *)
LEMMA WriteAroundKeeps ==
  ASSUME ProcessInvariant, NEW value \in Foreign \cup {Null}, WriteAround(value)
  PROVE  ProcessInvariant'
<1>1. /\ TypeOK /\ value \in Str \cup {Null} /\ stored' = value /\ sealed' = NoWrite
      /\ answer' = NoAnswer /\ UNCHANGED <<config, instance, opened>>
  BY ProcessAssumption DEF ProcessInvariant, WriteAround
<1>2. NoWrite.options \in SealOptions /\ NoAnswer.options \in SealOptions
  BY DEF NoWrite, NoAnswer, SealOptions
<1>3. TypeOK'
  BY <1>1, <1>2, StatusNames DEF TypeOK, NoWrite, NoAnswer, Ok, Outcome
<1>4. AnswerStands' /\ WriteStands' /\ ClearMarked'
  BY <1>1 DEF AnswerStands, WriteStands, ClearMarked, NoAnswer, NoWrite
<1> QED
  BY <1>1, <1>3, <1>4 DEF ProcessInvariant, LogMatches, CountsEveryUnboundRead

(* Every step keeps the invariant.                                         *)
LEMMA ProcessNext ==
  ASSUME ProcessInvariant, [Next]_vars
  PROVE  ProcessInvariant'
<1>1. TypeOK /\ \A text \in Text : Plain(text) \in Str /\ Plain(text) # Null
  <2>1. \A text \in Text : Plain(text) \in Str
    BY DEF Plain, Str
  <2> QED
    BY <2>1, SealedFieldsAssumption DEF ProcessInvariant
<1>2. \A options \in Options : options \in SealOptions
  BY ProcessAssumption
<1>3. ASSUME NEW text \in Text, NEW options \in Options, CallSeal(text, options)
      PROVE  ProcessInvariant'
  BY <1>1, <1>2, <1>3, StoreKeeps DEF CallSeal
<1>4. ASSUME NEW text \in Text, NEW options \in Options,
             CallMaybeSeal(Plain(text), options)
      PROVE  ProcessInvariant'
  BY <1>1, <1>2, <1>4, StoreKeeps DEF CallMaybeSeal
<1>5. ASSUME NEW options \in Options, CallMaybeSeal(Null, options)
      PROVE  ProcessInvariant'
  BY <1>2, <1>5, StoreKeeps DEF CallMaybeSeal
<1>6. ASSUME NEW options \in Options, SealAgain(options)
      PROVE  ProcessInvariant'
  <2>1. stored \in Str \cup {Null} /\ stored # Null
        /\ Store("seal", stored, options, Seal(config, stored, options))
    BY <1>1, <1>6 DEF SealAgain, TypeOK
  <2> QED
    BY <1>2, <2>1, StoreKeeps
<1>7. ASSUME NEW options \in Options, CallUnseal(options)
      PROVE  ProcessInvariant'
  BY <1>2, <1>7, AnswerKeeps DEF CallUnseal
<1>8. ASSUME NEW options \in Options, CallMaybeUnseal(options)
      PROVE  ProcessInvariant'
  BY <1>2, <1>8, AnswerKeeps DEF CallMaybeUnseal
<1>9. ASSUME NEW value \in Foreign \cup {Null}, WriteAround(value)
      PROVE  ProcessInvariant'
  BY <1>9, WriteAroundKeeps
<1>10. CASE UNCHANGED vars
  BY <1>10 DEF vars, ProcessInvariant, TypeOK, AnswerStands, WriteStands, ClearMarked,
                LogMatches, CountsEveryUnboundRead
<1> QED
  BY <1>3, <1>4, <1>5, <1>6, <1>7, <1>8, <1>9, <1>10 DEF Next

(* The invariant holds for every configuration and every sequence of calls. *)
THEOREM ProcessKeepsInvariant == Spec => []ProcessInvariant
<1>1. Init => ProcessInvariant
  BY ProcessInit
<1>2. ProcessInvariant /\ [Next]_vars => ProcessInvariant'
  BY ProcessNext
<1> QED
  BY <1>1, <1>2, PTL DEF Spec

-----------------------------------------------------------------------------
(* What it is good for.                                                    *)

(* Every variable of the process has its type, whatever is called.         *)
THEOREM ProcessTypeOK == Spec => []TypeOK
<1>1. ProcessInvariant => TypeOK
  BY DEF ProcessInvariant
<1> QED
  BY <1>1, ProcessKeepsInvariant, PTL

(* What a library call wrote reads back as it went in, for every            *)
(* configuration the constructor takes.                                    *)
THEOREM WhatWasSealedAlwaysReadsBack == Spec => []WhatWasSealedReadsBack
<1>1. ProcessInvariant => WhatWasSealedReadsBack
  <2> SUFFICES ASSUME ProcessInvariant PROVE WhatWasSealedReadsBack
    OBVIOUS
  <2>1. /\ config \in Config /\ Constructible(config)
        /\ sealed.by \in {"others", "seal", "maybeSeal"}
        /\ sealed.value \in Str \cup {Null} /\ sealed.options \in SealOptions
    BY ProcessAssumption DEF ProcessInvariant, TypeOK
  <2>2. CASE sealed.by = "seal"
    BY <2>1, <2>2, SealRoundTrip
       DEF ProcessInvariant, WriteStands, WhatWasSealedReadsBack
  <2>3. CASE sealed.by = "maybeSeal" /\ sealed.value \in {Null, EmptyStr}
    <3>1. stored = Null
      BY <2>3 DEF ProcessInvariant, WriteStands, MaybeSeal, Ok, Outcome
    <3> QED
      BY <2>3, <3>1 DEF WhatWasSealedReadsBack, MaybeUnseal, Ok, Outcome
  <2>4. CASE sealed.by = "maybeSeal" /\ sealed.value \notin {Null, EmptyStr}
    <3>1. /\ sealed.value \in Str
          /\ Seal(config, sealed.value, sealed.options).status = "ok"
          /\ Seal(config, sealed.value, sealed.options).value = stored
      BY <2>1, <2>4 DEF ProcessInvariant, WriteStands, MaybeSeal
    <3>2. stored \notin {Null, EmptyStr}
      BY <2>1, <2>4, <3>1, SealedIsThere
    <3>3. MaybeUnseal(config, stored, sealed.options)
            = Unseal(config, stored, sealed.options)
      BY <3>2 DEF MaybeUnseal
    <3> QED
      BY <2>1, <2>4, <3>1, <3>3, SealRoundTrip DEF WhatWasSealedReadsBack
  <2>5. CASE sealed.by = "others"
    BY <2>5 DEF WhatWasSealedReadsBack
  <2> QED
    BY <2>1, <2>2, <2>3, <2>4, <2>5
<1> QED
  BY <1>1, ProcessKeepsInvariant, PTL

(* What the last read did to the string it was given.                      *)
LEMMA AnsweredAs ==
  ASSUME ProcessInvariant, answer.call # "none", answer.outcome.status = "ok",
         answer.outcome.value # Null
  PROVE  LET ring == RingOf(config, ResolveNs(config, answer.options)) IN
         /\ config \in Config /\ answer.input \in Str /\ answer.options \in SealOptions
         /\ UnsealedAs(config, answer.input, answer.options, ring, answer.outcome)
<1>1. /\ config \in Config /\ answer.input \in Str \cup {Null}
      /\ answer.options \in SealOptions
  BY ProcessAssumption DEF ProcessInvariant, TypeOK
<1>2. /\ answer.input \in Str
      /\ answer.outcome = Unseal(config, answer.input, answer.options)
  <2>1. CASE answer.call = "unseal"
    BY <1>1, <2>1 DEF ProcessInvariant, AnswerStands
  <2>2. CASE answer.call # "unseal"
    <3>1. answer.outcome = MaybeUnseal(config, answer.input, answer.options)
      BY <2>2 DEF ProcessInvariant, AnswerStands
    <3>2. answer.input \notin {Null, EmptyStr}
      BY <3>1 DEF MaybeUnseal, Ok, Outcome
    <3> QED
      BY <1>1, <3>1, <3>2 DEF MaybeUnseal
  <2> QED
    BY <2>1, <2>2
<1> QED
  BY <1>1, <1>2, UnsealReturns

(* A token opens only with a key of the ring asked, and a bound one only   *)
(* for its own context, in every configuration.                            *)
THEOREM BoundTokensAlwaysStayPut == Spec => []BoundTokensStayPut
<1>1. ProcessInvariant => BoundTokensStayPut
  <2> SUFFICES ASSUME ProcessInvariant, answer.call # "none",
                      answer.outcome.status = "ok", answer.input # Null,
                      answer.outcome.value # Null
               PROVE  BoundTokensStayPut
    BY DEF BoundTokensStayPut
  <2> QED
    BY AnsweredAs DEF UnsealedAs, BoundTokensStayPut
<1> QED
  BY <1>1, ProcessKeepsInvariant, PTL

(* stats().unboundReads is exact, however many reads there are.            *)
THEOREM UnboundReadsAreAllCounted == Spec => []CountsEveryUnboundRead
<1>1. ProcessInvariant => CountsEveryUnboundRead
  BY DEF ProcessInvariant
<1> QED
  BY <1>1, ProcessKeepsInvariant, PTL

(* No value is left in the clear without its warning, and none is given    *)
(* twice.                                                                  *)
THEOREM ClearWritesAreAlwaysAnnounced == Spec => []ClearWritesAreAnnounced
<1>1. ProcessInvariant => ClearWritesAreAnnounced
  BY DEF ProcessInvariant, ClearMarked, LogMatches, ClearWritesAreAnnounced
<1> QED
  BY <1>1, ProcessKeepsInvariant, PTL

(* In strict mode no read hands a token on as if it were plaintext.        *)
THEOREM TokensAreAlwaysDecrypted == Spec => []TokensAreDecrypted
<1>1. ProcessInvariant => TokensAreDecrypted
  <2> SUFFICES ASSUME ProcessInvariant, answer.call # "none",
                      answer.outcome.status = "ok", answer.outcome.value # Null
               PROVE  TokensAreDecrypted
    BY DEF TokensAreDecrypted
  <2> QED
    BY AnsweredAs DEF UnsealedAs, TokensAreDecrypted
<1> QED
  BY <1>1, ProcessKeepsInvariant, PTL
=============================================================================
