--------------------------- MODULE LibraryLemmas ----------------------------
(***************************************************************************)
(* What seal, unseal and their nullable variants return, for every         *)
(* configuration, string and option: the facts the theorems about the      *)
(* program's parts rest on.                                                *)
(***************************************************************************)
EXTENDS SealedFields, SequencesExt, WellFoundedInduction, TLAPS

-----------------------------------------------------------------------------
(* Places of a sequence, and folds over them.                              *)

(* A set of places has a first one and a last one.                         *)
LEMMA FirstAndLast ==
  ASSUME NEW n \in Nat, NEW places \in SUBSET (1 .. n), places # {}
  PROVE  /\ \E i \in places : \A j \in places : i <= j
         /\ \E i \in places : \A j \in places : j <= i
<1> DEFINE less == {p \in Nat \X Nat : p[1] < p[2]}
<1>1. IsWellFoundedOn(less, Nat)
  BY NatLessThanWellFounded DEF OpToRel
<1>2. ASSUME NEW S \in SUBSET Nat, S # {}
      PROVE  \E i \in S : \A j \in S : i <= j
  <2>1. PICK i \in S : \A j \in S : ~ (<<j, i>> \in less)
    BY <1>1, <1>2, WFMin
  <2>2. \A j \in S : ~ (j < i)
    BY <1>2, <2>1
  <2>3. \A j \in S : i <= j
    BY <1>2, <2>2
  <2> QED
    BY <2>3
<1>3. \E i \in places : \A j \in places : i <= j
  BY <1>2
<1>4. \E i \in places : \A j \in places : j <= i
  <2> DEFINE mirrored == {n - i : i \in places}
  <2>1. mirrored \in SUBSET Nat /\ mirrored # {}
    <3>1. \A i \in places : n - i \in Nat
      OBVIOUS
    <3> QED
      BY <3>1
  <2>2. PICK k \in mirrored : \A j \in mirrored : k <= j
    BY <1>2, <2>1
  <2>3. PICK i \in places : k = n - i
    BY <2>2
  <2>4. \A j \in places : n - i <= n - j
    BY <2>2, <2>3
  <2>5. \A j \in places : j <= i
    BY <2>4
  <2> QED
    BY <2>5
<1> QED
  BY <1>3, <1>4

(* What holds of the first place and is handed on holds of all of them.    *)
LEMMA EveryPlace ==
  ASSUME NEW n \in Nat, NEW S, 0 \in S, \A k \in 0 .. n - 1 : k \in S => k + 1 \in S
  PROVE  \A k \in 0 .. n : k \in S
<1> DEFINE missing == {k \in 1 .. n : k \notin S}
<1>1. SUFFICES ASSUME missing # {} PROVE FALSE
  <2>1. \A k \in 0 .. n : k = 0 \/ k \in 1 .. n
    OBVIOUS
  <2> QED
    BY <2>1
<1>2. PICK k \in missing : \A j \in missing : k <= j
  BY <1>1, FirstAndLast
<1>3. k - 1 \in 0 .. n - 1 /\ k - 1 \notin missing /\ (k - 1) + 1 = k /\ k \in 1 .. n
  BY <1>2
<1>4. k - 1 \in S
  <2>1. k - 1 = 0 \/ k - 1 \in 1 .. n
    BY <1>3
  <2> QED
    BY <1>3, <2>1
<1> QED
  BY <1>2, <1>3, <1>4

(* The last of a set of places.                                            *)
LEMMA MaxOfPlaces ==
  ASSUME NEW n \in Nat, NEW s \in SUBSET (1 .. n), s # {}
  PROVE  Max(s) \in s /\ \A i \in s : i <= Max(s)
<1>1. \E i \in s : \A j \in s : j <= i
  BY FirstAndLast
<1>2. \E i \in s : \A j \in s : i >= j
  BY <1>1
<1>3. Max(s) \in s /\ \A j \in s : Max(s) >= j
  BY <1>2 DEF Max
<1> QED
  BY <1>3

(* The first k places end with k, and the others are the first k - 1.      *)
LEMMA LastOfPlaces ==
  ASSUME NEW k \in Nat, k > 0
  PROVE  /\ 1 .. k # {} /\ Max(1 .. k) = k
         /\ (1 .. k) \ {k} = 1 .. k - 1
<1>1. k \in 1 .. k
  OBVIOUS
<1>2. Max(1 .. k) \in 1 .. k /\ k <= Max(1 .. k)
  BY <1>1, MaxOfPlaces
<1> QED
  BY <1>1, <1>2

(* What a fold is defined by: a function of the sets of places done, of    *)
(* which we ask nothing where it leaves the set A.                         *)
Folds(f, n, A, base, step) ==
  /\ f[{}] = base
  /\ \A s \in SUBSET (1 .. n) :
       s # {} /\ f[s \ {Max(s)}] \in A => f[s] = step[<<f[s \ {Max(s)}], Max(s)>>]

(* There is such a function, with values in any set that the steps do not  *)
(* lead out of.                                                            *)
LEMMA FoldingEnds ==
  ASSUME NEW n \in Nat, NEW A, NEW base \in A, NEW step \in [A \X (1 .. n) -> A]
  PROVE  \E f \in [SUBSET (1 .. n) -> A] : Folds(f, n, A, base, step)
<1> DEFINE Step(g, s) == IF s = {} THEN base ELSE step[<<g[s \ {Max(s)}], Max(s)>>]
           done == {k \in 0 .. n : \E g \in [SUBSET (1 .. k) -> A] :
                                     \A s \in SUBSET (1 .. k) : g[s] = Step(g, s)}
<1>1. 0 \in done
  <2> DEFINE g == [s \in SUBSET (1 .. 0) |-> base]
  <2>1. SUBSET (1 .. 0) = {{}}
    OBVIOUS
  <2>2. g \in [SUBSET (1 .. 0) -> A] /\ \A s \in SUBSET (1 .. 0) : g[s] = Step(g, s)
    BY <2>1
  <2> HIDE DEF Step
  <2>3. \E h \in [SUBSET (1 .. 0) -> A] : \A s \in SUBSET (1 .. 0) : h[s] = Step(h, s)
    BY <2>2
  <2>4. 0 \in 0 .. n
    OBVIOUS
  <2> QED
    BY <2>3, <2>4, Zenon
<1>2. ASSUME NEW k \in 0 .. n - 1, k \in done
      PROVE  k + 1 \in done
  <2>1. PICK g \in [SUBSET (1 .. k) -> A] : \A s \in SUBSET (1 .. k) : g[s] = Step(g, s)
    BY <1>2
  <2> DEFINE h == [s \in SUBSET (1 .. k + 1) |->
                     IF k + 1 \in s THEN step[<<g[s \ {k + 1}], k + 1>>] ELSE g[s]]
  <2>2. \A s \in SUBSET (1 .. k) : s \in SUBSET (1 .. k + 1) /\ k + 1 \notin s
    OBVIOUS
  <2>3. \A s \in SUBSET (1 .. k) : h[s] = g[s]
    BY <2>2
  <2>4. \A s \in SUBSET (1 .. k + 1) : s \ {k + 1} \in SUBSET (1 .. k)
    <3>1. \A i \in 1 .. k + 1 : i = k + 1 \/ i \in 1 .. k
      OBVIOUS
    <3> QED
      BY <3>1
  <2>5. h \in [SUBSET (1 .. k + 1) -> A]
    <3> SUFFICES ASSUME NEW s \in SUBSET (1 .. k + 1)
                 PROVE  (IF k + 1 \in s THEN step[<<g[s \ {k + 1}], k + 1>>] ELSE g[s]) \in A
      OBVIOUS
    <3>1. g[s \ {k + 1}] \in A /\ k + 1 \in 1 .. n
      BY <2>4
    <3>2. k + 1 \notin s => s = s \ {k + 1}
      OBVIOUS
    <3> QED
      BY <3>1, <3>2
  <2>6. \A s \in SUBSET (1 .. k + 1) : k + 1 \in s => h[s] = step[<<g[s \ {k + 1}], k + 1>>]
    OBVIOUS
  <2> HIDE DEF h
  <2>7. ASSUME NEW s \in SUBSET (1 .. k + 1)
        PROVE  h[s] = Step(h, s)
    <3>1. CASE k + 1 \in s
      <4>1. k + 1 \in Nat /\ s # {}
        BY <3>1
      <4>2. Max(s) = k + 1 /\ s # {}
        <5>1. Max(s) \in s /\ k + 1 <= Max(s)
          BY <3>1, <4>1, MaxOfPlaces
        <5>2. Max(s) \in 1 .. k + 1
          BY <5>1
        <5> QED
          BY <4>1, <5>1, <5>2
      <4>3. h[s] = step[<<g[s \ {k + 1}], k + 1>>] /\ h[s \ {k + 1}] = g[s \ {k + 1}]
        BY <2>3, <2>4, <2>6, <3>1
      <4> QED
        BY <4>2, <4>3
    <3>2. CASE k + 1 \notin s
      <4>1. s \in SUBSET (1 .. k) /\ s \ {Max(s)} \in SUBSET (1 .. k)
        BY <2>4, <3>2
      <4> QED
        BY <2>1, <2>3, <4>1
    <3> QED
      BY <3>1, <3>2
  <2> HIDE DEF Step
  <2>8. \A s \in SUBSET (1 .. k + 1) : h[s] = Step(h, s)
    BY <2>7
  <2>9. k + 1 \in 0 .. n
    OBVIOUS
  <2> QED
    BY <2>5, <2>8, <2>9
<1>3. n \in done
  <2> HIDE DEF done
  <2>1. \A k \in 0 .. n - 1 : k \in done => k + 1 \in done
    BY <1>2
  <2> QED
    BY <1>1, <2>1, EveryPlace
<1>4. PICK g \in [SUBSET (1 .. n) -> A] : \A s \in SUBSET (1 .. n) : g[s] = Step(g, s)
  BY <1>3
<1>5. {} \in SUBSET (1 .. n)
  OBVIOUS
<1> QED
  BY <1>4, <1>5 DEF Folds

(* The values a fold goes through, one after each place.                   *)
Stepwise(chain, n, base, step) ==
  /\ chain[0] = base
  /\ \A k \in 1 .. n : chain[k] = step[<<chain[k - 1], k>>]

Chained(f, n, A, base, step) ==
  \E chain \in [0 .. n -> A] : Stepwise(chain, n, base, step) /\ f[1 .. n] = chain[n]

LEMMA FoldIsChain ==
  ASSUME NEW n \in Nat, NEW A, NEW base \in A, NEW step \in [A \X (1 .. n) -> A],
         NEW f, Folds(f, n, A, base, step)
  PROVE  Chained(f, n, A, base, step)
<1> DEFINE chain == [k \in 0 .. n |-> f[1 .. k]]
           inside == {k \in 0 .. n : f[1 .. k] \in A}
<1>1. f[1 .. 0] = base
  BY DEF Folds
<1>2. ASSUME NEW k \in 1 .. n, f[1 .. k - 1] \in A
      PROVE  f[1 .. k] = step[<<f[1 .. k - 1], k>>]
  <2>1. 1 .. k \in SUBSET (1 .. n) /\ k \in Nat /\ k > 0
    OBVIOUS
  <2>2. 1 .. k # {} /\ Max(1 .. k) = k /\ (1 .. k) \ {k} = 1 .. k - 1
    BY <2>1, LastOfPlaces
  <2> QED
    BY <1>2, <2>1, <2>2 DEF Folds
<1>3. \A k \in 0 .. n : f[1 .. k] \in A
  <2>1. 0 \in inside
    BY <1>1
  <2>2. \A k \in 0 .. n - 1 : k \in inside => k + 1 \in inside
    <3> SUFFICES ASSUME NEW k \in 0 .. n - 1, k \in inside PROVE k + 1 \in inside
      OBVIOUS
    <3>1. k + 1 \in 1 .. n /\ (k + 1) - 1 = k /\ k + 1 \in 0 .. n
      OBVIOUS
    <3>2. f[1 .. k + 1] = step[<<f[1 .. k], k + 1>>]
      BY <1>2, <3>1
    <3> QED
      BY <3>1, <3>2
  <2> HIDE DEF inside
  <2>3. \A k \in 0 .. n : k \in inside
    BY <2>1, <2>2, EveryPlace
  <2> QED
    BY <2>3 DEF inside
<1>4. chain \in [0 .. n -> A]
  BY <1>3
<1>5. \A k \in 1 .. n : k - 1 \in 0 .. n /\ k \in 0 .. n
  OBVIOUS
<1>6. Stepwise(chain, n, base, step) /\ f[1 .. n] = chain[n]
  BY <1>1, <1>2, <1>3, <1>5 DEF Stepwise
<1> HIDE DEF chain
<1> QED
  BY <1>4, <1>6 DEF Chained

(* What is done to a value at some places of a list, one place after the   *)
(* other.                                                                  *)
DoneAt(x, n, places, do) ==
  \A k \in 1 .. n : x[k] = IF k \in places THEN do[x[k - 1]] ELSE x[k - 1]

(* A value that no step moves from where it started stays there.           *)
LEMMA StaysPut ==
  ASSUME NEW n \in Nat, NEW x, \A k \in 1 .. n : x[k - 1] = x[0] => x[k] = x[0]
  PROVE  \A k \in 0 .. n : x[k] = x[0]
<1> DEFINE still == {k \in 0 .. n : x[k] = x[0]}
<1>1. 0 \in still
  OBVIOUS
<1>2. \A k \in 0 .. n - 1 : k \in still => k + 1 \in still
  <2> SUFFICES ASSUME NEW k \in 0 .. n - 1, k \in still PROVE k + 1 \in still
    OBVIOUS
  <2>1. k + 1 \in 1 .. n /\ (k + 1) - 1 = k /\ k + 1 \in 0 .. n
    OBVIOUS
  <2> QED
    BY <2>1
<1> HIDE DEF still
<1>3. \A k \in 0 .. n : k \in still
  BY <1>1, <1>2, EveryPlace
<1> QED
  BY <1>3 DEF still

(* The same done to the same value gives the same.                         *)
LEMMA DoneAlike ==
  ASSUME NEW n \in Nat, NEW places, NEW do, NEW x, NEW y, x[0] = y[0],
         DoneAt(x, n, places, do), DoneAt(y, n, places, do)
  PROVE  x[n] = y[n]
<1> DEFINE alike == {k \in 0 .. n : x[k] = y[k]}
<1>1. 0 \in alike
  OBVIOUS
<1>2. \A k \in 0 .. n - 1 : k \in alike => k + 1 \in alike
  <2> SUFFICES ASSUME NEW k \in 0 .. n - 1, k \in alike PROVE k + 1 \in alike
    OBVIOUS
  <2>1. k + 1 \in 1 .. n /\ (k + 1) - 1 = k /\ k + 1 \in 0 .. n
    OBVIOUS
  <2>2. x[k + 1] = y[k + 1]
    BY <2>1 DEF DoneAt
  <2> QED
    BY <2>1, <2>2
<1> HIDE DEF alike
<1>3. \A k \in 0 .. n : k \in alike
  BY <1>1, <1>2, EveryPlace
<1>4. n \in 0 .. n
  OBVIOUS
<1> QED
  BY <1>3, <1>4 DEF alike

(* Values in a set that what is done does not lead out of stay there.      *)
LEMMA DoneType ==
  ASSUME NEW n \in Nat, NEW places, NEW V, NEW do \in [V -> V],
         NEW x, x[0] \in V, DoneAt(x, n, places, do)
  PROVE  \A k \in 0 .. n : x[k] \in V
<1> DEFINE inside == {k \in 0 .. n : x[k] \in V}
<1>1. 0 \in inside
  OBVIOUS
<1>2. \A k \in 0 .. n - 1 : k \in inside => k + 1 \in inside
  <2> SUFFICES ASSUME NEW k \in 0 .. n - 1, k \in inside PROVE k + 1 \in inside
    OBVIOUS
  <2>1. k + 1 \in 1 .. n /\ (k + 1) - 1 = k /\ k + 1 \in 0 .. n
    OBVIOUS
  <2>2. x[k + 1] = IF k + 1 \in places THEN do[x[k]] ELSE x[k]
    BY <2>1 DEF DoneAt
  <2> QED
    BY <2>1, <2>2
<1> HIDE DEF inside
<1>3. \A k \in 0 .. n : k \in inside
  BY <1>1, <1>2, EveryPlace
<1> QED
  BY <1>3 DEF inside

(* Done at some places and undone at as many, a value is what it was: the  *)
(* order does not matter, as it is the same each time.                     *)
LEMMA DoneAndUndone ==
  ASSUME NEW n \in Nat, NEW places, NEW V, NEW do \in [V -> V], NEW undo \in [V -> V],
         \A v \in V : undo[do[v]] = v,
         NEW x, x[0] \in V, DoneAt(x, n, places, do),
         NEW y, y[0] = x[n], DoneAt(y, n, places, undo)
  PROVE  y[n] = x[0]
<1> DEFINE counting == [p \in Nat \X (1 .. n) |-> IF p[2] \in places THEN p[1] + 1 ELSE p[1]]
           repeating == [p \in V \X (1 .. n) |-> do[p[1]]]
<1>1. PICK count \in [0 .. n -> Nat] : Stepwise(count, n, 0, counting)
  <2>1. counting \in [Nat \X (1 .. n) -> Nat] /\ 0 \in Nat
    OBVIOUS
  <2> HIDE DEF counting
  <2>2. PICK f : Folds(f, n, Nat, 0, counting)
    BY <2>1, FoldingEnds
  <2>3. Chained(f, n, Nat, 0, counting)
    BY <2>1, <2>2, FoldIsChain
  <2> QED
    BY <2>3 DEF Chained
<1>2. PICK power \in [0 .. n -> V] : Stepwise(power, n, x[0], repeating)
  <2>1. repeating \in [V \X (1 .. n) -> V]
    OBVIOUS
  <2> HIDE DEF repeating
  <2>2. PICK f : Folds(f, n, V, x[0], repeating)
    BY <2>1, FoldingEnds
  <2>3. Chained(f, n, V, x[0], repeating)
    BY <2>1, <2>2, FoldIsChain
  <2> QED
    BY <2>3 DEF Chained
<1>3. /\ count[0] = 0
      /\ \A k \in 1 .. n :
           count[k] = IF k \in places THEN count[k - 1] + 1 ELSE count[k - 1]
  <2>1. \A k \in 1 .. n : count[k - 1] \in Nat
    OBVIOUS
  <2>2. \A k \in 1 .. n : count[k] = counting[<<count[k - 1], k>>]
    BY <1>1 DEF Stepwise
  <2> QED
    BY <1>1, <2>1, <2>2 DEF Stepwise
<1>4. power[0] = x[0] /\ \A i \in 1 .. n : power[i] = do[power[i - 1]]
  <2>1. \A k \in 1 .. n : power[k - 1] \in V
    OBVIOUS
  <2>2. \A k \in 1 .. n : power[k] = repeating[<<power[k - 1], k>>]
    BY <1>2 DEF Stepwise
  <2> QED
    BY <1>2, <2>1, <2>2 DEF Stepwise
<1> HIDE DEF counting, repeating
(* Doing goes up the powers.                                               *)
<1>5. \A k \in 0 .. n : count[k] <= k /\ x[k] = power[count[k]]
  <2> DEFINE up == {k \in 0 .. n : count[k] <= k /\ x[k] = power[count[k]]}
  <2>1. 0 \in up
    BY <1>3, <1>4
  <2>2. \A k \in 0 .. n - 1 : k \in up => k + 1 \in up
    <3> SUFFICES ASSUME NEW k \in 0 .. n - 1, k \in up PROVE k + 1 \in up
      OBVIOUS
    <3>1. k + 1 \in 1 .. n /\ (k + 1) - 1 = k /\ k + 1 \in 0 .. n /\ k \in 0 .. n
      OBVIOUS
    <3>2. count[k] \in Nat /\ count[k] <= k /\ x[k] = power[count[k]]
      BY <3>1
    <3>3. CASE k + 1 \in places
      <4>1. count[k + 1] = count[k] + 1 /\ x[k + 1] = do[x[k]]
        BY <1>3, <3>1, <3>3 DEF DoneAt
      <4>2. count[k] + 1 \in 1 .. n /\ (count[k] + 1) - 1 = count[k]
        BY <3>1, <3>2
      <4>3. power[count[k] + 1] = do[power[count[k]]]
        BY <1>4, <4>2
      <4> QED
        BY <3>1, <3>2, <4>1, <4>3
    <3>4. CASE k + 1 \notin places
      <4>1. count[k + 1] = count[k] /\ x[k + 1] = x[k]
        BY <1>3, <3>1, <3>4 DEF DoneAt
      <4> QED
        BY <3>1, <3>2, <4>1
    <3> QED
      BY <3>3, <3>4
  <2> HIDE DEF up
  <2>3. \A k \in 0 .. n : k \in up
    BY <2>1, <2>2, EveryPlace
  <2> QED
    BY <2>3 DEF up
<1>6. \A k \in 0 .. n : count[k] <= count[n]
  <2> DEFINE below == {j \in 0 .. n : count[n - j] <= count[n]}
  <2>1. 0 \in below
    OBVIOUS
  <2>2. \A j \in 0 .. n - 1 : j \in below => j + 1 \in below
    <3> SUFFICES ASSUME NEW j \in 0 .. n - 1, j \in below PROVE j + 1 \in below
      OBVIOUS
    <3>1. n - j \in 1 .. n /\ (n - j) - 1 = n - (j + 1) /\ j + 1 \in 0 .. n
          /\ n - j \in 0 .. n /\ n - (j + 1) \in 0 .. n
      OBVIOUS
    <3>2. count[n - j] = count[n - (j + 1)] + 1 \/ count[n - j] = count[n - (j + 1)]
      BY <1>3, <3>1
    <3>3. count[n - j] \in Nat /\ count[n - (j + 1)] \in Nat /\ count[n] \in Nat
      BY <3>1
    <3> QED
      BY <3>1, <3>2, <3>3
  <2> HIDE DEF below
  <2>3. \A j \in 0 .. n : j \in below
    BY <2>1, <2>2, EveryPlace
  <2>4. \A k \in 0 .. n : n - k \in 0 .. n /\ n - (n - k) = k
    OBVIOUS
  <2> QED
    BY <2>3, <2>4 DEF below
(* Undoing comes down again.                                               *)
<1>7. \A k \in 0 .. n : y[k] = power[count[n] - count[k]]
  <2> DEFINE down == {k \in 0 .. n : y[k] = power[count[n] - count[k]]}
  <2>1. 0 \in down
    <3>1. count[n] \in Nat /\ count[n] - count[0] = count[n]
      BY <1>3
    <3> QED
      BY <1>5, <3>1
  <2>2. \A k \in 0 .. n - 1 : k \in down => k + 1 \in down
    <3> SUFFICES ASSUME NEW k \in 0 .. n - 1, k \in down PROVE k + 1 \in down
      OBVIOUS
    <3>1. k + 1 \in 1 .. n /\ (k + 1) - 1 = k /\ k + 1 \in 0 .. n /\ k \in 0 .. n
      OBVIOUS
    <3>2. /\ count[k] \in Nat /\ count[k + 1] \in Nat /\ count[n] \in Nat
          /\ count[k + 1] <= count[n] /\ count[n] <= n
      BY <1>5, <1>6, <3>1
    <3>3. CASE k + 1 \in places
      <4> DEFINE i == count[n] - count[k]
      <4>1. count[k + 1] = count[k] + 1 /\ y[k + 1] = undo[y[k]]
        BY <1>3, <3>1, <3>3 DEF DoneAt
      <4>2. i \in 1 .. n /\ i - 1 \in 0 .. n /\ count[n] - count[k + 1] = i - 1
        BY <3>2, <4>1
      <4>3. y[k] = power[i]
        OBVIOUS
      <4> HIDE DEF i
      <4>4. power[i] = do[power[i - 1]] /\ power[i - 1] \in V
        BY <1>4, <4>2
      <4> QED
        BY <3>1, <4>1, <4>2, <4>3, <4>4
    <3>4. CASE k + 1 \notin places
      <4>1. count[k + 1] = count[k] /\ y[k + 1] = y[k]
        BY <1>3, <3>1, <3>4 DEF DoneAt
      <4> QED
        BY <3>1, <4>1
    <3> QED
      BY <3>3, <3>4
  <2> HIDE DEF down
  <2>3. \A k \in 0 .. n : k \in down
    BY <2>1, <2>2, EveryPlace
  <2> QED
    BY <2>3 DEF down
<1>8. n \in 0 .. n /\ count[n] \in Nat /\ count[n] - count[n] = 0
  OBVIOUS
<1> QED
  BY <1>4, <1>7, <1>8
-----------------------------------------------------------------------------
(* Types of the library's results.                                         *)

(* A namespace with a key has a ring whose active version has a key.       *)
LEMMA RingType ==
  ASSUME NEW nsConfig \in NamespaceConfig
  PROVE  \/ BuildKeyring(nsConfig) = NoRing
         \/ /\ BuildKeyring(nsConfig) \in Ring
            /\ BuildKeyring(nsConfig).keys[BuildKeyring(nsConfig).activeVersion] \in Key
<1>1. CASE nsConfig.key = NoKey
  BY <1>1 DEF BuildKeyring
<1>2. CASE nsConfig.key # NoKey
  <2>1. nsConfig.key \in Key /\ nsConfig.retired \in [Version -> Key \cup {NoKey}]
    BY <1>2 DEF NamespaceConfig, KeysByVersion
  <2>2. ActiveVersion(nsConfig) \in Version
    BY TokensAssumption DEF ActiveVersion, NamespaceConfig
  <2>3. BuildKeyring(nsConfig) =
          [activeVersion |-> ActiveVersion(nsConfig),
           keys |-> [nsConfig.retired EXCEPT ![ActiveVersion(nsConfig)] = nsConfig.key]]
    BY <1>2 DEF BuildKeyring
  <2>4. [nsConfig.retired EXCEPT ![ActiveVersion(nsConfig)] = nsConfig.key]
          \in [Version -> Key \cup {NoKey}]
    BY <2>1, <2>2
  <2>5. [nsConfig.retired EXCEPT ![ActiveVersion(nsConfig)] = nsConfig.key]
          [ActiveVersion(nsConfig)] \in Key
    BY <2>1, <2>2
  <2> QED
    BY <2>2, <2>3, <2>4, <2>5 DEF Ring, KeysByVersion
<1> QED
  BY <1>1, <1>2

(* Sealing puts one well-formed layer on a string.                         *)
LEMMA WrapType ==
  ASSUME NEW s \in Str, NEW layer \in Layer
  PROVE  Wrap(s, layer) \in Str
  BY DEF Wrap, Str

(* A ring with an active key seals with a well-formed layer.               *)
LEMMA TokenLayerType ==
  ASSUME NEW ring \in Ring, ring.keys[ring.activeVersion] \in Key,
         NEW context \in Context \cup {NoContext}
  PROVE  TokenLayer(ring, context) \in Layer
  BY DEF TokenLayer, Layer, Ring, BuildAad, Aad

(* Taking a layer off leaves a string, when there is one.                  *)
LEMMA UnwrapType ==
  ASSUME NEW s \in Str, s.layers # << >>
  PROVE  Unwrap(s) \in Str
  BY DEF Unwrap, Str

(* The empty string is a string.                                           *)
LEMMA EmptyStrType == EmptyStr \in Str
  BY TokensAssumption DEF EmptyStr, Plain, Str

(* What a call can come back with.                                         *)
Outcomes == [status : Statuses, value : Str, note : {"none", "unbound", "dormant"}]

(* The statuses, spelt out.                                                *)
LEMMA StatusNames ==
  {"ok", "AuthFailure", "InvalidContext", "NoNamespace", "UnknownNamespace",
   "KeyNotConfigured", "UnknownKeyVersion", "TooShort", "TokenShaped",
   "LegacyUnbound", "PlaintextRejected"} = Statuses
  BY DEF Statuses, SealedFieldsErrors

(* Errors and results are outcomes.                                        *)
LEMMA OutcomeTypes ==
  /\ \A status \in Statuses : Err(status) \in Outcomes
  /\ \A s \in Str : Ok(s) \in Outcomes
  /\ \A s \in Str : Noted(s, "unbound") \in Outcomes /\ Noted(s, "dormant") \in Outcomes
  BY EmptyStrType, StatusNames DEF Outcomes, Err, Ok, Noted, Outcome

(* Options that pass splitOptions and resolveNs name a configured          *)
(* namespace and a context that encodes.                                   *)
LEMMA OptionsType ==
  ASSUME NEW c \in Config, NEW options \in SealOptions
  PROVE  /\ OptionsStatus(c, options) \in Statuses
         /\ OptionsStatus(c, options) = "ok"
            => /\ options.context \in Context \cup {NoContext}
               /\ c.namespaces[ResolveNs(c, options)] \in NamespaceConfig
<1> DEFINE ns == ResolveNs(c, options)
<1>1. CASE options.context = InvalidContext
  BY <1>1, StatusNames DEF OptionsStatus
<1>2. CASE options.context # InvalidContext /\ ns = NoNamespace
  BY <1>2, StatusNames DEF OptionsStatus
<1>3. CASE options.context # InvalidContext /\ ns # NoNamespace
  <2>1. OptionsStatus(c, options) = IF ns \in Names(c) THEN "ok" ELSE "UnknownNamespace"
    BY <1>3 DEF OptionsStatus
  <2>2. options.context \in Context \cup {NoContext}
    BY <1>3 DEF SealOptions
  <2>3. ns \in Names(c) => c.namespaces[ns] \in NamespaceConfig
    BY DEF Names, Config
  <2> QED
    BY <2>1, <2>2, <2>3, StatusNames
<1> QED
  BY <1>1, <1>2, <1>3

(* A ring that is there has an active key.                                 *)
LEMMA RingOfType ==
  ASSUME NEW c \in Config, NEW options \in SealOptions,
         OptionsStatus(c, options) = "ok",
         RingOf(c, ResolveNs(c, options)) # NoRing
  PROVE  LET ring == RingOf(c, ResolveNs(c, options)) IN
         ring \in Ring /\ ring.keys[ring.activeVersion] \in Key
  BY OptionsType, RingType DEF RingOf

(* Seal returns an outcome.                                                *)
LEMMA SealType ==
  ASSUME NEW c \in Config, NEW s \in Str, NEW options \in SealOptions
  PROVE  Seal(c, s, options) \in Outcomes
<1> DEFINE ring == RingOf(c, ResolveNs(c, options))
<1>1. CASE OptionsStatus(c, options) # "ok"
  BY <1>1, OptionsType, OutcomeTypes DEF Seal
<1>2. CASE OptionsStatus(c, options) = "ok" /\ ring = NoRing
  <2>1. Seal(c, s, options) = SealDormant(c, s)
    BY <1>2 DEF Seal
  <2>2. CASE c.mode = "strict"
    BY <2>1, <2>2, OutcomeTypes, StatusNames DEF SealDormant
  <2>3. CASE c.mode # "strict" /\ (ParseToken(s) \/ MatchesLegacy(s, c.legacy))
    BY <2>1, <2>3, OutcomeTypes, StatusNames DEF SealDormant
  <2>4. CASE c.mode # "strict" /\ ~ (ParseToken(s) \/ MatchesLegacy(s, c.legacy))
    BY <2>1, <2>4, OutcomeTypes DEF SealDormant
  <2> QED
    BY <2>2, <2>3, <2>4
<1>3. CASE OptionsStatus(c, options) = "ok" /\ ring # NoRing
  <2>1. Seal(c, s, options) = Ok(Wrap(s, TokenLayer(ring, options.context)))
    BY <1>3 DEF Seal, SealWithKeyring
  <2>2. TokenLayer(ring, options.context) \in Layer
    BY <1>3, OptionsType, RingOfType, TokenLayerType
  <2> QED
    BY <2>1, <2>2, WrapType, OutcomeTypes
<1> QED
  BY <1>1, <1>2, <1>3

(* Opening a token under a ring returns an outcome.                        *)
LEMMA UnsealWithKeyringType ==
  ASSUME NEW s \in Str, NEW ring, NEW onUnknownVersion, NEW context
  PROVE  UnsealWithKeyring(s, ring, onUnknownVersion, context) \in Outcomes
<1> DEFINE version == VersionLabel(s)
           key == ring.keys[version]
<1>1. CASE key = NoKey
  BY <1>1, OutcomeTypes, StatusNames DEF UnsealWithKeyring
<1>2. CASE key # NoKey /\ Shape(s) = "short"
  BY <1>2, OutcomeTypes, StatusNames DEF UnsealWithKeyring
<1>3. CASE key # NoKey /\ Shape(s) # "short"
  <2>1. UnsealWithKeyring(s, ring, onUnknownVersion, context)
          = IF Authenticates(s, key, BuildAad(version, context))
            THEN Ok(Unwrap(s)) ELSE Err("AuthFailure")
    BY <1>3 DEF UnsealWithKeyring
  <2>2. Authenticates(s, key, BuildAad(version, context)) => Unwrap(s) \in Str
    BY UnwrapType DEF Authenticates
  <2> QED
    BY <2>1, <2>2, OutcomeTypes, StatusNames
<1> QED
  BY <1>1, <1>2, <1>3

(* So does opening it with the fallback.                                   *)
LEMMA UnsealTokenType ==
  ASSUME NEW c \in Config, NEW s \in Str, NEW ring, NEW context
  PROVE  UnsealToken(c, s, ring, context) \in Outcomes
<1> DEFINE bound == UnsealWithKeyring(s, ring, c.onUnknownVersion, context)
           unbound == UnsealWithKeyring(s, ring, c.onUnknownVersion, NoContext)
<1>1. bound \in Outcomes /\ unbound \in Outcomes
  BY UnsealWithKeyringType
<1>2. unbound.value \in Str
  BY <1>1 DEF Outcomes
<1>3. UnsealToken(c, s, ring, context) \in {Noted(unbound.value, "unbound"), bound}
  BY DEF UnsealToken
<1> QED
  BY <1>1, <1>2, <1>3, OutcomeTypes

(* So does opening a legacy token.                                         *)
LEMMA UnsealLegacyType ==
  ASSUME NEW c \in Config, NEW s \in Str, NEW ring, NEW context
  PROVE  UnsealLegacy(c, s, ring, context) \in Outcomes
<1> DEFINE legacy == TryLegacyFormats(s, c.legacy, ring)
<1>1. legacy \in Outcomes
  <2>1. CASE \E format \in c.legacy, key \in KeysOf(ring) :
               MatchLegacy(s, format) /\ Authenticates(s, key, NoAad)
    <3>1. Unwrap(s) \in Str
      BY <2>1, UnwrapType DEF Authenticates
    <3> QED
      BY <2>1, <3>1, OutcomeTypes DEF TryLegacyFormats
  <2>2. CASE ~ \E format \in c.legacy, key \in KeysOf(ring) :
               MatchLegacy(s, format) /\ Authenticates(s, key, NoAad)
    BY <2>2, OutcomeTypes, StatusNames DEF TryLegacyFormats
  <2> QED
    BY <2>1, <2>2
<1>2. legacy.value \in Str
  BY <1>1 DEF Outcomes
<1>3. CASE context # NoContext /\ ~ c.contextFallback
  BY <1>3, OutcomeTypes, StatusNames DEF UnsealLegacy
<1>4. CASE context # NoContext /\ c.contextFallback
  <2>1. UnsealLegacy(c, s, ring, context) \in {Noted(legacy.value, "unbound"), legacy}
    BY <1>4 DEF UnsealLegacy
  <2> QED
    BY <1>1, <1>2, <2>1, OutcomeTypes
<1>5. CASE context = NoContext
  BY <1>1, <1>5 DEF UnsealLegacy
<1> QED
  BY <1>3, <1>4, <1>5

(* Unseal returns an outcome.                                              *)
LEMMA UnsealType ==
  ASSUME NEW c \in Config, NEW s \in Str, NEW options \in SealOptions
  PROVE  Unseal(c, s, options) \in Outcomes
<1> DEFINE ring == RingOf(c, ResolveNs(c, options))
<1>1. CASE OptionsStatus(c, options) # "ok"
  BY <1>1, OptionsType, OutcomeTypes DEF Unseal
<1>2. CASE OptionsStatus(c, options) = "ok"
  <2>1. UnsealTokenWithoutRing(c, s) \in Outcomes
    BY OutcomeTypes, StatusNames DEF UnsealTokenWithoutRing
  <2>2. UnsealPlaintext(c, s) \in Outcomes
    BY OutcomeTypes, StatusNames DEF UnsealPlaintext
  <2>3. Unseal(c, s, options)
          \in {UnsealTokenWithoutRing(c, s), UnsealToken(c, s, ring, options.context),
               UnsealLegacy(c, s, ring, options.context), UnsealPlaintext(c, s)}
    BY <1>2 DEF Unseal
  <2> QED
    BY <2>1, <2>2, <2>3, UnsealTokenType, UnsealLegacyType
<1> QED
  BY <1>1, <1>2

(* What the nullable variants give: a status, and a value of a column.     *)
LEMMA MaybeTypes ==
  ASSUME NEW c \in Config, NEW value \in Str \cup {Null}, NEW options \in SealOptions
  PROVE  /\ MaybeSeal(c, value, options).status \in Statuses
         /\ MaybeSeal(c, value, options).value \in Str \cup {Null}
         /\ MaybeUnseal(c, value, options).status \in Statuses
         /\ MaybeUnseal(c, value, options).value \in Str \cup {Null}
<1>1. CASE value \in {Null, EmptyStr}
  BY <1>1, StatusNames DEF MaybeSeal, MaybeUnseal, Ok, Outcome
<1>2. CASE value \notin {Null, EmptyStr}
  <2>1. MaybeSeal(c, value, options) \in Outcomes
    BY <1>2, SealType DEF MaybeSeal
  <2>2. MaybeUnseal(c, value, options) \in Outcomes
    BY <1>2, UnsealType DEF MaybeUnseal
  <2> QED
    BY <2>1, <2>2 DEF Outcomes
<1> QED
  BY <1>1, <1>2

-----------------------------------------------------------------------------
(* What they return.                                                       *)

(* Taking a layer off changes a string.                                    *)
LEMMA UnwrapDiffers ==
  ASSUME NEW s \in Str, s.layers # << >>
  PROVE  Unwrap(s) # s
<1>1. s.layers \in Seq(Layer)
  BY DEF Str
<1>2. Len(Tail(s.layers)) = Len(s.layers) - 1
  BY <1>1
<1>3. Unwrap(s).layers = Tail(s.layers)
  BY DEF Unwrap
<1>4. Len(s.layers) - 1 # Len(s.layers)
  BY <1>1
<1>5. Tail(s.layers) # s.layers
  BY <1>2, <1>4
<1> QED
  BY <1>3, <1>5

(* The outermost layer is a layer.                                         *)
LEMMA HeadLayer ==
  ASSUME NEW s \in Str, s.layers # << >>
  PROVE  Head(s.layers) \in Layer
  BY DEF Str

(* Putting a layer on and taking it off gives the string back.             *)
LEMMA UnwrapWrap ==
  ASSUME NEW s \in Str, NEW layer \in Layer
  PROVE  /\ Wrap(s, layer).layers # << >>
         /\ Head(Wrap(s, layer).layers) = layer
         /\ Unwrap(Wrap(s, layer)) = s
<1>1. s.layers \in Seq(Layer)
  BY DEF Str
<1>2. Wrap(s, layer).layers = <<layer>> \o s.layers /\ Wrap(s, layer).text = s.text
  BY DEF Wrap
<1>3. Head(<<layer>> \o s.layers) = layer /\ Tail(<<layer>> \o s.layers) = s.layers
  BY <1>1
<1>4. <<layer>> \o s.layers # << >>
  BY <1>1
<1> QED
  BY <1>2, <1>3, <1>4 DEF Unwrap, Str

(* A seal that returns has put the layer of the ring on, or, for want of a *)
(* ring outside strict mode, has given the string back and owes a warning. *)
LEMMA SealReturns ==
  ASSUME NEW c \in Config, NEW s \in Str, NEW options \in SealOptions,
         Seal(c, s, options).status = "ok"
  PROVE  LET ring == RingOf(c, ResolveNs(c, options))
             outcome == Seal(c, s, options)
         IN /\ OptionsStatus(c, options) = "ok"
            /\ IF ring = NoRing
               THEN /\ outcome.value = s /\ outcome.note = "dormant"
                    /\ c.mode # "strict"
                    /\ ~ ParseToken(s) /\ ~ MatchesLegacy(s, c.legacy)
               ELSE /\ outcome.value = Wrap(s, TokenLayer(ring, options.context))
                    /\ outcome.note = "none"
<1> DEFINE ring == RingOf(c, ResolveNs(c, options))
<1>1. OptionsStatus(c, options) = "ok"
  BY DEF Seal, Err, Outcome
<1>2. CASE ring = NoRing
  <2>1. Seal(c, s, options) = SealDormant(c, s)
    BY <1>1, <1>2 DEF Seal
  <2>2. c.mode # "strict" /\ ~ (ParseToken(s) \/ MatchesLegacy(s, c.legacy))
    BY <2>1 DEF SealDormant, Err, Outcome
  <2>3. SealDormant(c, s) = Noted(s, "dormant")
    BY <2>2 DEF SealDormant
  <2> QED
    BY <1>1, <1>2, <2>1, <2>2, <2>3 DEF Noted, Outcome
<1>3. CASE ring # NoRing
  <2>1. Seal(c, s, options) = Ok(Wrap(s, TokenLayer(ring, options.context)))
    BY <1>1, <1>3 DEF Seal, SealWithKeyring
  <2> QED
    BY <1>1, <1>3, <2>1 DEF Ok, Outcome
<1> QED
  BY <1>2, <1>3

(* The ring takes a layer off a token only with a key it has, and only     *)
(* under the AAD of its own label and the context given.                   *)
LEMMA KeyringOpens ==
  ASSUME NEW s \in Str, NEW ring \in Ring, NEW onUnknownVersion, NEW context,
         ParseToken(s),
         UnsealWithKeyring(s, ring, onUnknownVersion, context).status = "ok"
  PROVE  LET outcome == UnsealWithKeyring(s, ring, onUnknownVersion, context) IN
         /\ outcome.note = "none"
         /\ \/ outcome.value = s /\ onUnknownVersion = "passthrough"
            \/ /\ s.layers # << >> /\ outcome.value = Unwrap(s)
               /\ Head(s.layers).key \in KeysOf(ring)
               /\ Head(s.layers).aad.context = context
<1> DEFINE version == VersionLabel(s)
           key == ring.keys[version]
<1>1. CASE key = NoKey
  <2>1. onUnknownVersion = "passthrough"
    BY <1>1 DEF UnsealWithKeyring, Err, Outcome
  <2> QED
    BY <1>1, <2>1 DEF UnsealWithKeyring, Ok, Outcome
<1>2. CASE key # NoKey
  <2>1. Shape(s) # "short"
    BY <1>2 DEF UnsealWithKeyring, Err, Outcome
  <2>2. Authenticates(s, key, BuildAad(version, context))
    BY <1>2, <2>1 DEF UnsealWithKeyring, Err, Outcome
  <2>3. UnsealWithKeyring(s, ring, onUnknownVersion, context) = Ok(Unwrap(s))
    BY <1>2, <2>1, <2>2 DEF UnsealWithKeyring
  <2>4. s.layers # << >> /\ Head(s.layers).key = key
        /\ Head(s.layers).aad = BuildAad(version, context)
    BY <2>2 DEF Authenticates
  <2>5. Head(s.layers) \in Layer
    BY <2>4, HeadLayer
  <2>6. Head(s.layers).format = "token"
    BY <2>4, <2>5 DEF ParseToken, Shape, Layer, LegacyFormats
  <2>7. version \in Version
    BY <2>4, <2>5, <2>6 DEF VersionLabel, Layer
  <2>8. key \in KeysOf(ring)
    BY <1>2, <2>7 DEF KeysOf
  <2> QED
    BY <2>3, <2>4, <2>8 DEF Ok, Outcome, BuildAad
<1> QED
  BY <1>1, <1>2

(* What an unseal that returns has done: left the string as it is, or      *)
(* taken one layer off with a key of the ring, bound to the context of the *)
(* call or, under contextFallback, to none, and that it owes a count.      *)
UnsealedAs(c, s, options, ring, outcome) ==
  \/ /\ outcome.value = s /\ outcome.note # "unbound"
     /\ ParseToken(s) => \/ ring = NoRing /\ c.mode # "strict"
                         \/ ring # NoRing /\ c.onUnknownVersion = "passthrough"
     /\ ~ ParseToken(s) => /\ ring = NoRing \/ ~ MatchesLegacy(s, c.legacy)
                           /\ c.plaintext # "reject"
  \/ /\ ring # NoRing
     /\ s.layers # << >> /\ outcome.value = Unwrap(s)
     /\ Head(s.layers).key \in KeysOf(ring)
     /\ \/ /\ outcome.note = "none"
           /\ Head(s.layers).aad.context = options.context
        \/ /\ outcome.note = "unbound"
           /\ Head(s.layers).aad.context = NoContext
           /\ options.context # NoContext
           /\ c.contextFallback

(* A canonical token under a ring.                                         *)
LEMMA UnsealTokenReturns ==
  ASSUME NEW c \in Config, NEW s \in Str, NEW options \in SealOptions,
         NEW ring \in Ring, ring # NoRing, ParseToken(s),
         UnsealToken(c, s, ring, options.context).status = "ok"
  PROVE  UnsealedAs(c, s, options, ring, UnsealToken(c, s, ring, options.context))
<1> DEFINE bound == UnsealWithKeyring(s, ring, c.onUnknownVersion, options.context)
           unbound == UnsealWithKeyring(s, ring, c.onUnknownVersion, NoContext)
           retried == /\ bound.status = "AuthFailure" /\ options.context # NoContext
                      /\ c.contextFallback /\ unbound.status = "ok"
<1>1. CASE retried
  <2>1. UnsealToken(c, s, ring, options.context) = Noted(unbound.value, "unbound")
    BY <1>1 DEF UnsealToken
  <2>2. \/ unbound.value = s /\ c.onUnknownVersion = "passthrough"
        \/ /\ s.layers # << >> /\ unbound.value = Unwrap(s)
           /\ Head(s.layers).key \in KeysOf(ring)
           /\ Head(s.layers).aad.context = NoContext
    BY <1>1, KeyringOpens
  <2>3. unbound.value = s /\ c.onUnknownVersion = "passthrough" => FALSE
    <3>1. SUFFICES ASSUME unbound.value = s PROVE FALSE
      OBVIOUS
    <3>2. ring.keys[VersionLabel(s)] # NoKey
      BY <1>1 DEF UnsealWithKeyring, Ok, Err, Outcome
    <3>3. Shape(s) # "short"
      BY <1>1, <3>2 DEF UnsealWithKeyring, Ok, Err, Outcome
    <3>4. Authenticates(s, ring.keys[VersionLabel(s)], BuildAad(VersionLabel(s), NoContext))
      BY <1>1, <3>2, <3>3 DEF UnsealWithKeyring, Ok, Err, Outcome
    <3>5. unbound.value = Unwrap(s) /\ s.layers # << >>
      BY <3>2, <3>3, <3>4 DEF UnsealWithKeyring, Ok, Outcome, Authenticates
    <3> QED
      BY <3>1, <3>5, UnwrapDiffers
  <2> QED
    BY <1>1, <2>1, <2>2, <2>3 DEF UnsealedAs, Noted, Outcome
<1>2. CASE ~ retried
  <2>1. UnsealToken(c, s, ring, options.context) = bound
    BY <1>2 DEF UnsealToken
  <2> QED
    BY <2>1, KeyringOpens DEF UnsealedAs
<1> QED
  BY <1>1, <1>2

(* A legacy token under a ring.                                            *)
LEMMA UnsealLegacyReturns ==
  ASSUME NEW c \in Config, NEW s \in Str, NEW options \in SealOptions,
         NEW ring \in Ring, ring # NoRing,
         UnsealLegacy(c, s, ring, options.context).status = "ok"
  PROVE  UnsealedAs(c, s, options, ring, UnsealLegacy(c, s, ring, options.context))
<1> DEFINE legacy == TryLegacyFormats(s, c.legacy, ring)
<1>1. options.context # NoContext => c.contextFallback
  BY DEF UnsealLegacy, Err, Outcome
<1>2. UnsealLegacy(c, s, ring, options.context) =
        IF options.context # NoContext /\ legacy.status = "ok"
        THEN Noted(legacy.value, "unbound") ELSE legacy
  BY <1>1 DEF UnsealLegacy, Config
<1>3. legacy.status = "ok"
  BY <1>2
<1>4. \E format \in c.legacy, key \in KeysOf(ring) :
        MatchLegacy(s, format) /\ Authenticates(s, key, NoAad)
  BY <1>3 DEF TryLegacyFormats, Err, Outcome
<1>5. legacy = Ok(Unwrap(s))
  BY <1>4 DEF TryLegacyFormats
<1>6. s.layers # << >> /\ Head(s.layers).key \in KeysOf(ring)
      /\ Head(s.layers).aad.context = NoContext
  BY <1>4 DEF Authenticates, NoAad, BuildAad
<1> QED
  BY <1>1, <1>2, <1>5, <1>6 DEF UnsealedAs, Ok, Noted, Outcome

(* Any string, under any options.                                          *)
LEMMA UnsealReturns ==
  ASSUME NEW c \in Config, NEW s \in Str, NEW options \in SealOptions,
         Unseal(c, s, options).status = "ok"
  PROVE  /\ OptionsStatus(c, options) = "ok"
         /\ UnsealedAs(c, s, options, RingOf(c, ResolveNs(c, options)),
                       Unseal(c, s, options))
<1> DEFINE ring == RingOf(c, ResolveNs(c, options))
           outcome == Unseal(c, s, options)
<1>1. OptionsStatus(c, options) = "ok"
  BY DEF Unseal, Err, Outcome
<1>2. ring # NoRing => ring \in Ring
  BY <1>1, RingOfType
<1>3. CASE ParseToken(s) /\ ring = NoRing
  <2>1. outcome = UnsealTokenWithoutRing(c, s)
    BY <1>1, <1>3 DEF Unseal
  <2>2. c.mode # "strict"
    BY <2>1 DEF UnsealTokenWithoutRing, Err, Outcome
  <2> QED
    BY <1>1, <1>3, <2>1, <2>2 DEF UnsealTokenWithoutRing, UnsealedAs, Noted, Outcome
<1>4. CASE ParseToken(s) /\ ring # NoRing
  <2>1. outcome = UnsealToken(c, s, ring, options.context)
    BY <1>1, <1>4 DEF Unseal
  <2> QED
    BY <1>1, <1>2, <1>4, <2>1, UnsealTokenReturns
<1>5. CASE ~ ParseToken(s) /\ ring # NoRing /\ MatchesLegacy(s, c.legacy)
  <2>1. outcome = UnsealLegacy(c, s, ring, options.context)
    BY <1>1, <1>5 DEF Unseal
  <2> QED
    BY <1>1, <1>2, <1>5, <2>1, UnsealLegacyReturns
<1>6. CASE ~ ParseToken(s) /\ ~ (ring # NoRing /\ MatchesLegacy(s, c.legacy))
  <2>1. outcome = UnsealPlaintext(c, s)
    BY <1>1, <1>6 DEF Unseal
  <2>2. c.plaintext # "reject"
    BY <2>1 DEF UnsealPlaintext, Err, Outcome
  <2> QED
    BY <1>1, <1>6, <2>1, <2>2 DEF UnsealPlaintext, UnsealedAs, Ok, Outcome
<1> QED
  BY <1>3, <1>4, <1>5, <1>6

(* What seal returned, unseal opens under the same options.                *)
LEMMA SealRoundTrip ==
  ASSUME NEW c \in Config, Constructible(c), NEW s \in Str, NEW options \in SealOptions,
         Seal(c, s, options).status = "ok"
  PROVE  LET result == Seal(c, s, options).value IN
         Unseal(c, result, options).status = "ok" /\ Unseal(c, result, options).value = s
<1> DEFINE ring == RingOf(c, ResolveNs(c, options))
           layer == TokenLayer(ring, options.context)
           result == Seal(c, s, options).value
<1>1. OptionsStatus(c, options) = "ok"
  BY SealReturns
<1>2. CASE ring = NoRing
  <2>1. result = s /\ c.mode # "strict" /\ ~ ParseToken(s)
    BY <1>2, SealReturns
  <2>2. c.plaintext # "reject"
    BY <2>1 DEF Constructible
  <2>3. Unseal(c, s, options) = Ok(s)
    BY <1>1, <1>2, <2>1, <2>2 DEF Unseal, UnsealPlaintext
  <2> QED
    BY <2>1, <2>3 DEF Ok, Outcome
<1>3. CASE ring # NoRing
  <2>1. ring \in Ring /\ ring.keys[ring.activeVersion] \in Key
        /\ options.context \in Context \cup {NoContext}
    BY <1>1, <1>3, RingOfType, OptionsType
  <2>2. layer \in Layer /\ result = Wrap(s, layer)
    BY <1>3, <2>1, SealReturns, TokenLayerType
  <2>3. /\ result.layers # << >> /\ Head(result.layers) = layer /\ Unwrap(result) = s
    BY <2>2, UnwrapWrap
  <2>4. /\ layer.format = "token" /\ layer.version = ring.activeVersion
        /\ layer.key = ring.keys[ring.activeVersion]
        /\ layer.aad = BuildAad(ring.activeVersion, options.context)
    BY DEF TokenLayer
  <2>5. Shape(result) = "token" /\ VersionLabel(result) = ring.activeVersion
    BY <2>3, <2>4 DEF Shape, VersionLabel
  <2>6. ring.keys[ring.activeVersion] # NoKey
    BY <2>1, TokensAssumption
  <2>7. Authenticates(result, ring.keys[ring.activeVersion],
                      BuildAad(ring.activeVersion, options.context))
    BY <2>3, <2>4 DEF Authenticates
  <2>8. UnsealWithKeyring(result, ring, c.onUnknownVersion, options.context) = Ok(s)
    BY <2>3, <2>5, <2>6, <2>7 DEF UnsealWithKeyring
  <2>9. UnsealToken(c, result, ring, options.context) = Ok(s)
    BY <2>8 DEF UnsealToken, Ok, Outcome
  <2>10. Unseal(c, result, options) = Ok(s)
    BY <1>1, <1>3, <2>5, <2>9 DEF Unseal, ParseToken
  <2> QED
    BY <2>10 DEF Ok, Outcome
<1> QED
  BY <1>2, <1>3

-----------------------------------------------------------------------------
(* What they owe.                                                          *)

(* A call that throws owes no bookkeeping.                                 *)
LEMMA FailuresOweNothing ==
  ASSUME NEW c \in Config, NEW s \in Str, NEW options \in SealOptions
  PROVE  /\ Seal(c, s, options).status # "ok" => Seal(c, s, options).note = "none"
         /\ Unseal(c, s, options).status # "ok" => Unseal(c, s, options).note = "none"
<1> DEFINE ring == RingOf(c, ResolveNs(c, options))
           Quiet(outcome) == outcome.status # "ok" => outcome.note = "none"
<1>1. /\ \A status : Quiet(Err(status))
      /\ \A value : Quiet(Ok(value))
      /\ \A value, note : Quiet(Noted(value, note))
  BY DEF Err, Ok, Noted, Outcome
<1>2. Quiet(Seal(c, s, options))
  <2>1. Quiet(SealDormant(c, s))
    BY <1>1 DEF SealDormant
  <2> QED
    BY <1>1, <2>1 DEF Seal
<1>3. \A context : Quiet(UnsealWithKeyring(s, ring, c.onUnknownVersion, context))
  <2> SUFFICES ASSUME NEW context
               PROVE  Quiet(UnsealWithKeyring(s, ring, c.onUnknownVersion, context))
    OBVIOUS
  <2>1. \/ UnsealWithKeyring(s, ring, c.onUnknownVersion, context) \in
             {Ok(s), Ok(Unwrap(s)), Err("UnknownKeyVersion"), Err("TooShort"),
              Err("AuthFailure")}
    BY DEF UnsealWithKeyring
  <2> QED
    BY <1>1, <2>1
<1>4. Quiet(UnsealToken(c, s, ring, options.context))
  BY <1>1, <1>3 DEF UnsealToken
<1>5. Quiet(UnsealLegacy(c, s, ring, options.context))
  <2> DEFINE legacy == TryLegacyFormats(s, c.legacy, ring)
  <2>1. Quiet(legacy)
    BY <1>1 DEF TryLegacyFormats
  <2>2. UnsealLegacy(c, s, ring, options.context)
          \in {Err("LegacyUnbound"), Noted(legacy.value, "unbound"), legacy}
    BY DEF UnsealLegacy, Config
  <2> QED
    BY <1>1, <2>1, <2>2
<1>6. Quiet(Unseal(c, s, options))
  <2>1. Quiet(UnsealTokenWithoutRing(c, s)) /\ Quiet(UnsealPlaintext(c, s))
    BY <1>1 DEF UnsealTokenWithoutRing, UnsealPlaintext
  <2> QED
    BY <1>1, <1>4, <1>5, <2>1 DEF Unseal
<1> QED
  BY <1>2, <1>6

(* A call that got past its options acts for a namespace.                  *)
LEMMA ActsForNamespace ==
  ASSUME NEW c \in Config, NEW options \in SealOptions,
         OptionsStatus(c, options) = "ok"
  PROVE  ResolveNs(c, options) \in Namespace
  BY DEF OptionsStatus, Names

(* What a seal owes: a warning exactly when the value comes back as it is. *)
LEMMA SealOwes ==
  ASSUME NEW c \in Config, NEW s \in Str, NEW options \in SealOptions
  PROVE  LET outcome == Seal(c, s, options) IN
         /\ outcome.note \in {"none", "dormant"}
         /\ outcome.note # "none" => ResolveNs(c, options) \in Namespace
         /\ outcome.status = "ok" /\ outcome.value = s => outcome.note = "dormant"
<1>1. CASE Seal(c, s, options).status # "ok"
  BY <1>1, FailuresOweNothing
<1>2. CASE Seal(c, s, options).status = "ok"
  <2> DEFINE ring == RingOf(c, ResolveNs(c, options))
  <2>1. OptionsStatus(c, options) = "ok"
    BY <1>2, SealReturns
  <2>2. CASE ring = NoRing
    BY <1>2, <2>1, <2>2, SealReturns, ActsForNamespace
  <2>3. CASE ring # NoRing
    <3>1. Seal(c, s, options).value = Wrap(s, TokenLayer(ring, options.context))
          /\ Seal(c, s, options).note = "none"
      BY <1>2, <2>3, SealReturns
    <3>2. TokenLayer(ring, options.context) \in Layer
      BY <2>1, <2>3, OptionsType, RingOfType, TokenLayerType
    <3>3. Wrap(s, TokenLayer(ring, options.context)) \in Str
      BY <3>2, WrapType
    <3>4. Wrap(s, TokenLayer(ring, options.context)) # s
      BY <3>2, <3>3, UnwrapWrap, UnwrapDiffers
    <3> QED
      BY <3>1, <3>4
  <2> QED
    BY <2>2, <2>3
<1> QED
  BY <1>1, <1>2

(* What an instance remembers keeps its type.                              *)
LEMMA AccountType ==
  ASSUME NEW instance \in InstanceType, NEW ns, NEW outcome,
         outcome.note \in {"none", "unbound", "dormant"},
         outcome.note # "none" => ns \in Namespace
  PROVE  Account(instance, ns, outcome) \in InstanceType
<1>1. /\ instance.log \in Seq(Warning) /\ instance.unboundReads \in Nat
      /\ instance.warnedDormant \subseteq Namespace
      /\ instance.warnedFallback \subseteq Namespace
  BY DEF InstanceType
<1>2. CASE outcome.note = "none"
  BY <1>2 DEF Account
<1>3. CASE outcome.note # "none"
  <2>1. ASSUME NEW about \in {"dormant", "unbound"}
        PROVE  Append(instance.log, [about |-> about, namespace |-> ns]) \in Seq(Warning)
    <3>1. [about |-> about, namespace |-> ns] \in Warning
      BY <1>3 DEF Warning
    <3> QED
      BY <1>1, <3>1
  <2>2. /\ instance.warnedFallback \cup {ns} \in SUBSET Namespace
        /\ instance.warnedDormant \cup {ns} \in SUBSET Namespace
        /\ instance.unboundReads + 1 \in Nat
    BY <1>1, <1>3
  <2>3. CASE outcome.note = "unbound"
    BY <1>1, <2>1, <2>2, <2>3 DEF Account, NoteUnboundRead, InstanceType
  <2>4. CASE outcome.note = "dormant"
    BY <1>1, <2>1, <2>2, <2>4 DEF Account, WarnDormantOnce, InstanceType
  <2> QED
    BY <1>3, <2>3, <2>4
<1> QED
  BY <1>2, <1>3
=============================================================================
