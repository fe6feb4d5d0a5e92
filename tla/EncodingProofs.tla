--------------------------- MODULE EncodingProofs ---------------------------
(***************************************************************************)
(* The separator does its work: from what the library joins with NUL, the  *)
(* first part can be told again whenever it holds no NUL itself.           *)
(***************************************************************************)
EXTENDS Encodings, LibraryLemmas

(* What Joined puts where.                                                 *)
LEMMA JoinedAt ==
  ASSUME NEW first \in Strings, NEW second \in Strings
  PROVE  LET both == Joined(first, second) IN
         /\ both \in Strings
         /\ Len(both) = Len(first) + 1 + Len(second)
         /\ \A i \in 1 .. Len(first) : both[i] = first[i]
         /\ both[Len(first) + 1] = Nul
         /\ \A i \in 1 .. Len(second) : both[Len(first) + 1 + i] = second[i]
<1> DEFINE head == first \o <<Nul>>
<1>1. <<Nul>> \in Seq(Char) /\ Len(<<Nul>>) = 1 /\ <<Nul>>[1] = Nul
  BY EncodingsAssumption
<1>2. first \in Seq(Char) /\ second \in Seq(Char)
  BY DEF Strings
<1>3. /\ head \in Seq(Char) /\ Len(head) = Len(first) + 1
      /\ \A i \in 1 .. Len(first) : head[i] = first[i]
      /\ head[Len(first) + 1] = Nul
  BY <1>1, <1>2
<1>4. Joined(first, second) = head \o second
  BY DEF Joined
<1> HIDE DEF head
<1>5. /\ head \o second \in Seq(Char) /\ Len(head \o second) = Len(head) + Len(second)
      /\ \A i \in 1 .. Len(head) : (head \o second)[i] = head[i]
      /\ \A i \in 1 .. Len(second) : (head \o second)[Len(head) + i] = second[i]
  BY <1>2, <1>3
<1>6. Len(first) \in Nat /\ Len(second) \in Nat
  BY <1>2
<1> QED
  BY <1>3, <1>4, <1>5, <1>6 DEF Strings

(* A string without NUL is a string, and has none anywhere.                *)
LEMMA CleanType ==
  ASSUME NEW s \in Clean
  PROVE  s \in Strings /\ \A i \in 1 .. Len(s) : s[i] # Nul
<1>1. s \in Seq(Char \ {Nul})
  BY DEF Clean
<1>2. \A i \in 1 .. Len(s) : s[i] \in Char \ {Nul}
  BY <1>1
<1>3. s \in Seq(Char)
  BY <1>1
<1> QED
  BY <1>2, <1>3 DEF Strings

(* HasNul says what Clean leaves out.                                      *)
LEMMA CleanStrings ==
  ASSUME NEW s \in Strings, ~ HasNul(s)
  PROVE  s \in Clean
<1>1. s \in Seq(Char) /\ DOMAIN s = 1 .. Len(s) /\ Len(s) \in Nat
  BY DEF Strings
<1>2. \A i \in 1 .. Len(s) : s[i] \in Char \ {Nul}
  BY <1>1 DEF HasNul
<1>3. s \in [1 .. Len(s) -> Char \ {Nul}]
  BY <1>1, <1>2
<1> QED
  BY <1>1, <1>3 DEF Clean

(* Two strings that agree at every place are one.                          *)
LEMMA SameString ==
  ASSUME NEW s \in Strings, NEW t \in Strings, Len(s) = Len(t),
         \A i \in 1 .. Len(s) : s[i] = t[i]
  PROVE  s = t
<1>1. /\ s = [i \in 1 .. Len(s) |-> s[i]] /\ t = [i \in 1 .. Len(t) |-> t[i]]
  BY DEF Strings
<1> QED
  BY <1>1

(* The first NUL of both sides is the separator: equal bytes have equal    *)
(* parts.                                                                  *)
THEOREM SeparatorTellsPartsApart ==
  ASSUME NEW a \in Clean, NEW b \in Clean, NEW v \in Strings, NEW w \in Strings,
         Joined(a, v) = Joined(b, w)
  PROVE  a = b /\ v = w
<1> DEFINE both == Joined(a, v)
<1>1. /\ a \in Strings /\ b \in Strings
      /\ \A i \in 1 .. Len(a) : a[i] # Nul
      /\ \A i \in 1 .. Len(b) : b[i] # Nul
  BY CleanType
<1>2. /\ Len(a) \in Nat /\ Len(b) \in Nat /\ Len(v) \in Nat /\ Len(w) \in Nat
  BY <1>1 DEF Strings
<1>3. /\ Len(both) = Len(a) + 1 + Len(v)
      /\ \A i \in 1 .. Len(a) : both[i] = a[i]
      /\ both[Len(a) + 1] = Nul
      /\ \A i \in 1 .. Len(v) : both[Len(a) + 1 + i] = v[i]
  BY <1>1, JoinedAt
<1> DEFINE again == Joined(b, w)
<1>4. /\ Len(again) = Len(b) + 1 + Len(w)
      /\ \A i \in 1 .. Len(b) : again[i] = b[i]
      /\ again[Len(b) + 1] = Nul
      /\ \A i \in 1 .. Len(w) : again[Len(b) + 1 + i] = w[i]
  BY <1>1, JoinedAt
<1>5. again = both
  OBVIOUS
<1> HIDE DEF both, again
<1>6. Len(a) = Len(b)
  <2>1. ~ Len(a) < Len(b)
    <3>1. SUFFICES ASSUME Len(a) < Len(b) PROVE FALSE
      OBVIOUS
    <3>2. Len(a) + 1 \in 1 .. Len(b)
      BY <1>2, <3>1
    <3> QED
      BY <1>1, <1>3, <1>4, <1>5, <3>2
  <2>2. ~ Len(b) < Len(a)
    <3>1. SUFFICES ASSUME Len(b) < Len(a) PROVE FALSE
      OBVIOUS
    <3>2. Len(b) + 1 \in 1 .. Len(a)
      BY <1>2, <3>1
    <3> QED
      BY <1>1, <1>3, <1>4, <1>5, <3>2
  <2> QED
    BY <1>2, <2>1, <2>2
<1>7. Len(v) = Len(w)
  BY <1>2, <1>3, <1>4, <1>5, <1>6
<1>8. \A i \in 1 .. Len(a) : a[i] = b[i]
  BY <1>3, <1>4, <1>5, <1>6
<1>9. \A i \in 1 .. Len(v) : v[i] = w[i]
  BY <1>3, <1>4, <1>5, <1>6, <1>7
<1> QED
  BY <1>1, <1>6, <1>7, <1>8, <1>9, SameString

(* Nothing without NUL was joined.                                         *)
LEMMA JoinedIsNotClean ==
  ASSUME NEW l \in Clean, NEW m \in Strings, NEW s \in Strings
  PROVE  l # Joined(m, s)
<1>1. l \in Strings /\ \A i \in 1 .. Len(l) : l[i] # Nul
  BY CleanType
<1>2. Len(Joined(m, s)) = Len(m) + 1 + Len(s) /\ Joined(m, s)[Len(m) + 1] = Nul
  BY JoinedAt
<1>3. Len(m) \in Nat /\ Len(s) \in Nat
  BY DEF Strings
<1>4. Len(m) + 1 \in 1 .. (Len(m) + 1 + Len(s))
  BY <1>3
<1> QED
  BY <1>1, <1>2, <1>4

(* What buildAad makes of a label and an encoded context it makes of no    *)
(* other: a token never authenticates under the AAD of another binding.    *)
THEOREM AadBytesTellsBindingsApart ==
  ASSUME NEW label \in Clean, NEW other \in Clean,
         NEW context \in Strings \cup {NoParts}, NEW another \in Strings \cup {NoParts},
         AadBytes(label, context) = AadBytes(other, another)
  PROVE  label = other /\ context = another
<1>1. ASSUME NEW l \in Clean, NEW m \in Clean, NEW s \in Strings
      PROVE  l # Joined(m, s)
  BY CleanType, JoinedIsNotClean
<1>2. CASE context = NoParts /\ another = NoParts
  BY <1>2 DEF AadBytes
<1>3. CASE context = NoParts /\ another # NoParts
  BY <1>1, <1>3 DEF AadBytes
<1>4. CASE context # NoParts /\ another = NoParts
  BY <1>1, <1>4 DEF AadBytes
<1>5. CASE context # NoParts /\ another # NoParts
  BY <1>5, SeparatorTellsPartsApart DEF AadBytes
<1> QED
  BY <1>2, <1>3, <1>4, <1>5

-----------------------------------------------------------------------------
(* Encoded contexts: one part after the other, each behind a separator.    *)

(* The first NUL from the end is the last separator.                       *)
LEMMA SeparatorTellsLastPartApart ==
  ASSUME NEW a \in Clean, NEW b \in Clean, NEW v \in Strings, NEW w \in Strings,
         Joined(v, a) = Joined(w, b)
  PROVE  a = b /\ v = w
<1> DEFINE both == Joined(v, a)  again == Joined(w, b)
<1>1. /\ a \in Strings /\ b \in Strings
      /\ \A i \in 1 .. Len(a) : a[i] # Nul
      /\ \A i \in 1 .. Len(b) : b[i] # Nul
  BY CleanType
<1>2. /\ Len(a) \in Nat /\ Len(b) \in Nat /\ Len(v) \in Nat /\ Len(w) \in Nat
  BY <1>1 DEF Strings
<1>3. /\ Len(both) = Len(v) + 1 + Len(a)
      /\ \A i \in 1 .. Len(v) : both[i] = v[i]
      /\ both[Len(v) + 1] = Nul
      /\ \A i \in 1 .. Len(a) : both[Len(v) + 1 + i] = a[i]
  BY <1>1, JoinedAt
<1>4. /\ Len(again) = Len(w) + 1 + Len(b)
      /\ \A i \in 1 .. Len(w) : again[i] = w[i]
      /\ again[Len(w) + 1] = Nul
      /\ \A i \in 1 .. Len(b) : again[Len(w) + 1 + i] = b[i]
  BY <1>1, JoinedAt
<1>5. again = both
  OBVIOUS
<1> HIDE DEF both, again
<1>6. Len(v) = Len(w)
  <2>1. ~ Len(v) < Len(w)
    <3>1. SUFFICES ASSUME Len(v) < Len(w) PROVE FALSE
      OBVIOUS
    <3>2. PICK i \in 1 .. Len(a) : Len(v) + 1 + i = Len(w) + 1
      <4>1. /\ Len(w) - Len(v) \in 1 .. Len(a)
            /\ Len(v) + 1 + (Len(w) - Len(v)) = Len(w) + 1
        BY <1>2, <1>3, <1>4, <1>5, <3>1
      <4> QED
        BY <4>1
    <3>3. both[Len(w) + 1] = Nul /\ both[Len(v) + 1 + i] = a[i] /\ a[i] # Nul
      BY <1>1, <1>3, <1>4, <1>5
    <3> QED
      BY <3>2, <3>3
  <2>2. ~ Len(w) < Len(v)
    <3>1. SUFFICES ASSUME Len(w) < Len(v) PROVE FALSE
      OBVIOUS
    <3>2. PICK i \in 1 .. Len(b) : Len(w) + 1 + i = Len(v) + 1
      <4>1. /\ Len(v) - Len(w) \in 1 .. Len(b)
            /\ Len(w) + 1 + (Len(v) - Len(w)) = Len(v) + 1
        BY <1>2, <1>3, <1>4, <1>5, <3>1
      <4> QED
        BY <4>1
    <3>3. both[Len(v) + 1] = Nul /\ both[Len(w) + 1 + i] = b[i] /\ b[i] # Nul
      BY <1>1, <1>3, <1>4, <1>5
    <3> QED
      BY <3>2, <3>3
  <2> QED
    BY <1>2, <2>1, <2>2
<1>7. Len(a) = Len(b)
  BY <1>2, <1>3, <1>4, <1>5, <1>6
<1>8. \A i \in 1 .. Len(v) : v[i] = w[i]
  BY <1>3, <1>4, <1>5, <1>6
<1>9. \A i \in 1 .. Len(a) : a[i] = b[i]
  BY <1>3, <1>4, <1>5, <1>6, <1>7
<1> QED
  BY <1>1, <1>6, <1>7, <1>8, <1>9, SameString

(* The fold that joins the parts, as a function of the places it has done. *)
JoinsParts(f, base, parts) ==
  f = [s \in SUBSET DOMAIN parts |->
         IF s = {} THEN base ELSE Joined(f[s \ {Max(s)}], parts[Max(s)])]

(* There is such a function.                                               *)
LEMMA JoiningEnds ==
  ASSUME NEW base, NEW parts, NEW n \in Nat, DOMAIN parts = 1 .. n
  PROVE  JoinsParts(CHOOSE f : JoinsParts(f, base, parts), base, parts)
<1> DEFINE Step(g, s) == IF s = {} THEN base ELSE Joined(g[s \ {Max(s)}], parts[Max(s)])
           done == {k \in 0 .. n : \E g : g = [s \in SUBSET (1 .. k) |-> Step(g, s)]}
<1>1. 0 \in done
  <2> DEFINE g == [s \in SUBSET (1 .. 0) |-> base]
  <2>1. SUBSET (1 .. 0) = {{}}
    OBVIOUS
  <2>2. \A s \in SUBSET (1 .. 0) : Step(g, s) = base
    BY <2>1
  <2>3. g = [s \in SUBSET (1 .. 0) |-> Step(g, s)]
    BY <2>2
  <2> QED
    BY <2>3
<1>2. ASSUME NEW k \in 0 .. n - 1, k \in done
      PROVE  k + 1 \in done
  <2>1. PICK g : g = [s \in SUBSET (1 .. k) |-> Step(g, s)]
    BY <1>2
  <2> DEFINE h == [s \in SUBSET (1 .. k + 1) |->
                     IF k + 1 \in s THEN Joined(g[s \ {k + 1}], parts[k + 1]) ELSE g[s]]
  <2>2. \A s \in SUBSET (1 .. k) : g[s] = Step(g, s)
    BY <2>1
  <2>3. \A s \in SUBSET (1 .. k) : s \in SUBSET (1 .. k + 1) /\ k + 1 \notin s
    OBVIOUS
  <2>4. \A s \in SUBSET (1 .. k) : h[s] = g[s]
    BY <2>3
  <2>5. \A s \in SUBSET (1 .. k + 1) : k + 1 \in s => h[s] = Joined(g[s \ {k + 1}], parts[k + 1])
    OBVIOUS
  <2> HIDE DEF h
  <2>6. ASSUME NEW s \in SUBSET (1 .. k + 1)
        PROVE  h[s] = Step(h, s)
    <3>1. CASE k + 1 \in s
      <4>1. Max(s) = k + 1
        <5>1. k + 1 \in Nat /\ s # {}
          BY <3>1
        <5>2. Max(s) \in s /\ k + 1 <= Max(s)
          BY <3>1, <5>1, MaxOfPlaces
        <5>3. Max(s) \in 1 .. k + 1
          BY <5>2
        <5> QED
          BY <5>1, <5>2, <5>3
      <4>2. s \ {k + 1} \in SUBSET (1 .. k)
        OBVIOUS
      <4> QED
        BY <2>4, <2>5, <3>1, <4>1, <4>2
    <3>2. CASE k + 1 \notin s
      <4>1. \A i \in 1 .. k + 1 : i = k + 1 \/ i \in 1 .. k
        OBVIOUS
      <4>2. s \in SUBSET (1 .. k) /\ s \ {Max(s)} \in SUBSET (1 .. k)
        BY <3>2, <4>1
      <4> QED
        BY <2>2, <2>4, <4>2
    <3> QED
      BY <3>1, <3>2
  <2>7. h = [s \in SUBSET (1 .. k + 1) |-> h[s]]
    BY DEF h
  <2>8. h = [s \in SUBSET (1 .. k + 1) |-> Step(h, s)]
    BY <2>6, <2>7
  <2> HIDE DEF Step
  <2> QED
    BY <2>8
<1>3. n \in done
  <2> HIDE DEF done
  <2>1. \A k \in 0 .. n - 1 : k \in done => k + 1 \in done
    BY <1>2
  <2>2. \A k \in 0 .. n : k \in done
    BY <1>1, <2>1, EveryPlace
  <2> QED
    BY <2>2
<1>4. \E f : JoinsParts(f, base, parts)
  BY <1>3 DEF JoinsParts
<1> QED
  BY <1>4

(* The bytes after each part: the last ones are the encoded context.       *)
Chain(all, parts) ==
  /\ all \in [1 .. Len(parts) -> Strings]
  /\ all[1] = parts[1]
  /\ \A k \in 2 .. Len(parts) : all[k] = Joined(all[k - 1], parts[k])

LEMMA EncodedPartByPart ==
  ASSUME NEW parts \in Seq(Strings), EncodeContext(parts) \notin {NoParts, BadParts}
  PROVE  /\ parts \in Seq(Clean) /\ parts # << >>
         /\ \E all : Chain(all, parts) /\ EncodeContext(parts) = all[Len(parts)]
<1> DEFINE n == Len(parts)
           rest == Tail(parts)
           f == CHOOSE g : JoinsParts(g, Head(parts), rest)
           all == [k \in 1 .. n |-> f[1 .. k - 1]]
<1>1. /\ parts \notin {<< >>, << << >> >>}
      /\ ~ \E i \in DOMAIN parts : parts[i] = << >> \/ HasNul(parts[i])
      /\ EncodeContext(parts) = FoldLeft(Joined, Head(parts), rest)
  BY DEF EncodeContext
<1>2. /\ n \in Nat /\ n > 0 /\ DOMAIN parts = 1 .. n /\ Head(parts) = parts[1]
      /\ \A k \in 1 .. n : parts[k] \in Strings
      /\ DOMAIN rest = 1 .. n - 1 /\ n - 1 \in Nat
      /\ \A k \in 1 .. n - 1 : rest[k] = parts[k + 1]
  BY <1>1
<1>3. parts \in Seq(Clean)
  <2>1. \A k \in 1 .. n : parts[k] \in Clean
    BY <1>1, <1>2, CleanStrings
  <2> QED
    BY <1>2, <2>1
<1>4. FoldLeft(Joined, Head(parts), rest) = f[DOMAIN rest]
  BY DEF FoldLeft, MapThenFoldSet, JoinsParts
<1>5. JoinsParts(f, Head(parts), rest)
  BY <1>2, JoiningEnds
<1> HIDE DEF f, rest
<1>6. f[1 .. 0] = Head(parts)
  <2>1. 1 .. 0 \in SUBSET DOMAIN rest /\ 1 .. 0 = {}
    BY <1>2
  <2> QED
    BY <1>5, <2>1 DEF JoinsParts
<1>7. ASSUME NEW k \in 1 .. n - 1
      PROVE  f[1 .. k] = Joined(f[1 .. k - 1], parts[k + 1])
  <2>1. /\ k \in Nat /\ 1 .. k \in SUBSET (1 .. k) /\ k \in 1 .. k
        /\ 1 .. k # {}
    <3>1. k \in Nat /\ 1 <= k
      BY <1>2
    <3>2. k \in 1 .. k
      BY <3>1
    <3> QED
      BY <3>1, <3>2
  <2>2. Max(1 .. k) \in 1 .. k /\ k <= Max(1 .. k)
    BY <2>1, MaxOfPlaces
  <2>3. Max(1 .. k) = k
    BY <2>1, <2>2
  <2>4. (1 .. k) \ {k} = 1 .. k - 1
    BY <2>1
  <2>5. 1 .. k \in SUBSET DOMAIN rest
    BY <1>2
  <2>6. f[1 .. k] = Joined(f[(1 .. k) \ {Max(1 .. k)}], rest[Max(1 .. k)])
    BY <1>5, <2>1, <2>5 DEF JoinsParts
  <2> QED
    BY <1>2, <2>3, <2>4, <2>6
<1>8. all[1] = parts[1] /\ EncodeContext(parts) = all[n]
  BY <1>1, <1>2, <1>4, <1>6
<1>9. \A k \in 2 .. n : all[k] = Joined(all[k - 1], parts[k])
  <2> SUFFICES ASSUME NEW k \in 2 .. n PROVE all[k] = Joined(all[k - 1], parts[k])
    OBVIOUS
  <2>1. k - 1 \in 1 .. n - 1 /\ (k - 1) + 1 = k /\ k \in 1 .. n /\ k - 1 \in 1 .. n
    BY <1>2
  <2>2. all[k] = f[1 .. k - 1] /\ all[k - 1] = f[1 .. (k - 1) - 1]
    BY <2>1
  <2> QED
    BY <1>7, <2>1, <2>2
<1>10. \A k \in 1 .. n : all[k] \in Strings
  <2> DEFINE strings == {k \in 0 .. n - 1 : all[k + 1] \in Strings}
  <2>1. 0 \in strings
    BY <1>2, <1>8
  <2>2. \A k \in 0 .. (n - 1) - 1 : k \in strings => k + 1 \in strings
    <3> SUFFICES ASSUME NEW k \in 0 .. (n - 1) - 1, k \in strings PROVE k + 1 \in strings
      OBVIOUS
    <3>1. k + 2 \in 2 .. n /\ k + 2 \in 1 .. n /\ (k + 2) - 1 = k + 1 /\ (k + 1) + 1 = k + 2
          /\ k + 1 \in 0 .. n - 1
      BY <1>2
    <3>2. all[k + 2] = Joined(all[k + 1], parts[k + 2])
      BY <1>9, <3>1
    <3>3. all[k + 1] \in Strings /\ parts[k + 2] \in Strings
      BY <1>2, <3>1
    <3> HIDE DEF all
    <3> QED
      BY <3>1, <3>2, <3>3, JoinedAt
  <2> HIDE DEF strings
  <2>3. \A k \in 0 .. n - 1 : k \in strings
    BY <1>2, <2>1, <2>2, EveryPlace
  <2>4. \A k \in 1 .. n : k - 1 \in 0 .. n - 1 /\ (k - 1) + 1 = k
    BY <1>2
  <2> HIDE DEF all
  <2> QED
    BY <2>3, <2>4 DEF strings
<1>11. Chain(all, parts)
  <2>1. all = [k \in 1 .. n |-> all[k]]
    OBVIOUS
  <2> HIDE DEF all
  <2> QED
    BY <1>8, <1>9, <1>10, <2>1 DEF Chain
<1> QED
  BY <1>1, <1>3, <1>8, <1>11

(* Two chains that end alike go back alike, part by part.                  *)
LEMMA ChainsAgree ==
  ASSUME NEW p \in Seq(Clean), NEW q \in Seq(Clean), p # << >>, q # << >>,
         Len(p) <= Len(q), NEW all, NEW every, Chain(all, p), Chain(every, q),
         all[Len(p)] = every[Len(q)]
  PROVE  p = q
<1> DEFINE n == Len(p)  m == Len(q)
           same == {j \in 0 .. n - 1 : all[n - j] = every[m - j]}
<1>1. /\ n \in Nat /\ m \in Nat /\ 0 < n /\ n <= m
      /\ \A k \in 1 .. n : p[k] \in Clean /\ all[k] \in Strings
      /\ \A k \in 1 .. m : q[k] \in Clean /\ every[k] \in Strings
      /\ \A k \in 2 .. n : all[k] = Joined(all[k - 1], p[k])
      /\ \A k \in 2 .. m : every[k] = Joined(every[k - 1], q[k])
      /\ all[1] = p[1] /\ every[1] = q[1]
  <2>1. n \in Nat /\ m \in Nat /\ 0 < n /\ n <= m
    OBVIOUS
  <2>2. (\A k \in 1 .. n : p[k] \in Clean) /\ (\A k \in 1 .. m : q[k] \in Clean)
    OBVIOUS
  <2>3. \A k \in 1 .. n : all[k] \in Strings
    BY DEF Chain
  <2>4. \A k \in 1 .. m : every[k] \in Strings
    BY DEF Chain
  <2> QED
    BY <2>1, <2>2, <2>3, <2>4 DEF Chain
<1>2. ASSUME NEW j \in 0 .. n - 2, all[n - j] = every[m - j]
      PROVE  p[n - j] = q[m - j] /\ all[n - (j + 1)] = every[m - (j + 1)]
  <2>1. /\ n - j \in 2 .. n /\ m - j \in 2 .. m /\ n - j \in 1 .. n /\ m - j \in 1 .. m
        /\ n - (j + 1) \in 1 .. n /\ m - (j + 1) \in 1 .. m
        /\ (n - j) - 1 = n - (j + 1) /\ (m - j) - 1 = m - (j + 1)
    BY <1>1
  <2>2. Joined(all[n - (j + 1)], p[n - j]) = Joined(every[m - (j + 1)], q[m - j])
    BY <1>1, <1>2, <2>1
  <2>3. /\ p[n - j] \in Clean /\ q[m - j] \in Clean
        /\ all[n - (j + 1)] \in Strings /\ every[m - (j + 1)] \in Strings
    BY <1>1, <2>1
  <2> QED
    BY <2>2, <2>3, SeparatorTellsLastPartApart
<1>3. \A j \in 0 .. n - 1 : all[n - j] = every[m - j]
  <2>1. 0 \in same
    BY <1>1
  <2>2. \A j \in 0 .. (n - 1) - 1 : j \in same => j + 1 \in same
    <3>1. \A j \in 0 .. (n - 1) - 1 : j \in 0 .. n - 2 /\ j + 1 \in 0 .. n - 1
      BY <1>1
    <3> QED
      BY <1>2, <3>1
  <2>3. n - 1 \in Nat
    BY <1>1
  <2> HIDE DEF same
  <2>4. \A j \in 0 .. n - 1 : j \in same
    BY <2>1, <2>2, <2>3, EveryPlace
  <2> QED
    BY <2>4 DEF same
<1>4. n = m
  <2> SUFFICES ASSUME n < m PROVE FALSE
    BY <1>1
  <2>1. /\ n - 1 \in 0 .. n - 1 /\ n - (n - 1) = 1
        /\ m - (n - 1) \in 2 .. m /\ m - (n - 1) \in 1 .. m /\ (m - (n - 1)) - 1 \in 1 .. m
    BY <1>1
  <2> DEFINE k == m - (n - 1)
  <2>2. p[1] = Joined(every[k - 1], q[k])
    BY <1>1, <1>3, <2>1
  <2>3. /\ p[1] \in Clean /\ every[k - 1] \in Strings /\ q[k] \in Strings
    BY <1>1, <2>1, CleanType
  <2> HIDE DEF k
  <2>4. p[1] # Joined(every[k - 1], q[k])
    BY <2>3, JoinedIsNotClean
  <2> QED
    BY <2>2, <2>4
<1>5. \A i \in 1 .. n : p[i] = q[i]
  <2> SUFFICES ASSUME NEW i \in 1 .. n PROVE p[i] = q[i]
    OBVIOUS
  <2>1. CASE i = 1
    <3>1. n - 1 \in 0 .. n - 1 /\ n - (n - 1) = 1
      BY <1>1
    <3> QED
      BY <1>1, <1>3, <1>4, <2>1, <3>1
  <2>2. CASE i # 1
    <3>1. n - i \in 0 .. n - 2 /\ n - i \in 0 .. n - 1 /\ n - (n - i) = i
      BY <1>1, <2>2
    <3> QED
      BY <1>2, <1>3, <1>4, <3>1
  <2> QED
    BY <2>1, <2>2
<1> QED
  <2>1. p = [i \in 1 .. n |-> p[i]] /\ q = [i \in 1 .. m |-> q[i]]
    OBVIOUS
  <2> HIDE DEF n, m
  <2> QED
    BY <1>4, <1>5, <2>1

(* A list of parts is refused, or no context, or a string.                 *)
LEMMA EncodedType ==
  ASSUME NEW parts \in Seq(Strings)
  PROVE  EncodeContext(parts) \in Strings \cup {NoParts, BadParts}
<1> SUFFICES ASSUME EncodeContext(parts) \notin {NoParts, BadParts}
             PROVE  EncodeContext(parts) \in Strings
  OBVIOUS
<1>1. PICK all : Chain(all, parts) /\ EncodeContext(parts) = all[Len(parts)]
  BY EncodedPartByPart
<1>2. Len(parts) \in 1 .. Len(parts)
  BY EncodedPartByPart
<1> QED
  BY <1>1, <1>2 DEF Chain

(* encodeContext is injective: two lists of parts with one encoding are    *)
(* one list, however many parts there are and whatever is in them.         *)
THEOREM EncodeContextTellsPartsApart ==
  ASSUME NEW p \in Seq(Strings), NEW q \in Seq(Strings),
         EncodeContext(p) \notin {NoParts, BadParts}, EncodeContext(p) = EncodeContext(q)
  PROVE  p = q
<1>1. /\ p \in Seq(Clean) /\ p # << >> /\ q \in Seq(Clean) /\ q # << >>
  BY EncodedPartByPart
<1>2. PICK all : Chain(all, p) /\ EncodeContext(p) = all[Len(p)]
  BY EncodedPartByPart
<1>3. PICK every : Chain(every, q) /\ EncodeContext(q) = every[Len(q)]
  BY EncodedPartByPart
<1>4. Len(p) <= Len(q) \/ Len(q) <= Len(p)
  BY <1>1
<1> QED
  BY <1>1, <1>2, <1>3, <1>4, ChainsAgree


-----------------------------------------------------------------------------
(* Normalised values are strings.                                          *)

(* Trimming leaves a string.                                               *)
LEMMA TrimType ==
  ASSUME NEW s \in Strings
  PROVE  Trim(s) \in Strings
<1> DEFINE solid == {i \in DOMAIN s : s[i] \notin White}
           first == CHOOSE i \in solid : \A j \in solid : i <= j
           last == CHOOSE i \in solid : \A j \in solid : j <= i
<1>1. s \in Seq(Char) /\ DOMAIN s = 1 .. Len(s) /\ Len(s) \in Nat
  BY DEF Strings
<1>2. CASE solid = {}
  <2>1. Trim(s) = << >>
    BY <1>2 DEF Trim
  <2> QED
    BY <2>1 DEF Strings
<1>3. CASE solid # {}
  <2>1. solid \in SUBSET (1 .. Len(s))
    BY <1>1
  <2> HIDE DEF solid
  <2>2. first \in solid /\ last \in solid
    BY <1>1, <1>3, <2>1, FirstAndLast
  <2>3. first \in 1 .. Len(s) /\ last \in 1 .. Len(s)
    BY <2>1, <2>2
  <2>4. Trim(s) = SubSeq(s, first, last)
    BY <1>3 DEF Trim, solid
  <2> HIDE DEF first, last
  <2>5. SubSeq(s, first, last) \in Seq(Char)
    BY <1>1, <2>3
  <2> QED
    BY <2>4, <2>5 DEF Strings
<1> QED
  BY <1>2, <1>3

(* So does the whole of what blindIndex does to a value.                   *)
LEMMA NormalizedType ==
  ASSUME NEW value \in Strings, NEW normalize \in BOOLEAN
  PROVE  Normalized(value, normalize) \in Strings
<1>1. ASSUME NEW s \in Strings PROVE LowerCase(s) \in Strings
  <2>1. s \in Seq(Char) /\ DOMAIN s = 1 .. Len(s) /\ Len(s) \in Nat
    BY DEF Strings
  <2>2. \A i \in 1 .. Len(s) : Lower[s[i]] \in Char
    BY <2>1, EncodingsAssumption
  <2>3. LowerCase(s) \in [1 .. Len(s) -> Char]
    BY <2>1, <2>2 DEF LowerCase
  <2> QED
    BY <2>1, <2>3 DEF Strings
<1> QED
  BY <1>1, TrimType DEF Normalized

-----------------------------------------------------------------------------
(* Normalising tells addresses apart, and nothing else.                    *)

(* Trimming leaves what is between the white space.                        *)
LEMMA TrimLeavesSolidPart ==
  ASSUME NEW s \in Strings, NEW first \in 1 .. Len(s) + 1, NEW n \in 0 .. Len(s),
         SolidPart(s, first, n)
  PROVE  /\ Len(Trim(s)) = n /\ DOMAIN Trim(s) = 1 .. n
         /\ \A k \in 0 .. n - 1 : Trim(s)[k + 1] = s[first + k]
<1> DEFINE solid == {i \in DOMAIN s : s[i] \notin White}
<1>1. s \in Seq(Char) /\ DOMAIN s = 1 .. Len(s) /\ Len(s) \in Nat
  BY DEF Strings
<1>2. CASE n = 0
  <2>1. solid = {}
    BY <1>1, <1>2 DEF SolidPart
  <2>2. Trim(s) = << >>
    BY <2>1 DEF Trim
  <2> QED
    BY <1>2, <2>2
<1>3. CASE n > 0
  <2> DEFINE end == first + n - 1
  <2>1. /\ first \in 1 .. Len(s) /\ end \in 1 .. Len(s) /\ first <= end
        /\ end - first + 1 = n
    BY <1>1, <1>3 DEF SolidPart
  <2>2. /\ first \in solid /\ end \in solid
        /\ \A i \in solid : i \in Int /\ first <= i /\ i <= end
    BY <1>1, <1>3, <2>1 DEF SolidPart
  <2>3. solid # {}
    BY <2>2
  <2> HIDE DEF solid, end
  <2>4. (CHOOSE i \in solid : \A j \in solid : i <= j) = first
    <3>1. \A i \in solid : (\A j \in solid : i <= j) => i = first
      BY <2>1, <2>2
    <3> QED
      BY <2>2, <3>1
  <2>5. (CHOOSE i \in solid : \A j \in solid : j <= i) = end
    <3>1. \A i \in solid : (\A j \in solid : j <= i) => i = end
      BY <2>1, <2>2
    <3> QED
      BY <2>2, <3>1
  <2>6. Trim(s) = SubSeq(s, first, end)
    BY <2>3, <2>4, <2>5 DEF Trim, solid
  <2>7. /\ Len(SubSeq(s, first, end)) = n
        /\ DOMAIN SubSeq(s, first, end) = 1 .. n
        /\ \A k \in 1 .. n : SubSeq(s, first, end)[k] = s[first + k - 1]
    BY <1>1, <2>1
  <2>8. \A k \in 0 .. n - 1 : k + 1 \in 1 .. n /\ first + (k + 1) - 1 = first + k
    BY <2>1
  <2> QED
    BY <2>6, <2>7, <2>8
<1> QED
  BY <1>2, <1>3

(* Every string has such a part.                                           *)
LEMMA EveryStringHasSolidPart ==
  ASSUME NEW s \in Strings
  PROVE  \E first \in 1 .. Len(s) + 1, n \in 0 .. Len(s) : SolidPart(s, first, n)
<1> DEFINE solid == {i \in DOMAIN s : s[i] \notin White}
<1>1. s \in Seq(Char) /\ DOMAIN s = 1 .. Len(s) /\ Len(s) \in Nat
  BY DEF Strings
<1>2. CASE solid = {}
  <2>1. SolidPart(s, 1, 0)
    BY <1>1, <1>2 DEF SolidPart
  <2>2. 1 \in 1 .. Len(s) + 1 /\ 0 \in 0 .. Len(s)
    BY <1>1
  <2> QED
    BY <2>1, <2>2
<1>3. CASE solid # {}
  <2>1. solid \in SUBSET (1 .. Len(s))
    BY <1>1
  <2>2. PICK first \in solid : \A i \in solid : first <= i
    BY <1>1, <1>3, <2>1, FirstAndLast
  <2>3. PICK last \in solid : \A i \in solid : i <= last
    BY <1>1, <1>3, <2>1, FirstAndLast
  <2> DEFINE n == last - first + 1
  <2>4. /\ first \in 1 .. Len(s) /\ last \in 1 .. Len(s) /\ first <= last
        /\ first + n - 1 = last
    BY <2>1, <2>2, <2>3
  <2>5. first \in 1 .. Len(s) + 1 /\ n \in 0 .. Len(s)
    BY <1>1, <2>4
  <2>6. \A i \in DOMAIN s : i \notin first .. last => s[i] \in White
    <3> SUFFICES ASSUME NEW i \in DOMAIN s, s[i] \notin White PROVE i \in first .. last
      OBVIOUS
    <3>1. i \in solid /\ i \in Int
      BY <1>1
    <3> QED
      BY <2>2, <2>3, <2>4, <3>1
  <2>7. SolidPart(s, first, n)
    BY <1>1, <2>4, <2>6 DEF SolidPart
  <2> QED
    BY <2>5, <2>7
<1> QED
  BY <1>2, <1>3

(* blindIndex normalises two values to one exactly when they are spellings *)
(* of one address: trimming and lower case forget nothing else.            *)
THEOREM NormalizedTellsAddressesApart ==
  ASSUME NEW a \in Strings, NEW b \in Strings
  PROVE  Normalized(a, TRUE) = Normalized(b, TRUE) <=> SameAddress(a, b)
<1>1. Normalized(a, TRUE) = LowerCase(Trim(a)) /\ Normalized(b, TRUE) = LowerCase(Trim(b))
  BY DEF Normalized
<1>2. Len(a) \in Nat /\ Len(b) \in Nat
  BY DEF Strings
<1>3. ASSUME NEW s \in Strings, NEW first \in 1 .. Len(s) + 1, NEW n \in 0 .. Len(s),
             SolidPart(s, first, n)
      PROVE  /\ LowerCase(Trim(s)) = [i \in 1 .. n |-> Lower[Trim(s)[i]]]
             /\ \A k \in 0 .. n - 1 : LowerCase(Trim(s))[k + 1] = Lower[s[first + k]]
  <2>1. /\ DOMAIN Trim(s) = 1 .. n
        /\ \A k \in 0 .. n - 1 : Trim(s)[k + 1] = s[first + k]
    BY <1>3, TrimLeavesSolidPart
  <2>2. LowerCase(Trim(s)) = [i \in 1 .. n |-> Lower[Trim(s)[i]]]
    BY <2>1 DEF LowerCase
  <2>3. n \in Nat
    BY DEF Strings
  <2>4. \A k \in 0 .. n - 1 : k + 1 \in 1 .. n
    BY <2>3
  <2> QED
    BY <2>1, <2>2, <2>4
<1>4. ASSUME SameAddress(a, b)
      PROVE  LowerCase(Trim(a)) = LowerCase(Trim(b))
  <2>1. PICK first \in 1 .. Len(a) + 1, other \in 1 .. Len(b) + 1, n \in 0 .. Len(a) :
          /\ SolidPart(a, first, n) /\ SolidPart(b, other, n)
          /\ \A k \in 0 .. n - 1 : Lower[a[first + k]] = Lower[b[other + k]]
    BY <1>4 DEF SameAddress
  <2>2. n \in 0 .. Len(b) /\ n \in Nat
    BY <1>2, <2>1 DEF SolidPart
  <2> DEFINE here == LowerCase(Trim(a))  there == LowerCase(Trim(b))
  <2>3. /\ here = [i \in 1 .. n |-> Lower[Trim(a)[i]]]
        /\ there = [i \in 1 .. n |-> Lower[Trim(b)[i]]]
        /\ \A k \in 0 .. n - 1 : here[k + 1] = there[k + 1]
    BY <1>3, <2>1, <2>2
  <2>4. \A i \in 1 .. n : i - 1 \in 0 .. n - 1 /\ (i - 1) + 1 = i
    BY <2>2
  <2>5. \A i \in 1 .. n : here[i] = there[i]
    BY <2>3, <2>4
  <2>6. DOMAIN here = 1 .. n /\ DOMAIN there = 1 .. n
        /\ here = [i \in DOMAIN here |-> here[i]] /\ there = [i \in DOMAIN there |-> there[i]]
    BY <2>3
  <2>7. here = there
    <3> HIDE DEF here, there
    <3> QED
      BY <2>5, <2>6
  <2> QED
    BY <2>7
<1>5. ASSUME LowerCase(Trim(a)) = LowerCase(Trim(b))
      PROVE  SameAddress(a, b)
  <2>1. PICK first \in 1 .. Len(a) + 1, n \in 0 .. Len(a) : SolidPart(a, first, n)
    BY EveryStringHasSolidPart
  <2>2. PICK other \in 1 .. Len(b) + 1, m \in 0 .. Len(b) : SolidPart(b, other, m)
    BY EveryStringHasSolidPart
  <2>3. DOMAIN LowerCase(Trim(a)) = 1 .. n /\ DOMAIN LowerCase(Trim(b)) = 1 .. m
    BY <1>3, <2>1, <2>2
  <2>4. n = m
    <3>1. n \in Nat /\ m \in Nat /\ 1 .. n = 1 .. m
      BY <1>2, <1>5, <2>3
    <3> QED
      BY <3>1
  <2>5. \A k \in 0 .. n - 1 : Lower[a[first + k]] = Lower[b[other + k]]
    <3>1. \A k \in 0 .. n - 1 : LowerCase(Trim(a))[k + 1] = Lower[a[first + k]]
      BY <1>3, <2>1
    <3>2. \A k \in 0 .. m - 1 : LowerCase(Trim(b))[k + 1] = Lower[b[other + k]]
      BY <1>3, <2>2
    <3> QED
      BY <1>5, <2>4, <3>1, <3>2
  <2> QED
    BY <2>1, <2>2, <2>4, <2>5 DEF SameAddress
<1> QED
  BY <1>1, <1>4, <1>5
=============================================================================
