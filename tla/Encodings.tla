----------------------------- MODULE Encodings ------------------------------
(***************************************************************************)
(* The byte strings the library builds by joining parts with NUL: encoded  *)
(* contexts, the AAD of a token and the MAC input of a blind index.        *)
(*                                                                         *)
(* A string is a sequence of characters here, because what matters is      *)
(* where one part ends.  SHA-256 and HMAC are perfect: two MACs are equal  *)
(* exactly when their keys and their inputs are.                           *)
(***************************************************************************)
EXTENDS Integers, Sequences, SequencesExt

CONSTANTS
  Char,     \* characters
  Nul,      \* the character NUL
  White,    \* what String.prototype.trim takes off
  Lower,    \* toLowerCase, character by character
  NoParts,  \* the result for "no context"
  BadParts  \* the result for a context that is refused

ASSUME EncodingsAssumption ==
  /\ Nul \in Char
  /\ White \subseteq Char \ {Nul}
  /\ Lower \in [Char -> Char]
  /\ NoParts \notin Seq(Char) /\ BadParts \notin Seq(Char)

Strings == Seq(Char)

(* Strings without NUL: valid context parts, and version labels.           *)
Clean == Seq(Char \ {Nul})

HasNul(s) == \E i \in DOMAIN s : s[i] = Nul

Joined(first, second) == first \o <<Nul>> \o second

-----------------------------------------------------------------------------
(* Contexts.  A string argument is a list of one part.                     *)

(* Seeded fault: the parts are run together.                               *)
EncodeContextUnseparated(parts) ==
  CASE parts \in {<< >>, << << >> >>} -> NoParts
    [] parts \notin {<< >>, << << >> >>} ->
         IF \E i \in DOMAIN parts : parts[i] = << >> \/ HasNul(parts[i])
         THEN BadParts
         ELSE FoldLeft(LAMBDA all, part : all \o part, Head(parts), Tail(parts))

EncodeContext(parts) ==
  CASE parts \in {<< >>, << << >> >>} -> NoParts
    [] parts \notin {<< >>, << << >> >>} ->
         IF \E i \in DOMAIN parts : parts[i] = << >> \/ HasNul(parts[i])
         THEN BadParts
         ELSE FoldLeft(Joined, Head(parts), Tail(parts))

(* Seeded fault: nothing between the label and the context.                *)
AadBytesUnseparated(label, context) ==
  IF context = NoParts THEN label ELSE label \o context

(* What buildAad hands to GCM.                                             *)
AadBytes(label, context) ==
  IF context = NoParts THEN label ELSE Joined(label, context)

-----------------------------------------------------------------------------
(* Blind indexes.                                                          *)

Trim(s) ==
  LET solid == {i \in DOMAIN s : s[i] \notin White}
      first == CHOOSE i \in solid : \A j \in solid : i <= j
      last == CHOOSE i \in solid : \A j \in solid : j <= i
  IN  IF solid = {} THEN << >> ELSE SubSeq(s, first, last)

LowerCase(s) == [i \in DOMAIN s |-> Lower[s[i]]]

(* Seeded fault: the case is left as it is.                                *)
NormalizedTrimOnly(value, normalize) ==
  IF normalize THEN Trim(value) ELSE value

Normalized(value, normalize) ==
  IF normalize THEN LowerCase(Trim(value)) ELSE value

(* All of s but the n characters from first is white space, and these do   *)
(* not begin or end with any.                                              *)
SolidPart(s, first, n) ==
  /\ first + n - 1 <= Len(s)
  /\ \A i \in DOMAIN s : i \notin first .. first + n - 1 => s[i] \in White
  /\ n > 0 => s[first] \notin White /\ s[first + n - 1] \notin White

(* What normalising is for: two strings are spellings of one address when  *)
(* they differ in case and in the white space around it only.              *)
SameAddress(a, b) ==
  \E first \in 1 .. Len(a) + 1, other \in 1 .. Len(b) + 1, n \in 0 .. Len(a) :
    /\ SolidPart(a, first, n) /\ SolidPart(b, other, n)
    /\ \A k \in 0 .. n - 1 : Lower[a[first + k]] = Lower[b[other + k]]

(* Seeded fault: nothing between the context and the value.                *)
IndexInputUnseparated(context, value) == context \o value

(* The context "" is no context.                                           *)
IndexInput(context, value) ==
  IF context = << >> THEN value ELSE Joined(context, value)

(* HMAC-SHA256.                                                            *)
Mac(key, input) == [key |-> key, input |-> input]
=============================================================================
