--------------------------- MODULE SanitizeProofs ---------------------------
(***************************************************************************)
(* What sanitize_for_json guarantees for a buffer of any size and replies  *)
(* of any length.                                                          *)
(***************************************************************************)
EXTENDS Sanitize, SequenceTheorems, WellFoundedInduction, TLAPS

LEMMA InputIsSeq == ASSUME input \in Inputs PROVE input \in Seq(Chars)
BY SanitizeAssumption DEF Inputs

LEMMA InitTypeOK == Init => TypeOK
BY InputIsSeq DEF Init, TypeOK

LEMMA NextTypeOK == TypeOK /\ [Next]_vars => TypeOK'
<1>. SUFFICES ASSUME TypeOK, [Next]_vars PROVE TypeOK'
  OBVIOUS
<1>. USE DEF TypeOK
<1>1. CASE CopyByte
  <2>1. input[i] \in Chars
    BY <1>1 DEF CopyByte, CopyGoesOn
  <2>2. output' \in Seq(Chars \ {"break"})
    <3>1. CASE ReplaceBreak
      BY <3>1 DEF ReplaceBreak, Chars
    <3>2. CASE Escape
      <4>1. <<"backslash", input[i]>> \in Seq(Chars \ {"break"})
        <5>1. {"backslash", input[i]} \subseteq Chars \ {"break"}
          BY <3>2 DEF Escape, Chars
        <5>. QED
          BY <5>1
      <4>2. output \o <<"backslash", input[i]>> \in Seq(Chars \ {"break"})
        <5>. HIDE DEF TypeOK
        <5>1. output \in Seq(Chars \ {"break"})
          BY DEF TypeOK
        <5>. QED
          BY <4>1, <5>1, ConcatProperties
      <4>. QED
        BY <3>2, <4>2 DEF Escape
    <3>3. CASE Copy
      BY <3>3 DEF Copy, Chars
    <3>. QED
      BY <1>1, <3>1, <3>2, <3>3 DEF CopyByte
  <2>. QED
    BY <1>1, <2>2 DEF CopyByte
<1>2. CASE Trim
  BY <1>2 DEF Trim, EndsInSpace
<1>3. CASE Terminate \/ Return \/ UNCHANGED vars
  BY <1>3 DEF Terminate, Return, vars
<1>. QED
  BY <1>1, <1>2, <1>3 DEF Next

\* The variables keep their types, and no line break is ever written
\* (connection.c:457-462).
THEOREM TypeCorrect == Spec => []TypeOK
BY InitTypeOK, NextTypeOK, PTL DEF Spec

LEMMA NextFits == TypeOK /\ FitsBuffer /\ [Next]_vars => FitsBuffer'
<1>. SUFFICES ASSUME TypeOK, FitsBuffer, [Next]_vars PROVE FitsBuffer'
  OBVIOUS
<1>. USE SanitizeAssumption DEF TypeOK, FitsBuffer
<1>1. CASE CopyByte
  <2>1. Len(output) + 1 < OutputSize
    BY <1>1 DEF CopyByte, CopyGoesOn
  <2>2. CASE ReplaceBreak
    BY <2>1, <2>2 DEF ReplaceBreak
  <2>3. CASE Escape
    BY <2>1, <2>3 DEF Escape
  <2>4. CASE Copy
    BY <2>1, <2>4 DEF Copy
  <2>. QED
    BY <1>1, <2>2, <2>3, <2>4 DEF CopyByte
<1>2. CASE Trim
  BY <1>2 DEF Trim, EndsInSpace
<1>3. CASE Terminate \/ Return \/ UNCHANGED vars
  BY <1>3 DEF Terminate, Return, vars
<1>. QED
  BY <1>1, <1>2, <1>3 DEF Next

\* Nothing is written beyond the buffer, the final zero included
\* (connection.c:453, 465, 473, 483).
THEOREM OutputFits == Spec => []FitsBuffer
<1>1. Init => FitsBuffer
  BY SanitizeAssumption DEF Init, FitsBuffer
<1>. QED
  BY <1>1, InitTypeOK, NextTypeOK, NextFits, PTL DEF Spec

(***************************************************************************)
(* Well-formedness: what each step does to the set of escapes.             *)
(***************************************************************************)

LEMMA AppendPlain ==
    ASSUME TypeOK, WellFormed, NEW c \in {"letter", "space"}, output' = Append(output, c)
    PROVE  WellFormed'
<1>1. PICK starts \in SUBSET (1 .. Len(output)) : IsJsonText(starts)
  BY DEF WellFormed
<1>2. /\ Len(output) \in Nat /\ Len(output') = Len(output) + 1
      /\ \A k \in 1 .. Len(output) : output'[k] = output[k]
      /\ output'[Len(output) + 1] = c
  BY DEF TypeOK
<1>3. IsJsonText(starts)'
  <2>. SUFFICES ASSUME NEW k \in 1 .. Len(output')
                PROVE  /\ k \in starts =>
                              /\ output'[k] = "backslash"
                              /\ k + 1 \in 1 .. Len(output') /\ k + 1 \notin starts
                              /\ output'[k + 1] \in {"quote", "backslash"}
                       /\ output'[k] \in {"quote", "backslash"} =>
                              k \in starts \/ k - 1 \in starts
    BY DEF IsJsonText
  <2>1. CASE k \in 1 .. Len(output)
    BY <1>1, <1>2, <2>1 DEF IsJsonText
  <2>2. CASE k = Len(output) + 1
    BY <1>2, <2>2
  <2>. QED
    BY <1>2, <2>1, <2>2
<1>. QED
  BY <1>2, <1>3 DEF WellFormed

LEMMA AppendEscape ==
    ASSUME TypeOK, WellFormed, NEW c \in {"quote", "backslash"},
           output' = output \o <<"backslash", c>>
    PROVE  WellFormed'
<1>1. PICK starts \in SUBSET (1 .. Len(output)) : IsJsonText(starts)
  BY DEF WellFormed
<1>0. PICK n \in Nat : n = Len(output)
  BY DEF TypeOK
<1>2. /\ Len(output) = n /\ Len(output') = n + 2
      /\ \A k \in 1 .. n : output'[k] = output[k]
      /\ output'[n + 1] = "backslash" /\ output'[n + 2] = c
  BY <1>0 DEF TypeOK
<1>. DEFINE more == starts \cup {n + 1}
<1>3. IsJsonText(more)'
  <2>. SUFFICES ASSUME NEW k \in 1 .. Len(output')
                PROVE  /\ k \in more =>
                              /\ output'[k] = "backslash"
                              /\ k + 1 \in 1 .. Len(output') /\ k + 1 \notin more
                              /\ output'[k + 1] \in {"quote", "backslash"}
                       /\ output'[k] \in {"quote", "backslash"} =>
                              k \in more \/ k - 1 \in more
    BY <1>2 DEF IsJsonText
  <2>1. CASE k \in 1 .. n
    BY <1>1, <1>2, <2>1 DEF IsJsonText
  <2>2. CASE k = n + 1
    BY <1>2, <2>2
  <2>3. CASE k = n + 2
    BY <1>2, <2>3
  <2>. QED
    BY <1>2, <2>1, <2>2, <2>3
<1>4. more \in SUBSET (1 .. Len(output'))
  BY <1>2
<1>. QED
  BY <1>3, <1>4, Zenon DEF WellFormed

LEMMA FrontOfSeq ==
    ASSUME NEW S, NEW s \in Seq(S), NEW n \in Nat, Len(s) = n + 1
    PROVE  /\ Len(SubSeq(s, 1, n)) = n
           /\ \A k \in 1 .. n : SubSeq(s, 1, n)[k] = s[k]
<1>1. 1 \in Int /\ n \in Int /\ \A k \in 1 .. n : s[k] \in S
  OBVIOUS
<1>. DEFINE t == SubSeq(s, 1, n)
<1>2. /\ Len(t) = IF 1 <= n THEN n - 1 + 1 ELSE 0
      /\ \A k \in 1 .. n - 1 + 1 : t[k] = s[1 + k - 1]
  BY <1>1, SubSeqProperties
<1>. HIDE DEF t
<1>3. ASSUME NEW k \in 1 .. n PROVE k \in 1 .. n - 1 + 1 /\ 1 + k - 1 = k
  OBVIOUS
<1>4. Len(t) = n /\ \A k \in 1 .. n : t[k] = s[k]
  BY <1>2, <1>3
<1>. QED
  BY <1>4 DEF t

LEMMA DropSpace == ASSUME TypeOK, WellFormed, Trim PROVE WellFormed'
<1>1. PICK starts \in SUBSET (1 .. Len(output)) : IsJsonText(starts)
  BY DEF WellFormed
<1>2. /\ Len(output) \in Nat \ {0} /\ Len(output') = Len(output) - 1
      /\ \A k \in 1 .. Len(output') : output'[k] = output[k]
      /\ output[Len(output)] = "space"
  <2>1. /\ output \in Seq(Chars) /\ output # <<>> /\ output[Len(output)] = "space"
        /\ output' = SubSeq(output, 1, Len(output) - 1)
    BY DEF TypeOK, Trim, EndsInSpace, Chars
  <2>2. Len(output) \in Nat \ {0}
    BY <2>1, EmptySeq
  <2>3. Len(output) - 1 \in Nat /\ Len(output) = Len(output) - 1 + 1
    BY <2>2
  <2>4. /\ Len(output') = Len(output) - 1
        /\ \A k \in 1 .. Len(output) - 1 : output'[k] = output[k]
    BY <2>1, <2>3, FrontOfSeq
  <2>. QED
    BY <2>1, <2>2, <2>4
<1>3. \A k \in starts : k + 1 \in 1 .. Len(output')
  BY <1>1, <1>2 DEF IsJsonText
<1>4. IsJsonText(starts)'
  BY <1>1, <1>2, <1>3 DEF IsJsonText
<1>. QED
  BY <1>2, <1>3, <1>4 DEF WellFormed

LEMMA NextWellFormed == TypeOK /\ WellFormed /\ [Next]_vars => WellFormed'
<1>. SUFFICES ASSUME TypeOK, WellFormed, [Next]_vars PROVE WellFormed'
  OBVIOUS
<1>1. CASE UNCHANGED output
  BY <1>1 DEF WellFormed, IsJsonText
<1>2. CASE CopyByte
  <2>1. CASE ReplaceBreak
    BY <1>1, <2>1, AppendPlain DEF ReplaceBreak
  <2>2. CASE Escape
    BY <1>1, <2>2, AppendEscape DEF Escape
  <2>3. CASE Copy
    BY <2>3, AppendPlain DEF Copy
  <2>. QED
    BY <1>2, <2>1, <2>2, <2>3 DEF CopyByte
<1>3. CASE Trim
  BY <1>3, DropSpace
<1>. QED
  BY <1>1, <1>2, <1>3 DEF Next, Terminate, Return, vars

\* However long the reply and wherever the buffer ends, the output is made of
\* whole escapes and of bytes that need none (connection.c:464-475).
THEOREM OutputWellFormed == Spec => []WellFormed
<1>1. Init => WellFormed
  <2>. SUFFICES ASSUME Init PROVE WellFormed
    OBVIOUS
  <2>1. Len(output) = 0 /\ 1 .. Len(output) = {}
    BY DEF Init
  <2>2. IsJsonText({})
    BY <2>1 DEF IsJsonText
  <2>. QED
    BY <2>1, <2>2 DEF WellFormed
<1>. QED
  BY <1>1, InitTypeOK, NextTypeOK, NextWellFormed, PTL DEF Spec

(***************************************************************************)
(* Induction, for a set of numbers.                                        *)
(***************************************************************************)

LEMMA LeastElement ==
    ASSUME NEW T, T \subseteq Nat, T # {}
    PROVE  \E m \in T : \A k \in T : m <= k
<1>. DEFINE Less == {pair \in Nat \X Nat : pair[1] < pair[2]}
<1>1. IsWellFoundedOn(Less, Nat)
  BY NatLessThanWellFounded DEF OpToRel
<1>2. \A k, m \in Nat : k < m => <<k, m>> \in Less
  OBVIOUS
<1>. HIDE DEF Less
<1>3. PICK m \in T : \A k \in T : <<k, m>> \notin Less
  BY <1>1, WFMin
<1>4. \A k \in T : m <= k
  <2>1. TAKE k \in T
  <2>2. k \in Nat /\ m \in Nat /\ ~(k < m)
    BY <1>2, <1>3
  <2>. QED
    BY <2>2
<1>. QED
  BY <1>4

\* Whatever holds of zero, and of n + 1 when it holds of n, holds of all.
LEMMA SetInduction ==
    ASSUME NEW T, 0 \in T, \A n \in Nat : n \in T => n + 1 \in T
    PROVE  \A n \in Nat : n \in T
<1>. DEFINE U == Nat \ T
<1>. SUFFICES ASSUME U # {} PROVE FALSE
  OBVIOUS
<1>1. U \subseteq Nat
  OBVIOUS
<1>2. \A m \in U : m # 0 /\ m - 1 \in Nat \cap U
  <2>1. TAKE m \in U
  <2>2. m - 1 \in Nat /\ (m - 1) + 1 = m /\ m # 0
    BY <1>1
  <2>. QED
    BY <2>2
<1>. HIDE DEF U
<1>3. PICK m \in U : \A k \in U : m <= k
  BY <1>1, LeastElement
<1>. QED
  BY <1>1, <1>2, <1>3

(***************************************************************************)
(* The words of a text.                                                    *)
(***************************************************************************)

\* w is the table of what the first k bytes of s spell.
IsSpelled(w, s, n) == w = [k \in 0 .. n |-> IF k = 0 THEN <<>> ELSE Spell(w[k - 1], s[k])]
SpelledUp(s, n) == (CHOOSE w : IsSpelled(w, s, n))[n]
Spelled(s)      == SpelledUp(s, Len(s))
Trimmed(t)      == IF t # <<>> /\ Blank(t) THEN SubSeq(t, 1, Len(t) - 1) ELSE t

LEMMA WordsOf ==
    ASSUME NEW s
    PROVE  Words(s) = Trimmed(Spelled(s))
BY DEF Words, Trimmed, Spelled, SpelledUp, IsSpelled

LEMMA SpelledExists ==
    ASSUME NEW s
    PROVE  \A n \in Nat : \E w : IsSpelled(w, s, n)
<1>. DEFINE T == {n \in Nat : \E w : IsSpelled(w, s, n)}
<1>1. 0 \in T
  <2>1. IsSpelled([k \in 0 .. 0 |-> <<>>], s, 0)
    BY DEF IsSpelled
  <2>. QED
    BY <2>1
<1>2. ASSUME NEW n \in Nat, n \in T
      PROVE  n + 1 \in T
  <2>1. PICK w : IsSpelled(w, s, n)
    BY <1>2
  <2>. DEFINE v == [k \in 0 .. n + 1 |-> IF k = n + 1 THEN Spell(w[n], s[n + 1]) ELSE w[k]]
  <2>2. w[0] = <<>> /\ \A k \in 1 .. n : w[k] = Spell(w[k - 1], s[k])
    BY <2>1 DEF IsSpelled
  <2>3. ASSUME NEW k \in 0 .. n + 1
        PROVE  v[k] = IF k = 0 THEN <<>> ELSE Spell(v[k - 1], s[k])
    <3>1. CASE k = 0
      BY <2>2, <3>1
    <3>2. CASE k = n + 1
      <4>1. v[k] = Spell(w[n], s[k]) /\ v[k - 1] = w[n] /\ k # 0
        BY <3>2
      <4>. QED
        BY <4>1, Zenon
    <3>3. CASE k \in 1 .. n
      <4>1. v[k] = w[k] /\ v[k - 1] = w[k - 1] /\ k # 0
        BY <3>3
      <4>. QED
        BY <2>2, <3>3, <4>1, Zenon
    <3>. QED
      BY <3>1, <3>2, <3>3
  <2>4. v = [k \in 0 .. n + 1 |-> IF k = 0 THEN <<>> ELSE Spell(v[k - 1], s[k])]
    BY <2>3
  <2>. HIDE DEF v
  <2>5. IsSpelled(v, s, n + 1)
    BY <2>4, Zenon DEF IsSpelled
  <2>. QED
    BY <2>5
<1>. HIDE DEF T
<1>3. \A n \in Nat : n \in T
  BY <1>1, <1>2, SetInduction
<1>. QED
  BY <1>3 DEF T

\* Tables of texts that begin alike agree as far as they do.
LEMMA SpelledAgree ==
    ASSUME NEW s, NEW t, NEW a \in Nat, NEW b \in Nat, NEW n \in Nat, NEW v, NEW w,
           IsSpelled(v, s, a), IsSpelled(w, t, b), n <= a, n <= b,
           \A k \in 1 .. n : s[k] = t[k]
    PROVE  v[n] = w[n]
<1>. DEFINE T == {k \in Nat : k <= n => v[k] = w[k]}
<1>1. /\ v[0] = <<>> /\ \A k \in 1 .. a : v[k] = Spell(v[k - 1], s[k])
      /\ w[0] = <<>> /\ \A k \in 1 .. b : w[k] = Spell(w[k - 1], t[k])
  BY DEF IsSpelled
<1>2. 0 \in T
  BY <1>1
<1>3. ASSUME NEW k \in Nat, k \in T
      PROVE  k + 1 \in T
  <2>. SUFFICES ASSUME k + 1 <= n PROVE v[k + 1] = w[k + 1]
    OBVIOUS
  <2>1. k + 1 \in 1 .. a /\ k + 1 \in 1 .. b /\ k + 1 \in 1 .. n /\ (k + 1) - 1 = k
    OBVIOUS
  <2>2. v[k] = w[k]
    BY <1>3
  <2>. QED
    BY <1>1, <2>1, <2>2
<1>. HIDE DEF T
<1>4. \A k \in Nat : k \in T
  BY <1>2, <1>3, SetInduction
<1>. QED
  BY <1>4 DEF T

LEMMA SpelledSame ==
    ASSUME NEW s, NEW t, NEW n \in Nat, \A k \in 1 .. n : s[k] = t[k]
    PROVE  SpelledUp(s, n) = SpelledUp(t, n)
<1>1. /\ IsSpelled(CHOOSE w : IsSpelled(w, s, n), s, n)
      /\ IsSpelled(CHOOSE w : IsSpelled(w, t, n), t, n)
  BY SpelledExists, Zenon
<1>2. n <= n
  OBVIOUS
<1>. QED
  BY <1>1, <1>2, SpelledAgree DEF SpelledUp

LEMMA SpelledRecursion ==
    ASSUME NEW s
    PROVE  /\ SpelledUp(s, 0) = <<>>
           /\ \A n \in Nat : SpelledUp(s, n + 1) = Spell(SpelledUp(s, n), s[n + 1])
<1>. DEFINE W(n) == CHOOSE w : IsSpelled(w, s, n)
<1>1. \A n \in Nat : IsSpelled(W(n), s, n)
  BY SpelledExists, Zenon
<1>2. \A n : SpelledUp(s, n) = W(n)[n]
  BY DEF SpelledUp
<1>. HIDE DEF W
<1>3. SpelledUp(s, 0) = <<>>
  BY <1>1, <1>2 DEF IsSpelled
<1>4. ASSUME NEW n \in Nat
      PROVE  SpelledUp(s, n + 1) = Spell(SpelledUp(s, n), s[n + 1])
  <2>1. W(n + 1)[n + 1] = Spell(W(n + 1)[n], s[n + 1])
    <3>1. IsSpelled(W(n + 1), s, n + 1) /\ n + 1 \in 0 .. n + 1 /\ n + 1 # 0 /\ (n + 1) - 1 = n
      BY <1>1
    <3>. QED
      BY <3>1 DEF IsSpelled
  <2>2. W(n)[n] = W(n + 1)[n]
    <3>1. n <= n /\ n <= n + 1 /\ n + 1 \in Nat
      OBVIOUS
    <3>2. IsSpelled(W(n), s, n) /\ IsSpelled(W(n + 1), s, n + 1)
      BY <1>1, <3>1
    <3>. QED
      BY <3>1, <3>2, SpelledAgree, SMTT(30)
  <2>. QED
    BY <1>2, <2>1, <2>2
<1>. QED
  BY <1>3, <1>4

\* What is spelled is a text.
LEMMA SpelledType ==
    ASSUME NEW s, NEW n \in Nat, \A k \in 1 .. n : s[k] \in Chars
    PROVE  SpelledUp(s, n) \in Seq(Chars)
<1>. DEFINE T == {k \in Nat : k <= n => SpelledUp(s, k) \in Seq(Chars)}
<1>1. 0 \in T
  <2>1. <<>> \in Seq(Chars) /\ SpelledUp(s, 0) = <<>>
    BY SpelledRecursion
  <2>. QED
    BY <2>1
<1>2. ASSUME NEW k \in Nat, k \in T
      PROVE  k + 1 \in T
  <2>. SUFFICES ASSUME k + 1 <= n PROVE SpelledUp(s, k + 1) \in Seq(Chars)
    OBVIOUS
  <2>1. SpelledUp(s, k) \in Seq(Chars) /\ s[k + 1] \in Chars
    BY <1>2
  <2>2. SpelledUp(s, k + 1) = Spell(SpelledUp(s, k), s[k + 1])
    BY SpelledRecursion
  <2>3. Append(SpelledUp(s, k), s[k + 1]) \in Seq(Chars)
    BY <2>1, AppendProperties
  <2>. QED
    BY <2>1, <2>2, <2>3, Zenon DEF Spell
<1>. HIDE DEF T
<1>3. \A k \in Nat : k \in T
  BY <1>1, <1>2, SetInduction
<1>. QED
  BY <1>3 DEF T

LEMMA SpelledAppend ==
    ASSUME NEW s \in Seq(Chars), NEW c \in Chars
    PROVE  Spelled(Append(s, c)) = Spell(Spelled(s), c) /\ Spelled(s) \in Seq(Chars)
<1>1. PICK n \in Nat : n = Len(s)
  OBVIOUS
<1>2. /\ Len(Append(s, c)) = n + 1 /\ Append(s, c)[n + 1] = c
      /\ \A k \in 1 .. n : Append(s, c)[k] = s[k] /\ s[k] \in Chars
  BY <1>1, AppendProperties
<1>3. SpelledUp(Append(s, c), n) = SpelledUp(s, n)
  BY <1>2, SpelledSame
<1>4. SpelledUp(s, n) \in Seq(Chars)
  BY <1>2, SpelledType
<1>. QED
  BY <1>1, <1>2, <1>3, <1>4, SpelledRecursion DEF Spelled

\* A space adds no word to a text that is trimmed, and spells nothing where the
\* text is blank.
LEMMA SpaceIsNoWord ==
    ASSUME NEW t \in Seq(Chars)
    PROVE  /\ Blank(Spell(t, "space"))
           /\ Trimmed(Spell(t, "space")) = Trimmed(t)
<1>1. CASE Blank(t)
  BY <1>1 DEF Spell
<1>2. CASE ~Blank(t)
  <2>1. PICK n \in Nat : n = Len(t)
    OBVIOUS
  <2>2. Spell(t, "space") = Append(t, "space")
    BY <1>2 DEF Spell
  <2>3. /\ Append(t, "space") \in Seq(Chars) /\ Append(t, "space") # <<>>
        /\ Len(Append(t, "space")) = n + 1
        /\ Append(t, "space")[n + 1] = "space"
        /\ \A k \in 1 .. n : Append(t, "space")[k] = t[k]
    BY <2>1, AppendProperties, SMTT(30) DEF Chars
  <2>. DEFINE u == Append(t, "space")
  <2>. HIDE DEF u
  <2>4. Len(SubSeq(u, 1, n)) = n /\ \A k \in 1 .. n : SubSeq(u, 1, n)[k] = t[k]
    BY <2>3, FrontOfSeq DEF u
  <2>5. SubSeq(u, 1, n) \in Seq(Chars)
    BY <2>1, <2>3 DEF u
  <2>6. SubSeq(u, 1, n) = t
    BY <2>1, <2>4, <2>5, SeqEqual
  <2>7. (n + 1) - 1 = n
    OBVIOUS
  <2>8. Blank(u) /\ Trimmed(u) = SubSeq(u, 1, n)
    BY <2>3, <2>7 DEF u, Blank, Trimmed
  <2>. QED
    BY <1>2, <2>2, <2>6, <2>8 DEF u, Trimmed
<1>. QED
  BY <1>1, <1>2

\* An escaped byte spells both of its bytes.
LEMMA SpelledPair ==
    ASSUME NEW s \in Seq(Chars), NEW c \in Chars, NEW d \in Chars
    PROVE  Spelled(s \o <<c, d>>) = Spell(Spell(Spelled(s), c), d)
<1>1. Append(s, c) \in Seq(Chars) /\ s \o <<c, d>> = Append(Append(s, c), d)
  OBVIOUS
<1>. QED
  BY <1>1, SpelledAppend

\* A text that ends in a space, or is empty, spells something blank.
LEMMA BlankSpelled ==
    ASSUME NEW s \in Seq(Chars), s = <<>> \/ s[Len(s)] = "space"
    PROVE  Spell(Spelled(s), "space") = Spelled(s)
<1>1. PICK n \in Nat : n = Len(s)
  OBVIOUS
<1>2. CASE n = 0
  BY <1>1, <1>2, SpelledRecursion DEF Spelled, Spell, Blank
<1>3. CASE n # 0
  <2>1. PICK m \in Nat : n = m + 1
    BY <1>3
  <2>0. s[Len(s)] = "space"
    <3>1. s # <<>>
      BY <1>1, <1>3
    <3>. QED
      BY <3>1
  <2>2. s[m + 1] = "space" /\ \A k \in 1 .. m : s[k] \in Chars
    <3>1. \A k \in 1 .. Len(s) : s[k] \in Chars
      OBVIOUS
    <3>. QED
      BY <1>1, <2>0, <2>1, <3>1
  <2>3. Spelled(s) = Spell(SpelledUp(s, m), "space")
    BY <1>1, <2>1, <2>2, SpelledRecursion DEF Spelled
  <2>4. SpelledUp(s, m) \in Seq(Chars)
    BY <2>2, SpelledType
  <2>5. Blank(Spelled(s))
    BY <2>3, <2>4, SpaceIsNoWord
  <2>. QED
    BY <2>5 DEF Spell
<1>. QED
  BY <1>2, <1>3

(***************************************************************************)
(* The whole text, escaped.                                                *)
(***************************************************************************)

\* The reply x up to its n-th byte, with everything escaped.
Extend(t, c) == t \o Escaped(c)
IsText(w, x) ==
    w = [k \in 0 .. Len(x) |-> IF k = 0 THEN <<>> ELSE Extend(w[k - 1], x[k])]
TextUpTo(x, n) == (CHOOSE w : IsText(w, x))[n]

LEMMA WholeIsText == WholeText = TextUpTo(input, Len(input))
BY DEF WholeText, TextUpTo, IsText, Extend

\* A table for the first n bytes, for every n.
LEMMA TextExists ==
    ASSUME NEW x, Len(x) \in Nat
    PROVE  \E w : IsText(w, x)
<1>. DEFINE IsPart(w, n) ==
              w = [k \in 0 .. n |-> IF k = 0 THEN <<>> ELSE Extend(w[k - 1], x[k])]
            T == {n \in Nat : \E w : IsPart(w, n)}
<1>1. 0 \in T
  <2>1. IsPart([k \in 0 .. 0 |-> <<>>], 0)
    OBVIOUS
  <2>. QED
    BY <2>1
<1>2. ASSUME NEW n \in Nat, n \in T
      PROVE  n + 1 \in T
  <2>1. PICK w : IsPart(w, n)
    BY <1>2
  <2>. DEFINE v == [k \in 0 .. n + 1 |-> IF k = n + 1 THEN Extend(w[n], x[n + 1]) ELSE w[k]]
  <2>2. w[0] = <<>> /\ \A k \in 1 .. n : w[k] = Extend(w[k - 1], x[k])
    BY <2>1
  <2>3. ASSUME NEW k \in 0 .. n + 1
        PROVE  v[k] = IF k = 0 THEN <<>> ELSE Extend(v[k - 1], x[k])
    <3>1. CASE k = 0
      BY <2>2, <3>1
    <3>2. CASE k = n + 1
      <4>1. v[k] = Extend(w[n], x[k]) /\ v[k - 1] = w[n] /\ k # 0
        BY <3>2
      <4>. QED
        BY <4>1, Zenon
    <3>3. CASE k \in 1 .. n
      <4>1. v[k] = w[k] /\ v[k - 1] = w[k - 1] /\ k # 0
        BY <3>3
      <4>. QED
        BY <2>2, <3>3, <4>1, Zenon
    <3>. QED
      BY <3>1, <3>2, <3>3
  <2>4. v = [k \in 0 .. n + 1 |-> IF k = 0 THEN <<>> ELSE Extend(v[k - 1], x[k])]
    BY <2>3
  <2>. HIDE DEF v
  <2>5. IsPart(v, n + 1)
    BY <2>4, Zenon
  <2>. QED
    BY <2>5
<1>. HIDE DEF T
<1>3. \A n \in Nat : n \in T
  BY <1>1, <1>2, SetInduction
<1>4. Len(x) \in T
  BY <1>3
<1>. QED
  BY <1>4 DEF T, IsText

LEMMA TextRecursion ==
    ASSUME NEW x, Len(x) \in Nat
    PROVE  /\ TextUpTo(x, 0) = <<>>
           /\ \A n \in 1 .. Len(x) : TextUpTo(x, n) = Extend(TextUpTo(x, n - 1), x[n])
<1>. DEFINE w == CHOOSE w : IsText(w, x)
<1>1. IsText(w, x)
  BY TextExists, Zenon
<1>2. \A n : TextUpTo(x, n) = w[n]
  BY DEF TextUpTo
<1>. HIDE DEF w
<1>3. /\ w[0] = <<>>
      /\ \A n \in 1 .. Len(x) : w[n] = Extend(w[n - 1], x[n])
  BY <1>1 DEF IsText
<1>. QED
  BY <1>2, <1>3

LEMMA EscapedType ==
    ASSUME NEW c \in Chars
    PROVE  Escaped(c) \in Seq(Chars) /\ Len(Escaped(c)) \in {1, 2}
<1>1. CASE c \in {"quote", "backslash"}
  <2>1. Escaped(c) = <<"backslash", c>>
    BY <1>1 DEF Escaped
  <2>. QED
    BY <2>1 DEF Chars
<1>2. CASE c = "break"
  <2>1. Escaped(c) = <<"space">>
    BY <1>2 DEF Escaped
  <2>. QED
    BY <2>1 DEF Chars
<1>3. CASE c \notin {"quote", "backslash", "break"}
  <2>1. Escaped(c) = <<c>>
    BY <1>3 DEF Escaped
  <2>. QED
    BY <2>1
<1>. QED
  BY <1>1, <1>2, <1>3

LEMMA TextType ==
    ASSUME NEW x \in Seq(Chars)
    PROVE  \A n \in 0 .. Len(x) : TextUpTo(x, n) \in Seq(Chars)
<1>. DEFINE T == {k \in Nat : k <= Len(x) => TextUpTo(x, k) \in Seq(Chars)}
<1>0. Len(x) \in Nat
  OBVIOUS
<1>1. 0 \in T
  <2>1. <<>> \in Seq(Chars) /\ TextUpTo(x, 0) = <<>>
    BY <1>0, TextRecursion
  <2>. QED
    BY <2>1
<1>2. ASSUME NEW k \in Nat, k \in T
      PROVE  k + 1 \in T
  <2>. SUFFICES ASSUME k + 1 <= Len(x) PROVE TextUpTo(x, k + 1) \in Seq(Chars)
    OBVIOUS
  <2>1. k + 1 \in 1 .. Len(x) /\ (k + 1) - 1 = k /\ TextUpTo(x, k) \in Seq(Chars)
    BY <1>0, <1>2
  <2>2. TextUpTo(x, k + 1) = TextUpTo(x, k) \o Escaped(x[k + 1])
    BY <1>0, <2>1, TextRecursion DEF Extend
  <2>3. Escaped(x[k + 1]) \in Seq(Chars)
    BY <2>1, EscapedType
  <2>. QED
    BY <2>1, <2>2, <2>3, ConcatProperties
<1>. HIDE DEF T
<1>3. \A k \in Nat : k \in T
  BY <1>1, <1>2, SetInduction
<1>. QED
  BY <1>0, <1>3 DEF T

\* The text grows with every byte.
LEMMA TextGrows ==
    ASSUME NEW x \in Seq(Chars), NEW n \in 0 .. Len(x)
    PROVE  Len(TextUpTo(x, n)) <= Len(TextUpTo(x, Len(x)))
<1>. DEFINE T == {k \in Nat : n + k <= Len(x) => Len(TextUpTo(x, n)) <= Len(TextUpTo(x, n + k))}
<1>0. Len(x) \in Nat /\ n \in Nat
  OBVIOUS
<1>1. 0 \in T
  <2>1. Len(TextUpTo(x, n)) \in Nat /\ n + 0 = n
    BY TextType
  <2>. QED
    BY <2>1
<1>2. ASSUME NEW k \in Nat, k \in T
      PROVE  k + 1 \in T
  <2>. SUFFICES ASSUME n + (k + 1) <= Len(x)
                PROVE  Len(TextUpTo(x, n)) <= Len(TextUpTo(x, n + (k + 1)))
    OBVIOUS
  <2>. DEFINE m == n + (k + 1)
  <2>1. m \in 1 .. Len(x) /\ m - 1 = n + k /\ n + k \in 0 .. Len(x)
    BY <1>0
  <2>. HIDE DEF m
  <2>2. TextUpTo(x, m) = TextUpTo(x, n + k) \o Escaped(x[m])
    BY <1>0, <2>1, TextRecursion DEF Extend
  <2>3. /\ TextUpTo(x, n + k) \in Seq(Chars) /\ TextUpTo(x, n) \in Seq(Chars)
        /\ Escaped(x[m]) \in Seq(Chars)
    BY <2>1, TextType, EscapedType
  <2>4. Len(TextUpTo(x, m)) = Len(TextUpTo(x, n + k)) + Len(Escaped(x[m]))
    BY <2>2, <2>3, ConcatProperties
  <2>5. Len(TextUpTo(x, n)) <= Len(TextUpTo(x, n + k))
    BY <1>0, <1>2, <2>1
  <2>6. Len(TextUpTo(x, n)) <= Len(TextUpTo(x, m))
    BY <2>3, <2>4, <2>5
  <2>. QED
    BY <2>6 DEF m
<1>. HIDE DEF T
<1>3. \A k \in Nat : k \in T
  BY <1>1, <1>2, SetInduction
<1>4. Len(x) - n \in T /\ n + (Len(x) - n) = Len(x)
  BY <1>0, <1>3
<1>. QED
  BY <1>0, <1>4 DEF T

(***************************************************************************)
(* A text that fits survives.                                              *)
(***************************************************************************)

Text(n)  == TextUpTo(input, n)
TextFits == Len(Text(Len(input))) < OutputSize

\* The output spells what the text spells so far and is no longer than it;
\* from then on only the spaces at its end go.
SurvivalInv ==
    TextFits =>
        /\ at = "copying" => /\ i <= Len(input) + 1
                             /\ Spelled(output) = Spelled(Text(i - 1))
                             /\ Len(output) <= Len(Text(i - 1))
        /\ at # "copying" => Trimmed(Spelled(output)) = Trimmed(Spelled(Text(Len(input))))

\* A byte is copied: what it adds to the output it adds to the text.
LEMMA CopySurvives ==
    ASSUME TypeOK, SurvivalInv, CopyByte, TextFits
    PROVE  /\ i <= Len(input)
           /\ Spelled(output') = Spelled(Text(i))
           /\ Len(output') <= Len(Text(i))
<1>. DEFINE c == input[i]
<1>0. /\ input \in Seq(Chars) /\ output \in Seq(Chars) /\ Len(output) \in Nat
      /\ i \in 1 .. Len(input) /\ i - 1 \in 0 .. Len(input) /\ i \in 0 .. Len(input)
      /\ at = "copying" /\ OutputSize \in Nat
  <2>1. input \in Seq(Chars) /\ output \in Seq(Chars) /\ Len(output) \in Nat
    BY DEF TypeOK
  <2>. QED
    BY <2>1, SanitizeAssumption DEF TypeOK, CopyByte, CopyGoesOn
<1>1. c \in Chars /\ Escaped(c) \in Seq(Chars)
  BY <1>0, EscapedType
<1>2. Text(i - 1) \in Seq(Chars) /\ Text(i) \in Seq(Chars)
  BY <1>0, TextType DEF Text
<1>3. Text(i) = Text(i - 1) \o Escaped(c)
  <2>1. Len(input) \in Nat
    BY <1>0
  <2>. QED
    BY <1>0, <2>1, TextRecursion DEF Text, Extend
<1>4. Len(Text(i)) = Len(Text(i - 1)) + Len(Escaped(c))
  BY <1>1, <1>2, <1>3, ConcatProperties
<1>5. Len(Text(i)) < OutputSize
  <2>1. Len(Text(i)) <= Len(Text(Len(input)))
    BY <1>0, TextGrows DEF Text
  <2>2. Text(Len(input)) \in Seq(Chars)
    BY <1>0, TextType DEF Text
  <2>3. Len(Text(i)) \in Nat /\ Len(Text(Len(input))) \in Nat
    BY <1>2, <2>2
  <2>. QED
    BY <1>0, <2>1, <2>3 DEF TextFits
<1>6. Spelled(output) = Spelled(Text(i - 1)) /\ Len(output) <= Len(Text(i - 1))
  BY <1>0 DEF SurvivalInv
<1>7. Len(Text(i - 1)) \in Nat /\ Len(Text(i)) \in Nat
  BY <1>2
<1>. HIDE DEF c
<1>8. CASE ReplaceBreak
  <2>1. c = "break" /\ output' = IF output = <<>> \/ EndsInSpace THEN output
                                 ELSE Append(output, "space")
    BY <1>8 DEF ReplaceBreak, c
  <2>2. Escaped(c) = <<"space">> /\ "space" \in Chars
    BY <2>1 DEF Escaped, Chars
  <2>3. Text(i) = Append(Text(i - 1), "space") /\ Len(Text(i)) = Len(Text(i - 1)) + 1
    BY <1>2, <1>3, <2>2, AppendIsConcat
  <2>4. Spelled(Text(i)) = Spell(Spelled(output), "space")
    BY <1>2, <1>6, <2>2, <2>3, SpelledAppend
  <2>5. CASE output = <<>> \/ EndsInSpace
    <3>1. output' = output /\ (output = <<>> \/ output[Len(output)] = "space")
      BY <2>1, <2>5 DEF EndsInSpace
    <3>2. Spell(Spelled(output), "space") = Spelled(output)
      BY <1>0, <3>1, BlankSpelled
    <3>. QED
      BY <1>0, <1>6, <1>7, <2>3, <2>4, <3>1, <3>2
  <2>6. CASE ~(output = <<>> \/ EndsInSpace)
    <3>1. output' = Append(output, "space") /\ Len(output') = Len(output) + 1
      BY <1>0, <2>1, <2>6
    <3>2. Spelled(output') = Spell(Spelled(output), "space")
      BY <1>0, <2>2, <3>1, SpelledAppend
    <3>. QED
      BY <1>0, <1>6, <1>7, <2>3, <2>4, <3>1, <3>2
  <2>. QED
    BY <2>5, <2>6
<1>9. CASE Escape
  <2>1. c \in {"quote", "backslash"} /\ "backslash" \in Chars
    BY <1>9 DEF Escape, c, Chars
  <2>2. Escaped(c) = <<"backslash", c>>
    BY <2>1 DEF Escaped
  <2>3. Len(Text(i)) = Len(Text(i - 1)) + 2
    BY <1>4, <2>2
  <2>4. output' = output \o <<"backslash", c>>
    <3>1. Len(output) < OutputSize - 2
      BY <1>0, <1>5, <1>6, <1>7, <2>3
    <3>. QED
      BY <1>9, <3>1 DEF Escape, c
  <2>5. Spelled(output') = Spell(Spell(Spelled(output), "backslash"), c)
    BY <1>0, <1>1, <2>1, <2>4, SpelledPair
  <2>6. Spelled(Text(i)) = Spell(Spell(Spelled(output), "backslash"), c)
    BY <1>1, <1>2, <1>3, <1>6, <2>1, <2>2, SpelledPair
  <2>7. Len(output') = Len(output) + 2
    BY <1>0, <1>1, <2>1, <2>4
  <2>. QED
    BY <1>0, <1>6, <1>7, <2>3, <2>5, <2>6, <2>7
<1>10. CASE Copy
  <2>1. c \in {"letter", "space"} /\ output' = Append(output, c)
    BY <1>10 DEF Copy, c
  <2>2. Escaped(c) = <<c>>
    BY <2>1 DEF Escaped
  <2>3. Text(i) = Append(Text(i - 1), c) /\ Len(Text(i)) = Len(Text(i - 1)) + 1
    BY <1>1, <1>2, <1>3, <2>2, AppendIsConcat
  <2>4. /\ Spelled(Text(i)) = Spell(Spelled(output), c)
        /\ Spelled(output') = Spell(Spelled(output), c)
    BY <1>0, <1>1, <1>2, <1>6, <2>1, <2>3, SpelledAppend
  <2>5. Len(output') = Len(output) + 1
    BY <1>0, <2>1
  <2>. QED
    BY <1>0, <1>6, <1>7, <2>3, <2>4, <2>5
<1>. QED
  BY <1>0, <1>8, <1>9, <1>10 DEF CopyByte

\* The copying of a text that fits ends with its last byte.
LEMMA EndSurvives ==
    ASSUME TypeOK, SurvivalInv, Terminate, TextFits
    PROVE  Spelled(output) = Spelled(Text(Len(input)))
<1>0. /\ input \in Seq(Chars) /\ Len(output) \in Nat /\ Len(input) \in Nat /\ i \in Nat \ {0}
      /\ at = "copying" /\ i <= Len(input) + 1 /\ OutputSize \in Nat
      /\ Spelled(output) = Spelled(Text(i - 1)) /\ Len(output) <= Len(Text(i - 1))
  BY SanitizeAssumption DEF TypeOK, Terminate, SurvivalInv
<1>1. ASSUME i <= Len(input)
      PROVE  FALSE
  <2>1. i \in 1 .. Len(input) /\ i - 1 \in 0 .. Len(input) /\ i \in 0 .. Len(input)
    BY <1>0, <1>1
  <2>2. Text(i) = Text(i - 1) \o Escaped(input[i])
    BY <1>0, <2>1, TextRecursion DEF Text, Extend
  <2>3. /\ Text(i - 1) \in Seq(Chars) /\ Text(i) \in Seq(Chars)
        /\ Text(Len(input)) \in Seq(Chars)
    BY <1>0, <2>1, TextType DEF Text
  <2>4. Escaped(input[i]) \in Seq(Chars) /\ Len(Escaped(input[i])) \in {1, 2}
    BY <1>0, <2>1, EscapedType
  <2>5. Len(Text(i)) = Len(Text(i - 1)) + Len(Escaped(input[i]))
    BY <2>2, <2>3, <2>4, ConcatProperties
  <2>6. Len(Text(i)) <= Len(Text(Len(input)))
    BY <1>0, <2>1, TextGrows DEF Text
  <2>7. Len(Text(i - 1)) \in Nat /\ Len(Text(i)) \in Nat /\ Len(Text(Len(input))) \in Nat
    BY <2>3
  <2>8. Len(Text(i - 1)) + 1 <= Len(Text(i))
    <3>1. PICK more \in {1, 2} : Len(Escaped(input[i])) = more
      BY <2>4, Zenon
    <3>2. Len(Text(i)) = Len(Text(i - 1)) + more
      BY <2>5, <3>1, Zenon
    <3>. QED
      BY <2>7, <3>2
  <2>9. Len(Text(i)) < OutputSize
    BY <1>0, <2>6, <2>7 DEF TextFits
  <2>10. Len(output) < OutputSize - 1
    BY <1>0, <2>7, <2>8, <2>9
  <2>. QED
    BY <1>1, <2>10 DEF Terminate, CopyGoesOn
<1>2. i - 1 = Len(input)
  BY <1>0, <1>1
<1>. QED
  BY <1>0, <1>2

\* Trimming takes spaces only.
LEMMA TrimSurvives ==
    ASSUME TypeOK, Trim
    PROVE  Trimmed(Spelled(output')) = Trimmed(Spelled(output))
<1>1. /\ output \in Seq(Chars) /\ output # <<>> /\ output[Len(output)] = "space"
      /\ output' = SubSeq(output, 1, Len(output) - 1)
  BY DEF TypeOK, Trim, EndsInSpace, Chars
<1>2. Len(output) \in Nat \ {0}
  BY <1>1, EmptySeq
<1>3. PICK n \in Nat : Len(output) = n + 1
  BY <1>2, SMTT(30)
<1>4. output' = SubSeq(output, 1, n) /\ output[n + 1] = "space"
  BY <1>1, <1>3
<1>5. Len(output') = n /\ \A k \in 1 .. n : output'[k] = output[k]
  BY <1>1, <1>3, <1>4, FrontOfSeq
<1>6. \A k \in 1 .. n : output[k] \in Chars
  BY <1>1, <1>3
<1>7. Spelled(output) = Spell(SpelledUp(output, n), "space")
  BY <1>3, <1>4, SpelledRecursion DEF Spelled
<1>8. Spelled(output') = SpelledUp(output, n)
  BY <1>5, SpelledSame DEF Spelled
<1>9. SpelledUp(output, n) \in Seq(Chars)
  BY <1>6, SpelledType
<1>. QED
  BY <1>7, <1>8, <1>9, SpaceIsNoWord

LEMMA NextSurvivalInv == TypeOK /\ SurvivalInv /\ [Next]_vars => SurvivalInv'
<1>. SUFFICES ASSUME TypeOK, SurvivalInv, [Next]_vars, TextFits'
              PROVE  SurvivalInv'
  BY DEF SurvivalInv
<1>0. UNCHANGED input /\ TextFits
  <2>1. UNCHANGED input
    BY DEF Next, CopyByte, Terminate, Trim, Return, vars
  <2>. QED
    BY <2>1 DEF TextFits, Text
<1>1. CASE CopyByte
  <2>1. at' = "copying" /\ i' = i + 1 /\ i \in Nat /\ (i + 1) - 1 = i
    BY <1>1 DEF CopyByte, TypeOK
  <2>2. i <= Len(input) /\ Len(input) \in Nat
    BY <1>0, <1>1, CopySurvives DEF TypeOK
  <2>3. i' <= Len(input') + 1
    BY <1>0, <2>1, <2>2
  <2>4. Text(i - 1)' = Text(i)
    BY <1>0, <2>1 DEF Text
  <2>5. Spelled(output)' = Spelled(Text(i - 1))' /\ Len(output)' <= Len(Text(i - 1))'
    BY <1>0, <1>1, <2>4, CopySurvives
  <2>. QED
    BY <2>1, <2>3, <2>5 DEF SurvivalInv
<1>2. CASE Terminate
  <2>1. at' # "copying" /\ UNCHANGED output
    BY <1>2 DEF Terminate
  <2>2. Spelled(output) = Spelled(Text(Len(input)))
    BY <1>0, <1>2, EndSurvives
  <2>. QED
    BY <1>0, <2>1, <2>2 DEF SurvivalInv, Text
<1>3. CASE Trim
  <2>1. at # "copying" /\ at' # "copying"
    BY <1>3 DEF Trim
  <2>2. Trimmed(Spelled(output')) = Trimmed(Spelled(output))
    BY <1>3, TrimSurvives
  <2>. QED
    BY <1>0, <2>1, <2>2 DEF SurvivalInv, Text
<1>4. CASE Return \/ UNCHANGED vars
  <2>1. UNCHANGED <<i, output>> /\ (at' = "copying" <=> at = "copying")
    BY <1>4 DEF Return, vars
  <2>. QED
    BY <1>0, <2>1 DEF SurvivalInv, Text
<1>. QED
  BY <1>1, <1>2, <1>3, <1>4 DEF Next

\* However long the reply and whatever it contains, a text whose escaped form
\* fits arrives word for word (connection.c:453-488).
THEOREM FittingTextSurvives == Spec => []TextSurvives
<1>1. Init => SurvivalInv
  <2>. SUFFICES ASSUME Init PROVE SurvivalInv
    OBVIOUS
  <2>1. input \in Seq(Chars) /\ i = 1 /\ output = <<>> /\ at = "copying"
    BY InputIsSeq DEF Init
  <2>2. Len(input) \in Nat /\ i - 1 = 0
    BY <2>1
  <2>3. Text(i - 1) = <<>>
    BY <2>2, TextRecursion DEF Text
  <2>4. output = Text(i - 1) /\ Len(output) <= Len(Text(i - 1)) /\ i <= Len(input) + 1
    BY <2>1, <2>2, <2>3
  <2>. QED
    BY <2>1, <2>4 DEF SurvivalInv
<1>2. SurvivalInv => TextSurvives
  BY WholeIsText, WordsOf DEF SurvivalInv, TextSurvives, TextFits, Text
<1>. QED
  BY <1>1, <1>2, InitTypeOK, NextTypeOK, NextSurvivalInv, PTL DEF Spec
=============================================================================
