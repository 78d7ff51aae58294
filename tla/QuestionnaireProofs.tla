------------------------ MODULE QuestionnaireProofs ------------------------
(***************************************************************************)
(* Proofs that the scoring measures extroversion, for every questionnaire  *)
(* and every number of questions: what the sums of two related             *)
(* questionnaires come to, by induction over the questions, and from there *)
(* the style and the tone.                                                 *)
(***************************************************************************)
EXTENDS Questionnaire, WellFoundedInduction, TLAPS

(***************************************************************************)
(* Induction, for a set of numbers.                                        *)
(***************************************************************************)

LEMMA LeastElement ==
    ASSUME NEW T, T \subseteq Nat, T # {}
    PROVE  \E m \in T : \A k \in T : m <= k
<1>. DEFINE Less == {pair \in Nat \X Nat : pair[1] < pair[2]}
<1>1. IsWellFoundedOn(Less, Nat)
  BY NatLessThanWellFounded DEF OpToRel
<1>2. \A k, m \in Nat : k < m => <<k, m>> \in Less
  OBVIOUS
<1>. HIDE DEF Less
<1>3. PICK m \in T : \A k \in T : <<k, m>> \notin Less
  BY <1>1, WFMin
<1>4. \A k \in T : m <= k
  <2>1. TAKE k \in T
  <2>2. k \in Nat /\ m \in Nat /\ ~(k < m)
    BY <1>2, <1>3
  <2>. QED
    BY <2>2
<1>. QED
  BY <1>4

\* Whatever holds of zero, and of n + 1 when it holds of n, holds of all.
LEMMA SetInduction ==
    ASSUME NEW T, 0 \in T, \A n \in Nat : n \in T => n + 1 \in T
    PROVE  \A n \in Nat : n \in T
<1>. DEFINE U == Nat \ T
<1>. SUFFICES ASSUME U # {} PROVE FALSE
  OBVIOUS
<1>1. U \subseteq Nat
  OBVIOUS
<1>2. \A m \in U : m # 0 /\ m - 1 \in Nat \cap U
  <2>1. TAKE m \in U
  <2>2. m - 1 \in Nat /\ (m - 1) + 1 = m /\ m # 0
    BY <1>1
  <2>. QED
    BY <2>2
<1>. HIDE DEF U
<1>3. PICK m \in U : \A k \in U : m <= k
  BY <1>1, LeastElement
<1>. QED
  BY <1>1, <1>2, <1>3

(***************************************************************************)
(* The sum over a questionnaire.                                           *)
(***************************************************************************)

\* s is the table of partial sums that Score builds.
IsSum(s, r, n) ==
    s = [k \in 0 .. n |-> IF k = 0 THEN 0 ELSE s[k - 1] + Scored(r, k - 1)]

\* There is one, up to every n.
LEMMA SumExists ==
    ASSUME NEW r
    PROVE  \A n \in Nat : \E s : IsSum(s, r, n)
<1>. DEFINE T == {n \in Nat : \E s : IsSum(s, r, n)}
<1>1. 0 \in T
  <2>1. IsSum([k \in 0 .. 0 |-> 0], r, 0)
    BY DEF IsSum
  <2>. QED
    BY <2>1
<1>2. ASSUME NEW n \in Nat, n \in T
      PROVE  n + 1 \in T
  <2>1. PICK s : IsSum(s, r, n)
    BY <1>2
  <2>. DEFINE t == [k \in 0 .. n + 1 |-> IF k = n + 1 THEN s[n] + Scored(r, n) ELSE s[k]]
  <2>2. /\ s[0] = 0
        /\ \A k \in 1 .. n : s[k] = s[k - 1] + Scored(r, k - 1)
    BY <2>1 DEF IsSum
  <2>3. ASSUME NEW k \in 0 .. n + 1
        PROVE  t[k] = IF k = 0 THEN 0 ELSE t[k - 1] + Scored(r, k - 1)
    <3>1. CASE k = 0
      BY <2>2, <3>1
    <3>2. CASE k = n + 1
      <4>1. t[k] = s[n] + Scored(r, n) /\ t[k - 1] = s[n] /\ k - 1 = n /\ k # 0
        BY <3>2
      <4>. QED
        BY <4>1, Zenon
    <3>3. CASE k \in 1 .. n
      <4>1. t[k] = s[k] /\ t[k - 1] = s[k - 1] /\ k # 0
        BY <3>3
      <4>. QED
        BY <2>2, <3>3, <4>1, Zenon
    <3>. QED
      BY <3>1, <3>2, <3>3
  <2>4. t = [k \in 0 .. n + 1 |-> IF k = 0 THEN 0 ELSE t[k - 1] + Scored(r, k - 1)]
    BY <2>3
  <2>. HIDE DEF t
  <2>5. IsSum(t, r, n + 1)
    BY <2>4, Zenon DEF IsSum
  <2>. QED
    BY <2>5
<1>. HIDE DEF T
<1>3. \A n \in Nat : n \in T
  BY <1>1, <1>2, SetInduction
<1>. QED
  BY <1>3 DEF T

\* Tables of different lengths agree as far as both go.
LEMMA SumsAgree ==
    ASSUME NEW r, NEW a \in Nat, NEW b \in Nat, NEW s, NEW t,
           IsSum(s, r, a), IsSum(t, r, b), a <= b
    PROVE  \A n \in 0 .. a : s[n] = t[n]
<1>. DEFINE T == {n \in Nat : n <= a => s[n] = t[n]}
<1>1. /\ s[0] = 0 /\ \A k \in 1 .. a : s[k] = s[k - 1] + Scored(r, k - 1)
      /\ t[0] = 0 /\ \A k \in 1 .. b : t[k] = t[k - 1] + Scored(r, k - 1)
  BY DEF IsSum
<1>2. 0 \in T
  BY <1>1
<1>3. ASSUME NEW n \in Nat, n \in T
      PROVE  n + 1 \in T
  <2>. SUFFICES ASSUME n + 1 <= a PROVE s[n + 1] = t[n + 1]
    OBVIOUS
  <2>1. n + 1 \in 1 .. a /\ n + 1 \in 1 .. b /\ (n + 1) - 1 = n
    OBVIOUS
  <2>2. s[n] = t[n]
    BY <1>3
  <2>. QED
    BY <1>1, <2>1, <2>2
<1>. HIDE DEF T
<1>4. \A n \in Nat : n \in T
  BY <1>2, <1>3, SetInduction
<1>. QED
  BY <1>4 DEF T

\* Score is the sum of what the loop adds.
LEMMA ScoreRecursion ==
    ASSUME NEW r
    PROVE  /\ Score(r, 0) = 0
           /\ \A n \in Nat : Score(r, n + 1) = Score(r, n) + Scored(r, n)
<1>. DEFINE S(n) == CHOOSE s : IsSum(s, r, n)
<1>1. \A n \in Nat : IsSum(S(n), r, n)
  BY SumExists, Zenon
<1>2. \A n \in Nat : Score(r, n) = S(n)[n]
  BY DEF Score, IsSum
<1>. HIDE DEF S
<1>3. Score(r, 0) = 0
  BY <1>1, <1>2 DEF IsSum
<1>4. ASSUME NEW n \in Nat
      PROVE  Score(r, n + 1) = Score(r, n) + Scored(r, n)
  <2>1. S(n + 1)[n + 1] = S(n + 1)[n] + Scored(r, n)
    <3>1. IsSum(S(n + 1), r, n + 1) /\ n + 1 \in 0 .. n + 1 /\ n + 1 # 0 /\ (n + 1) - 1 = n
      BY <1>1
    <3>. QED
      BY <3>1 DEF IsSum
  <2>2. S(n)[n] = S(n + 1)[n]
    <3>1. n \in 0 .. n /\ n <= n + 1 /\ n + 1 \in Nat
      OBVIOUS
    <3>. QED
      BY <1>1, <3>1, SumsAgree
  <2>. QED
    BY <1>2, <2>1, <2>2
<1>. QED
  BY <1>3, <1>4

(***************************************************************************)
(* The sums of related questionnaires.                                     *)
(***************************************************************************)

\* A sum of ratings is a number, and looks at nothing but its ratings.
LEMMA ScoreType ==
    ASSUME NEW r, NEW n \in Nat, \A i \in 0 .. n - 1 : r[i] \in Int
    PROVE  Score(r, n) \in Int
<1>. DEFINE T == {k \in Nat : k <= n => Score(r, k) \in Int}
<1>1. 0 \in T
  BY ScoreRecursion
<1>2. ASSUME NEW k \in Nat, k \in T
      PROVE  k + 1 \in T
  <2>. SUFFICES ASSUME k + 1 <= n PROVE Score(r, k + 1) \in Int
    OBVIOUS
  <2>1. Score(r, k) \in Int /\ r[k] \in Int
    BY <1>2
  <2>2. Scored(r, k) \in Int
    BY <2>1 DEF Scored
  <2>3. Score(r, k + 1) = Score(r, k) + Scored(r, k)
    BY ScoreRecursion
  <2>. QED
    BY <2>1, <2>2, <2>3
<1>. HIDE DEF T
<1>3. \A k \in Nat : k \in T
  BY <1>1, <1>2, SetInduction
<1>. QED
  BY <1>3 DEF T

LEMMA ScoreSame ==
    ASSUME NEW r, NEW t, NEW n \in Nat, \A i \in 0 .. n - 1 : t[i] = r[i]
    PROVE  Score(t, n) = Score(r, n)
<1>. DEFINE T == {k \in Nat : k <= n => Score(t, k) = Score(r, k)}
<1>1. 0 \in T
  BY ScoreRecursion
<1>2. ASSUME NEW k \in Nat, k \in T
      PROVE  k + 1 \in T
  <2>. SUFFICES ASSUME k + 1 <= n PROVE Score(t, k + 1) = Score(r, k + 1)
    OBVIOUS
  <2>1. Score(t, k) = Score(r, k) /\ t[k] = r[k]
    BY <1>2
  <2>2. Scored(t, k) = Scored(r, k)
    BY <2>1 DEF Scored
  <2>3. /\ Score(t, k + 1) = Score(t, k) + Scored(t, k)
        /\ Score(r, k + 1) = Score(r, k) + Scored(r, k)
    BY ScoreRecursion
  <2>. QED
    BY <2>1, <2>2, <2>3
<1>. HIDE DEF T
<1>3. \A k \in Nat : k \in T
  BY <1>1, <1>2, SetInduction
<1>. QED
  BY <1>3 DEF T

\* The opposite answer to everything: the sums are opposite about 4 a question.
LEMMA ScoreMirrored ==
    ASSUME NEW r, NEW t, NEW n \in Nat,
           \A i \in 0 .. n - 1 : r[i] \in Int /\ t[i] = 8 - r[i]
    PROVE  Score(t, n) = 8 * n - Score(r, n)
<1>. DEFINE T == {k \in Nat : k <= n => Score(t, k) = 8 * k - Score(r, k)}
<1>1. 0 \in T
  BY ScoreRecursion
<1>2. ASSUME NEW k \in Nat, k \in T
      PROVE  k + 1 \in T
  <2>. SUFFICES ASSUME k + 1 <= n PROVE Score(t, k + 1) = 8 * (k + 1) - Score(r, k + 1)
    OBVIOUS
  <2>1. Score(t, k) = 8 * k - Score(r, k) /\ r[k] \in Int /\ t[k] = 8 - r[k]
    BY <1>2
  <2>2. Score(r, k) \in Int
    BY ScoreType
  <2>3. Scored(t, k) = 8 - Scored(r, k) /\ Scored(r, k) \in Int
    BY <2>1 DEF Scored
  <2>4. /\ Score(t, k + 1) = Score(t, k) + Scored(t, k)
        /\ Score(r, k + 1) = Score(r, k) + Scored(r, k)
    BY ScoreRecursion
  <2>. QED
    BY <2>1, <2>2, <2>3, <2>4
<1>. HIDE DEF T
<1>3. \A k \in Nat : k \in T
  BY <1>1, <1>2, SetInduction
<1>. QED
  BY <1>3 DEF T

\* One answer changed: the sum changes by that answer.
LEMMA ScoreChanged ==
    ASSUME NEW r, NEW t, NEW n \in Nat, NEW i \in 0 .. n - 1,
           \A j \in 0 .. n - 1 : r[j] \in Int /\ t[j] \in Int /\ (j # i => t[j] = r[j])
    PROVE  Score(t, n) = Score(r, n) + Scored(t, i) - Scored(r, i)
<1>. DEFINE T == {k \in Nat : i + k <= n - 1 =>
                    Score(t, i + 1 + k) = Score(r, i + 1 + k) + Scored(t, i) - Scored(r, i)}
<1>0. i \in Nat /\ Scored(t, i) \in Int /\ Scored(r, i) \in Int
  BY DEF Scored
<1>1. 0 \in T
  <2>1. Score(t, i) = Score(r, i)
    <3>1. \A j \in 0 .. i - 1 : t[j] = r[j]
      OBVIOUS
    <3>. QED
      BY <3>1, ScoreSame
  <2>2. Score(r, i) \in Int
    BY ScoreType
  <2>3. /\ Score(t, i + 1) = Score(t, i) + Scored(t, i)
        /\ Score(r, i + 1) = Score(r, i) + Scored(r, i)
    BY <1>0, ScoreRecursion
  <2>. QED
    BY <1>0, <2>1, <2>2, <2>3
<1>2. ASSUME NEW k \in Nat, k \in T
      PROVE  k + 1 \in T
  <2>. DEFINE m == i + 1 + k
  <2>. SUFFICES ASSUME m <= n - 1
                PROVE  Score(t, m + 1) = Score(r, m + 1) + Scored(t, i) - Scored(r, i)
    OBVIOUS
  <2>1. Score(t, m) = Score(r, m) + Scored(t, i) - Scored(r, i)
    BY <1>2
  <2>2. m \in Nat /\ m \in 0 .. n - 1 /\ m # i
    OBVIOUS
  <2>. HIDE DEF m
  <2>3. Scored(t, m) = Scored(r, m) /\ Scored(r, m) \in Int
    BY <2>2 DEF Scored
  <2>4. Score(r, m) \in Int
    BY <2>2, ScoreType
  <2>5. /\ Score(t, m + 1) = Score(t, m) + Scored(t, m)
        /\ Score(r, m + 1) = Score(r, m) + Scored(r, m)
    BY <2>2, ScoreRecursion
  <2>. QED
    BY <1>0, <2>1, <2>3, <2>4, <2>5
<1>. HIDE DEF T
<1>3. \A k \in Nat : k \in T
  BY <1>1, <1>2, SetInduction
<1>4. n - 1 - i \in Nat /\ i + (n - 1 - i) <= n - 1 /\ i + 1 + (n - 1 - i) = n
  OBVIOUS
<1>. QED
  BY <1>3, <1>4 DEF T

\* The same answer to everything: statements cancel in pairs.
LEMMA ScoreConstant ==
    ASSUME NEW r, NEW c \in Int, NEW n \in 0 .. 10, \A i \in 0 .. n - 1 : r[i] = c
    PROVE  Score(r, n) = 4 * n + (IF n % 2 = 0 THEN 0 ELSE c - 4)
<1>. DEFINE T == {k \in Nat : k <= n =>
                    Score(r, k) = 4 * k + (IF k % 2 = 0 THEN 0 ELSE c - 4)}
<1>1. 0 \in T
  BY ScoreRecursion
<1>2. ASSUME NEW k \in Nat, k \in T
      PROVE  k + 1 \in T
  <2>. SUFFICES ASSUME k + 1 <= n
                PROVE  Score(r, k + 1) = 4 * (k + 1) + (IF (k + 1) % 2 = 0 THEN 0 ELSE c - 4)
    OBVIOUS
  <2>1. Score(r, k) = 4 * k + (IF k % 2 = 0 THEN 0 ELSE c - 4) /\ r[k] = c
    BY <1>2
  <2>2. k \in 0 .. 9
    OBVIOUS
  <2>3. Scored(r, k) = IF k % 2 = 0 THEN c ELSE 8 - c
    BY <2>1, <2>2 DEF Scored, ReverseCoded
  <2>4. Score(r, k + 1) = Score(r, k) + Scored(r, k)
    BY ScoreRecursion
  <2>5. k % 2 = 0 <=> (k + 1) % 2 # 0
    BY <2>2
  <2>. QED
    BY <2>1, <2>3, <2>4, <2>5
<1>. HIDE DEF T
<1>3. \A k \in Nat : k \in T
  BY <1>1, <1>2, SetInduction
<1>. QED
  BY <1>3 DEF T
(***************************************************************************)
(* The questionnaire.                                                      *)
(***************************************************************************)

\* While questions are left, the tone is that of the answers and the last reply.
ToneInv ==
    questionIndex < NumQuestions => tone = BehaviorStyle(answers, questionIndex, buffer)

LEMMA ToneType ==
    ASSUME NEW r, NEW n \in Nat, NEW v
    PROVE  BehaviorStyle(r, n, v) \in {"neutrale", "empatico", "curioso", "entusiasta"}
<1>1. n % 3 \in 0 .. 2
  OBVIOUS
<1>2. <<"curioso", "empatico", "neutrale">>[(n % 3) + 1]
        \in {"neutrale", "empatico", "curioso", "entusiasta"}
  BY <1>1
<1>. QED
  BY <1>2 DEF BehaviorStyle

LEMMA InitTypeOK == Init => TypeOK /\ ToneInv
<1>. SUFFICES ASSUME Init PROVE TypeOK /\ ToneInv
  OBVIOUS
<1>1. questionIndex = 0 /\ buffer = 0 /\ tone = BehaviorStyle(answers, 0, 0)
  BY DEF Init
<1>2. tone \in {"neutrale", "empatico", "curioso", "entusiasta"}
  BY <1>1, ToneType
<1>3. \A i \in Questions : answers[i] = Unanswered /\ ~(i < questionIndex)
  BY NumQuestionsAssumption DEF Init, Questions
<1>. QED
  BY <1>1, <1>2, <1>3, NumQuestionsAssumption
     DEF Init, TypeOK, ToneInv, Ratings, Unanswered

LEMMA NextTypeOK == TypeOK /\ ToneInv /\ [Next]_vars => TypeOK' /\ ToneInv'
<1>. SUFFICES ASSUME TypeOK, ToneInv, [Next]_vars PROVE TypeOK' /\ ToneInv'
  OBVIOUS
<1>1. ASSUME NEW value \in PersonReplies, Reply(value)
      PROVE  TypeOK' /\ ToneInv'
  <2>0. /\ questionIndex \in Questions /\ questionIndex \in Nat /\ value \in Int
        /\ NumQuestions \in Nat /\ Questions = 0 .. NumQuestions - 1
    BY <1>1, PersonAssumption, NumQuestionsAssumption DEF Reply, TypeOK, Questions
  <2>1. /\ questionIndex' \in 0 .. NumQuestions
        /\ answers' \in [Questions -> Ratings \cup {Unanswered}]
        /\ \A i \in Questions : answers'[i] \in Ratings <=> i < questionIndex'
    <3>1. CASE Accept(value)
      <4>1. /\ value \in Ratings /\ questionIndex' = questionIndex + 1
            /\ answers' = [answers EXCEPT ![questionIndex] = value]
        BY <3>1 DEF Accept
      <4>2. \A i \in Questions : answers'[i] = IF i = questionIndex THEN value ELSE answers[i]
        BY <4>1 DEF TypeOK
      <4>3. \A i \in Questions : i < questionIndex' <=> i < questionIndex \/ i = questionIndex
        BY <2>0, <4>1
      <4>. QED
        BY <2>0, <4>1, <4>2, <4>3 DEF TypeOK
    <3>2. CASE Reject(value)
      BY <3>2 DEF Reject, TypeOK
    <3>. QED
      BY <1>1, <3>1, <3>2 DEF Reply
  <2>2. buffer' = value /\ tone' = IF questionIndex' < NumQuestions
                                  THEN BehaviorStyle(answers', questionIndex', value) ELSE tone
    BY <1>1 DEF Reply
  <2>3. tone' \in {"neutrale", "empatico", "curioso", "entusiasta"}
    BY <2>0, <2>1, <2>2, ToneType DEF TypeOK
  <2>. QED
    BY <2>0, <2>1, <2>2, <2>3 DEF TypeOK, ToneInv
<1>2. CASE UNCHANGED vars
  BY <1>2 DEF vars, TypeOK, ToneInv
<1>. QED
  BY <1>1, <1>2 DEF Next

LEMMA ToneInvariant == Spec => [](TypeOK /\ ToneInv)
BY InitTypeOK, NextTypeOK, PTL DEF Spec

\* Whatever is replied, and however often replies are rejected, exactly the
\* questions below the index have a rating, and every variable keeps its type
\* (connection.c:111-127, 176-197).
THEOREM TypeCorrect == Spec => []TypeOK
BY ToneInvariant, PTL

\* A finished questionnaire consists of ratings.
LEMMA AllRated ==
    ASSUME TypeOK, Complete
    PROVE  /\ NumQuestions \in Nat /\ NumQuestions > 0 /\ Questions = 0 .. NumQuestions - 1
           /\ \A i \in Questions : answers[i] \in Ratings /\ answers[i] \in Int
           /\ Score(answers, NumQuestions) \in Int
<1>1. NumQuestions \in Nat /\ NumQuestions > 0 /\ Questions = 0 .. NumQuestions - 1
  BY NumQuestionsAssumption DEF Questions
<1>2. \A i \in 0 .. NumQuestions - 1 : answers[i] \in Ratings /\ answers[i] \in Int
  BY <1>1 DEF TypeOK, Complete, Ratings
<1>3. Score(answers, NumQuestions) \in Int
  BY <1>1, <1>2, ScoreType
<1>. QED
  BY <1>1, <1>2, <1>3

\* Opposite persons get opposite styles, whatever they answered, thresholds
\* included (connection.c:200-224).
THEOREM OppositeStyles == Spec => []MirrorImage
<1>1. TypeOK => MirrorImage
  <2>. DEFINE score == Score(answers, NumQuestions)
  <2>. SUFFICES ASSUME TypeOK, Complete
                PROVE  Rank(StyleOf(answers)) + Rank(StyleOf(Mirror)) =
                           IF score \in {3 * NumQuestions, 5 * NumQuestions} THEN 5 ELSE 4
    BY DEF MirrorImage
  <2>1. \A i \in 0 .. NumQuestions - 1 : answers[i] \in Int /\ Mirror[i] = 8 - answers[i]
    BY AllRated DEF Mirror
  <2>. HIDE DEF Mirror
  <2>2. Score(Mirror, NumQuestions) = 8 * NumQuestions - score
    BY <2>1, AllRated, ScoreMirrored
  <2>3. score \in Int /\ NumQuestions \in Nat /\ NumQuestions > 0
    BY AllRated
  <2>4. /\ StyleOf(answers) = IF score < 3 * NumQuestions THEN "riservato"
                              ELSE IF score < 5 * NumQuestions THEN "neutro" ELSE "aperto"
        /\ StyleOf(Mirror) = IF 8 * NumQuestions - score < 3 * NumQuestions THEN "riservato"
                             ELSE IF 8 * NumQuestions - score < 5 * NumQuestions
                             THEN "neutro" ELSE "aperto"
    BY <2>2 DEF StyleOf
  <2>. HIDE DEF score
  <2>5. Rank("riservato") = 1 /\ Rank("neutro") = 2 /\ Rank("aperto") = 3
    BY DEF Rank
  <2>. QED
    BY <2>3, <2>4, <2>5
<1>. QED
  BY <1>1, TypeCorrect, PTL

\* Saying the same to everything says nothing, for every even number of
\* questions: the code's ten, half of them reversed (connection.c:201-208).
THEOREM SameAnswersNeutral ==
    NumQuestions % 2 = 0 => (Spec => []SameAnswersAreNeutral)
<1>. SUFFICES ASSUME NumQuestions % 2 = 0 PROVE Spec => []SameAnswersAreNeutral
  OBVIOUS
<1>1. TypeOK => SameAnswersAreNeutral
  <2>. SUFFICES ASSUME TypeOK, Complete, \A i \in Questions : answers[i] = answers[0]
                PROVE  StyleOf(answers) = "neutro"
    BY DEF SameAnswersAreNeutral
  <2>1. NumQuestions \in 0 .. 10 /\ 0 \in Questions
    BY NumQuestionsAssumption DEF Questions
  <2>2. answers[0] \in Int /\ \A i \in 0 .. NumQuestions - 1 : answers[i] = answers[0]
    BY <2>1, AllRated
  <2>3. Score(answers, NumQuestions) = 4 * NumQuestions
    BY <2>1, <2>2, ScoreConstant
  <2>. QED
    BY <2>3, AllRated DEF StyleOf
<1>. QED
  BY <1>1, TypeCorrect, PTL

\* A more extroverted answer never makes the style more reserved, to whichever
\* statement it is given (connection.c:75-84, 201-224).
THEOREM MoreExtroverted == Spec => []ExtroversionIsMonotone
<1>1. TypeOK => ExtroversionIsMonotone
  <2>. SUFFICES ASSUME TypeOK, Complete, NEW i \in Questions, NEW more \in Ratings,
                       more = IF i \in IntrovertStatements THEN answers[i] - 1
                              ELSE answers[i] + 1
                PROVE  Rank(StyleOf([answers EXCEPT ![i] = more])) >= Rank(StyleOf(answers))
    BY DEF ExtroversionIsMonotone
  <2>. DEFINE t == [answers EXCEPT ![i] = more]
  <2>1. \A j \in 0 .. NumQuestions - 1 :
           answers[j] \in Int /\ t[j] \in Int /\ (j # i => t[j] = answers[j])
    BY AllRated DEF Ratings, TypeOK
  <2>2. t[i] = more
    BY DEF TypeOK
  <2>. HIDE DEF t
  <2>3. i \in 0 .. NumQuestions - 1 /\ answers[i] \in Int
    BY AllRated
  <2>4. Score(t, NumQuestions) = Score(answers, NumQuestions) + Scored(t, i) - Scored(answers, i)
    BY <2>1, <2>3, AllRated, ScoreChanged
  <2>5. Scored(t, i) = Scored(answers, i) + 1 /\ Scored(answers, i) \in Int
    BY <2>2, <2>3 DEF Scored, ReverseCoded, IntrovertStatements
  <2>6. Score(t, NumQuestions) = Score(answers, NumQuestions) + 1
    BY <2>4, <2>5, AllRated
  <2>7. Rank(StyleOf(t)) >= Rank(StyleOf(answers))
    BY <2>6, AllRated DEF StyleOf, Rank
  <2>. QED
    BY <2>7 DEF t
<1>. QED
  BY <1>1, TypeCorrect, PTL

\* The tone GPT is asked for treats opposite persons in opposite ways, after
\* every reply, rejected ones included (connection.c:397-422).
THEOREM OppositeTones == Spec => []MirrorTone
<1>1. TypeOK /\ ToneInv => MirrorTone
  <2>. DEFINE n == questionIndex
  <2>. SUFFICES ASSUME TypeOK, ToneInv, n \in 1 .. NumQuestions - 1 PROVE MirrorTone
    BY DEF MirrorTone
  <2>1. /\ n \in Nat /\ n > 0 /\ 0 .. n - 1 \subseteq Questions
        /\ \A i \in 0 .. n - 1 : i \in Questions /\ i < n
    BY NumQuestionsAssumption DEF TypeOK, Questions
  <2>2. \A i \in 0 .. n - 1 : answers[i] \in Int /\ Mirror[i] = 8 - answers[i]
    BY <2>1 DEF TypeOK, Ratings, Mirror
  <2>3. buffer \in Int /\ tone = BehaviorStyle(answers, n, buffer)
    BY <2>1, NumQuestionsAssumption DEF TypeOK, ToneInv
  <2>. HIDE DEF Mirror
  <2>4. Score(Mirror, n) = 8 * n - Score(answers, n) /\ Score(answers, n) \in Int
    BY <2>1, <2>2, ScoreMirrored, ScoreType
  <2>. HIDE DEF n
  <2>5. CASE Score(answers, n) < 3 * n
    BY <2>1, <2>3, <2>4, <2>5 DEF BehaviorStyle, MirrorTone, n
  <2>6. CASE Score(answers, n) > 5 * n
    BY <2>1, <2>3, <2>4, <2>6 DEF BehaviorStyle, MirrorTone, n
  <2>7. CASE 3 * n < Score(answers, n) /\ Score(answers, n) < 5 * n
    BY <2>1, <2>3, <2>4, <2>7 DEF BehaviorStyle, MirrorTone, n
  <2>8. CASE Score(answers, n) \in {3 * n, 5 * n}
    BY <2>1, <2>8 DEF MirrorTone, n
  <2>. QED
    BY <2>1, <2>4, <2>5, <2>6, <2>7, <2>8
<1>. QED
  BY <1>1, ToneInvariant, PTL
=============================================================================
