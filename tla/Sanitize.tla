------------------------------ MODULE Sanitize ------------------------------
(***************************************************************************)
(* sanitize_for_json of server/connection.c: the text of a GPT reply,      *)
(* byte by byte, into the buffer that is put between the quotes of a JSON  *)
(* line.  One action per way through the copying loop, one for a round of  *)
(* the trimming loop.  Bytes are told apart as the code does: a "break" is *)
(* \n or \r, a "letter" is any byte that is none of the others.            *)
(***************************************************************************)
EXTENDS Integers, Sequences

CONSTANTS OutputSize,   \* output_size, BUFFER_SIZE = 1024 in every call
          MaxInput      \* how long a reply may be

\* From 2 on: `output_size - 2' is unsigned.
ASSUME SanitizeAssumption ==
    /\ OutputSize \in Nat /\ OutputSize >= 2
    /\ MaxInput \in Nat

VARIABLES input, i,     \* the reply, and the position of the next byte of it
          output,       \* output[0 .. output_pos - 1]
          at            \* "copying", "trimming" or "done"

vars == <<input, i, output, at>>

Chars  == {"letter", "space", "break", "quote", "backslash"}
Inputs == UNION {[1 .. n -> Chars] : n \in 0 .. MaxInput}

Init ==
    /\ input \in Inputs
    /\ i = 1 /\ output = <<>> /\ at = "copying"

EndsInSpace == output # <<>> /\ output[Len(output)] = "space"

\* The loop's condition.
CopyGoesOn == i <= Len(input) /\ Len(output) < OutputSize - 1

JoinLines ==              \* mutant: a line break disappears
    input[i] = "break" /\ UNCHANGED output
KeepBreak ==              \* mutant: a line break is copied as it is
    input[i] = "break" /\ output' = Append(output, input[i])
\* Breaks become a single space, none at the beginning.
ReplaceBreak ==
    /\ input[i] = "break"
    /\ output' = IF output = <<>> \/ EndsInSpace THEN output ELSE Append(output, "space")

EscapeUnchecked ==        \* mutant: the second byte's room is not tested
    /\ input[i] \in {"quote", "backslash"}
    /\ output' = output \o <<"backslash", input[i]>>
EscapeInHalf ==           \* mutant: as much of it as there is room for
    /\ input[i] \in {"quote", "backslash"}
    /\ output' = IF Len(output) < OutputSize - 2
                 THEN output \o <<"backslash", input[i]>> ELSE Append(output, "backslash")
\* An escape needs room for two; without it the byte is dropped and the loop
\* goes on with the next one.
Escape ==
    /\ input[i] \in {"quote", "backslash"}
    /\ output' = IF Len(output) < OutputSize - 2
                 THEN output \o <<"backslash", input[i]>> ELSE output

Copy == input[i] \in {"letter", "space"} /\ output' = Append(output, input[i])

CopyByte ==
    /\ at = "copying" /\ CopyGoesOn
    /\ ReplaceBreak \/ Escape \/ Copy
    /\ i' = i + 1
    /\ UNCHANGED <<input, at>>

Terminate ==
    /\ at = "copying" /\ ~CopyGoesOn
    /\ at' = "trimming"
    /\ UNCHANGED <<input, i, output>>

Trim ==
    /\ at = "trimming" /\ EndsInSpace
    /\ output' = SubSeq(output, 1, Len(output) - 1)
    /\ UNCHANGED <<input, i, at>>

Return ==
    /\ at = "trimming" /\ ~EndsInSpace
    /\ at' = "done"
    /\ UNCHANGED <<input, i, output>>

Next == CopyByte \/ Terminate \/ Trim \/ Return

Spec == Init /\ [][Next]_vars

----------------------------------------------------------------------------
\* No line break gets into a message that ends at one (connection.c:457-462,
\* ServerConnection.kt:16).
TypeOK ==
    /\ input \in Seq(Chars) /\ i \in Nat \ {0}
    /\ output \in Seq(Chars \ {"break"})
    /\ at \in {"copying", "trimming", "done"}

\* The text and its final zero stay within the buffer, at every step: also
\* when the last two bytes of it meet a byte to be escaped (connection.c:453,
\* 465, 473, 483).
FitsBuffer == Len(output) + 1 <= OutputSize

\* What is written can stand between the quotes of a JSON string: every quote
\* and backslash belongs to one escape, and no escape is left half written,
\* wherever the buffer ends and whatever the trimming takes away
\* (connection.c:464-475, 486-488).
IsJsonText(starts) ==     \* starts: where the escapes begin
    \A k \in 1 .. Len(output) :
        /\ k \in starts =>
               /\ output[k] = "backslash"
               /\ k + 1 \in 1 .. Len(output) /\ k + 1 \notin starts
               /\ output[k + 1] \in {"quote", "backslash"}
        /\ output[k] \in {"quote", "backslash"} => k \in starts \/ k - 1 \in starts
WellFormed == \E starts \in SUBSET (1 .. Len(output)) : IsJsonText(starts)

\* A text that fits is only spaced differently: with all its bytes escaped and
\* its breaks read as spaces, its words are those of the output
\* (connection.c:453-488).
Escaped(c) ==
    CASE c \in {"quote", "backslash"} -> <<"backslash", c>>
      [] c = "break" -> <<"space">>
      [] OTHER -> <<c>>
WholeText ==
    LET text[n \in 0 .. Len(input)] ==
            IF n = 0 THEN <<>> ELSE text[n - 1] \o Escaped(input[n])
    IN  text[Len(input)]
\* One space between words, none before the first or after the last.
Blank(t) == t = <<>> \/ t[Len(t)] = "space"
Spell(t, c) == IF c = "space" /\ Blank(t) THEN t ELSE Append(t, c)
Words(s) ==
    LET spelled[n \in 0 .. Len(s)] ==
            IF n = 0 THEN <<>> ELSE Spell(spelled[n - 1], s[n])
        t == spelled[Len(s)]
    IN  IF t # <<>> /\ Blank(t) THEN SubSeq(t, 1, Len(t) - 1) ELSE t
TextSurvives ==
    at = "done" /\ Len(WholeText) < OutputSize => Words(output) = Words(WholeText)
=============================================================================
