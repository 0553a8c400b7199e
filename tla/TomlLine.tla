------------------------------ MODULE TomlLine ------------------------------
(***************************************************************************)
(* What toml.c makes of one "key = value" line.  A line is a sequence of   *)
(* characters; of the alphabet only the characters the code treats apart   *)
(* are told apart.  The texts that an operator may want to write are the   *)
(* state: every text over Alphabet up to MaxText, one character a step.    *)
(***************************************************************************)
EXTENDS Integers, Sequences, SequencesExt

CONSTANTS
    Alphabet,           \* the characters of the texts
    MaxText,            \* the longest text
    BufSize             \* sizeof buf in parse_scalar

Quote == "\""
Apostrophe == "'"
Backslash == "\\"
Newline == "\n"
Blanks == {" ", "\t", "\r", Newline}
Digits == {"0", "1", "2", "3", "4", "5", "6", "7", "8", "9"}

ConstantsOK == MaxText \in Nat /\ BufSize > MaxText

VARIABLE text

-----------------------------------------------------------------------------
(* The reader *)

Blank(c) == c \in Blanks
Solid(c) == c \notin Blanks

Trim(s) ==
    IF SelectInSeq(s, Solid) = 0 THEN <<>>
    ELSE SubSeq(s, SelectInSeq(s, Solid), SelectLastInSeq(s, Solid))

\* What the quote state is after c, outside a comment.
QuoteAfter(mode, c) ==
    CASE mode = "basic" -> IF c = Quote THEN "out" ELSE "basic"
      [] mode = "literal" -> IF c = Apostrophe THEN "out" ELSE "literal"
      [] c = Quote -> "basic"
      [] c = Apostrophe -> "literal"
      [] OTHER -> "out"

\* Fault: a literal string does not hide a hash.
StripBasicOnly(line) ==
    FoldLeft(LAMBDA st, c :
                 IF st.mode = "cut" \/ (st.mode # "basic" /\ c = "#") THEN [st EXCEPT !.mode = "cut"]
                 ELSE [mode |-> QuoteAfter(st.mode, c), kept |-> Append(st.kept, c)],
             [mode |-> "out", kept |-> <<>>], line).kept

StripComment(line) ==
    FoldLeft(LAMBDA st, c :
                 IF st.mode = "cut" \/ (st.mode = "out" /\ c = "#") THEN [st EXCEPT !.mode = "cut"]
                 ELSE [mode |-> QuoteAfter(st.mode, c), kept |-> Append(st.kept, c)],
             [mode |-> "out", kept |-> <<>>], line).kept

Unescaped(c) ==
    CASE c = "n" -> Newline [] c = "t" -> "\t" [] c = "r" -> "\r" [] OTHER -> c

\* p is what follows the opening quote; a backslash with nothing behind it
\* stands for itself.
ParseBasicString(p) ==
    LET Step(st, c) ==
            CASE st.mode = "end" -> st
              [] st.mode = "escape" -> [mode |-> "plain", out |-> Append(st.out, Unescaped(c))]
              [] c = Quote \/ Len(st.out) + 1 >= BufSize -> [st EXCEPT !.mode = "end"]
              [] c = Backslash -> [st EXCEPT !.mode = "escape"]
              [] OTHER -> [st EXCEPT !.out = Append(@, c)]
        st == FoldLeft(Step, [mode |-> "plain", out |-> <<>>], p)
    IN  IF st.mode = "escape" THEN Append(st.out, Backslash) ELSE st.out

ParseLiteralString(p) ==
    LET end == SelectInSeq(p \o <<Apostrophe>>, LAMBDA c : c = Apostrophe) - 1
    IN  SubSeq(p, 1, IF end >= BufSize THEN BufSize - 1 ELSE end)

\* strtoll accepts the whole of s, saturation aside.
Signed(s) == s # <<>> /\ Head(s) \in {"+", "-"}
IsInteger(s) ==
    LET body == IF Signed(s) THEN Tail(s) ELSE s
    IN  body # <<>> /\ \A i \in DOMAIN body : body[i] \in Digits

DigitValue == [d \in Digits |->
    CASE d = "0" -> 0 [] d = "1" -> 1 [] d = "2" -> 2 [] d = "3" -> 3 [] d = "4" -> 4
      [] d = "5" -> 5 [] d = "6" -> 6 [] d = "7" -> 7 [] d = "8" -> 8 [] d = "9" -> 9]

IntegerValue(s) ==
    LET body == IF Signed(s) THEN Tail(s) ELSE s
        abs == FoldLeft(LAMBDA n, d : 10 * n + DigitValue[d], 0, body)
    IN  IF s[1] = "-" THEN -abs ELSE abs

Bad == [type |-> "bad"]
String(v) == [type |-> "string", s |-> v]

ParseScalar(tok) ==
    LET clean == SelectSeq(tok, LAMBDA c : c # "_")
    IN  CASE tok # <<>> /\ tok[1] = Quote -> String(ParseBasicString(Tail(tok)))
          [] tok # <<>> /\ tok[1] = Apostrophe -> String(ParseLiteralString(Tail(tok)))
          [] tok \in {<<"t", "r", "u", "e">>, <<"f", "a", "l", "s", "e">>} ->
                [type |-> "bool", b |-> tok[1] = "t"]
          [] OTHER -> IF IsInteger(clean) THEN [type |-> "int", i |-> IntegerValue(clean)] ELSE Bad

\* How far the element at the front of p goes: to the next quote of its own
\* kind, or up to the next comma.
ElementEnd(p) ==
    IF p[1] \in {Quote, Apostrophe}
    THEN LET close == SelectInSeq(Tail(p) \o <<p[1]>>, LAMBDA c : c = p[1])
         IN  IF close + 1 > Len(p) THEN Len(p) ELSE close + 1
    ELSE SelectInSeq(p \o <<",">>, LAMBDA c : c = ",") - 1

\* parse_array: the values of body from its place i on.
ParseArray(body) ==
    LET Skipped(p) ==
            LET i == SelectInSeq(p, LAMBDA c : Solid(c) /\ c # ",")
            IN  IF i = 0 THEN <<>> ELSE SubSeq(p, i, Len(p))
        from[i \in 1..(Len(body) + 1)] ==
            LET p == Skipped(SubSeq(body, i, Len(body)))
                next == Len(body) - Len(p) + ElementEnd(p) + 1
            IN  IF p = <<>> THEN <<>>
                ELSE <<ParseScalar(Trim(SubSeq(p, 1, ElementEnd(p))))>> \o from[next]
        values == from[1]
    IN  IF \E i \in DOMAIN values : values[i] = Bad THEN Bad
        ELSE [type |-> "array", arr |-> values]

\* toml_parse_file on a line that is not a header: the key and the value.
ParseLine(line) ==
    LET s == Trim(StripComment(line))
        eq == SelectInSeq(s, LAMBDA c : c = "=")
        val == Trim(SubSeq(s, eq + 1, Len(s)))
        close == SelectLastInSeq(val, LAMBDA c : c = "]")
    IN  IF eq = 0 \/ Trim(SubSeq(s, 1, eq - 1)) = <<>> THEN Bad
        ELSE IF val # <<>> /\ val[1] = "["
             THEN IF close = 0 THEN Bad ELSE ParseArray(SubSeq(val, 2, close - 1))
             ELSE ParseScalar(val)

-----------------------------------------------------------------------------
(* The operator *)

Init == text = <<>>

Type == Len(text) < MaxText /\ \E c \in Alphabet : text' = Append(text, c)

Next == Type

Spec == Init /\ [][Next]_text

\* How a text is written as a basic string.
Written(t) ==
    LET Escaped(c) ==
            CASE c \in {Quote, Backslash} -> <<Backslash, c>>
              [] c = Newline -> <<Backslash, "n">>
              [] OTHER -> <<c>>
    IN  <<Quote>> \o FoldLeft(LAMBDA s, c : s \o Escaped(c), <<>>, t) \o <<Quote>>

Line(value) == <<"k", " ", "=", " ">> \o value \o <<" ", "#", "c", Quote, Newline>>

Count(s, c) == Len(SelectSeq(s, LAMBDA d : d = c))

\* A hash behind an odd number of quotes of the text's own.
HashExposed(t) ==
    \E i \in DOMAIN t : t[i] = "#" /\ Count(SubSeq(t, 1, i), Quote) % 2 = 1

\* A text written as a basic string, with a comment behind it, is read back as
\* it was meant, whatever quotes, backslashes, hashes and newlines it is made
\* of.  strip_comment, parse_basic_string and trim have to agree on where the
\* string ends.  They do not when a hash is behind an odd number of quotes of
\* the text's own: strip_comment takes an escaped quote for the end.
MostReadBack == ~HashExposed(text) => ParseLine(Line(Written(text))) = String(text)

\* The same of literal strings, which have no escapes.
LiteralReadsBack ==
    Count(text, Apostrophe) = 0 /\ Count(text, Newline) = 0 =>
        ParseLine(Line(<<Apostrophe>> \o text \o <<Apostrophe>>)) = String(text)

\* An array of two strings is read as two strings, whatever commas, brackets
\* and hashes they hold (parse_array, strrchr).  Escapes are left out: where a
\* quoted element ends is decided without them.
ArrayReadsBack ==
    Count(text, Apostrophe) = 0 /\ Count(text, Newline) = 0 =>
        LET element == <<Apostrophe>> \o text \o <<Apostrophe>>
        IN  ParseLine(Line(<<"[">> \o element \o <<",", " ", "1", "_", "0", ",">> \o element \o <<"]">>))
            = [type |-> "array", arr |-> <<String(text), [type |-> "int", i |-> 10], String(text)>>]
=============================================================================
