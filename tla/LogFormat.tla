----------------------------- MODULE LogFormat -----------------------------
(***************************************************************************)
(* gdres::LogFormatter (log/log.h, log.cpp): how a pattern becomes the     *)
(* items that write a line.                                                *)
(*                                                                         *)
(* A pattern is a sequence of characters.  The items of a line are         *)
(*   [kind |-> "text", text, fmt |-> <<>>]   text written as it is         *)
(*   [kind |-> "item", text, fmt]            the field named by the key    *)
(*                                           text: %text or %text{fmt}     *)
(*   [kind |-> "unknown", text, fmt |-> <<>>]    <<error_format %text>>    *)
(*   PatternError                                <<pattern_error>>         *)
(***************************************************************************)
EXTENDS Integers, Sequences, FiniteSetsExt

CONSTANT Letters    \* the characters isalpha() accepts

\* s_format_items, one class of FormatItem for each key.
Keys == {"m", "p", "r", "c", "t", "n", "d", "f", "l", "T", "F", "N"}

TextItem(s) == [kind |-> "text", text |-> s, fmt |-> <<>>]
PatternError == [kind |-> "error", text |-> <<>>, fmt |-> <<>>]

KeyItem(s, fmt) ==
  IF Len(s) = 1 /\ s[1] \in Keys
    THEN [kind |-> "item", text |-> s, fmt |-> fmt]
    ELSE [kind |-> "unknown", text |-> s, fmt |-> <<>>]

Least(S, otherwise) == IF S = {} THEN otherwise ELSE Min(S)

\* Where the key that begins after position i ends: at the first character
\* that is neither a letter nor a closing brace.
KeyEnd(p, i) ==
  Least({j \in i + 1 .. Len(p) : p[j] \notin Letters \cup {"}"}}, Len(p) + 1)

Braced(p, i) == KeyEnd(p, i) <= Len(p) /\ p[KeyEnd(p, i)] = "{"

\* The brace that closes the format of the key after i, 0 if there is none.
Closing(p, i) == Least({j \in KeyEnd(p, i) + 1 .. Len(p) : p[j] = "}"}, 0)

KeyText(p, i) == SubSeq(p, i + 1, KeyEnd(p, i) - 1)

AfterKey(p, i) == IF Braced(p, i) THEN Closing(p, i) + 1 ELSE KeyEnd(p, i)

Flush(r) ==
  r.errors \o (IF r.text = <<>> THEN <<>> ELSE <<TextItem(r.text)>>) \o r.items

\* LogFormatter::Init().  from[i] is what the pattern gives from position i on:
\* text is added to the text that is pending, and the items follow it; an
\* unclosed brace puts its error before the text that is pending, and the
\* character % is then passed over.  Of two %, the second begins a key.
Items(p) ==
  LET from[i \in 1 .. Len(p) + 1] ==
        CASE i > Len(p) -> [errors |-> <<>>, text |-> <<>>, items |-> <<>>]
          [] i <= Len(p) /\ (p[i] # "%" \/ (i < Len(p) /\ p[i + 1] = "%")) ->
               [from[i + 1] EXCEPT !.text = <<p[i]>> \o @]
          [] i <= Len(p) /\ p[i] = "%" /\ ~ (i < Len(p) /\ p[i + 1] = "%") ->
               IF Braced(p, i) /\ Closing(p, i) = 0
                 THEN [from[i + 1] EXCEPT !.errors = <<PatternError>> \o @]
                 ELSE [errors |-> <<>>, text |-> <<>>,
                       items |-> <<KeyItem(KeyText(p, i),
                                           IF Braced(p, i)
                                             THEN SubSeq(p, KeyEnd(p, i) + 1, Closing(p, i) - 1)
                                             ELSE <<>>)>>
                                 \o Flush(from[AfterKey(p, i)])]
  IN Flush(from[1])
============================================================================
