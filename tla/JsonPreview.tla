---------------------------- MODULE JsonPreview ----------------------------
(****************************************************************************)
(* FirstStringFieldExtractor: the text of one field of a JSON object is     *)
(* passed on while the object is still being received.  A text is a         *)
(* sequence of symbols: "{", "}", ":", "q" for a quote, "b" for a           *)
(* backslash, "k" for the name of the field, "u", "h" and "l" for the       *)
(* digits of a high and a low surrogate, and "x" for anything else.  The    *)
(* four digits of an escape are one symbol.                                 *)
(****************************************************************************)
EXTENDS Naturals, Sequences, SequencesExt

CONSTANT Texts    \* what a model may answer: [symbols, value, known], the value where it is known

VARIABLES
    text,     \* what it answers
    fed,      \* how much of it has been received
    reader,   \* [pos, depth, state, key, value, out]
    finished

vars == <<text, fed, reader, finished>>

Digits == {"h", "l", "x"}
Fresh == [pos |-> 1, depth |-> 0, state |-> "scan", key |-> FALSE, value |-> FALSE, out |-> <<>>]

\* _read_string: where the token that starts at i ends, 0 if it is cut off, and what it is.
Token(t, start) ==
    LET cut == [end |-> 0, name |-> <<>>]
        Behind(c, token) == [token EXCEPT !.name = <<c>> \o @]
        from[i \in 1..(Len(t) + 3)] ==
          IF i > Len(t) THEN cut
          ELSE IF t[i] = "q" THEN [end |-> i + 1, name |-> <<>>]
          ELSE IF t[i] # "b" THEN Behind(t[i], from[i + 1])
          ELSE IF i = Len(t) \/ (t[i + 1] = "u" /\ i + 2 > Len(t)) THEN cut
          ELSE Behind("x", from[i + IF t[i + 1] = "u" /\ t[i + 2] \in Digits THEN 3 ELSE 2])
    IN from[start]

Out(m, cs, n) == [m EXCEPT !.out = @ \o cs, !.pos = @ + n]
Done(m) == [m EXCEPT !.state = "done"]
Stuck(m) == [m |-> m, go |-> FALSE]
Goes(m) == [m |-> m, go |-> TRUE]

\* Looking for the field: only a name at the top of the object counts.
Scan(m, t) ==
    LET c == t[m.pos]
        next == [m EXCEPT !.pos = @ + 1]
    IN CASE c = "{" -> Goes([next EXCEPT !.depth = @ + 1])
         [] c = "}" -> Goes([next EXCEPT !.depth = IF @ > 0 THEN @ - 1 ELSE 0])
         [] c = "q" ->
              LET k == Token(t, m.pos + 1)
                  after == [m EXCEPT !.pos = k.end]
                  mine == m.depth = 1 /\ k.name = <<"k">>
              IN IF k.end = 0 THEN Stuck(m)
                 ELSE IF ~ mine THEN Goes(after)
                 ELSE IF k.end > Len(t) THEN Stuck([after EXCEPT !.key = TRUE])
                 ELSE IF t[k.end] = ":" THEN Goes([after EXCEPT !.value = TRUE, !.pos = @ + 1])
                 ELSE Goes(after)
         [] OTHER -> Goes(next)

\* In the value: an escape is decoded when all of it is there, a pair when both are.
Value(m, t, final) ==
    LET c == t[m.pos]
        left == Len(t) + 1 - m.pos
        Has(n) == left >= n
        At(n) == t[m.pos + n]
    IN IF c = "q" THEN Stuck([Done(m) EXCEPT !.pos = @ + 1])
       ELSE IF c # "b" THEN Goes(Out(m, <<c>>, 1))
       ELSE IF ~ Has(2) THEN Stuck(IF final THEN [Done(m) EXCEPT !.pos = Len(t) + 1] ELSE m)
       ELSE IF At(1) # "u" THEN Goes(Out(m, <<At(1)>>, 2))
       ELSE IF ~ Has(3) THEN Stuck(IF final THEN [Done(m) EXCEPT !.pos = Len(t) + 1] ELSE m)
       ELSE IF At(2) \notin Digits THEN Goes(Out(m, <<"b", "u">>, 2))
       ELSE IF At(2) # "h" THEN Goes(Out(m, <<At(2)>>, 3))
       ELSE IF ~ Has(6) THEN IF final THEN Stuck(Out(m, <<"h">>, 3)) ELSE Stuck(m)
       ELSE IF At(3) = "b" /\ At(4) = "u" /\ At(5) = "l" THEN Goes(Out(m, <<"pair">>, 6))
       ELSE Goes(Out(m, <<"h">>, 3))

\* A name of the field was read at the end of a piece: is it followed by a colon?  Then:
\* is the value a string?
Pending(m, t) ==
    IF m.key THEN Goes(IF t[m.pos] = ":" THEN [m EXCEPT !.key = FALSE, !.value = TRUE, !.pos = @ + 1]
                       ELSE [m EXCEPT !.key = FALSE])
    ELSE Goes(IF t[m.pos] = "q" THEN [m EXCEPT !.value = FALSE, !.state = "value", !.pos = @ + 1]
              ELSE Done([m EXCEPT !.value = FALSE]))

\* feed and finish: on through what is there.  A step that goes on moves forward, but for a
\* first one that sees no colon behind the name.
Step(m, t, final) ==
    IF m.key \/ m.value THEN Pending(m, t)
    ELSE IF m.state = "scan" THEN Scan(m, t) ELSE Value(m, t, final)
Run(m, t, final) ==
    LET most == Len(t) + 2 - m.pos
        after[n \in 0..most] ==
          IF n = 0 THEN Goes(m)
          ELSE LET s == after[n - 1] IN
               IF ~ s.go \/ s.m.pos > Len(t) \/ s.m.state = "done" THEN s ELSE Step(s.m, t, final)
    IN after[most].m

Init == text \in Texts /\ fed = 0 /\ reader = Fresh /\ finished = FALSE

Feed ==
    /\ fed < Len(text.symbols)
    /\ \E n \in (fed + 1)..Len(text.symbols) :
         /\ fed' = n
         /\ reader' = Run(reader, SubSeq(text.symbols, 1, n), FALSE)
    /\ UNCHANGED <<text, finished>>

\* The model may stop anywhere.
Finish ==
    /\ ~ finished
    /\ reader' = Run(reader, SubSeq(text.symbols, 1, fed), TRUE)
    /\ finished' = TRUE
    /\ UNCHANGED <<text, fed>>

Next == (~ finished /\ Feed) \/ Finish

-----------------------------------------------------------------------------
AtOnce(n, final) == Run(Run(Fresh, SubSeq(text.symbols, 1, n), FALSE), SubSeq(text.symbols, 1, n), final).out
Size == Len(text.symbols)

\* The preview does not depend on where the pieces were cut, "between a key and its colon,
\* inside an escape sequence, or inside a surrogate pair" (module docstring); nothing that
\* was passed on is ever taken back; and in the end it is the value of the field.
CutsDoNotShow ==
    /\ reader.out = AtOnce(fed, finished)
    /\ ~ finished => IsPrefix(reader.out, AtOnce(Size, TRUE))
    /\ finished /\ fed = Size /\ text.known => reader.out = text.value
=============================================================================
