----------------------------- MODULE MCSettings -----------------------------
(* Small instances of Settings for TLC. *)
EXTENDS Settings

MCAbout == {"values", "lines", "groups"}

\* Characters that a rule is about; 97 is a hex digit and an escape code.
MCChars == {Nul, 1, Tab, Newline, Space, 49, 97, Quote, Backslash, Comma, Semicolon, Equals, At, EndParen, 233}
MCTexts(n) == UNION {[1..m -> MCChars] : m \in 0..n}
MCFew == {<<>>, <<Space>>, <<97>>, <<Comma, 97>>, <<At>>, <<1, 49>>, <<Nul>>, Marker(WordInvalid, <<>>)}

MCValues ==
    {StringValue(t) : t \in MCTexts(2)}
    \cup {StringValue(<<c>> \o t \o <<d>>) : c, d \in {Nul, 1, Space, At}, t \in {<<49, 97>>, <<Nul, 49>>, <<Quote, Semicolon>>}}
    \cup {StringValue(Marker(word, <<97>>)) : word \in {WordString, WordByteArray, WordInvalid}}
    \cup {ListValue(<<>>)} \cup {ListValue(<<t>>) : t \in MCFew}
    \cup {ListValue(<<t, u>>) : t, u \in MCFew}
    \cup {IntValue(n) : n \in {-LongMax - 1, -IntMax - 2, -10, -1, 0, 7, IntMax, IntMax + 1, LongMax}}
    \cup {DoubleValue(n) : n \in {-25, -5, 0, 4, 10, 15, 100}}
    \cup {BoolValue(FALSE), BoolValue(TRUE), InvalidValue, FromUnsigned(LongMax), FromUnsigned(LongMax + 1)}

\* Names with every kind of character: "a", "general", "%41", "\", "a/b/c",
\* "General/" with a space and with characters of one, two and four bytes.
MCKeys == {<<97>>, <<Wordgeneral>>, <<Percent, 52, 49>>, <<Backslash>>, <<97, Slash, 98, Slash, 99>>,
           <<WordGeneral, Slash, Space>>, <<Wordgeneral, Slash, 233>>, <<256, Slash, 66000>>,
           <<Percent, WordGeneral, Slash, Bracket>>, <<Semicolon, Slash, Equals>>, <<Slash, 97, Slash, Slash, 98, Slash>>}

\* Lines as a person may write them: sections that the writer never makes,
\* spaces, quotes, comments, escapes, and lines that are none.
Line(t) == Append(t, Newline)
MCLines == {
    Line(<<97, Equals, 49>>),
    Line(<<Space, 98, Space, Equals, Tab, 49, Space>>),
    Line(<<97, Equals, Quote, 49, Comma, Quote, Space, 50, Comma, Space, 51, Space, Comma>>),
    Line(<<98, Equals, 49, Space, Semicolon, 99>>),
    Line(<<98, Equals, Backslash, Letterx, 54, 49, Backslash, 54, 49, Backslash>>),
    Line(<<Percent, 54, 49, Equals, At, At, Backslash, Newline, Return, 50>>),
    Line(<<98, Backslash, 99, Equals>> \o Marker(WordInvalid, <<>>)),
    Line(<<Semicolon, 99>>),
    Line(<<Equals, 49>>),
    Line(<<99>>),
    Line(<<Bracket, Space, 97, EndBracket>>),
    Line(<<Bracket, 97, Backslash, 98, EndBracket>>),
    Line(<<Bracket, Wordgeneral, EndBracket, 99>>),
    Line(<<Bracket, Percent, WordGeneral, EndBracket>>),
    Line(<<Bracket, 98>>)}
MCFiles == {l \o m \o n : l, m, n \in MCLines}

Nothing == [files |-> {<<>>}, edits |-> {}, first |-> {}, keys |-> {}, values |-> {},
            names |-> {}, sizes |-> {}, indices |-> {}, calls |-> 0]

MCInputs == [a \in MCAbout |->
    CASE a = "values" ->
            [Nothing EXCEPT
                !.first = ({<<97>>, <<97, Slash, 98>>} \X MCValues) \cup (MCKeys \X {IntValue(1)}),
                !.keys = {<<97>>}, !.values = {BoolValue(TRUE)}, !.calls = 2]
      [] a = "lines" ->
            [Nothing EXCEPT
                !.files = MCFiles, !.edits = {Line(<<98, Equals, 50>>), <<ByteOrderMark>> \o Line(<<97, Equals, 50>>)},
                !.keys = {<<97>>}, !.values = {IntValue(2)}, !.calls = 1]
      [] a = "groups" ->
            [Nothing EXCEPT
                !.keys = {<<97>>, <<>>}, !.values = {IntValue(1)},
                !.names = {<<98, Slash, 99, Slash>>, <<Slash>>}, !.sizes = {-1, 1},
                !.indices = {-1, 9}, !.calls = 4]]
=============================================================================
