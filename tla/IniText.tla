------------------------------- MODULE IniText -------------------------------
(***************************************************************************)
(* What a settings file says: SettingsValue with its conversions, and      *)
(* SettingsIniCodec, which writes keys and values as INI text and reads    *)
(* such text back, its own or a person's.                                  *)
(*                                                                         *)
(* A text is a sequence of code points, and valid UTF-8 is the only        *)
(* encoding of it; a name of letters that no rule takes apart is one       *)
(* "word" above the last code point.  A double is a number of tenths.      *)
(* The widths of int and long long are constants, since TLC counts less    *)
(* far than either.                                                        *)
(***************************************************************************)
EXTENDS Integers, SequencesExt, FiniteSetsExt, TLC

CONSTANTS
    IntMax,   \* the largest int, its smallest being -IntMax - 1
    LongMax   \* the largest long long

ASSUME IniAssumption == IntMax \in Nat /\ LongMax \in Nat /\ IntMax <= LongMax

Nul == 0         Tab == 9        Newline == 10    Return == 13
Space == 32      Quote == 34     Percent == 37    Paren == 40
EndParen == 41   Plus == 43      Comma == 44      Minus == 45
Dot == 46        Slash == 47     Semicolon == 59  Equals == 61
At == 64         Bracket == 91   Backslash == 92  EndBracket == 93
LetterU == 85    Letterx == 120  ByteOrderMark == 65279

Word(n) == 2097152 + n
IsWord(c) == c > 1114111
WordInvalid == Word(1)   WordString == Word(2)    WordByteArray == Word(3)
WordTrue == Word(4)      WordFalse == Word(5)
WordGeneral == Word(6)   Wordgeneral == Word(7)   \* the same but for case

ControlLetter == 7 :> 97 @@ 8 :> 98 @@ 12 :> 102 @@ 10 :> 110 @@ 13 :> 114 @@ 9 :> 116 @@ 11 :> 118
EscapeCodes == [c \in {97, 98, 102, 110, 114, 116, 118, Quote, 63, 39, Backslash} |->
                   IF c \in {Quote, 63, 39, Backslash} THEN c
                   ELSE CHOOSE b \in DOMAIN ControlLetter : ControlLetter[b] = c]

Blank == {Space, Tab}
TrimSpace == {Space, Tab, Newline, Return, 11, 12}
LineSpace == {Space, Tab, Newline, Return}
Special == {Newline, Return, Quote, Semicolon, Equals, Backslash}

FromHex(c) ==
    CASE c \in 48..57  -> c - 48
      [] c \in 97..102 -> c - 87
      [] c \in 65..70  -> c - 55
      [] OTHER         -> -1
FromOct(c) == IF c \in 48..55 THEN c - 48 ELSE -1
HexLower(d) == IF d < 10 THEN 48 + d ELSE 87 + d
HexUpper(d) == IF d < 10 THEN 48 + d ELSE 55 + d
AppendHexLower(n) == IF n < 16 THEN <<HexLower(n)>> ELSE <<HexLower(n \div 16), HexLower(n % 16)>>

\* F(v), with v evaluated once wherever F names it.
With(v, F(_)) == CHOOSE y \in {F(x) : x \in {v}} : TRUE

\* The first position from i on that has a character of a kind, or the end.
NextOf(text, i, Kind(_)) ==
    LET found == {j \in i..Len(text) : Kind(text[j])} IN
    IF found = {} THEN Len(text) + 1 ELSE Min(found)

\* Without the characters of a set at both ends.
Trimmed(text, space) ==
    LET kept == {i \in DOMAIN text : text[i] \notin space} IN
    IF kept = {} THEN <<>> ELSE SubSeq(text, Min(kept), Max(kept))

RECURSIVE ChopTrailingSpaces(_, _)
ChopTrailingSpaces(text, limit) ==
    IF Len(text) > limit /\ text[Len(text)] \in Blank
    THEN ChopTrailingSpaces(Front(text), limit)
    ELSE text

-----------------------------------------------------------------------------
(* Values. *)

Value(type, number, text, list) == [type |-> type, number |-> number, text |-> text, list |-> list]
InvalidValue == Value("Invalid", 0, <<>>, <<>>)
BoolValue(b) == Value("Bool", IF b THEN 1 ELSE 0, <<>>, <<>>)
IntValue(n) == Value("Int", n, <<>>, <<>>)
DoubleValue(tenths) == Value("Double", tenths, <<>>, <<>>)
StringValue(text) == Value("String", 0, text, <<>>)
ListValue(list) == Value("StringList", 0, <<>>, list)

\* An unsigned number that no long long holds is refused, not wrapped.
FromUnsigned(n) == IF n > LongMax THEN InvalidValue ELSE IntValue(n)

RECURSIVE Digits(_)
Digits(n) == (IF n < 10 THEN <<>> ELSE Digits(n \div 10)) \o <<48 + (n % 10)>>
Signed(n, text) == IF n < 0 THEN <<Minus>> \o text ELSE text
Magnitude(n) == IF n < 0 THEN -n ELSE n

FormatLong(n) == Signed(n, Digits(Magnitude(n)))
FormatDouble(tenths) ==
    LET m == Magnitude(tenths) IN
    Signed(tenths, Digits(m \div 10) \o IF m % 10 = 0 THEN <<>> ELSE <<Dot, 48 + (m % 10)>>)

\* trimmed() and skipPlusSign().
Number(text) ==
    LET t == Trimmed(text, TrimSpace) IN
    IF Len(t) > 1 /\ t[1] = Plus /\ t[2] \notin {Plus, Minus} THEN Tail(t) ELSE t

Got(ok, number) == [ok |-> ok, number |-> IF ok THEN number ELSE 0]
AllDigits(t) == t # <<>> /\ \A i \in DOMAIN t : t[i] \in 48..57
InLong(n) == n \in (-LongMax - 1)..LongMax
Decimal(t) == FoldLeft(LAMBDA n, c : 10 * n + c - 48, 0, t)

ParseLong(text) ==
    LET t == Number(text)
        negative == t # <<>> /\ t[1] = Minus
        digits == IF negative THEN Tail(t) ELSE t
        n == IF ~AllDigits(digits) THEN 0 ELSE IF negative THEN -Decimal(digits) ELSE Decimal(digits)
    IN  Got(AllDigits(digits) /\ InLong(n), n)

ParseBool(text) ==
    LET t == Trimmed(text, TrimSpace) IN
    Got(t \in {<<49>>, <<WordTrue>>, <<48>>, <<WordFalse>>}, IF t \in {<<49>>, <<WordTrue>>} THEN 1 ELSE 0)

\* Digits with at most one decimal.
ParseDouble(text) ==
    LET t == Number(text)
        negative == t # <<>> /\ t[1] = Minus
        u == IF negative THEN Tail(t) ELSE t
        dot == NextOf(u, 1, LAMBDA c : c = Dot)
        whole == SubSeq(u, 1, dot - 1)
        rest == SubSeq(u, dot + 1, Len(u))
        ok == AllDigits(whole) /\ (rest = <<>> \/ (AllDigits(rest) /\ Len(rest) = 1))
        n == IF ok THEN 10 * Decimal(whole) + Decimal(rest) ELSE 0
    IN  Got(ok, IF negative THEN -n ELSE n)

\* A value that a conversion reads from text: text itself, or a list of one.
HasText(v) == v.type = "String" \/ (v.type = "StringList" /\ Len(v.list) = 1)
TextOf(v) == IF v.type = "String" THEN v.text ELSE v.list[1]
NotConverted == Got(FALSE, 0)

ToBool(v) ==
    CASE v.type \in {"Bool", "Int", "Double"} -> Got(TRUE, IF v.number # 0 THEN 1 ELSE 0)
      [] HasText(v) -> ParseBool(TextOf(v))
      [] OTHER -> NotConverted

\* round() goes away from zero at a half.
Rounded(tenths) ==
    LET m == (Magnitude(tenths) + 5) \div 10 IN IF tenths < 0 THEN -m ELSE m
ToLong(v) ==
    CASE v.type \in {"Bool", "Int"} -> Got(TRUE, v.number)
      [] v.type = "Double" -> Got(InLong(Rounded(v.number)), Rounded(v.number))
      [] HasText(v) -> ParseLong(TextOf(v))
      [] OTHER -> NotConverted

\* Any narrower type: a number that does not fit is refused.
ToInt(v) ==
    LET long == ToLong(v) IN Got(long.ok /\ long.number \in (-IntMax - 1)..IntMax, long.number)

ToDouble(v) ==
    CASE v.type = "Double" -> Got(TRUE, v.number)
      [] v.type \in {"Bool", "Int"} -> Got(TRUE, 10 * v.number)
      [] HasText(v) -> ParseDouble(TextOf(v))
      [] OTHER -> NotConverted

AsString(v) ==
    CASE v.type = "String" -> v.text
      [] v.type = "Bool" -> IF v.number = 1 THEN <<WordTrue>> ELSE <<WordFalse>>
      [] v.type = "Int" -> FormatLong(v.number)
      [] v.type = "Double" -> FormatDouble(v.number)
      [] v.type = "StringList" /\ Len(v.list) = 1 -> v.list[1]
      [] OTHER -> <<>>

ToStringList(v) ==
    CASE v.type = "StringList" -> v.list
      [] v.type = "Invalid" -> <<>>
      [] OTHER -> <<AsString(v)>>

-----------------------------------------------------------------------------
(* Keys and section names, which are written in UTF-16 code units. *)

HighSurrogate == 55296..56319
LowSurrogate == 56320..57343
Replacement == 65533

Units(text) ==
    FlattenSeq([i \in DOMAIN text |->
        IF text[i] < 65536 \/ IsWord(text[i])
        THEN <<text[i]>>
        ELSE <<55296 + (text[i] - 65536) \div 1024, 56320 + ((text[i] - 65536) % 1024)>>])

RECURSIVE FromUnits(_)
FromUnits(u) ==
    IF u = <<>> THEN <<>>
    ELSE IF u[1] \in HighSurrogate /\ Len(u) > 1 /\ u[2] \in LowSurrogate
    THEN <<65536 + (u[1] - 55296) * 1024 + u[2] - 56320>> \o FromUnits(Tail(Tail(u)))
    ELSE <<IF u[1] \in HighSurrogate \cup LowSurrogate THEN Replacement ELSE u[1]>> \o FromUnits(Tail(u))

IsKeyChar(u) == u \in (48..57) \cup (65..90) \cup (97..122) \cup {95, Minus, Dot} \/ IsWord(u)

EscapeUnit(u) ==
    CASE u = Slash -> <<Backslash>>
      [] IsKeyChar(u) -> <<u>>
      [] u <= 255 /\ u # Slash /\ ~IsKeyChar(u) ->
            <<Percent, HexUpper(u \div 16), HexUpper(u % 16)>>
      [] OTHER -> <<Percent, LetterU, HexUpper(u \div 4096), HexUpper((u \div 256) % 16),
                    HexUpper((u \div 16) % 16), HexUpper(u % 16)>>

EscapeKey(key) == LET u == Units(key) IN FlattenSeq([i \in DOMAIN u |-> EscapeUnit(u[i])])

\* The hex digits of an escape that begins at i, none if it is not one.
EscapeDigits(u, i) ==
    LET wide == i < Len(u) /\ u[i + 1] = LetterU
        first == IF wide THEN i + 2 ELSE i + 1
        last == IF wide THEN i + 5 ELSE i + 2
    IN  IF u[i] = Percent /\ last <= Len(u) /\ \A j \in first..last : FromHex(u[j]) # -1
        THEN SubSeq(u, first, last)
        ELSE <<>>

RECURSIVE UnescapeUnits(_, _)
UnescapeUnits(u, i) ==
    IF i > Len(u) THEN <<>>
    ELSE LET digits == EscapeDigits(u, i) IN
         IF digits = <<>>
         THEN <<IF u[i] = Backslash THEN Slash ELSE u[i]>> \o UnescapeUnits(u, i + 1)
         ELSE <<FoldLeft(LAMBDA n, c : 16 * n + FromHex(c), 0, digits)>>
              \o UnescapeUnits(u, i + Len(digits) + (IF Len(digits) = 4 THEN 2 ELSE 1))

UnescapeKey(key) == FromUnits(UnescapeUnits(Units(key), 1))

-----------------------------------------------------------------------------
(* Values in INI text. *)

\* EscapeCharacter() without the rule for a hex digit after an escape.
EscapeCharacterAlone(done, c) ==
    CASE c = Nul -> [text |-> done.text \o <<Backslash, 48>>, afterCode |-> TRUE]
      [] c \in DOMAIN ControlLetter ->
            [text |-> done.text \o <<Backslash, ControlLetter[c]>>, afterCode |-> FALSE]
      [] c \in {Quote, Backslash} -> [text |-> done.text \o <<Backslash, c>>, afterCode |-> FALSE]
      [] c < 32 /\ c \notin {Nul} \cup DOMAIN ControlLetter ->
            [text |-> done.text \o <<Backslash, Letterx>> \o AppendHexLower(c), afterCode |-> TRUE]
      [] OTHER -> [text |-> Append(done.text, c), afterCode |-> FALSE]

\* Appends a character; a hex digit right after an escape that ends in one
\* would be read as part of it.
EscapeCharacter(done, c) ==
    IF done.afterCode /\ FromHex(c) # -1
    THEN [done EXCEPT !.text = @ \o <<Backslash, Letterx>> \o AppendHexLower(c)]
    ELSE EscapeCharacterAlone(done, c)

NeedsQuotes(text, escaped) ==
    \/ \E i \in DOMAIN text : text[i] \in {Semicolon, Comma, Equals}
    \/ escaped # <<>> /\ Space \in {Head(escaped), Last(escaped)}

EscapeString(text) ==
    LET start == [text |-> <<>>, afterCode |-> FALSE]
        step(done, c) == With(done, LAMBDA d : EscapeCharacter(d, c))
        quoted(escaped) == IF NeedsQuotes(text, escaped) THEN <<Quote>> \o escaped \o <<Quote>> ELSE escaped
    IN  With(FoldLeft(step, start, text).text, quoted)

Marker(word, text) == <<At, word, Paren>> \o text \o <<EndParen>>

\* Empty lists are marked, as they would look like a list of one empty text.
EscapeStringList(list) ==
    IF list = <<>> THEN Marker(WordInvalid, <<>>)
    ELSE FlattenSeq([i \in DOMAIN list |->
            (IF i = 1 THEN <<>> ELSE <<Comma, Space>>) \o EscapeString(list[i])])

\* The reader of values: what it has read, where it is, and how it goes on.
Reader == [at |-> "skip", i |-> 1, text |-> <<>>, list |-> <<>>, isList |-> FALSE,
           inQuotes |-> FALSE, quoted |-> FALSE, code |-> 0, chop |-> 0]

Chopped(r) == IF r.quoted THEN r.text ELSE ChopTrailingSpaces(r.text, r.chop)
Added(r, c) == Append(r.text, IF c \in HighSurrogate \cup LowSurrogate THEN Replacement ELSE c)

SkipSpaces(t, r) ==
    LET j == NextOf(t, r.i, LAMBDA c : c \notin Blank) IN
    [r EXCEPT !.at = "normal", !.i = j, !.chop = Len(r.text)]

\* After a backslash; the character it is in front of may be no escape code.
ReadEscape(t, r) ==
    LET code == t[r.i + 1]
        after == r.i + 2
    IN  CASE code \in DOMAIN EscapeCodes ->
                [r EXCEPT !.text = Append(@, EscapeCodes[code]), !.i = after, !.chop = Len(r.text) + 1]
          [] code = Letterx /\ after > Len(t) -> [r EXCEPT !.at = "end"]
          [] code = Letterx /\ after <= Len(t) /\ FromHex(t[after]) # -1 ->
                [r EXCEPT !.at = "hex", !.i = after, !.code = 0]
          [] FromOct(code) # -1 -> [r EXCEPT !.at = "oct", !.i = after, !.code = FromOct(code)]
          [] {code} \cup {t[j] : j \in DOMAIN t \cap {after}} = {Newline, Return} ->
                [r EXCEPT !.i = after + 1, !.chop = Len(r.text)]
          [] OTHER -> [r EXCEPT !.i = after, !.chop = Len(r.text)]

ReadComma(r) ==
    [r EXCEPT !.at = "skip", !.i = @ + 1, !.list = Append(@, Chopped(r)), !.isList = TRUE,
              !.text = <<>>, !.quoted = FALSE]

ReadNormal(t, r) ==
    LET c == t[r.i]
        j == NextOf(t, r.i + 1, LAMBDA d : d \in {Backslash, Quote, Comma})
    IN  CASE r.i > Len(t) -> [r EXCEPT !.at = "end", !.text = Chopped(r)]
          [] r.i <= Len(t) /\ c = Backslash ->
                IF r.i = Len(t) THEN [r EXCEPT !.at = "end"] ELSE ReadEscape(t, r)
          [] r.i <= Len(t) /\ c = Quote ->
                [r EXCEPT !.i = @ + 1, !.quoted = TRUE, !.inQuotes = ~@,
                          !.at = IF r.inQuotes THEN "skip" ELSE "normal"]
          [] r.i <= Len(t) /\ c = Comma /\ ~r.inQuotes -> ReadComma(r)
          [] OTHER -> [r EXCEPT !.text = @ \o SubSeq(t, r.i, j - 1), !.i = j]

\* One digit more of a code of one UTF-16 unit, or the character it names.
ReadCode(t, r, base) ==
    LET From(c) == IF base = 16 THEN FromHex(c) ELSE FromOct(c) IN
    IF r.i <= Len(t) /\ From(t[r.i]) # -1
    THEN [r EXCEPT !.i = @ + 1, !.code = (@ * base + From(t[r.i])) % 65536]
    ELSE [r EXCEPT !.text = Added(r, r.code), !.chop = Len(r.text) + 1,
                   !.at = IF r.i > Len(t) THEN "end" ELSE "normal"]

ReadPart(t, r) ==
    CASE r.at = "skip"   -> SkipSpaces(t, r)
      [] r.at = "normal" -> ReadNormal(t, r)
      [] r.at = "hex"    -> ReadCode(t, r, 16)
      [] r.at = "oct"    -> ReadCode(t, r, 8)

RECURSIVE ReadOn(_, _)
ReadOn(t, r) == IF r.at = "end" THEN r ELSE With(ReadPart(t, r), LAMBDA s : ReadOn(t, s))

UnescapeStringList(t) ==
    With(ReadOn(t, Reader), LAMBDA r :
        [isList |-> r.isList, text |-> r.text,
         list |-> IF r.isList THEN Append(r.list, r.text) ELSE <<>>])

ValueToString(v) ==
    LET text == AsString(v) IN
    IF v.type = "Invalid" THEN Marker(WordInvalid, <<>>)
    ELSE IF \E i \in DOMAIN text : text[i] = Nul THEN Marker(WordString, text)
    ELSE IF text # <<>> /\ Head(text) = At THEN <<At>> \o text
    ELSE text

StringToValue(t) ==
    LET marked(word) == IsPrefix(<<At, word, Paren>>, t) /\ Last(t) = EndParen IN
    CASE marked(WordByteArray) \/ marked(WordString) -> StringValue(SubSeq(t, 4, Len(t) - 1))
      [] t = Marker(WordInvalid, <<>>) -> InvalidValue
      [] IsPrefix(<<At, At>>, t) -> StringValue(Tail(t))
      [] OTHER -> StringValue(t)

StringListToValue(list) == ListValue([i \in DOMAIN list |-> AsString(StringToValue(list[i]))])

WriteValue(v) ==
    IF v.type = "StringList"
    THEN EscapeStringList([i \in DOMAIN v.list |-> ValueToString(StringValue(v.list[i]))])
    ELSE EscapeString(ValueToString(v))

ReadValue(t) ==
    With(UnescapeStringList(t), LAMBDA u :
        IF u.isList THEN StringListToValue(u.list) ELSE StringToValue(u.text))

-----------------------------------------------------------------------------
(* Files. *)

\* One step of the search for the end of a line: past a character that means
\* something, or to the end.  Blank lines and comments move the start.
ScanLine(data, s) ==
    LET i == NextOf(data, s.i, LAMBDA c : c \in Special)
        c == data[i]
        atStart == i = s.start
        eol == NextOf(data, i, LAMBDA d : d \in {Newline, Return})
        next == NextOf(data, eol, LAMBDA d : d \notin LineSpace)
        pair == i + 2 <= Len(data) /\ {data[i + 1], data[i + 2]} = {Newline, Return}
    IN  CASE i > Len(data) -> [s EXCEPT !.i = i, !.ended = TRUE]
          [] i <= Len(data) /\ c = Equals ->
                [s EXCEPT !.i = i + 1, !.equals = IF ~s.inQuotes /\ @ = 0 THEN i ELSE @]
          [] i <= Len(data) /\ c \in {Newline, Return} ->
                IF atStart THEN [s EXCEPT !.i = i + 1, !.start = i + 1]
                           ELSE [s EXCEPT !.i = IF s.inQuotes THEN i + 1 ELSE i, !.ended = ~s.inQuotes]
          [] i <= Len(data) /\ c = Backslash ->
                [s EXCEPT !.i = IF i = Len(data) THEN i + 1 ELSE IF pair THEN i + 3 ELSE i + 2]
          [] i <= Len(data) /\ c = Quote -> [s EXCEPT !.i = i + 1, !.inQuotes = ~@]
          [] i <= Len(data) /\ c = Semicolon ->
                IF atStart THEN [s EXCEPT !.i = next, !.start = next]
                           ELSE [s EXCEPT !.i = IF s.inQuotes THEN i + 1 ELSE i, !.ended = ~s.inQuotes]

RECURSIVE ScanOn(_, _)
ScanOn(data, s) == IF s.ended THEN s ELSE With(ScanLine(data, s), LAMBDA n : ScanOn(data, n))

ReadLine(data, pos) ==
    With(NextOf(data, pos, LAMBDA c : c \notin LineSpace), LAMBDA start :
        ScanOn(data, [i |-> start, start |-> start, equals |-> 0, inQuotes |-> FALSE, ended |-> FALSE]))

\* The prefix of the keys that follow.  [General] is the top level, and
\* [%General] the group of that name.
ReadSection(line) ==
    LET close == NextOf(line, 1, LAMBDA c : c = EndBracket)
        name == Trimmed(SubSeq(line, 2, close - 1), TrimSpace)
        section == IF name \in {<<Percent, WordGeneral>>, <<Percent, Wordgeneral>>}
                   THEN Tail(name) ELSE UnescapeKey(name)
        top == name \in {<<WordGeneral>>, <<Wordgeneral>>}
    IN  [prefix |-> IF top THEN <<>> ELSE Append(section, Slash),
         ok |-> close <= Len(line) /\ (top \/ Slash \notin ToSet(section))]

\* What a line, which s has found, adds to what was read.
ReadOneLine(data, s, r) ==
    LET line == SubSeq(data, s.start, s.i - 1)
        section == ReadSection(line)
        key == UnescapeKey(Trimmed(SubSeq(data, s.start, s.equals - 1), TrimSpace))
        entry == [value |-> ReadValue(SubSeq(data, s.equals + 1, s.i - 1)), position |-> r.position]
    IN  CASE line[1] = Bracket -> [r EXCEPT !.section = section.prefix, !.ok = @ /\ section.ok]
          [] line[1] # Bracket /\ s.equals = 0 -> [r EXCEPT !.ok = @ /\ line[1] = Semicolon]
          [] line[1] # Bracket /\ s.equals # 0 /\ key = <<>> -> [r EXCEPT !.ok = FALSE]
          [] OTHER -> [r EXCEPT !.keys = r.section \o key :> entry @@ @, !.position = @ + 1]

RECURSIVE ReadLines(_, _, _)
ReadLines(data, pos, r) ==
    With(ReadLine(data, pos), LAMBDA s :
        IF s.i = s.start THEN r
        ELSE With(ReadOneLine(data, s, r), LAMBDA n : ReadLines(data, s.i, n)))

Read(data) ==
    ReadLines(data, IF data # <<>> /\ data[1] = ByteOrderMark THEN 2 ELSE 1,
              [keys |-> [k \in {} |-> k], section |-> <<>>, position |-> 0, ok |-> TRUE])

SectionOf(key) == SubSeq(key, 1, NextOf(key, 1, LAMBDA c : c = Slash) - 1)
HasSection(key) == Slash \in ToSet(key)
SectionName(key) == IF HasSection(key) THEN SectionOf(key) ELSE <<>>
KeyInSection(key) == IF HasSection(key) THEN SubSeq(key, Len(SectionOf(key)) + 2, Len(key)) ELSE key

KeysOf(keys, name) == {k \in DOMAIN keys : SectionName(k) = name}

\* In the order of their positions, and sections in that of their first key.
\* No two keys share a position.
OrderedKeys(keys, name) ==
    SetToSortSeq(KeysOf(keys, name), LAMBDA j, k : keys[j].position < keys[k].position)
OrderedSections(keys) ==
    LET first(name) == Min({keys[k].position : k \in KeysOf(keys, name)}) IN
    SetToSortSeq({SectionName(k) : k \in DOMAIN keys}, LAMBDA m, n : first(m) < first(n))

SectionLine(name) ==
    LET escaped == EscapeKey(name)
        inner == CASE escaped = <<>> -> <<WordGeneral>>
                   [] escaped \in {<<WordGeneral>>, <<Wordgeneral>>} -> <<Percent>> \o escaped
                   [] OTHER -> escaped
    IN  <<Bracket>> \o inner \o <<EndBracket, Newline>>

KeyLine(keys, k) == EscapeKey(KeyInSection(k)) \o <<Equals>> \o WriteValue(keys[k].value) \o <<Newline>>

Section(keys, name) ==
    With(OrderedKeys(keys, name), LAMBDA order :
        SectionLine(name) \o FlattenSeq([i \in DOMAIN order |-> KeyLine(keys, order[i])]))

Write(keys) ==
    With(OrderedSections(keys), LAMBDA order :
        FlattenSeq([i \in DOMAIN order |->
            (IF i = 1 THEN <<>> ELSE <<Newline>>) \o Section(keys, order[i])]))
=============================================================================
