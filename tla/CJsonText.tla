----------------------------- MODULE CJsonText ------------------------------
(***************************************************************************)
(* The text side of cJSON: parsing, printing into a buffer, minifying. A   *)
(* text is a sequence of bytes; c[i] is the byte at offset i - 1 of the    *)
(* buffer. A value stands for the item that is parsed or printed: its key  *)
(* and str are C strings. Numbers are small integers: strtod and sprintf   *)
(* are external, and fractions and exponents are left out.                 *)
(***************************************************************************)
EXTENDS Integers, FiniteSets, SequencesExt

CONSTANTS
    Documents,              \* texts, without the terminating 0
    CJSON_NESTING_LIMIT,
    NumberChars             \* characters of a number that are read, 63

VARIABLE text               \* what is at hand to be parsed

Quote == 34
Backslash == 92
Tab == 9
Newline == 10
Digits == 48 .. 57
(* the escapes of one letter, and what they stand for *)
Simple == {<<98, 8>>, <<102, 12>>, <<110, 10>>, <<114, 13>>, <<116, 9>>,
           <<Quote, Quote>>, <<Backslash, Backslash>>, <<47, 47>>}
NullWord == <<110, 117, 108, 108>>
FalseWord == <<102, 97, 108, 115, 101>>
TrueWord == <<116, 114, 117, 101>>
Bom == <<239, 187, 191>>

Min0(S, none) == IF S = {} THEN none ELSE CHOOSE x \in S : \A y \in S : x <= y
Item(type, str, kids) == [type |-> type, str |-> str, key |-> <<>>, kids |-> kids]
Failed == [ok |-> FALSE, i |-> 0, v |-> Item("invalid", <<>>, <<>>)]
Ok(i, v) == [ok |-> TRUE, i |-> i, v |-> v]

(* What strlen and strcmp see of bytes that end with a 0 *)
CString(bytes) == SubSeq(bytes, 1, Min0({j \in DOMAIN bytes : bytes[j] = 0}, Len(bytes) + 1) - 1)

-----------------------------------------------------------------------------
(* Parsing *)

(* buffer_skip_whitespace: at the end it steps back to the last byte. *)
SkipWs(c, i) == IF i > Len(c) THEN i ELSE Min0({j \in i .. Len(c) : c[j] > 32}, Len(c))

(* skip_utf8_bom: five bytes or more *)
SkipBom(c) == IF Len(c) > 4 /\ SubSeq(c, 1, 3) = Bom THEN 4 ELSE 1

(* parse_hex4: 0 if a digit is none *)
HexDigit(b) == CASE b \in Digits -> b - 48 [] b \in 65 .. 70 -> b - 55
                 [] b \in 97 .. 102 -> b - 87 [] OTHER -> -1
ParseHex4(c, i) ==
    LET d == [k \in 0 .. 3 |-> HexDigit(c[i + k])]
    IN  IF \E k \in 0 .. 3 : d[k] < 0 THEN 0
        ELSE d[0] * 4096 + d[1] * 256 + d[2] * 16 + d[3]

Utf8(code) ==
    LET Tail1(k) == 128 + ((code \div 64^k) % 64)
    IN  CASE code < 128   -> <<code>>
          [] code < 2048  -> <<192 + code \div 64, Tail1(0)>>
          [] code < 65536 -> <<224 + code \div 4096, Tail1(1), Tail1(0)>>
          [] OTHER        -> <<240 + code \div 262144, Tail1(2), Tail1(1), Tail1(0)>>

(* utf16_literal_to_utf8: the bytes used, 0 for an error, and those written *)
Invalid == [used |-> 0, out |-> <<>>]
Utf16(c, i, end) ==
    LET Pair(first, second) ==
            IF second \notin 56320 .. 57343 THEN Invalid
            ELSE [used |-> 12, out |-> Utf8(65536 + (first - 55296) * 1024 + (second - 56320))]
        Code(first) ==
            CASE first \in 56320 .. 57343 -> Invalid
              [] first \in 55296 .. 56319 ->
                   IF end - i < 12 \/ c[i + 6] # Backslash \/ c[i + 7] # 117 THEN Invalid
                   ELSE Pair(first, ParseHex4(c, i + 8))
              [] OTHER -> [used |-> 6, out |-> Utf8(first)]
    IN  IF end - i < 6 THEN Invalid ELSE Code(ParseHex4(c, i + 2))

(* parse_string, first over the literal: the quote at its end, 0 if there  *)
(* is none, and the escapes passed                                         *)
RECURSIVE FindEnd(_, _, _)
FindEnd(c, j, skipped) ==
    IF j > Len(c) THEN [end |-> 0, skipped |-> skipped]
    ELSE IF c[j] = Quote THEN [end |-> j, skipped |-> skipped]
    ELSE IF c[j] # Backslash THEN FindEnd(c, j + 1, skipped)
    ELSE FindEnd(c, j + 2, skipped + 1)

(* Mutant: both bytes of an escape are taken off. *)
AllocationShort(found, i) == found.end - i - 2 * found.skipped + 1
Allocation(found, i) == found.end - i - found.skipped + 1

(* then byte by byte: what is written, up to an error or the end *)
Literal(c, j, end) ==
    LET simple == {e \in Simple : e[1] = c[j + 1]}
    IN  IF c[j] # Backslash THEN [used |-> 1, out |-> <<c[j]>>]
        ELSE IF simple # {} THEN [used |-> 2, out |-> <<(CHOOSE e \in simple : TRUE)[2]>>]
        ELSE IF c[j + 1] = 117 THEN Utf16(c, j, end)
        ELSE Invalid
RECURSIVE Unescape(_, _, _, _)
Unescape(c, j, end, out) ==
    LET After(step) ==
            IF step = Invalid THEN [ok |-> FALSE, out |-> out]
            ELSE Unescape(c, j + step.used, end, out \o step.out)
    IN  IF j >= end THEN [ok |-> TRUE, out |-> Append(out, 0)]
        ELSE After(Literal(c, j, end))

(* parse_string, of the quote at i; beyond the buffer there is none. *)
ParseString(c, i) ==
    LET Output(end, output) ==
            IF ~output.ok THEN Failed
            ELSE Ok(end + 1, Item("string", CString(output.out), <<>>))
        Ends(end) == IF end = 0 THEN Failed ELSE Output(end, Unescape(c, i + 1, end, <<>>))
    IN  IF i > Len(c) \/ c[i] # Quote THEN Failed ELSE Ends(FindEnd(c, i + 1, 0).end)

(* parse_number: strtod takes a sign and digits of what was copied; they   *)
(* are from j to before stop, and leading zeros do not count.              *)
ParseNumber(c, i) ==
    LET Signed(minus, str) == IF minus /\ str # <<48>> THEN <<45>> \o str ELSE str
        Number(j, stop) ==
            IF stop <= j THEN Failed
            ELSE Ok(stop, Item("number",
                     Signed(j > i, SubSeq(c, Min0({k \in j .. stop - 1 : c[k] # 48}, stop - 1),
                                          stop - 1)), <<>>))
        From(j, most) == Number(j, Min0({k \in j .. most - 1 : c[k] \notin Digits}, most))
    IN  From(IF c[i] = 45 THEN i + 1 ELSE i,
             IF i + NumberChars <= Len(c) THEN i + NumberChars ELSE Len(c) + 1)

RECURSIVE ParseValue(_, _, _), ParseKids(_, _, _, _, _)

(* parse_value *)
ParseValue(c, i, depth) ==
    LET Reads(word) == i + Len(word) - 1 <= Len(c) /\ SubSeq(c, i, i + Len(word) - 1) = word
        In(type, close, j) ==
            IF depth >= CJSON_NESTING_LIMIT \/ j > Len(c) THEN Failed
            ELSE IF c[j] = close THEN Ok(j + 1, Item(type, <<>>, <<>>))
            ELSE ParseKids(c, j - 1, depth + 1, type, <<>>)
    IN  CASE Reads(NullWord)  -> Ok(i + 4, Item("null", <<>>, <<>>))
          [] Reads(FalseWord) -> Ok(i + 5, Item("false", <<>>, <<>>))
          [] Reads(TrueWord)  -> Ok(i + 4, Item("true", <<>>, <<>>))
          [] i > Len(c)   -> Failed
          [] c[i] = Quote -> ParseString(c, i)
          [] c[i] \in Digits \cup {45} -> ParseNumber(c, i)
          [] c[i] \in {91, 123} ->
               In(IF c[i] = 91 THEN "array" ELSE "object", c[i] + 2, SkipWs(c, i + 1))
          [] OTHER        -> Failed

(* parse_array and parse_object from the byte before an item, or the comma *)
ParseKids(c, before, depth, type, kids) ==
    LET Rest(end, named, j) ==
            IF j > Len(c) THEN Failed
            ELSE IF c[j] = 44 THEN ParseKids(c, j, depth, type, Append(kids, named))
            ELSE IF c[j] # end THEN Failed
            ELSE Ok(j + 1, Item(type, <<>>, Append(kids, named)))
        Value(end, key, value) ==
            IF ~value.ok THEN Failed
            ELSE Rest(end, [value.v EXCEPT !.key = key], SkipWs(c, value.i))
        After(colon) == IF colon > Len(c) THEN 0
                        ELSE IF c[colon] # 58 THEN 0 ELSE SkipWs(c, colon + 1)
        Member(name, i) ==      \* i: where its value begins, 0 if there is none
            IF i = 0 THEN Failed ELSE Value(125, name, ParseValue(c, i, depth))
        Named(name) ==
            IF ~name.ok THEN Failed ELSE Member(name.v.str, After(SkipWs(c, name.i)))
        First(i) == IF type = "array" THEN Value(93, <<>>, ParseValue(c, i, depth))
                    ELSE Named(ParseString(c, i))
    IN  First(SkipWs(c, before + 1))

(* cJSON_ParseWithLengthOpts, cJSON_ParseWithOpts, which asks for the text *)
(* to end after the value                                                  *)
ParseWithLength(c) == ParseValue(c, SkipWs(c, SkipBom(c)), 0)
Parse(t) ==
    LET Ends(c, value) ==
            IF value.ok /\ \E j \in DOMAIN c : j = SkipWs(c, value.i) /\ c[j] = 0
            THEN value ELSE Failed
        Whole(c) == Ends(c, ParseWithLength(c))
    IN  Whole(Append(t, 0))

-----------------------------------------------------------------------------
(* Printing: the pieces that are written one after another, each with the  *)
(* bytes asked of ensure, and whether a 0 follows it.                      *)

Piece(need, out, nul) == <<[need |-> need, out |-> out, nul |-> nul]>>

(* print_string_ptr *)
Hex(n) == IF n < 10 THEN 48 + n ELSE 87 + n
(* Mutant: u%02x for u%04x *)
EscapeShort(b) ==
    LET short == {p[1] : p \in {q \in Simple \ {<<47, 47>>} : q[2] = b}}
    IN  IF short # {} THEN <<Backslash, CHOOSE e \in short : TRUE>>
        ELSE IF b < 32 THEN <<Backslash, 117, Hex(b \div 16), Hex(b % 16)>>
        ELSE <<b>>
Escape(b) ==
    LET short == {p[1] : p \in {q \in Simple \ {<<47, 47>>} : q[2] = b}}
    IN  IF short # {} THEN <<Backslash, CHOOSE e \in short : TRUE>>
        ELSE IF b < 32 THEN <<Backslash, 117, 48, 48, Hex(b \div 16), Hex(b % 16)>>
        ELSE <<b>>
PrintString(str) ==
    LET out == <<Quote>> \o FlattenSeq([i \in DOMAIN str |-> Escape(str[i])]) \o <<Quote>>
    IN  Piece(Len(out) + 1, out, 1)

(* print_value, where a word, print_number among them, or a string, is one *)
(* piece; kids of arrays and objects are one deeper.                       *)
Word(word) == Piece(Len(word) + 1, word, 1)
If(format, bytes) == IF format THEN bytes ELSE <<>>
Tabs(n) == [i \in 1 .. n |-> Tab]
All(v, Part(_, _)) == FlattenSeq([i \in DOMAIN v.kids |-> Part(v.kids[i], i = Len(v.kids))])

RECURSIVE PrintValue(_, _, _)

(* print_array *)
PrintArray(v, depth, format) ==
    LET comma == <<44>> \o If(format, <<32>>)
        Element(kid, last) ==
            PrintValue(kid, depth + 1, format) \o
            IF last THEN <<>> ELSE Piece(Len(comma) + 1, comma, 1)
    IN  Piece(1, <<91>>, 0) \o All(v, Element) \o Piece(2, <<93>>, 1)

(* print_object *)
PrintObject(v, depth, format) ==
    LET open  == <<123>> \o If(format, <<Newline>>)
        colon == <<58>> \o If(format, <<Tab>>)
        Member(kid, last) ==
            LET end == (IF last THEN <<>> ELSE <<44>>) \o If(format, <<Newline>>)
            IN  If(format, Piece(depth + 1, Tabs(depth + 1), 0)) \o
                PrintString(kid.key) \o Piece(Len(colon), colon, 0) \o
                PrintValue(kid, depth + 1, format) \o Piece(Len(end) + 1, end, 1)
    IN  Piece(Len(open) + 1, open, 0) \o All(v, Member) \o
        Piece(IF format THEN depth + 2 ELSE 2, If(format, Tabs(depth)) \o <<125>>, 1)

PrintValue(v, depth, format) ==
    CASE v.type = "null"   -> Word(NullWord)
      [] v.type = "false"  -> Word(FalseWord)
      [] v.type = "true"   -> Word(TrueWord)
      [] v.type = "number" -> Word(v.str)
      [] v.type = "string" -> PrintString(v.str)
      [] v.type = "array"  -> PrintArray(v, depth, format)
      [] v.type = "object" -> PrintObject(v, depth, format)

Text(v, format) ==
    LET pieces == PrintValue(v, 0, format)
    IN  FlattenSeq([i \in DOMAIN pieces |-> pieces[i].out])

(* Mutant: the offset is not counted. *)
RoomHere(offset, need, length) == need + 1 <= length
(* ensure: is there room at offset? *)
Room(offset, need, length) == need + offset + 1 <= length

(* A buffer of n bytes takes the pieces, or else is replaced by one of     *)
(* twice what is needed if it may grow. inside: no write went past it.     *)
Written(pieces, n, grows) ==
    FoldLeft(LAMBDA b, p :
                 LET room   == Room(b.offset, p.need, b.length)
                     length == IF room THEN b.length ELSE 2 * (p.need + b.offset + 1)
                     end    == b.offset + Len(p.out)
                     valid  == b.length > 0 => b.offset < b.length
                 IN  IF ~b.ok \/ ~valid \/ (~room /\ ~grows) THEN [b EXCEPT !.ok = FALSE]
                     ELSE [ok |-> TRUE, length |-> length, offset |-> end,
                           inside |-> b.inside /\ end + p.nul <= length],
             [ok |-> TRUE, length |-> n, offset |-> 0, inside |-> TRUE], pieces)

PrintPreallocated(pieces, n) == Written(pieces, n, FALSE)
PrintBuffered(pieces, n) == Written(pieces, n, TRUE)

-----------------------------------------------------------------------------
(* cJSON_Minify, of c with the 0 at its end: what is written up to there   *)

RECURSIVE MinifyString(_, _), Minify(_, _)

(* minify_string, after the first quote *)
MinifyString(c, j) ==
    IF c[j] = 0 THEN Minify(c, j)
    ELSE IF c[j] = Quote THEN <<Quote>> \o Minify(c, j + 1)
    ELSE IF c[j] = Backslash /\ c[j + 1] = Quote
    THEN <<Backslash, Quote>> \o MinifyString(c, j + 2)
    ELSE <<c[j]>> \o MinifyString(c, j + 1)

Minify(c, j) ==
    LET Past(S, n) == Minify(c, Min0({k \in S : k > j + 1}, Len(c) - n) + n)
        Breaks == {k \in DOMAIN c : c[k] = Newline}
        Closes == {k \in DOMAIN c : c[k] = 42 /\ c[k + 1] = 47}
    IN  CASE c[j] = 0 -> <<>>
          [] c[j] \in {32, Tab, 13, Newline} -> Minify(c, j + 1)
          [] c[j] = 47 -> IF c[j + 1] = 47 THEN Past(Breaks, 1)
                          ELSE IF c[j + 1] = 42 THEN Past(Closes, 2)
                          ELSE Minify(c, j + 1)
          [] c[j] = Quote -> <<Quote>> \o MinifyString(c, j + 1)
          [] OTHER -> <<c[j]>> \o Minify(c, j + 1)

-----------------------------------------------------------------------------
(* The text comes from a file, or from anywhere. *)
ReadText == text = <<>> /\ \E d \in Documents : text' = d

-----------------------------------------------------------------------------
(* Properties, of whatever text it is *)

(***************************************************************************)
(* parse_string allocates by its first pass and writes in its second,      *)
(* which takes other steps: a \u passes six bytes, whatever they are, even *)
(* an escaped quote. It never writes more than it allocated, not even when *)
(* it then fails.                                                          *)
(***************************************************************************)
StringsFit ==
    \A i \in {k \in DOMAIN text : text[k] = Quote} :
        LET found == FindEnd(text, i + 1, 0)
        IN  found.end # 0 =>
                Len(Unescape(text, i + 1, found.end, <<>>).out) <= Allocation(found, i)

(* The value of the text, if it has one *)
Parsed == LET r == Parse(text) IN IF r.ok THEN {r.v} ELSE {}

RECURSIVE EndsPlain(_)
EndsPlain(v) ==
    /\ \A s \in {v.str, v.key} : s # <<>> => s[Len(s)] # Backslash
    /\ \A i \in DOMAIN v.kids : EndsPlain(v.kids[i])

(***************************************************************************)
(* What was parsed and is printed, formatted or not, is parsed as the same *)
(* again, with or without the 0 behind it; and minifying the formatted     *)
(* text gives the unformatted one. (Minify takes the quote after a string  *)
(* that ends with a backslash for an escaped one: EndsPlain.)              *)
(***************************************************************************)
RoundTrip ==
    \A v \in Parsed :
        /\ \A format \in BOOLEAN :
              /\ Parse(Text(v, format)).v = v
              /\ ParseWithLength(Text(v, format)).v = v
        /\ EndsPlain(v) => Minify(Append(Text(v, TRUE), 0), 1) = Text(v, FALSE)

(***************************************************************************)
(* cJSON_PrintPreallocated writes nothing past the buffer, of whatever     *)
(* length, and succeeds if it has five bytes more than needed, as the      *)
(* header asks; cJSON_PrintBuffered succeeds with any guess of the size.   *)
(***************************************************************************)
PrintFits ==
    \A v \in Parsed, format \in BOOLEAN :
        LET pieces == PrintValue(v, 0, format)
            length == Len(Text(v, format)) + 1
        IN  \A n \in 0 .. length + 5 :
                LET fixed   == PrintPreallocated(pieces, n)
                    growing == PrintBuffered(pieces, n)
                IN  /\ fixed.inside /\ growing.inside /\ growing.ok
                    /\ n = length + 5 => fixed.ok
                    /\ fixed.ok => n >= length
=============================================================================
