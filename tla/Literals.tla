-------------------------------- MODULE Literals --------------------------------
(***************************************************************************)
(* Literals of messages and the constants of a text.  A literal is visited *)
(* by the converter (BasePlanProtoVisitor) and printed                     *)
(* (PlanPrinterVisitor, DecimalLiteral), the text is parsed (the relation  *)
(* visitors, each in the same way), and both once more; or a text that     *)
(* somebody wrote is parsed, and what it gave printed and parsed.          *)
(*                                                                         *)
(* A literal is a record of its kind, the numbers in it (the value, the    *)
(* fields of an interval, or the bytes of a decimal, least first), its     *)
(* characters, the literals inside it, a type, and whether it may be null. *)
(*                                                                         *)
(* A constant is a record of its form, the number or the characters        *)
(* between its quotes, the constants inside it (in pairs in a map), the    *)
(* type after its underscore, and whether a question mark stands behind    *)
(* it all.  A number is written in tenths, with an exponent.               *)
(***************************************************************************)
EXTENDS TypeTexts, SequencesExt

CONSTANTS
  Messages, Writings,  \* literals and constants to begin with
  MaxTrips,            \* how often something is printed and parsed
  Digits,              \* how many digits a float is printed with
  Limits,              \* the greatest number of each kind of integers
  Byte, Width,         \* how many values a byte has, and a decimal bytes
  Precisions,          \* the words for 1 up to 38
  UuidDigits,
  Hex,                 \* hexadecimal digits
  DateText,            \* what a day is printed as
  Moments              \* for a kind of times, the value of each text

ASSUME WidthsAssumption ==
  /\ Digits \in Nat \ {0} /\ Byte \in Nat \ {0} /\ Width \in Nat \ {0}
  /\ Byte % 2 = 0

VARIABLES
  stage,
  trips,
  later,     \* whether another string follows in the text
  literal,   \* what is printed,
  text,
  back,      \* and what is parsed from it
  printed,   \* what the printer reports, and
  parsed     \* what the parser does

vars == <<stage, trips, later, literal, text, back, printed, parsed>>

TextOf(form, written) ==
  [ form |-> form, tenths |-> 0, exponent |-> 0, chars |-> << >>, parts |-> << >>,
    written |-> written, mark |-> FALSE ]

LiteralOf(kind) ==
  [ kind |-> kind, numbers |-> << >>, chars |-> << >>, parts |-> << >>,
    type |-> UnsetType, nullable |-> FALSE ]

NoLiteral == LiteralOf("unset")         \* LITERAL_TYPE_NOT_SET
Undefined == LiteralOf("undefined")     \* a field read that is not there
Unwritten == LiteralOf("unwritten")     \* a text to begin with is of no literal
Untyped   == Word("")

IntegerKinds  == {"i8", "i16", "i32", "i64"}
FloatKinds    == {"fp32", "fp64"}
IntervalKinds == {"interval_year", "interval_day"}
MomentKinds   == {"timestamp", "timestamp_tz", "date", "time"}

-----------------------------------------------------------------------------
(* DecimalLiteral.                                                         *)

\* Variant: one is not added.
NegateFlips(bytes) == [i \in DOMAIN bytes |-> Byte - 1 - bytes[i]]

\* Every byte is flipped, and one added as far as it carries.
Negate(bytes) ==
  [i \in DOMAIN bytes |->
     LET flipped == Byte - 1 - bytes[i]
     IN IF \A j \in 1..(i - 1) : bytes[j] = 0 THEN (flipped + 1) % Byte ELSE flipped]

Unsigned(bytes) == FoldRight(LAMBDA byte, value : value * Byte + byte, bytes, 0)

\* Variant: the sign is not looked at.
ToUnsignedString(bytes) == Unsigned(bytes)

ToBaseString(bytes) ==
  IF bytes # << >> /\ Last(bytes) >= Byte \div 2
  THEN -Unsigned(Negate(bytes)) ELSE Unsigned(bytes)

\* Only what is not below zero is read; nothing is empty.
FromString(c) ==
  IF c.exponent # 0 \/ c.tenths % 10 # 0 \/ c.tenths \div 10 \notin 0..(Byte^Width - 1)
  THEN << >>
  ELSE [i \in 1..Width |-> ((c.tenths \div 10) \div Byte^(i - 1)) % Byte]

\* Variant: every precision will do.
IsWhole(bytes, type) == Len(bytes) = Width

IsValid(bytes, type) == Len(bytes) = Width /\ type.lengths[1] \in Precisions

-----------------------------------------------------------------------------
(* visitLiteral: printing.                                                 *)

UnsupportedLiteral == "Literal of this type not yet supported"
NoTypeSpecified    == "Type not specified in literal"

Magnitude(n) == IF n < 0 THEN -n ELSE n

Figures(n) == CHOOSE k \in 1..10 : Magnitude(n) < 10^k /\ (k = 1 \/ Magnitude(n) >= 10^(k - 1))

\* Floats are printed with the default precision of a stream.
Rounded(n) ==
  LET unit == IF Figures(n) > Digits THEN 10^(Figures(n) - Digits) ELSE 1
      up   == ((Magnitude(n) + unit \div 2) \div unit) * unit
  IN IF n < 0 THEN -up ELSE up

StringEscape(chars) ==
  FlattenSeq([i \in DOMAIN chars |->
                IF chars[i] = "\"" THEN <<"\\", "\"">> ELSE <<chars[i]>>])

NumberText(tenths, written) == [TextOf("number", written) EXCEPT !.tenths = tenths]
StringText(chars, written)  == [TextOf("string", written) EXCEPT !.chars = StringEscape(chars)]

Units(kind) ==
  IF kind = "interval_year" THEN <<"years", "months">> ELSE <<"days", "seconds", "microseconds">>

WithLengths(kind, lengths) == Written(kind, FALSE, [i \in DOMAIN lengths |-> Word(lengths[i])])

TextFor(l) ==
  CASE l.kind = "boolean"     -> NumberText(10 * l.numbers[1], Untyped)
    [] l.kind \in IntegerKinds -> NumberText(10 * l.numbers[1], Word(l.kind))
    [] l.kind \in FloatKinds  ->
         IF l.numbers = << >> THEN TextOf("word", Word(l.kind))    \* inf and nan
         ELSE NumberText(Rounded(l.numbers[1]), Word(l.kind))
    [] l.kind = "date"        -> StringText(<<DateText[l.numbers[1]]>>, Word("date"))
    [] l.kind = "string"      -> StringText(l.chars, Word("string"))
    [] l.kind = "fixedchar"   -> StringText(l.chars, WithLengths(l.kind, <<ToString(Len(l.chars))>>))
    [] l.kind = "varchar"     -> StringText(l.chars, WithLengths(l.kind, l.type.lengths))
    [] l.kind = "decimal"     ->
         NumberText(10 * ToBaseString(l.numbers), WithLengths(l.kind, l.type.lengths))
    [] l.kind \in IntervalKinds ->
         [TextOf("struct", Word(l.kind)) EXCEPT
            !.parts = [i \in DOMAIN l.numbers |-> NumberText(10 * l.numbers[i],
                                                             Word(Units(l.kind)[i]))]]

PrintedLiterals ==
  {"boolean", "date", "string", "fixedchar", "varchar", "decimal"}
    \union IntegerKinds \union FloatKinds \union IntervalKinds

\* A mark is put last; behind a name it is part of the type.
Marked(c) ==
  IF c.written = Untyped \/ c.written.parameters # << >>
  THEN [c EXCEPT !.mark = TRUE] ELSE [c EXCEPT !.written.marked = TRUE]

VisitLiteral(l) ==
  CASE l.kind \in PrintedLiterals -> With(IF l.nullable THEN Marked(TextFor(l)) ELSE TextFor(l), {})
    [] l.kind = "unset" -> With(TextOf("word", Word("UNSPECIFIED_LITERAL_TYPE")), {NoTypeSpecified})
    [] OTHER            -> With(TextOf("word", Word("UNSUPPORTED_LITERAL_TYPE")), {UnsupportedLiteral})

-----------------------------------------------------------------------------
(* BasePlanProtoVisitor.                                                   *)

\* No literal and no type without a kind gets past it, in whatever place.
RECURSIVE UnvisitedLiteral(_)
UnvisitedLiteral(l) ==
  \/ l.kind = "unset"
  \/ l.kind = "null" /\ UnvisitedType(l.type)
  \/ l.kind \in {"empty_list", "empty_map"} /\ \E i \in DOMAIN l.type.parts : UnvisitedType(l.type.parts[i])
  \/ \E i \in DOMAIN l.parts : UnvisitedLiteral(l.parts[i])

-----------------------------------------------------------------------------
(* escapeText.                                                             *)

UnknownEscape == "Unknown slash escape sequence."

Escapes ==
  [c \in {"\\", "'", "\"", "b", "f", "n", "r", "t"} |->
     CASE c = "b" -> "backspace" [] c = "f" -> "form feed" [] c = "n" -> "line feed"
       [] c = "r" -> "return"    [] c = "t" -> "tab"       [] OTHER   -> c]

\* Two digits to a byte, the last of them full.
BytesOf(digits) ==
  LET all == IF Len(digits) % 2 = 1 THEN <<"0">> \o digits ELSE digits
  IN [i \in 1..(Len(all) \div 2) |-> "0x" \o all[2 * i - 1] \o all[2 * i]]

Taken(out, count, reported) == [out |-> out, count |-> count, errors |-> reported]

\* \u{...}, with the digits that are in front of a brace, or all if there is
\* none: then they are read again as what they are.
UnicodeEscape(s) ==
  LET rest   == SubSeq(s, 4, Len(s))
      closed == "}" \in ToSet(rest)
      digits == IF closed THEN SubSeq(rest, 1, SelectInSeq(rest, LAMBDA c : c = "}") - 1) ELSE rest
  IN IF digits = << >> \/ ~(ToSet(digits) \subseteq Hex)
     THEN Taken(<<"\\", "u">>, 2, {UnknownEscape})
     ELSE IF ~closed THEN Taken(<< >>, 3, {})
     ELSE Taken(IF Len(digits) <= 6 THEN BytesOf(digits) ELSE << >>, Len(digits) + 4, {})

\* Where less than two characters are left "\u" is not looked into; in a
\* string of less than three the length less three is a great number.
TakeEscape(s, length) ==
  CASE s[1] # "\\" \/ Len(s) = 1  -> Taken(<<s[1]>>, 1, {})
    [] s[2] \in DOMAIN Escapes    -> Taken(<<Escapes[s[2]]>>, 2, {})
    [] s[2] = "x"                 ->
         IF Len(s) > 3 /\ {s[3], s[4]} \subseteq Hex
         THEN Taken(BytesOf(SubSeq(s, 3, 4)), 4, {}) ELSE Taken(<<"\\", "x">>, 2, {})
    [] s[2] = "u" /\ length < 3   -> Taken(<< >>, 2, {})
    [] s[2] = "u" /\ Len(s) > 3   ->
         IF s[3] = "{" THEN UnicodeEscape(s) ELSE Taken(<< >>, 2, {})
    [] OTHER                      -> Taken(<<"\\", s[2]>>, 2, {UnknownEscape})

RECURSIVE EscapeFrom(_, _)
EscapeFrom(s, length) ==
  IF s = << >> THEN With(<< >>, {})
  ELSE LET one  == TakeEscape(s, length)
           rest == EscapeFrom(SubSeq(s, one.count + 1, Len(s)), length)
       IN With(one.out \o rest.value, one.errors \union rest.errors)

EscapeText(s) == EscapeFrom(s, Len(s))

-----------------------------------------------------------------------------
(* Constants without other constants inside.                               *)

NullNeedsType  == "Null literals require type."
TypeNeeded     == "Literals should include a type."
ValueMismatch  == "Provided value does not match the provided type."
UnexpectedType == "Unexpected string type"
UuidNotHex     == "UUIDs should be be specified with hexadecimal characters"
UuidLength     == "UUIDs are 128 bits long"
BadNumber      == "Could not parse as a numeric literal."
BadDecimalText == "Could not parse literal as decimal."
BadMoment      == "Could not parse timestamp, date or time."

Truncated(n) == IF n < 0 THEN -((-n) \div 10) ELSE n \div 10

\* Variant: whether it may be null is not kept.
NumberRequired(type, numbers) == [LiteralOf(type.kind) EXCEPT !.numbers = numbers]

NumberLiteral(type, numbers) ==
  [LiteralOf(type.kind) EXCEPT !.numbers = numbers, !.nullable = type.nullability = "nullable"]

\* Variant: the number is taken whatever its width.
VisitNumberUnchecked(c, type) ==
  CASE type.kind \in IntegerKinds -> With(NumberLiteral(type, <<Truncated(c.tenths)>>), {})
    [] type.kind \in FloatKinds -> With(NumberLiteral(type, <<c.tenths * 10^c.exponent>>), {})
    [] OTHER -> With(NoLiteral, {})

\* stoi stops at what is not a digit, and only i64 may be longer.  Another
\* type leaves the literal unset.
VisitNumber(c, type) ==
  CASE type.kind \in IntegerKinds ->
         IF Magnitude(Truncated(c.tenths)) <= Limits[IF type.kind = "i64" THEN "i64" ELSE "i32"]
         THEN With(NumberLiteral(type, <<Truncated(c.tenths)>>), {})
         ELSE With(NoLiteral, {BadNumber})
    [] type.kind \in FloatKinds ->
         With(NumberLiteral(type, <<c.tenths * 10^c.exponent>>), {})
    [] type.kind = "decimal" ->
         IF IsValid(FromString(c), type)
         THEN With([NumberLiteral(type, FromString(c)) EXCEPT
                      !.type = ProtoType("unset", "unspecified", type.lengths, << >>)], {})
         ELSE With(NoLiteral, {BadDecimalText})
    [] OTHER -> With(NoLiteral, {})

VisitUuid(chars) ==
  LET digits == SelectSeq(chars, LAMBDA c : c # "-")
      uuid(value) == [LiteralOf("uuid") EXCEPT !.chars = value]
  IN CASE ~(ToSet(digits) \subseteq Hex) -> With(uuid(<<"0">>), {UuidNotHex})
       [] Len(digits) # UuidDigits       -> With(uuid(SubSeq(digits, 1, Min({Len(digits), UuidDigits}))), {UuidLength})
       [] OTHER                          -> With(uuid(digits), {})

\* Lengths are not compared, and whether it may be null is not kept.
VisitString(c, type) ==
  LET read == IF c.form = "raw" THEN With(c.chars, {}) ELSE EscapeText(c.chars)
      made == CASE type.kind \in {"string", "fixedchar", "binary", "fixedbinary"} ->
                     With([LiteralOf(type.kind) EXCEPT !.chars = read.value], {})
                [] type.kind = "varchar" ->
                     With([LiteralOf("varchar") EXCEPT
                             !.chars = read.value,
                             !.type = ProtoType("unset", "unspecified", type.lengths, << >>)], {})
                [] type.kind = "uuid"  -> VisitUuid(read.value)
                [] type.kind = "unset" -> With(NoLiteral, {})
                [] OTHER               -> With(NoLiteral, {UnexpectedType})
  IN With(made.value, read.errors \union made.errors)

\* visitTimestamp, visitTimestampTz, visitDate, visitTime.
VisitMoment(c, type) ==
  LET read == IF c.form = "raw" THEN With(c.chars, {}) ELSE EscapeText(c.chars)
  IN IF Len(read.value) = 1 /\ read.value[1] \in DOMAIN Moments[type.kind]
     THEN With([LiteralOf(type.kind) EXCEPT !.numbers = <<Moments[type.kind][read.value[1]]>>],
               read.errors)
     ELSE With(NoLiteral, read.errors \union {BadMoment})

BooleanLiteral(form) ==
  [LiteralOf("boolean") EXCEPT !.numbers = <<IF form = "true" THEN 1 ELSE 0>>]

-----------------------------------------------------------------------------
(* Constants in braces.                                                    *)

CommaList         == "Lists only accept literals separated by commas."
PairsNeeded       == "Map literals require pairs of values separated by colons."
FieldCount        == "The number of fields does not match the number of types in this struct."
UnsupportedBraces == "Unsupported type"

Joined(results) == UNION {results[i].errors : i \in DOMAIN results}
ValuesOf(results) == [i \in DOMAIN results |-> results[i].value]

Ints(count) ==
  ProtoType("struct", "unspecified", << >>,
            [i \in 1..count |-> ProtoType("i32", "unspecified", << >>, << >>)])

\* The field of an interval: zero where it is not a number.
IntOf(l) == IF l.kind = "i32" THEN l.numbers[1] ELSE 0

\* "within": one of the constants around it has braces without colons.
RECURSIVE VisitConstantWithType(_, _, _)

\* Variant: fields are not counted.
VisitStructUncounted(c, type) ==
  LET read == [i \in 1..Min({Len(c.parts), Len(type.parts)}) |->
                 VisitConstantWithType(c.parts[i], type.parts[i], TRUE)]
  IN With([LiteralOf("struct") EXCEPT !.parts = ValuesOf(read)], Joined(read))

\* In braces with colons, none included, no field is read.
VisitStruct(c, type) ==
  LET read == [i \in 1..Min({Len(c.parts), Len(type.parts)}) |->
                 VisitConstantWithType(c.parts[i], type.parts[i], TRUE)]
  IN IF c.form = "map" THEN With(LiteralOf("struct"), {})
     ELSE With([LiteralOf("struct") EXCEPT !.parts = ValuesOf(read)],
               Joined(read) \union (IF Len(c.parts) # Len(type.parts) THEN {FieldCount} ELSE {}))

\* The fields are numbers in an order; what they are numbers of is not read,
\* nor how many there are.
VisitInterval(c, kind) ==
  LET count == Len(Units(kind))
      read  == VisitStruct(c, Ints(count))
  IN IF Len(read.value.parts) < count THEN With(Undefined, read.errors)
     ELSE With([LiteralOf(kind) EXCEPT
                  !.numbers = [i \in 1..count |-> IntOf(read.value.parts[i])]], read.errors)

RECURSIVE VisitConstant(_, _)

VisitList(c, type, within) ==
  LET element == type.parts[1]
      plain   == [i \in DOMAIN c.parts |-> VisitConstant(c.parts[i], within)]
      read    == [i \in DOMAIN c.parts |-> VisitConstantWithType(c.parts[i], element, TRUE)]
  IN IF c.form = "map"
     THEN With([LiteralOf("empty_list") EXCEPT
                  !.type = ProtoType("list", type.nullability, << >>, <<element>>)],
               Joined(plain) \union (IF c.parts # << >> THEN {CommaList} ELSE {}))
     ELSE With([LiteralOf("list") EXCEPT !.parts = ValuesOf(read)], Joined(read))

VisitMap(c, type, within) ==
  LET read == [i \in DOMAIN c.parts |->
                 VisitConstantWithType(c.parts[i], type.parts[2 - (i % 2)], within)]
  IN IF c.form = "map" /\ c.parts # << >>
     THEN With([LiteralOf("map") EXCEPT !.parts = ValuesOf(read)], Joined(read))
     ELSE With([LiteralOf("empty_map") EXCEPT !.type = type],
               IF c.form = "map" THEN {} ELSE {PairsNeeded})

\* A constant inside another has the type that the other gives it.
VisitConstantWithType(c, type, within) ==
  CASE c.form = "number" -> VisitNumber(c, type)
    [] c.form \in {"string", "raw"} ->
         IF type.kind \in MomentKinds THEN VisitMoment(c, type) ELSE VisitString(c, type)
    [] c.form \in {"true", "false"} ->
         IF type.kind = "boolean" THEN With(BooleanLiteral(c.form), {})
         ELSE With(NoLiteral, {ValueMismatch})
    [] c.form = "null" ->
         With([LiteralOf("null") EXCEPT !.type = SetNullable(type)], {})
    [] c.form \in {"map", "struct"} ->
         CASE type.kind = "struct" -> VisitStruct(c, type)
           [] type.kind = "list"   -> VisitList(c, type, within)
           [] type.kind = "map"    -> VisitMap(c, type, within)
           [] type.kind \in IntervalKinds -> VisitInterval(c, type.kind)
           [] OTHER -> With(NoLiteral, {UnsupportedBraces})

VisitConstant(c, within) ==
  LET type == TextToTypeProto(c.written, within \/ c.form = "struct")
      read == VisitConstantWithType(c, type.value, within)
  IN IF c.written # Untyped THEN With(read.value, type.errors \union read.errors)
     ELSE CASE c.form = "null" -> With(NoLiteral, {NullNeedsType})
            [] c.form \in {"true", "false"} -> With(BooleanLiteral(c.form), {})
            [] c.form \in {"string", "raw"} ->
                 VisitString(c, ProtoType("string", "unspecified", << >>, << >>))
            [] OTHER -> With(NoLiteral, {TypeNeeded})

-----------------------------------------------------------------------------
(* Passes.                                                                 *)

SyntaxError == "syntax error"
NotAColumn  == "Reference does not exist."

\* A quote after a backslash ends the string only if no other quote follows.
RunsOn(c) ==
  later /\ c.form = "string" /\ c.chars # << >> /\ Last(c.chars) = "\\"

\* Where a mark is not expected it is skipped.
Read(c) ==
  CASE c.form = "word" -> With(NoLiteral, {NotAColumn})
    [] RunsOn(c)       -> With(NoLiteral, {SyntaxError})
    [] OTHER           ->
         LET read == VisitConstant(c, FALSE)
         IN With(read.value, read.errors \union (IF c.mark THEN {SyntaxError} ELSE {}))

Init ==
  /\ later \in BOOLEAN
  /\ trips = 1
  /\ \/ stage = "print" /\ literal \in Messages /\ text = TextOf("none", Untyped)
     \/ stage = "parse" /\ literal = Unwritten /\ text \in Writings
  /\ back = NoLiteral
  /\ printed = {}
  /\ parsed = {}

PrintLiteral ==
  /\ stage = "print" /\ ~UnvisitedLiteral(literal)
  /\ text' = VisitLiteral(literal).value
  /\ printed' = VisitLiteral(literal).errors
  /\ stage' = "parse"
  /\ UNCHANGED <<trips, later, literal, back, parsed>>

\* The exception comes before anything is printed.
VisitThrows ==
  /\ stage = "print" /\ UnvisitedLiteral(literal)
  /\ stage' = "thrown"
  /\ UNCHANGED <<trips, later, literal, text, back, printed, parsed>>

ParseConstant ==
  /\ stage = "parse"
  /\ back' = Read(text).value
  /\ parsed' = Read(text).errors
  /\ stage' = "parsed"
  /\ UNCHANGED <<trips, later, literal, text, printed>>

\* What was parsed is printed in turn, if nothing was reported.
Again ==
  /\ stage = "parsed"
  /\ trips < MaxTrips
  /\ parsed = {}
  /\ back # Undefined
  /\ stage' = "print"
  /\ trips' = trips + 1
  /\ literal' = back
  /\ UNCHANGED <<later, text, back, printed, parsed>>

Next == PrintLiteral \/ VisitThrows \/ ParseConstant \/ Again

Spec == Init /\ [][Next]_vars

-----------------------------------------------------------------------------
(* What is not as it was written.                                          *)

CharKinds == {"string", "fixedchar", "varchar"}

\* The first, the third, ... of backslashes in a row.
Leading(l) ==
  {i \in DOMAIN l.chars :
     l.kind \in CharKinds /\ \E first \in 1..i :
       /\ (i - first) % 2 = 0
       /\ \A j \in first..i : l.chars[j] = "\\"
       /\ first = 1 \/ l.chars[first - 1] # "\\"}

TextLength(chars) == Len(StringEscape(chars))

\* "\u" is looked into: there is enough of the text left, or far too little.
LookedInto(chars, i) ==
  TextLength(SubSeq(chars, i, Len(chars))) > 3 \/ TextLength(chars) < 3

\* A string whose backslashes are taken for escapes, and one whose are not
\* allowed; there are no braces in it.
Escaping(l) ==
  \E i \in Leading(l) \ {Len(l.chars)} :
    \/ l.chars[i + 1] \in DOMAIN Escapes \ {"\""}
    \/ l.chars[i + 1] = "x" /\ Len(l.chars) > i + 2 /\ {l.chars[i + 2], l.chars[i + 3]} \subseteq Hex
    \/ l.chars[i + 1] = "u" /\ LookedInto(l.chars, i)

NoEscape(l) ==
  \/ \E i \in Leading(l) \ {Len(l.chars)} :
       \/ l.chars[i + 1] \notin DOMAIN Escapes \union {"u", "x"}
       \/ l.chars[i + 1] = "u" /\ ~LookedInto(l.chars, i)
  \/ later /\ l.kind \in CharKinds /\ l.chars # << >> /\ Last(l.chars) = "\\"

\* The number of bytes in two's complement.
Signed(bytes) ==
  MapThenSumSet(LAMBDA i : bytes[i] * Byte^(i - 1), DOMAIN bytes)
    - (IF bytes # << >> /\ 2 * Last(bytes) >= Byte THEN Byte^Len(bytes) ELSE 0)

Parameterized == {"fixedchar", "varchar", "decimal"}

\* What a printed literal loses without a word.
Loses(l) ==
  \/ l.kind \in FloatKinds /\ Rounded(l.numbers[1]) # l.numbers[1]
  \/ l.kind = "decimal" /\ Len(l.numbers) # Width
  \/ l.nullable /\ l.kind \in {"string", "date"} \union IntervalKinds
  \/ Escaping(l)

\* What is printed without a word and cannot be read.
Unreadable(l) ==
  \/ l.kind = "decimal" /\ l.type.lengths[1] \notin Precisions
  \/ l.kind \in FloatKinds /\ l.numbers = << >>
  \/ l.kind = "date" /\ DateText[l.numbers[1]] \notin DOMAIN Moments["date"]
  \/ l.nullable /\ l.kind \in Parameterized
  \/ NoEscape(l)

Value(c) == c.tenths * 10^c.exponent

AtMost(n, word) == \E m \in n..(n + 9) : ToString(m) = word

HasLength(chars, type) ==
  CASE type.kind = "varchar"   -> AtMost(Len(chars), type.lengths[1])
    [] type.kind = "fixedchar" -> ToString(Len(chars)) = type.lengths[1]
    [] OTHER                   -> TRUE

ElementType(type, i) ==
  CASE type.kind = "list" -> type.parts[1]
    [] type.kind = "map"  -> type.parts[2 - (i % 2)]
    [] OTHER              -> type.parts[i]

IsUnit(c, unit) == c.written.name \in {unit, SubSeq(unit, 1, Len(unit) - 1)}

\* The literal is what is written, of the type that is written.
RECURSIVE Denotes(_, _, _)
Denotes(l, c, type) ==
  CASE c.form = "null" -> l.kind = "null" /\ l.type = SetNullable(type)
    [] l.kind \in {"empty_list", "empty_map"} -> c.parts = << >> /\ l.type = type
    [] OTHER ->
       /\ l.kind = type.kind /\ l.kind # "unset"
       /\ l.nullable = (type.nullability = "nullable")
       /\ CASE l.kind \in IntegerKinds ->
                  10 * l.numbers[1] = Value(c) /\ Magnitude(l.numbers[1]) <= Limits[l.kind]
            [] l.kind \in FloatKinds -> l.numbers[1] = Value(c)
            [] l.kind = "decimal"    -> 10 * Signed(l.numbers) = Value(c)
            [] l.kind = "date"       -> c.chars = <<DateText[l.numbers[1]]>>
            [] l.kind \in IntervalKinds ->
                 /\ Len(l.numbers) = Len(c.parts)
                 /\ \A i \in DOMAIN l.numbers :
                      10 * l.numbers[i] = c.parts[i].tenths /\ IsUnit(c.parts[i], Units(l.kind)[i])
            [] l.kind \in NestedKinds ->
                 /\ Len(l.parts) = Len(c.parts)
                 /\ l.kind = "struct" => Len(l.parts) = Len(type.parts)
                 /\ \A i \in DOMAIN l.parts : Denotes(l.parts[i], c.parts[i], ElementType(type, i))
            [] OTHER -> HasLength(l.chars, type)

\* What is taken for something else, or for nothing, without a word.
RECURSIVE Misread(_, _)
Misread(c, type) ==
  CASE c.form = "null"   -> FALSE
    [] c.form = "number" ->
         CASE type.kind \in IntegerKinds -> 10 * Truncated(c.tenths) # Value(c)
                                           \/ Magnitude(Value(c)) > 10 * Limits[type.kind]
           [] type.kind \in FloatKinds   -> FALSE
           [] type.kind = "decimal"      -> 2 * Value(c) >= 10 * Byte^Width
           [] OTHER                      -> TRUE
    [] c.form \in {"string", "raw"} ->
         \/ type.nullability = "nullable" \/ type.kind = "unset"
         \/ type.kind = "date" /\ c.chars[1] \notin {DateText[d] : d \in DOMAIN DateText}
         \/ ~HasLength(IF c.form = "raw" THEN c.chars ELSE EscapeText(c.chars).value, type)
    [] c.form \in {"true", "false"} -> type.nullability = "nullable"
    [] type.kind \in IntervalKinds ->
         \/ type.nullability = "nullable"
         \/ c.form = "map"
         \/ \E i \in DOMAIN c.parts : ~IsUnit(c.parts[i], Units(type.kind)[i])
                                       \/ c.parts[i].tenths % 10 # 0
    [] c.parts = << >> -> type.kind = "struct"
    [] OTHER ->
         \/ type.nullability = "nullable"
         \/ type.kind = "struct" /\ c.form = "map"
         \/ \E i \in DOMAIN c.parts : Misread(c.parts[i], ElementType(type, i))

Tripped == stage = "parsed" /\ literal # Unwritten /\ printed = {}

(* A trip ends with a literal, whose numbers fit the field that they are kept   *)
(* in, eight and sixteen bits in one of thirty-two, or is undefined; that only   *)
(* for an interval.                                                             *)
LiteralTypeOK ==
  /\ stage \in {"print", "thrown", "parse", "parsed"} /\ trips \in 1..MaxTrips
  /\ stage = "print" => literal # Unwritten
  /\ back.kind \in IntegerKinds =>
       Magnitude(back.numbers[1]) <= Limits[IF back.kind = "i64" THEN "i64" ELSE "i32"]
  /\ back = Undefined => text.written.name \in IntervalKinds

(* What comes back from a text that nobody complained about is the literal that *)
(* was printed, but for the digits of floats, the bytes a decimal is filled up  *)
(* with, the nullability of what is not a number, and backslashes               *)
(* (tests/RoundtripTest.cpp expects plans to come back equal).                  *)
LiteralsKept == Tripped /\ parsed = {} => (back = literal <=> ~Loses(literal))

(* A literal that is printed without a report can be read, but for precisions   *)
(* that are none, floats that are no numbers, dates past the year 9999, marks   *)
(* after angle brackets, and backslashes.  It says nothing of decimals below    *)
(* zero (see DecimalsRead) and of booleans, which textplan/README.md:191 wants  *)
(* to be read without a type.                                                   *)
TextsRead ==
  Tripped /\ literal.kind # "boolean" /\ ~(literal.kind = "decimal" /\ Signed(literal.numbers) < 0) =>
    (parsed # {} <=> Unreadable(literal))

\* A number the bytes of a decimal can hold.
Whole(c) == c.tenths % 10 = 0 /\ 2 * Magnitude(Value(c)) < 10 * Byte^Width

(* A decimal of whole digits that has room in its bytes is read, whichever side *)
(* of zero it is on (textplan/README.md:96 gives the example                    *)
(* "-123_decimal<3,0>").                                                        *)
DecimalsRead ==
  stage = "parsed" /\ text.form = "number" /\ ~text.mark /\ text.exponent = 0 /\ Whole(text) =>
    LET type == TextToTypeProto(text.written, FALSE)
    IN type.value.kind = "decimal" /\ type.errors = {} /\ type.value.lengths[1] \in Precisions =>
         parsed = {}

(* A decimal is printed as the number its bytes are in two's complement, and    *)
(* what is read from a number has the bytes of that number                      *)
(* (DecimalLiteral.h: bytes in little endian order).                            *)
DecimalsAsWritten ==
  /\ stage # "print" /\ literal.kind = "decimal" => text.tenths = 10 * Signed(literal.numbers)
  /\ stage = "parsed" /\ back.kind = "decimal" =>
       10 * (Signed(back.numbers) % Byte^Width) = text.tenths

(* A constant with a type that the parser says nothing of is read as it is      *)
(* written and has that type, but for what Misread names: fractions and numbers *)
(* out of range, types of another kind, lengths, nullability, structures and    *)
(* intervals without their fields or with fields in another order.              *)
ConstantsRead ==
  stage = "parsed" /\ parsed = {} /\ text.written # Untyped =>
    LET type == TextToTypeProto(text.written, text.form = "struct").value
    IN Denotes(back, text, type) <=> ~Misread(text, type)

=============================================================================
