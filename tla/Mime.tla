-------------------------------- MODULE Mime --------------------------------
(***************************************************************************)
(* Media types (src/common/mime.cc) and the quality values they share with *)
(* Accept-Encoding (strToQvalue in src/common/http_headers.cc): parsing a  *)
(* text of tokens, and writing a type that was built from its parts.       *)
(***************************************************************************)
EXTENDS Integers, Sequences, FiniteSets, TLC, Stream
LOCAL INSTANCE SequencesExt

None == "none"
Types == {"*", "text", "application"}                        \* MIME_TYPES in use
Subtypes == {"*", "plain", "json", "schema+json"}            \* MIME_SUBTYPES in use
KnownSuffixes == {"json", "xml"}                                  \* MIME_SUFFIXES in use

Digits == <<"0", "1", "2", "3", "4", "5", "6", "7", "8", "9">>
DigitOf == [d \in Range(Digits) |-> (CHOOSE i \in DOMAIN Digits : Digits[i] = d) - 1]
IsDigit(c) == c \in DOMAIN DigitOf

-----------------------------------------------------------------------------
(* Quality values, in thousandths *)

At(text, i) == IF i < Len(text) THEN text[i + 1] ELSE "eof"      \* str[i]

\* How many characters of the text can belong to the value, 6 at most.
QLength(text) == CHOOSE n \in 0 .. 6 : /\ \A i \in 0 .. n - 1 : At(text, i) = "." \/ IsDigit(At(text, i))
                                       /\ n < 6 => ~(At(text, n) = "." \/ IsDigit(At(text, n)))

\* strToQvalue: whether the first n characters are taken, their value and their number.
QvalueOf(text, n) ==
    LET D(i) == DigitOf[At(text, i)]
        value == (IF n = 5 THEN D(4) ELSE 0) + (IF n >= 4 THEN D(3) * 10 ELSE 0)
                   + (IF n >= 3 THEN D(2) * 100 ELSE 0) + D(0) * 1000
    IN  IF \/ \E i \in 0 .. n : i < 6 /\ i # 1 /\ At(text, i) = "."
           \/ n < 1 \/ n = 2 \/ n > 5
           \/ At(text, 0) \notin {"0", "1"}
           \/ value > 1000
        THEN [valid |-> FALSE, value |-> 0, len |-> n]
        ELSE [valid |-> TRUE, value |-> value, len |-> n]
StrToQvalue(text) == QvalueOf(text, QLength(text))

\* Q::fromFloat rounds to hundredths, halves away from zero.
FromThousandths(v) == (v + 5) \div 10

\* Q::toString: one digit after the point when that is enough.
WrittenQ(q) ==
    LET Digit(n) == Digits[n + 1]
    IN  CASE q = 0 -> <<"0">> [] q = 100 -> <<"1">>
          [] q % 10 = 0 -> <<"0", ".", Digit(q \div 10)>>
          [] OTHER -> <<"0", ".", Digit(q \div 10), Digit(q % 10)>>

-----------------------------------------------------------------------------
(* MediaType::parseRaw *)

Raised == [ok |-> FALSE]
NewType(top, sub, suffix) ==
    [ok |-> TRUE, top |-> top, sub |-> sub, suffix |-> suffix, q |-> {}, params |-> <<>>, rawSub |-> <<>>]

\* An insertion that takes the place of the value a key has.
InsertLast(params, key, value) == (key :> value) @@ params

\* std::unordered_map::insert keeps the value a key already has.
Insert(params, key, value) == IF key \in DOMAIN params THEN params ELSE params @@ (key :> value)

\* A quality factor after the letter q and an equals sign.
QualityTaken(m, text, q) ==
    IF ~q.valid THEN [m |-> Raised, rest |-> <<>>]
    ELSE [m |-> [m EXCEPT !.q = {FromThousandths(q.value)}], rest |-> Advance(text, q.len)]
WithQuality(m, rest) ==
    IF ~AtWord(rest, "=") THEN [m |-> Raised, rest |-> <<>>]
    ELSE QualityTaken(m, Tail(rest), StrToQvalue(Tail(rest)))

\* Any other parameter.
WithParam(m, rest) ==
    LET after == Left(rest, {"="})
        value == Tail(after)
    IN  IF after = <<>> \/ Following(after) = "eof" THEN [m |-> Raised, rest |-> <<>>]
        ELSE [m |-> [m EXCEPT !.params = Insert(@, Taken(rest, {"="}), Taken(value, {" ", ";"}))],
              rest |-> Left(value, {" ", ";"})]

RECURSIVE ParseParams(_, _)
\* The loop over the parameters.
AfterParam(step) == IF ~step.m.ok THEN Raised ELSE ParseParams(step.m, step.rest)
ParseParams(m, rest) ==
    IF rest = <<>> THEN m
    ELSE IF rest[1] \in {";", " "}
         THEN IF Following(rest) = "eof" THEN Raised ELSE ParseParams(m, Tail(rest))
    ELSE AfterParam(IF rest[1] = "q" THEN WithQuality(m, Tail(rest)) ELSE WithParam(m, rest))

\* The suffix after a plus sign.
ParseSuffix(m, rest) ==
    LET after == Tail(rest)
    IN  IF ~AtWord(rest, "+") THEN [m |-> m, rest |-> rest]
        ELSE IF after = <<>> THEN [m |-> Raised, rest |-> <<>>]
        ELSE IF after[1] \in KnownSuffixes THEN [m |-> [m EXCEPT !.suffix = after[1]], rest |-> Tail(after)]
        ELSE [m |-> [m EXCEPT !.suffix = "ext"], rest |-> Left(after, {";", "+"})]

\* The subtype: a known one, or whatever comes before a semicolon or a plus sign.
ParseSub(top, rest) ==
    LET sub == IF rest[1] = "vnd." THEN "vendor" ELSE IF rest[1] \in Subtypes THEN rest[1] ELSE "ext"
        m == NewType(top, sub, None)
    IN  IF sub \in {"vendor", "ext"}
        THEN ParseSuffix([m EXCEPT !.rawSub = Taken(rest, {";", "+"})], Left(rest, {";", "+"}))
        ELSE ParseSuffix(m, Tail(rest))

ParseRaw(text) ==
    IF text = <<>> \/ text[1] \notin Types \/ ~AtWord(Tail(text), "/") \/ Len(text) = 2 THEN Raised
    ELSE AfterParam(ParseSub(text[1], SubSeq(text, 3, Len(text))))

-----------------------------------------------------------------------------
(* MediaType::toString of a type without raw text *)

RECURSIVE WriteParams(_)
WriteParams(params) ==
    IF DOMAIN params = {} THEN <<>>
    ELSE LET k == CHOOSE x \in DOMAIN params : TRUE
         IN  <<";", " ">> \o k \o <<"=">> \o params[k]
               \o WriteParams([x \in DOMAIN params \ {k} |-> params[x]])

WrittenType(m) ==
    <<m.top, "/">> \o (IF m.sub \in Subtypes THEN <<m.sub>> ELSE <<>>)
      \o (IF m.suffix \in KnownSuffixes THEN <<"+", m.suffix>> ELSE <<>>)
      \o (IF m.q = {} THEN <<>> ELSE <<";", " ", "q", "=">> \o WrittenQ(CHOOSE q \in m.q : TRUE))
      \o WriteParams(m.params)

\* MediaType::isValid.
IsValid(m) == m.top # None /\ m.sub # None

\* fromFile: the extension after the last dot.
KnownExtensions == ("jpg" :> <<"image", "jpeg">>) @@ ("jpeg" :> <<"image", "jpeg">>) @@ ("png" :> <<"image", "png">>)
                     @@ ("bmp" :> <<"image", "bmp">>) @@ ("txt" :> <<"text", "plain">>) @@ ("md" :> <<"text", "plain">>)
                     @@ ("bin" :> <<"application", "octet-stream">>)
FromFile(name) ==
    LET dots == {i \in DOMAIN name : name[i] = "."}
        ext == SubSeq(name, (CHOOSE i \in dots : \A j \in dots : j <= i) + 1, Len(name))
    IN  IF dots = {} \/ Len(ext) # 1 \/ ext[1] \notin DOMAIN KnownExtensions THEN <<None, None>> ELSE KnownExtensions[ext[1]]

-----------------------------------------------------------------------------
\* The grammar of quality values that http_headers.h quotes, without its "0." and "1.", which
\* the code refuses.
Grammar(text) == /\ Len(text) \in {1, 3, 4, 5}
                 /\ text[1] \in {"0", "1"}
                 /\ Len(text) > 1 => text[2] = "."
                 /\ \A i \in 3 .. Len(text) : IF text[1] = "0" THEN IsDigit(text[i]) ELSE text[i] = "0"

\* The values of the parameters in the pieces after the type.
Meaning(text) ==
    LET ps == Pieces(text, ";")
        Piece(i) == SkipSpaces(ps[i])
    IN  [key \in {Taken(Piece(i), {"="}) : i \in 2 .. Len(ps)} |->
            LET i == CHOOSE j \in 2 .. Len(ps) : /\ Taken(Piece(j), {"="}) = key
                                                /\ \A l \in 2 .. j - 1 : Taken(Piece(l), {"="}) # key
            IN  Tail(Left(Piece(i), {"="}))]

\* A type, its subtype and perhaps a suffix, then parameters that all have values, without spaces and
\* with nothing after a quality (the parser takes a parameter there too).
Plain(text) == LET ps == Pieces(text, ";") IN
               /\ ~Contains(text, " ") /\ ~Contains(ps[1], "=")
               /\ Len(ps[1]) = 3 \/ (Len(ps[1]) = 5 /\ ps[1][3] # "+" /\ ps[1][4] = "+" /\ ps[1][5] # "+")
               /\ \A i \in 2 .. Len(ps) : /\ Contains(ps[i], "=")
                                          /\ ps[i][1] = "q" => ps[i][2] = "=" /\ Grammar(SubSeq(ps[i], 3, Len(ps[i])))

\* A type that is written from its parts, whose parameters have names and values (a value that is
\* empty does not parse at the end of a text).
Writable(m) == /\ m.sub \in Subtypes
               /\ m.suffix # "ext"
               /\ \A k \in DOMAIN m.params : k # <<>> /\ m.params[k] # <<>>

\* A text that parses has the first value of every parameter between its semicolons and one quality,
\* and a type that is written from its parts parses to the same parts.
TypeKept(text, m) ==
    m.ok =>
        /\ IsValid(m)
        /\ Plain(text) => LET given == Meaning(text) IN
                          /\ {k \in DOMAIN given : k # <<>> => k[1] # "q"} = DOMAIN m.params
                          /\ \A k \in DOMAIN m.params : m.params[k] = given[k]
        /\ Writable(m) => ParseRaw(WrittenType(m)) = [m EXCEPT !.rawSub = <<>>]
MediaTypeKept(text) == TypeKept(text, ParseRaw(text))

\* The thousandths that a quality value means, its digits filled up with zeros.
Thousandths(text) ==
    LET Digit(i) == IF i \in DOMAIN text THEN DigitOf[text[i]] ELSE 0
    IN  Digit(1) * 1000 + Digit(3) * 100 + Digit(4) * 10 + Digit(5)
Dotted(text) == IF Len(text) > 1 THEN [text EXCEPT ![2] = "."] ELSE text

\* strToQvalue takes a whole text of the grammar, and what it takes is in the grammar and has the
\* value the grammar gives it, except that a digit in the place of the dot is taken for the dot
\* ("015" for 0.5 and "100" for 1.0, http_headers.cc:61).
InGrammar(text, v) == /\ Grammar(text) => v.valid /\ v.len = Len(text)
                      /\ v.valid => LET taken == Dotted(SubSeq(text, 1, v.len))
                                    IN  Grammar(taken) /\ v.value = Thousandths(taken)
QvalueInGrammar(text) == InGrammar(text, StrToQvalue(text))
=============================================================================
