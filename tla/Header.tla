------------------------------- MODULE Header -------------------------------
(***************************************************************************)
(* The values of the HTTP headers (src/common/http_header.cc): how each    *)
(* class of header parses a text of tokens and writes what it parsed.      *)
(* Authorization is in Base64, Host in Net and Content-Type in Mime.       *)
(***************************************************************************)
EXTENDS Integers, Sequences, Stream
LOCAL INSTANCE SequencesExt
M == INSTANCE Mime

Raised == [ok |-> FALSE]
Parsed(v) == [ok |-> TRUE, value |-> v]

Digits == M!Digits
IsDigit(c) == M!IsDigit(c)
NumberOf(text) == FoldLeft(LAMBDA n, d : n * 10 + M!DigitOf[d], 0, text)
RECURSIVE Decimal(_)
Decimal(n) == (IF n < 10 THEN <<>> ELSE Decimal(n \div 10)) \o <<Digits[(n % 10) + 1]>>

\* How many digits a text starts with.
DigitRun(text) == CHOOSE k \in 0 .. Len(text) : /\ \A i \in 1 .. k : IsDigit(text[i])
                                                /\ k < Len(text) => ~IsDigit(text[k + 1])

\* The texts that write joins with a separator.
Joined(parts, sep) == FoldLeft(LAMBDA w, i : w \o parts[i] \o (IF i < Len(parts) THEN sep ELSE <<>>),
                               <<>>, [i \in DOMAIN parts |-> i])

-----------------------------------------------------------------------------
(* Encodings.  A word stands for the encodings it is a prefix of. *)

PrefixOf == [zstd |-> {"zstd"}, gzip |-> {"gzip"}, br |-> {"br"}, deflate |-> {"deflate"},
             compress |-> {"compress"}, identity |-> {"identity"}, chunked |-> {"chunked"},
             c |-> {"compress", "chunked"}]
Order == <<"zstd", "gzip", "br", "deflate", "compress", "identity", "chunked">>

\* encodingFromString: the first name that starts with the text.
EncodingFromString(text) ==
    LET hits == IF Len(text) = 1 /\ text[1] \in DOMAIN PrefixOf
                THEN {i \in DOMAIN Order : Order[i] \in PrefixOf[text[1]]} ELSE {}
    IN  IF hits = {} THEN "unknown" ELSE Order[CHOOSE i \in hits : \A j \in hits : i <= j]

\* encodingString; encodingSupported with every codec built in.
EncodingString(e) == <<e>>
EncodingSupported(e) == e \in {"zstd", "br", "deflate", "identity"}

-----------------------------------------------------------------------------
(* Accept-Encoding *)

IsToken(c) == c \notin {",", ";", " ", "=", "\"", "/"}
TokenRun(text) == CHOOSE k \in 0 .. Len(text) : /\ \A i \in 1 .. k : IsToken(text[i])
                                                /\ k < Len(text) => ~IsToken(text[k + 1])

\* An insertEncoding before the elements of the same quality (lower_bound).
InsertEncodingFirst(es, e) ==
    LET k == CHOOSE n \in 0 .. Len(es) : /\ \A i \in 1 .. n : es[i].q > e.q
                                         /\ n < Len(es) => es[n + 1].q <= e.q
    IN  InsertAt(es, k + 1, e)

\* insertEncoding: after the elements whose quality is not lower (upper_bound).
InsertEncoding(es, e) ==
    LET k == CHOOSE n \in 0 .. Len(es) : /\ \A i \in 1 .. n : es[i].q >= e.q
                                         /\ n < Len(es) => es[n + 1].q < e.q
    IN  InsertAt(es, k + 1, e)

\* The quality of one element: what follows its semicolon, and 1 without one.
QualityAfter(after, q) == IF Len(after) < 2 \/ after[1] # "q" \/ after[2] # "=" \/ ~q.valid THEN Raised
                          ELSE Parsed(q.value)
QualityOf(item) ==
    LET after == SkipSpaces(Advance(Left(item, {";"}), 1))
    IN  IF ~Contains(item, ";") THEN Parsed(1000)
        ELSE QualityAfter(after, M!StrToQvalue(SubSeq(after, 3, Len(after))))

RECURSIVE ParseEncodings(_, _)
\* AcceptEncoding::parseRaw: one malformed quality forgets every encoding.
AfterEncoding(es, name, q, rest) ==
    LET next == SelectInSeq(rest, IsToken)
    IN  IF ~q.ok THEN <<>>
        ELSE ParseEncodings(IF name = <<>> THEN es
                            ELSE InsertEncoding(es, [encoding |-> EncodingFromString(name), q |-> q.value]),
                            IF next = 0 THEN <<>> ELSE SubSeq(rest, next, Len(rest)))
ParseEncodings(es, text) ==
    LET item == Taken(text, {","})
        name == SubSeq(item, 1, TokenRun(item))
    IN  IF text = <<>> THEN es
        ELSE AfterEncoding(es, name, QualityOf(SubSeq(item, Len(name) + 1, Len(item))), Left(text, {","}))

\* A float as the stream writes it: no zeros at its end.
WrittenFloat(q) ==
    CASE q % 1000 = 0 -> Decimal(q \div 1000)
      [] q % 100 = 0 -> <<"0", ".", Digits[(q \div 100) + 1]>>
      [] q % 10 = 0 -> <<"0", ".", Digits[(q \div 100) + 1], Digits[((q \div 10) % 10) + 1]>>
      [] OTHER -> <<"0", ".", Digits[(q \div 100) + 1], Digits[((q \div 10) % 10) + 1], Digits[(q % 10) + 1]>>
WriteEncodings(es) ==
    Joined([i \in DOMAIN es |-> EncodingString(es[i].encoding) \o <<";", "q", "=">> \o WrittenFloat(es[i].q)], <<",", " ">>)

-----------------------------------------------------------------------------
(* Cache-Control *)

Trivial == {"no-cache", "no-store", "no-transform", "only-if-cached", "public", "private",
            "must-revalidate", "proxy-revalidate"}
Timed == {"max-age", "max-stale", "min-fresh", "s-maxage"}

\* One directive: what it is and what is left, or nothing where no name matches.  One character is
\* skipped after a timed one, whatever it is; a word there leaves its letters, which are no number.
Directive(text) ==
    LET delta == Advance(text, 2)
        run == IF text[2] \in Trivial \cup Timed THEN 0 ELSE DigitRun(delta)
    IN  IF text # <<>> /\ text[1] \in Trivial THEN [ok |-> TRUE, d |-> <<[name |-> text[1], delta |-> 0]>>, rest |-> Tail(text)]
        ELSE IF text # <<>> /\ text[1] \in Timed
             THEN IF Len(text) < 2 \/ run = 0 \/ (run < Len(delta) /\ delta[run + 1] # ",") THEN Raised
                  ELSE [ok |-> TRUE, d |-> <<[name |-> text[1], delta |-> NumberOf(SubSeq(delta, 1, run))]>>,
                        rest |-> SubSeq(delta, run + 1, Len(delta))]
        ELSE [ok |-> TRUE, d |-> <<>>, rest |-> text]

RECURSIVE ParseDirectives(_, _)
\* CacheControl::parseRaw.
AfterDirective(ds, one) ==
    LET more == SelectInSeq(one.rest, LAMBDA c : c \notin {",", " "})
    IN  IF ~one.ok \/ (one.rest # <<>> /\ one.rest[1] # ",") THEN Raised
        ELSE IF more = 0 THEN Parsed(ds \o one.d)
        ELSE ParseDirectives(ds \o one.d, SubSeq(one.rest, more, Len(one.rest)))
ParseDirectives(ds, text) == AfterDirective(ds, Directive(text))

\* CacheControl::write: a delta of zero is left out.
WriteDirectives(ds) ==
    Joined([i \in DOMAIN ds |-> <<ds[i].name>> \o (IF ds[i].name \in Timed /\ ds[i].delta > 0
                                                   THEN <<"=">> \o Decimal(ds[i].delta) ELSE <<>>)], <<",", " ">>)

-----------------------------------------------------------------------------
(* Accept: a list of media types *)

RECURSIVE ParseAccept(_, _)
\* Accept::parseRaw after an item: a comma needs two characters after it, the second of them not a
\* comma; words have more than one character.
AfterItem(ms, text, item, type) ==
    LET more == Append(ms, [type |-> type, raw |-> item])
        after == SubSeq(text, Len(item) + 2, Len(text))
        OneChar(c) == c \in {"*", "/", ",", ";", " ", "=", "q", "0", "1", ".", "5"}
    IN  IF ~type.ok THEN Raised
        ELSE IF Len(item) = Len(text) THEN Parsed(more)
        ELSE IF after = <<>> \/ (OneChar(after[1]) /\ (Len(after) = 1 \/ after[2] = ",")) THEN Raised
        ELSE IF SkipSpaces(after) = <<>> THEN Parsed(more)
        ELSE ParseAccept(more, SkipSpaces(after))

\* The next item of the list.
ParseAccept(ms, text) ==
    LET item == IF text = <<>> THEN <<>> ELSE <<text[1]>> \o Taken(Tail(text), {","})
    IN  AfterItem(ms, text, item, M!ParseRaw(item))

\* Accept::write: MediaType::toString returns the raw text of a type that was parsed.
WriteAccept(ms) == Joined([i \in DOMAIN ms |-> ms[i].raw], <<",", " ">>)

-----------------------------------------------------------------------------
(* The other headers *)

\* ETag::parse: quotes around characters that are no quotes and no spaces, perhaps after W/.
ParseETag(text) ==
    LET weak == AtWord(text, "W/")
        tag == IF weak THEN Tail(text) ELSE text
        inner == SubSeq(tag, 2, Len(tag) - 1)
    IN  IF Len(tag) < 2 \/ tag[1] # "\"" \/ Last(tag) # "\"" \/ Contains(inner, "\"") \/ Contains(inner, " ")
        THEN Raised ELSE Parsed([etagc |-> inner, weak |-> weak])
WriteETag(e) == (IF e.weak THEN <<"W/">> ELSE <<>>) \o <<"\"">> \o e.etagc \o <<"\"">>

\* stoull of a Content-Length: spaces, a sign that wraps, digits and anything; a text without
\* digits leaves the value 0, one that is too large raises.
ULongMax == 10^6                        \* a bound that stands for 2^64
ParseLength(text) ==
    LET t == SkipSpaces(text)
        negative == AtWord(t, "-")
        digits == IF negative THEN Tail(t) ELSE t
        n == NumberOf(SubSeq(digits, 1, DigitRun(digits)))
    IN  IF n >= ULongMax THEN Raised ELSE Parsed(IF negative /\ n > 0 THEN ULongMax - n ELSE n)

\* Connection::parseRaw matches what the text starts with.
ParseConnection(text) == Parsed(IF text # <<>> /\ text[1] \in {"close", "keep-alive"} THEN text[1] ELSE "ext")

\* Expect::parseRaw takes only the whole text; any other expectation is written as nothing.
ParseExpect(text) == Parsed(IF text = <<"100-continue">> THEN "continue" ELSE "ext")
WriteExpect(e) == IF e = "continue" THEN <<"100-continue">> ELSE <<>>

\* What each class does with a text; Server, Location, User-Agent and the Access-Control headers keep it.
Parse(kind, text) ==
    CASE kind = "Accept-Encoding" -> Parsed(ParseEncodings(<<>>, text))
      [] kind = "Content-Encoding" -> Parsed(EncodingFromString(text))
      [] kind = "Cache-Control" -> ParseDirectives(<<>>, text)
      [] kind = "Accept" -> ParseAccept(<<>>, text)
      [] kind = "ETag" -> ParseETag(text)
      [] kind = "Content-Length" -> ParseLength(text)
      [] kind = "Connection" -> ParseConnection(text)
      [] kind = "Expect" -> ParseExpect(text)
      [] OTHER -> Parsed(text)
Write(kind, v) ==
    CASE kind = "Accept-Encoding" -> WriteEncodings(v)
      [] kind = "Content-Encoding" -> EncodingString(v)
      [] kind = "Cache-Control" -> WriteDirectives(v)
      [] kind = "Accept" -> WriteAccept(v)
      [] kind = "ETag" -> WriteETag(v)
      [] kind = "Content-Length" -> Decimal(v)
      [] kind = "Connection" -> <<v>>
      [] kind = "Expect" -> WriteExpect(v)
      [] OTHER -> v

-----------------------------------------------------------------------------
\* The values that can be written and read back: a zero delta is written without its number
\* (http_header.cc:339).
Writable(kind, v) == kind = "Cache-Control" => \A i \in DOMAIN v : v[i].name \in Timed => v[i].delta > 0

\* What a header was parsed to is what its peer parses from the text it writes.
ParsedAgain(kind, h) == h.ok /\ Writable(kind, h.value) => Parse(kind, Write(kind, h.value)) = h
HeaderKept(kind, text) == ParsedAgain(kind, Parse(kind, text))

\* The names between the commas, and their qualities in the order of the text.
Elements(text) ==
    LET items == SelectSeq(Pieces(text, ","), LAMBDA p : TokenRun(SkipSpaces(p)) > 0)
        Item(i) == SkipSpaces(items[i])
        Name(i) == SubSeq(Item(i), 1, TokenRun(Item(i)))
    IN  [i \in DOMAIN items |-> [encoding |-> EncodingFromString(Name(i)),
                                 q |-> QualityOf(SubSeq(Item(i), TokenRun(Item(i)) + 1, Len(Item(i))))]]

\* "Contains the encodings listed in the header, sorted by preference" (http_header.h:393): no
\* encoding is lost, added or overtaken by one of a lower or the same quality that comes later.
ByPreference(text, es, given) ==
    LET Place(i) == 1 + Len(SelectSeq(given, LAMBDA g : g.q.value > given[i].q.value))
                      + Len(SelectSeq(SubSeq(given, 1, i - 1), LAMBDA g : g.q.value = given[i].q.value))
        pieces == Pieces(text, ",")
        Named(p) == p = <<>> \/ TokenRun(p) > 0
    IN  Named(pieces[1]) /\ (\A i \in 2 .. Len(pieces) : Named(SkipSpaces(pieces[i]))) =>
            IF \A i \in DOMAIN given : given[i].q.ok
            THEN /\ Len(es) = Len(given)
                 /\ \A i \in DOMAIN given : es[Place(i)] = [encoding |-> given[i].encoding, q |-> given[i].q.value]
            ELSE es = <<>>
EncodingsByPreference(text) == ByPreference(text, ParseEncodings(<<>>, text), Elements(text))
=============================================================================
