------------------------------- MODULE Cookie -------------------------------
(***************************************************************************)
(* Cookies (src/common/cookie.cc): parsing and writing one cookie with its *)
(* attributes, and the jar that the Cookie header of a request fills.  An  *)
(* optional attribute is a set with at most one value.                     *)
(***************************************************************************)
EXTENDS Integers, Sequences, FiniteSets, TLC, Stream
LOCAL INSTANCE SequencesExt

Digits == <<"0", "1", "9">>          \* the digits in use, and what they stand for
DigitOf(d) == <<0, 1, 9>>[CHOOSE i \in 1 .. 3 : Digits[i] = d]
Dates == {"date"}            \* texts that FullDate::fromString takes

Bad == [ok |-> FALSE]

\* The constructor of a cookie.
NewCookie(name, value) ==
    [ok |-> TRUE, name |-> name, value |-> value, path |-> {}, domain |-> {}, expires |-> {}, maxAge |-> {},
     secure |-> FALSE, httpOnly |-> FALSE, ext |-> {}]

\* The attributes match_attribute knows, the kind of value they have and the member they set.
Attributes == ("Path" :> <<"text", "path">>) @@ ("Domain" :> <<"text", "domain">>)
                @@ ("Secure" :> <<"flag", "secure">>) @@ ("HttpOnly" :> <<"flag", "httpOnly">>)
                @@ ("Max-Age" :> <<"number", "maxAge">>) @@ ("Expires" :> <<"date", "expires">>)

\* matchValue: an equals sign must follow; at the end of the text there is nothing to skip.
HasValue(rest) == rest # <<>> /\ rest[1] = "="
ValueOf(rest) == Taken(Tail(rest), {";"})
AfterValue(rest) == Left(Tail(rest), {";"})

\* strntol of a Max-Age value.
Number(text) == FoldLeft(LAMBDA n, d : n * 10 + DigitOf(d), 0, text)

\* AttributeMatcher: the value an attribute gets, as a set, or raising.
Converts(kind, text) == CASE kind = "number" -> Range(text) \subseteq Range(Digits)
                          [] kind = "date" -> Len(text) = 1 /\ text[1] \in Dates
                          [] OTHER -> TRUE
Converted(kind, text) == IF kind = "number" THEN Number(text) ELSE text

\* match_attribute once its name was matched: the cookie and what is left.
WithAttribute(c, name, rest) ==
    LET kind == Attributes[name][1]
        member == Attributes[name][2]
    IN  IF kind = "flag" THEN [cookie |-> [c EXCEPT ![member] = TRUE], rest |-> Advance(rest, 1)]
        ELSE IF ~HasValue(rest) \/ ~Converts(kind, ValueOf(rest)) THEN [cookie |-> Bad, rest |-> <<>>]
        ELSE [cookie |-> [c EXCEPT ![member] = {Converted(kind, ValueOf(rest))}],
              rest |-> Advance(AfterValue(rest), 1)]

\* The last branch of fromRaw: an attribute it does not know; the semicolon after it is not skipped.
WithExt(c, rest) ==
    LET name == Taken(rest, {"="})
        after == Left(rest, {"="})
        value == IF after = <<>> THEN <<>> ELSE ValueOf(after)
    IN  [cookie |-> IF \E e \in c.ext : e[1] = name THEN c ELSE [c EXCEPT !.ext = @ \cup {<<name, value>>}],
         rest |-> IF after = <<>> THEN <<>> ELSE AfterValue(after)]

RECURSIVE ParseAttributes(_, _)
\* The loop of fromRaw over the attributes: its body runs at least once.
AfterAttribute(step) ==
    IF ~step.cookie.ok \/ step.rest = <<>> THEN step.cookie ELSE ParseAttributes(step.cookie, step.rest)
ParseAttributes(c, text) ==
    LET rest == SkipSpaces(text)
    IN  AfterAttribute(IF \E name \in DOMAIN Attributes : AtWord(rest, name)
                       THEN WithAttribute(c, rest[1], Tail(rest)) ELSE WithExt(c, rest))

\* The name and the value in front of the first semicolon, as fromRaw and addFromRaw read them.
HasNameAndValue(text) == LET after == Left(text, {"="}) IN after # <<>>
NameOf(text) == Taken(text, {"="})
FirstValue(text) == Taken(Tail(Left(text, {"="})), {";"})
AfterFirst(text) == Left(Tail(Left(text, {"="})), {";"})

\* Cookie::fromRaw.
FromRaw(text) ==
    IF ~HasNameAndValue(text) THEN Bad
    ELSE LET c == NewCookie(NameOf(text), FirstValue(text))
             rest == AfterFirst(text)
         IN  IF rest = <<>> THEN c ELSE ParseAttributes(c, Tail(rest))

-----------------------------------------------------------------------------
(* Writing *)

RECURSIVE WrittenNumber(_)
WrittenNumber(n) == (IF n < 10 THEN <<>> ELSE WrittenNumber(n \div 10))
                      \o <<CHOOSE d \in Range(Digits) : DigitOf(d) = n % 10>>

Attribute(name, value) == <<";", " ", name, "=">> \o value

\* ext is a std::map: any order that is the same for the same names.
RECURSIVE WriteExts(_)
WriteExts(ext) == IF ext = {} THEN <<>>
                  ELSE LET e == CHOOSE x \in ext : TRUE
                       IN  e[1] \o <<"=">> \o e[2] \o (IF Cardinality(ext) > 1 THEN <<";", " ">> ELSE <<>>)
                             \o WriteExts(ext \ {e})

\* Cookie::write.
Write(c) ==
    LET Opt(name, values, F(_)) == IF values = {} THEN <<>> ELSE Attribute(name, F(CHOOSE v \in values : TRUE))
        Text(v) == v
    IN  c.name \o <<"=">> \o c.value
          \o Opt("Path", c.path, Text) \o Opt("Domain", c.domain, Text)
          \o Opt("Max-Age", c.maxAge, WrittenNumber) \o Opt("Expires", c.expires, Text)
          \o (IF c.secure THEN <<";", " ", "Secure">> ELSE <<>>)
          \o (IF c.httpOnly THEN <<";", " ", "HttpOnly">> ELSE <<>>)
          \o (IF c.ext = {} THEN <<>> ELSE <<";", " ">> \o WriteExts(c.ext))

-----------------------------------------------------------------------------
(* The jar: the values of each name, one cookie for each value *)

\* CookieJar::add.
JarAdd(jar, name, value) ==
    [n \in DOMAIN jar \cup {name} |-> (IF n \in DOMAIN jar THEN jar[n] ELSE {})
                                        \cup (IF n = name THEN {value} ELSE {})]

RECURSIVE AddFromRaw(_, _)
\* CookieJar::addFromRaw: the cookies before a malformed one stay in the jar.
AddFromRaw(jar, text) ==
    IF text = <<>> THEN [jar |-> jar, raised |-> FALSE]
    ELSE IF ~HasNameAndValue(text) THEN [jar |-> jar, raised |-> TRUE]
    ELSE AddFromRaw(JarAdd(jar, NameOf(text), FirstValue(text)), SkipSpaces(Advance(AfterFirst(text), 1)))

\* CookieJar::get returns any value of the name; the iterator visits every value of every name.
JarGet(jar, name) == IF name \in DOMAIN jar THEN jar[name] ELSE {}
JarIterated(jar) == UNION {{<<n, v>> : v \in jar[n]} : n \in DOMAIN jar}

-----------------------------------------------------------------------------
(* What a header means: the text between semicolons, one piece a cookie or *)
(* an attribute.                                                           *)

Trimmed(piece) == SkipSpaces(piece)
Meaning(text) ==
    LET ps == Pieces(text, ";")
        pieces == [i \in DOMAIN ps |-> IF i = 1 THEN ps[i] ELSE Trimmed(ps[i])]
        Given(member) == {i \in DOMAIN pieces : i > 1 /\ pieces[i] # <<>> /\ pieces[i][1] \in DOMAIN Attributes
                                              /\ Attributes[pieces[i][1]][2] = member}
        LastOf(is) == CHOOSE i \in is : \A j \in is : j <= i
    IN  [member \in {"path", "domain"} |->
            IF Given(member) = {} THEN {} ELSE {SubSeq(pieces[LastOf(Given(member))], 3, Len(pieces[LastOf(Given(member))]))}]

\* A text whose first piece has an equals sign, whose flags stand alone, and in which a piece that is
\* no known attribute comes last: after such a piece the parser stays on the semicolon (cookie.cc:188).
WellFormed(text) ==
    LET ps == Pieces(text, ";")
        Known(p) == p # <<>> /\ p[1] \in DOMAIN Attributes
    IN  /\ Contains(ps[1], "=")
        /\ \A i \in 2 .. Len(ps) - 1 : Known(Trimmed(ps[i]))
        /\ \A i \in 2 .. Len(ps) : LET p == Trimmed(ps[i])
                                  IN  Known(p) /\ Attributes[p[1]][1] = "flag" => Len(p) = 1

\* A well-formed cookie has the Path and Domain of the pieces between its semicolons, and any cookie
\* with at most one attribute the code does not know is the same after it is written and read again.
ReadBack(text, c) ==
    c.ok /\ WellFormed(text) =>
        /\ \A member \in {"path", "domain"} : c[member] = Meaning(text)[member]
        /\ Cardinality(c.ext) <= 1 => FromRaw(Write(c)) = c
CookieKept(text) == ReadBack(text, FromRaw(text))

\* The jar of a Cookie header holds exactly the pairs between its semicolons, every value of a name
\* that comes twice included, and adding raises only when the last piece has no value (a piece
\* without an equals sign before that becomes a part of the next name: match_until looks past ';').
Filled(made, ps) ==
    LET Piece(i) == IF i = 1 THEN ps[i] ELSE Trimmed(ps[i])
        Good(i) == Contains(ps[i], "=")
    IN  (\A i \in 1 .. Len(ps) - 1 : Good(i)) =>
            /\ JarIterated(made.jar) = {<<NameOf(Piece(i)), SubSeq(Piece(i), Len(NameOf(Piece(i))) + 2, Len(Piece(i)))>> :
                                            i \in {j \in DOMAIN ps : Good(j)}}
            /\ made.raised = \E i \in DOMAIN ps : ~Good(i)
            /\ \A i \in DOMAIN ps : Good(i) => JarGet(made.jar, NameOf(Piece(i))) # {}
JarComplete(text) ==
    LET all == Pieces(text, ";")
    IN  Filled(AddFromRaw(<<>>, text), IF Trimmed(Last(all)) = <<>> THEN Front(all) ELSE all)
=============================================================================
