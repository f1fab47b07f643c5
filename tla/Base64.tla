------------------------------- MODULE Base64 -------------------------------
(***************************************************************************)
(* The base64 coder (src/common/base64.cc) and the Authorization header    *)
(* that carries a user and a password with it (src/common/http_header.cc). *)
(* Bytes and characters are their numbers.                                 *)
(***************************************************************************)
EXTENDS Integers, Sequences
LOCAL INSTANCE SequencesExt

Pad == 61                               \* '='
Colon == 58                             \* ':'
Basic == <<66, 97, 115, 105, 99, 32>>   \* "Basic "
Bearer == <<66, 101, 97, 114, 101, 114, 32>>

\* EncodeByte and DecodeCharacter: the character of six bits, and back (255 for any other).
EncodeByte(b) == IF b < 26 THEN b + 65 ELSE IF b < 52 THEN b + 71 ELSE IF b < 62 THEN b - 4
                 ELSE IF b = 62 THEN 43 ELSE IF b = 63 THEN 47 ELSE 64
DecodeCharacter(c) ==
    IF c \in 65 .. 90 THEN c - 65 ELSE IF c \in 97 .. 122 THEN c - 71 ELSE IF c \in 48 .. 57 THEN c + 4
    ELSE IF c = 43 THEN 62 ELSE IF c = 47 THEN 63 ELSE 255

\* CalculateEncodedSize: (4n/3 + 3) with its two low bits cleared.
CalculateEncodedSize(n) == LET s == (4 * n) \div 3 + 3 IN s - (s % 4)

\* Encode: whole groups of three bytes, then one or two bytes and padding.  at() would raise past the
\* size that was reserved; the characters not written stay '!'.
Encode(bytes) ==
    LET n == Len(bytes)
        B(i) == IF i < n THEN bytes[i + 1] ELSE 0
        Six(i) == LET g == 3 * (i \div 4) IN
                  CASE i % 4 = 0 -> B(g) \div 4
                    [] i % 4 = 1 -> (B(g) % 4) * 16 + B(g + 1) \div 16
                    [] i % 4 = 2 -> (B(g + 1) % 16) * 4 + B(g + 2) \div 64
                    [] OTHER     -> B(g + 2) % 64
        Char(i) == IF (i * 6) \div 8 >= n THEN Pad ELSE EncodeByte(Six(i))
    IN  [i \in 1 .. CalculateEncodedSize(n) |-> Char(i - 1)]

\* CalculateDecodedSize; -1 where it throws.
InputSize(text) == LET bad == {i \in DOMAIN text : DecodeCharacter(text[i]) >= 64}
                   IN  IF bad = {} THEN Len(text) ELSE (CHOOSE i \in bad : \A j \in bad : i <= j) - 1
CalculateDecodedSize(text) ==
    LET n == InputSize(text) IN
    IF text = <<>> THEN 0
    ELSE IF Len(text) < 4 \/ Len(text) % 4 # 0 THEN -1
    ELSE (n \div 4) * 3 + (CASE n % 4 = 2 -> 1 [] n % 4 = 3 -> 2 [] OTHER -> 0)

\* Decode: the bytes up to the decoded size.
Decode(text) ==
    LET D(i) == DecodeCharacter(text[i + 1])
        Byte(i) == LET g == 4 * (i \div 3) IN
                   CASE i % 3 = 0 -> (D(g) * 4 + D(g + 1) \div 16) % 256
                     [] i % 3 = 1 -> (D(g + 1) * 16 + D(g + 2) \div 4) % 256
                     [] OTHER     -> (D(g + 2) * 64 + D(g + 3)) % 256
    IN  [i \in 1 .. CalculateDecodedSize(text) |-> Byte(i - 1)]

-----------------------------------------------------------------------------
(* Authorization *)

\* hasMethod<Basic> and hasMethod<Bearer>: the word, a space and something more.
HasMethod(value, word) == IsPrefix(word, value) /\ Len(value) > Len(word)
GetMethod(value) == IF HasMethod(value, Basic) THEN "Basic" ELSE IF HasMethod(value, Bearer) THEN "Bearer" ELSE "Unknown"

\* setBasicUserPassword; the value is left alone when the user has a colon.
SetBasicUserPassword(value, user, password) ==
    IF Contains(user, Colon) THEN [raised |-> TRUE, value |-> value]
    ELSE [raised |-> FALSE, value |-> Basic \o Encode(user \o <<Colon>> \o password)]

\* The credentials of a value: what getBasicUser and getBasicPassword cut at the first colon.
Credentials(value) == Decode(SubSeq(value, Len(Basic) + 1, Len(value)))
ColonAt(text) == LET at == {i \in DOMAIN text : text[i] = Colon}
                 IN  IF at = {} THEN 0 ELSE CHOOSE i \in at : \A j \in at : i <= j
GetBasicUser(value) == LET c == Credentials(value) IN IF ColonAt(c) = 0 THEN <<>> ELSE SubSeq(c, 1, ColonAt(c) - 1)
GetBasicPassword(value) == LET c == Credentials(value)
                           IN  IF ColonAt(c) = 0 THEN <<>> ELSE SubSeq(c, ColonAt(c) + 1, Len(c))

-----------------------------------------------------------------------------
\* Any bytes come back from their encoding, whatever their number is modulo three, and the
\* user and the password that were set are the ones that are read, colons in the password included.
CredentialsKept(bytes) ==
    /\ Decode(Encode(bytes)) = bytes
    /\ Len(Encode(bytes)) % 4 = 0
    /\ \A i \in 0 .. Len(bytes) :
          LET user == SubSeq(bytes, 1, i)
              password == SubSeq(bytes, i + 1, Len(bytes))
              set == SetBasicUserPassword(<<>>, user, password)
          IN  ~set.raised => /\ GetMethod(set.value) = "Basic"
                             /\ GetBasicUser(set.value) = user
                             /\ GetBasicPassword(set.value) = password
=============================================================================
