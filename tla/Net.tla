-------------------------------- MODULE Net ---------------------------------
(***************************************************************************)
(* Addresses (src/common/net.cc): the parser of host and port, the IP and  *)
(* unix domain addresses made from a text, how an address is written, and  *)
(* the Host header that is parsed the same way (src/common/http_header.cc).*)
(* A text is a sequence of characters; a host stands for the address that  *)
(* it spells, so the spelling inet_ntop prefers is not told apart.         *)
(***************************************************************************)
EXTENDS Integers, Sequences, Stream
LOCAL INSTANCE SequencesExt

PathSize == 4                   \* sizeof sun_path, 108 in the system's headers
Nul == "\\0"
DigitChars == <<"0", "1", "2", "3", "4", "5", "6", "7", "8", "9">>
IsNumber(text) == text # <<>> /\ Range(text) \subseteq Range(DigitChars)

LongMax == 10^8                 \* a bound that stands for LONG_MAX: strtol goes no further
NumberOf(text) == FoldLeft(LAMBDA n, d : IF n >= LongMax THEN n
                                         ELSE n * 10 + (CHOOSE i \in 1 .. 10 : DigitChars[i] = d) - 1, 0, text)

RECURSIVE Decimal(_)
Decimal(n) == (IF n < 10 THEN <<>> ELSE Decimal(n \div 10)) \o <<DigitChars[(n % 10) + 1]>>

\* std::string::find: the first place of a character from a place on, 0 for npos.
FindFrom(text, c, from) == LET at == {i \in from .. Len(text) : text[i] = c}
                           IN  IF at = {} THEN 0 ELSE CHOOSE i \in at : \A j \in at : i <= j
Find(text, c) == FindFrom(text, c, 1)
From(text, i) == SubSeq(text, i, Len(text))

\* std::string::substr: no more than there is.
Substr(text, i, n) == SubSeq(text, i, IF i + n - 1 > Len(text) THEN Len(text) ELSE i + n - 1)

\* inet_pton of an IPv6 address: groups of digits around one pair of colons.
InetPton6(text) ==
    LET groups == Pieces(text, ":")
        empty == {i \in DOMAIN groups : groups[i] = <<>>}
    IN  /\ \A i \in DOMAIN groups : groups[i] = <<>> \/ (IsNumber(groups[i]) /\ Len(groups[i]) <= 4)
        /\ Len(groups) \in 3 .. 8
        /\ \/ \E i \in 2 .. Len(groups) - 1 : empty = {i}
           \/ empty \in {{1, 2}, {Len(groups) - 1, Len(groups)}} /\ Len(groups) > 3
           \/ empty = {1, 2, 3} /\ Len(groups) = 3

-----------------------------------------------------------------------------
Invalid == [ok |-> FALSE]

\* The constructor of a Port from a text: strtol must take all of it.
PortOf(text) == IF IsNumber(text) /\ NumberOf(text) <= 65535
                THEN [ok |-> TRUE, port |-> NumberOf(text)] ELSE Invalid

\* AddressParser: strtol takes no digit of a text that is no number, which is not an error.
Parse(data) ==
    IF InetPton6(data) THEN [ok |-> TRUE, host |-> data, port |-> <<>>, numeric |-> FALSE, family |-> "inet6"]
    ELSE LET close == Find(data, "]")
             open == Find(data, "[")
             bracketed == open # 0 /\ close # 0 /\ open < close
             colon == IF bracketed THEN FindFrom(data, ":", close) ELSE Find(data, ":")
             host == IF bracketed THEN Substr(data, open + 1, close - 2)
                     ELSE IF colon = 0 THEN data ELSE SubSeq(data, 1, colon - 1)
             port == IF colon = 0 THEN <<>> ELSE From(data, IF bracketed THEN close + 2 ELSE colon + 1)
         IN  IF colon # 0 /\ port = <<>> THEN Invalid
             ELSE [ok |-> TRUE, host |-> host, port |-> port, numeric |-> IsNumber(port),
                   family |-> IF bracketed THEN "inet6" ELSE "inet"]

\* getaddrinfo: a service that is a number keeps its low 16 bits, no other service is known; the
\* host is a number, a name or, for an empty host, this machine.
GetAddrInfo(host, service) ==
    IF ~IsNumber(service) \/ \E i \in DOMAIN host : host[i] \in {"[", "]", "/"} THEN Invalid
    ELSE [ok |-> TRUE, family |-> IF InetPton6(host) THEN "inet6" ELSE "inet",
          host |-> host, port |-> NumberOf(service) % 65536]
NoHost == <<"localhost">>
AnyHost == <<"any">>

\* Address::isUnixDomain.
IsUnixDomain(addr) == addr = <<>> \/ addr[1] = Nul \/ Contains(addr, "/")

\* PS_STRLCPY into a cleared array: one less than the size is copied.
StrlCpy(text, size) == SubSeq(text, 1, IF Len(text) + 1 > size THEN size - 1 ELSE Len(text))

\* The same, copying as many characters as the address has.
UnixCopy(addr) == LET size == IF Len(addr) < PathSize THEN Len(addr) ELSE PathSize
                  IN  StrlCpy(addr, size)

\* The unix branch of Address::init: unnamed, abstract and path names.
UnixAddress(addr) ==
    LET size == IF Len(addr) < PathSize THEN Len(addr) ELSE PathSize
    IN  [ok |-> TRUE, family |-> "unix", port |-> 0, len |-> size,
         host |-> IF size = 0 \/ addr[1] = Nul THEN SubSeq(addr, 1, size) ELSE UnixCopy(addr)]

\* What was parsed, looked up with a default port, 80 when none is given.
Resolved(p, defaultPort) ==
    LET service == IF p.port = <<>> THEN Decimal(IF defaultPort = 0 THEN 80 ELSE defaultPort) ELSE p.port
        host == IF p.host = <<>> THEN NoHost ELSE IF p.host = <<"*">> THEN AnyHost ELSE p.host
        info == GetAddrInfo(host, service)
    IN  IF ~info.ok \/ (p.numeric /\ info.port # NumberOf(service)) THEN Invalid ELSE info
FromParser(p, defaultPort) == IF p.ok THEN Resolved(p, defaultPort) ELSE Invalid

\* Address::init.
Address(addr, defaultPort) == IF IsUnixDomain(addr) THEN UnixAddress(addr) ELSE FromParser(Parse(addr), defaultPort)

\* IP::toString, and operator<< of an address.
HostText(a) == IF a.family = "unix" /\ (a.host = <<>> \/ a.host[1] = Nul) THEN <<"[", "A", "]">> ELSE a.host
Written(a) == (IF a.family = "inet6" THEN <<"[">> \o HostText(a) \o <<"]">> ELSE HostText(a))
                \o <<":">> \o Decimal(a.port)

\* Host::parse and Host::write.
HostParsed(p) ==
    LET port == IF p.port = <<>> THEN [ok |-> TRUE, port |-> 80] ELSE PortOf(p.port)
    IN  IF ~p.ok \/ ~port.ok THEN Invalid
        ELSE [ok |-> TRUE, port |-> port.port,
              host |-> IF p.family = "inet6" THEN <<"[">> \o p.host \o <<"]">> ELSE p.host]
HostHeader(data) == HostParsed(Parse(data))
WriteHost(h) == h.host \o (IF h.port # 0 THEN <<":">> \o Decimal(h.port) ELSE <<>>)

-----------------------------------------------------------------------------
\* A host without the characters that end it, and a number: what the parts of a text mean.
Simple(host) == host # <<>> /\ \A i \in DOMAIN host : host[i] \notin {":", "[", "]", "/", "*", Nul}
Meanings(text) ==
    {<<SubSeq(text, 1, i), From(text, i + 2)>> : i \in {j \in 1 .. Len(text) - 1 : text[j + 1] = ":"}}
      \cup {<<text, <<"8", "0">>>>}
Well(host) == Simple(host) \/ (Len(host) > 2 /\ host[1] = "[" /\ Last(host) = "]" /\ InetPton6(SubSeq(host, 2, Len(host) - 1)))
Bare(host) == IF host[1] = "[" THEN SubSeq(host, 2, Len(host) - 1) ELSE host

\* A host, or an IPv6 address in brackets, with a port or the default one, becomes that address, and
\* a port that does not fit 16 bits is refused instead of losing its high bits; what is written of
\* an address or of a Host header is read back as the same.
ReadAsWritten(text, a, h) ==
    /\ \A m \in Meanings(text) :
          Well(m[1]) /\ IsNumber(m[2]) =>
             /\ a.ok = (NumberOf(m[2]) <= 65535)
             /\ a.ok => a.host = Bare(m[1]) /\ a.port = NumberOf(m[2])
             /\ h.ok = a.ok
             /\ h.ok => h.host = m[1] /\ h.port = a.port
    /\ a.ok /\ a.family # "unix" /\ Simple(a.host) => Address(Written(a), 0) = a
    /\ h.ok /\ h.port # 0 /\ Well(h.host) => HostHeader(WriteHost(h)) = h
AddressKept(text) == ReadAsWritten(text, Address(text, 0), HostHeader(text))
=============================================================================
