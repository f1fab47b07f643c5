-------------------------------- MODULE Date --------------------------------
(***************************************************************************)
(* Dates (FullDate of src/common/http_defs.cc over the calendar, the       *)
(* parser and the formatter of date/date.h).  A text is a sequence of      *)
(* names, digits and marks; an instant is a day, the seconds in it and the *)
(* first digit of their fraction, which stands for all nine.               *)
(***************************************************************************)
EXTENDS Integers, Sequences, TLC, Stream
LOCAL INSTANCE SequencesExt

DayNames == <<"Sun", "Mon", "Tue", "Wed", "Thu", "Fri", "Sat">>
FullNames == <<"Sunday", "Monday", "Tuesday", "Wednesday", "Thursday", "Friday", "Saturday">>
MonthNames == <<"Jan", "Feb", "Mar", "Apr", "May", "Jun", "Jul", "Aug", "Sep", "Oct", "Nov", "Dec">>
Digits == <<"0", "1", "2", "3", "4", "5", "6", "7", "8", "9">>
Place(c, names) == CHOOSE i \in DOMAIN names : names[i] = c
IsDigit(c) == Contains(Digits, c)
NumberOf(text) == FoldLeft(LAMBDA n, c : n * 10 + Place(c, Digits) - 1, 0, text)

-----------------------------------------------------------------------------
(* The calendar *)

IsLeap(y) == y % 4 = 0 /\ (y % 100 # 0 \/ y % 400 = 0)
LastDay(y, m) == IF m = 2 /\ IsLeap(y) THEN 29 ELSE <<31, 28, 31, 30, 31, 30, 31, 31, 30, 31, 30, 31>>[m]
Ok(ymd) == ymd.m \in 1 .. 12 /\ ymd.d >= 1 /\ ymd.d <= LastDay(ymd.y, ymd.m)

\* year_month_day::to_days and from_days count from 1970 by eras of 400 years that start in March.
ToDays(ymd) ==
    LET y == IF ymd.m <= 2 THEN ymd.y - 1 ELSE ymd.y
        era == y \div 400
        yoe == y - era * 400
        doy == (153 * (IF ymd.m > 2 THEN ymd.m - 3 ELSE ymd.m + 9) + 2) \div 5 + ymd.d - 1
    IN  era * 146097 + yoe * 365 + yoe \div 4 - yoe \div 100 + doy - 719468

FromDays(days) ==
    LET z == days + 719468
        era == z \div 146097
        doe == z - era * 146097
        yoe == (doe - doe \div 1460 + doe \div 36524 - doe \div 146096) \div 365
        doy == doe - (365 * yoe + yoe \div 4 - yoe \div 100)
        mp == (5 * doy + 2) \div 153
        m == IF mp < 10 THEN mp + 3 ELSE mp - 9
    IN  [y |-> yoe + era * 400 + (IF m <= 2 THEN 1 ELSE 0), m |-> m, d |-> doy - (153 * mp + 2) \div 5 + 1]

\* weekday_from_days: the remainder of the unsigned number too, because 2^32 % 7 = 4.
WeekdayFromDays(z) == (z + 4) % 7

\* What a count of nanoseconds in 64 bits can hold: from 1677-09-21 00:12:44 to 2262-04-11 23:47:16.
InRange(t) == /\ t.days > -106752 \/ (t.days = -106752 /\ t.secs * 10 + t.frac >= 7632)
              /\ t.days < 106751 \/ (t.days = 106751 /\ t.secs * 10 + t.frac <= 856368)

-----------------------------------------------------------------------------
(* from_stream.  What is read: the fields, the rest of the text, whether it failed. *)

Fail(s) == [s EXCEPT !.ok = FALSE]
DigitRun(text, max) == CHOOSE k \in 0 .. max : /\ k <= Len(text) /\ \A i \in 1 .. k : IsDigit(text[i])
                                               /\ k < max /\ k < Len(text) => ~IsDigit(text[k + 1])

\* detail::read of a mark, detail::read_unsigned of at most max digits, detail::read_signed.
ReadMark(s, c) == IF AtWord(s.rest, c) THEN [s EXCEPT !.rest = Tail(@)] ELSE Fail(s)
ReadUnsigned(s, field, max, sign) ==
    LET k == DigitRun(s.rest, max)
    IN  IF ~s.ok \/ k = 0 THEN Fail(s)
        ELSE [s EXCEPT !.rest = Advance(@, k), !.f = (field :> sign * NumberOf(SubSeq(s.rest, 1, k))) @@ @]
ReadSigned(s, field, max) ==
    IF Current(s.rest) \in {"-", "+"}
    THEN ReadUnsigned([s EXCEPT !.rest = Tail(@)], field, max - 1, IF s.rest[1] = "-" THEN -1 ELSE 1)
    ELSE ReadUnsigned(s, field, max, 1)

\* detail::read_long_double: seconds and their fraction.
ReadFraction(s, whole) ==
    IF whole.ok /\ AtWord(whole.rest, ".") /\ Len(s.rest) - Len(whole.rest) <= 2
    THEN LET k == DigitRun(Tail(whole.rest), 1)
         IN  [whole EXCEPT !.rest = Advance(Tail(@), k),
                           !.f = ("frac" :> NumberOf(SubSeq(Tail(whole.rest), 1, k))) @@ @]
    ELSE whole
ReadSeconds(s) == ReadFraction(s, ReadUnsigned(s, "S", 3, 1))

\* A name out of a list; %a and %A take short and full names alike.
ReadName(s, field, names, first) ==
    IF s.rest # <<>> /\ Contains(names, s.rest[1])
    THEN [s EXCEPT !.rest = Tail(@), !.f = (field :> Place(s.rest[1], names) - 1 + first) @@ @]
    ELSE Fail(s)
ReadWeekday(s) == IF s.rest # <<>> /\ Contains(FullNames, s.rest[1]) THEN ReadName(s, "wd", FullNames, 0)
                  ELSE ReadName(s, "wd", DayNames, 0)

\* %T: hours, minutes and seconds with colons between them.
ReadPart(s, field) == ReadUnsigned(s, field, 2, 1)
ReadColon(s) == IF s.ok THEN ReadMark(s, ":") ELSE s
ReadTime(s) == ReadSeconds(ReadColon(ReadPart(ReadColon(ReadPart(s, "H")), "M")))

\* %Z: whatever could be the name of a time zone, which changes nothing.
ReadZone(s) == LET end == {" ", ",", ":", "."}
               IN  IF Taken(s.rest, end) = <<>> THEN Fail(s) ELSE [s EXCEPT !.rest = Left(@, end)]

ReadDay(s) == ReadSigned(s, "d", 2)
ReadYear(s) == ReadSigned(s, "Y", 4)
ReadShortYear(s) == ReadUnsigned(s, "y", 2, 1)

\* Anything else in a format: a blank takes any number of blanks.
ReadOther(s, c) == IF c = " " THEN [s EXCEPT !.rest = SkipSpaces(@)] ELSE ReadMark(s, c)

Directive(s, c) ==
    IF ~s.ok THEN s
    ELSE CASE c \in {"%a", "%A"} -> ReadWeekday(s)
           [] c = "%b" -> ReadName(s, "m", MonthNames, 1)
           [] c = "%d" -> ReadDay(s)
           [] c = "%Y" -> ReadYear(s)
           [] c = "%y" -> ReadShortYear(s)
           [] c = "%T" -> ReadTime(s)
           [] c = "%Z" -> ReadZone(s)
           [] OTHER -> ReadOther(s, c)

\* The century of a year of two digits.
Century(y) == IF y >= 69 THEN 19 ELSE 20

\* hh_mm_ss::in_conventional_range and to_duration.
Conventional(f) == f["H"] < 24 /\ f["M"] < 60 /\ f["S"] < 60
Seconds(f) == f["H"] * 3600 + f["M"] * 60 + f["S"]

\* The day that the fields name, which must have the weekday that was read.
DayOf(f) == [y |-> IF "y" \in DOMAIN f THEN 100 * Century(f["y"]) + f["y"] ELSE f["Y"], m |-> f["m"], d |-> f["d"]]
Agree(f) == Ok(DayOf(f)) /\ f["wd"] = WeekdayFromDays(ToDays(DayOf(f)))

\* The fields agree, or the parse fails; then the instant, lost when its nanoseconds overflow.
Combined(f) ==
    LET t == [days |-> ToDays(DayOf(f)), secs |-> Seconds(f), frac |-> IF "frac" \in DOMAIN f THEN f["frac"] ELSE 0]
    IN  IF ~Agree(f) \/ ~Conventional(f) THEN [ok |-> FALSE]
        ELSE IF InRange(t) THEN [ok |-> TRUE, overflow |-> FALSE, t |-> t]
        ELSE [ok |-> TRUE, overflow |-> TRUE]
InstantOf(s) == IF s.ok THEN Combined(s.f) ELSE [ok |-> FALSE]
ParseDate(format, text) == InstantOf(FoldLeft(Directive, [rest |-> text, ok |-> TRUE, f |-> <<>>], format))

-----------------------------------------------------------------------------
(* FullDate *)

Rfc1123 == <<"%a", ",", " ", "%d", " ", "%b", " ", "%Y", " ", "%T", " ", "%Z">>
Rfc1123Dashes == <<"%a", ",", " ", "%d", "-", "%b", "-", "%Y", " ", "%T", " ", "%Z">>
Rfc850 == <<"%A", ",", " ", "%d", "-", "%b", "-", "%y", " ", "%T", " ", "%Z">>
AscTime == <<"%a", " ", "%b", " ", "%d", " ", "%T", " ", "%Y">>

\* parse_epoch: seconds since 1970, by days to stay within the integers at hand; a number of more
\* digits than 13 overflows.  std::stoull throws invalid_argument on the empty text, which no one
\* catches, and out_of_range, which is caught, on a number that 64 bits do not hold.
Significant(text) == LET zeros == CHOOSE k \in 0 .. Len(text) : /\ \A i \in 1 .. k : text[i] = "0"
                                                               /\ k < Len(text) => text[k + 1] # "0"
                     IN  Advance(text, zeros)
ULongMax == <<"1", "8", "4", "4", "6", "7", "4", "4", "0", "7", "3", "7", "0", "9", "5", "5", "1", "6", "1", "5">>
OutOfRange(digits) ==
    \/ Len(digits) > Len(ULongMax)
    \/ Len(digits) = Len(ULongMax)
       /\ \E i \in DOMAIN ULongMax : /\ Place(digits[i], Digits) > Place(ULongMax[i], Digits)
                                     /\ \A j \in 1 .. i - 1 : digits[j] = ULongMax[j]
ParseEpoch(text) ==
    LET Add(t, c) == LET secs == t.secs * 10 + Place(c, Digits) - 1
                     IN  [t EXCEPT !.days = @ * 10 + secs \div 86400, !.secs = secs % 86400]
        digits == Significant(text)
        t == FoldLeft(Add, [days |-> 0, secs |-> 0, frac |-> 0], SubSeq(digits, 1, IF Len(digits) < 13 THEN Len(digits) ELSE 13))
    IN  IF text = <<>> \/ (\E i \in DOMAIN text : ~IsDigit(text[i])) \/ OutOfRange(digits) THEN [ok |-> FALSE]
        ELSE IF Len(digits) <= 13 /\ InRange(t) THEN [ok |-> TRUE, overflow |-> FALSE, t |-> t]
        ELSE [ok |-> TRUE, overflow |-> TRUE]

\* fromString: the first format that can be read; it throws when there is none.
FirstRead(all) ==
    LET good == {i \in DOMAIN all : all[i].ok}
    IN  IF good = {} THEN [ok |-> FALSE] ELSE all[CHOOSE i \in good : \A j \in good : i <= j]
Formats == <<Rfc1123, Rfc1123Dashes, Rfc850, AscTime>>
FromString(text) == FirstRead(Append([i \in DOMAIN Formats |-> ParseDate(Formats[i], text)], ParseEpoch(text)))

Two(n) == <<Digits[(n \div 10) + 1], Digits[(n % 10) + 1]>>
Four(n) == Two(n \div 100) \o Two(n % 100)

\* The seconds with their fraction (decimal_format_seconds), the time of day (hh_mm_ss).
WriteSeconds(secs, frac) == Two(secs) \o <<".", Digits[frac + 1]>>
WriteTime(t) == Two(t.secs \div 3600) \o <<":">> \o Two((t.secs \div 60) % 60) \o <<":">> \o WriteSeconds(t.secs % 60, t.frac)

WriteWeekday(t) == <<DayNames[WeekdayFromDays(t.days) + 1]>>
WriteMonth(ymd) == <<MonthNames[ymd.m]>>
WriteYear(ymd) == Four(ymd.y)
WriteShortYear(ymd) == Two(ymd.y % 100)

\* to_stream: the day of the instant and the time in it, directive by directive.
Formatted(format, t) ==
    LET ymd == FromDays(t.days)
        Written(c) == CASE c = "%a" -> WriteWeekday(t)
                        [] c = "%b" -> WriteMonth(ymd)
                        [] c = "%d" -> Two(ymd.d)
                        [] c = "%Y" -> WriteYear(ymd)
                        [] c = "%y" -> WriteShortYear(ymd)
                        [] c = "%T" -> WriteTime(t)
                        [] c = "%Z" -> <<"UTC">>
                        [] OTHER -> <<c>>
    IN  FlattenSeq([i \in DOMAIN format |-> Written(format[i])])

\* system_clock::to_time_t cuts the fraction off towards 1970: to the second after, before it.
ToTimeT(t) ==
    LET secs == IF t.days < 0 /\ t.frac > 0 THEN t.secs + 1 ELSE t.secs
    IN  [days |-> t.days + secs \div 86400, secs |-> secs % 86400, frac |-> 0]

\* write: RFC1123GMT prints what to_time_t makes of the instant; RFC850 the day's short name.
WriteDate(type, t) ==
    CASE type = "RFC1123" -> Formatted(Rfc1123, t)
      [] type = "RFC850" -> Formatted([Rfc850 EXCEPT ![1] = "%a"], t)
      [] type = "AscTime" -> Formatted(AscTime, t)
      [] type = "RFC1123GMT" -> LET text == Formatted(Rfc1123, ToTimeT(t))
                                IN  SubSeq(text, 1, Len(text) - 4) \o <<" ", "GMT">>

-----------------------------------------------------------------------------
\* The calendar's reference: the day after a day.
DayAfter(ymd) == IF ymd.d < LastDay(ymd.y, ymd.m) THEN [ymd EXCEPT !.d = @ + 1]
                 ELSE IF ymd.m < 12 THEN [ymd EXCEPT !.d = 1, !.m = @ + 1]
                 ELSE [y |-> ymd.y + 1, m |-> 1, d |-> 1]

\* A whole second that is less than one second from the instant.
WholeSecond(r, t) ==
    LET tenths == ((r.days - t.days) * 86400 + r.secs - t.secs) * 10 - t.frac
    IN  r.frac = 0 /\ (r.days - t.days) \in {-1, 0, 1} /\ -10 < tenths /\ tenths < 10

\* The days follow each other, with their weekdays, as in the calendar, and what is written of an
\* instant is read back as it: in RFC1123GMT as a whole second less than one away, the instant
\* itself if it is whole, and in RFC850 only from 1969 to 1999 (FullDate::write and fromString,
\* year_month_day::from_days and to_days).
InstantKept(t) ==
    LET next == FromDays(t.days + 1)
    IN  /\ next = DayAfter(FromDays(t.days))
        /\ ToDays(next) = t.days + 1
        /\ WeekdayFromDays(t.days + 1) = (WeekdayFromDays(t.days) + 1) % 7
        /\ \A type \in {"RFC1123", "AscTime", "RFC1123GMT", "RFC850"} :
              (type = "RFC850" => FromDays(t.days).y \in 1969 .. 1999) =>
              LET r == FromString(WriteDate(type, t))
              IN  r.ok /\ ~r.overflow /\ IF type = "RFC1123GMT" THEN WholeSecond(r.t, t) ELSE r.t = t

\* What a text was made of: a date in one of the formats, which may be no date at all.
DateText(p) ==
    LET time == Two(p.time[1]) \o <<":">> \o Two(p.time[2]) \o <<":">> \o Two(p.time[3])
        day == Two(p.d)
        month == <<MonthNames[p.m]>>
    IN  CASE p.style = "RFC1123" -> <<DayNames[p.wd + 1], ",", " ">> \o day \o <<" ">> \o month \o <<" ">> \o Four(p.y) \o <<" ">> \o time \o <<" ", "GMT">>
          [] p.style = "dashes" -> <<DayNames[p.wd + 1], ",", " ">> \o day \o <<"-">> \o month \o <<"-">> \o Four(p.y) \o <<" ">> \o time \o <<" ", "GMT">>
          [] p.style = "RFC850" -> <<FullNames[p.wd + 1], ",", " ">> \o day \o <<"-">> \o month \o <<"-">> \o Two(p.y % 100) \o <<" ">> \o time \o <<" ", "GMT">>
          [] p.style = "AscTime" -> <<DayNames[p.wd + 1], " ">> \o month \o <<" ", " ">> \o (IF p.d < 10 THEN Tail(day) ELSE day) \o <<" ">> \o time \o <<" ">> \o Four(p.y)

\* The instant that it means, when there is such a day, of that name, and such a time of it.
Means(p) == [days |-> ToDays([y |-> p.y, m |-> p.m, d |-> p.d]), secs |-> p.time[1] * 3600 + p.time[2] * 60 + p.time[3], frac |-> 0]
Exists(p) == /\ Ok([y |-> p.y, m |-> p.m, d |-> p.d])
             /\ p.wd = WeekdayFromDays(Means(p).days)
             /\ p.time[1] < 24 /\ p.time[2] < 60 /\ p.time[3] < 60
MeantBy(p, r) == IF Exists(p) THEN r.ok /\ (InRange(Means(p)) => ~r.overflow /\ r.t = Means(p)) ELSE ~r.ok
ReadAsMeant(p) == MeantBy(p, FromString(DateText(p)))

\* A date is read as the instant it means, whatever its format, and refused when there is no such
\* day or time, or the day has another name.  Nothing is claimed of years of two digits from 2000 on
\* or with another day's name, which are read as years of the first century, nor of dates
\* before 1677 and after 2262, whose nanoseconds overflow (FullDate::fromString).
DateRead(p) == p.style # "RFC850" \/ (Exists(p) /\ p.y \in 1969 .. 1999) => ReadAsMeant(p)
=============================================================================
