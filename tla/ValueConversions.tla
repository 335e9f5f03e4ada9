-------------------------- MODULE ValueConversions --------------------------
(***************************************************************************)
(* Values on their way between Qore and the server: dates bound by         *)
(* command::set_params(), and what get_row_description() and get_value()   *)
(* make of numbers, strings, dates and times.  The state is one column     *)
(* with the value the server has in it, and the options of the connection. *)
(*                                                                         *)
(* The limits of the integers, the length of a day and the epochs are      *)
(* CONSTANTS, so that each can be in reach: the code has Ticks = 300,      *)
(* Millis = 1000, Micros = 1000000 per second, DaySecs = 86400,            *)
(* SybDays = 25567, Word = 2^32 and IntMax = 2^63 - 1.                     *)
(***************************************************************************)
EXTENDS Integers, Sequences, FiniteSetsExt

CONSTANTS DaySecs, Ticks, Millis, Micros,   \* seconds of a day, parts of a second
          SybDays,            \* days from 1900-01-01 to 1970-01-01
          MinSecs, MaxSecs,   \* 1753-01-01 and 9999-12-31 in seconds from 1970
          Word,               \* 2^32
          IntMaxText,         \* the digits of the largest 64-bit integer
          Numbers,            \* of a DECIMAL column
          Texts,              \* of the columns of characters
          Dates,              \* Qore dates
          MinuteSecs,         \* seconds of a minute
          YearZeroSecs        \* seconds from the year 0 to 1970

\* What the code relies on: the ticks of a day fit in an int.
ASSUME UnitsAssumption ==
    /\ {DaySecs, Ticks, Millis, Micros, MinuteSecs, SybDays, Word} \subseteq Nat \ {0}
    /\ YearZeroSecs \in Nat /\ DaySecs % MinuteSecs = 0
    /\ {MinSecs, MaxSecs} \subseteq Int
    /\ Word % 2 = 0 /\ Micros % Millis = 0 /\ Ticks < Millis
    /\ 2 * DaySecs * Ticks < Word

\* Numbers are digits, and of the characters only the blank is told apart.
ASSUME ValuesAssumption ==
    /\ Numbers \subseteq [neg : BOOLEAN, int : Seq(Nat), frac : Seq(Nat)]
    /\ IntMaxText \in Seq(Nat) /\ IntMaxText # <<>>
    /\ Texts \subseteq Seq({"w", " "})
    /\ Dates \subseteq [secs : Int, us : 0..Micros - 1]

VARIABLES
    freetds,     \* which of the two drivers is built
    numeric,     \* connection::numeric_support
    optimized,   \* connection::optimized_date_binds
    column,      \* type of the column
    stored,      \* what the server has in it
    bound,       \* history: the date bound by value, if one was
    value,       \* the value read
    raised       \* whether the last call raised an exception

vars == <<freetds, numeric, optimized, column, stored, bound, value, raised>>

NumberTypes == {"DECIMAL"}
TextTypes   == {"CHAR", "VARCHAR", "LONGCHAR", "TEXT", "UNICHAR", "FLOAT26"}
DateTypes   == {"DATETIME", "TIME", "SMALLDATETIME", "DATE", "BIGDATETIME", "BIGTIME"}

None == [type |-> "none"]

-----------------------------------------------------------------------------
(* Arithmetic of C.                                                        *)

Quotient(a, b)  == IF a >= 0 THEN a \div b ELSE -((-a) \div b)
RoundedTo(a, b) == IF a >= 0 THEN (2 * a + b) \div (2 * b)
                   ELSE -((b - 2 * a) \div (2 * b))       \* round(a / b)
Unsigned(a)     == a % Word
Signed(a)       == ((a + Word \div 2) % Word) - Word \div 2

SybSecs == SybDays * DaySecs

-----------------------------------------------------------------------------
(* Numbers: the text of a DECIMAL is its sign, its digits and the digits   *)
(* behind the point, if the column has any.                                *)

\* Of two texts of the same length, whether strcmp(a, b) <= 0.
NotAfter(a, b) == \/ a = b
                  \/ \E k \in DOMAIN a : /\ a[k] < b[k]
                                         /\ \A m \in 1..k - 1 : a[m] = b[m]

\* The digits of -2^63 are those of 2^63 - 1 with the last one counted up.
IntMinText == [IntMaxText EXCEPT ![Len(IntMaxText)] = @ + 1]

Trimmed(digits) ==
    SubSeq(digits, 1, Max({0} \cup {k \in DOMAIN digits : digits[k] # 0}))

\* strtoll() keeps to the ends of its range.
StrToLL(neg, int) ==
    [type |-> "int", neg |-> neg,
     digits |-> IF Len(int) > Len(IntMaxText) THEN (IF neg THEN IntMinText ELSE IntMaxText)
                ELSE IF Len(int) < Len(IntMaxText) THEN int
                ELSE IF neg THEN IF NotAfter(int, IntMinText) THEN int ELSE IntMinText
                ELSE IF NotAfter(int, IntMaxText) THEN int ELSE IntMaxText]

\* Mutated form of FitsInt: only the number of digits is looked at.
FitsIntLength(neg, int) == Len(int) <= Len(IntMaxText)

\* The test of getNumber().  For a negative number strcmp() compares the texts,
\* and is asked for those not before the smallest integer.
FitsInt(neg, int) ==
    \/ Len(int) < Len(IntMaxText)
    \/ /\ Len(int) = Len(IntMaxText)
       /\ IF neg THEN NotAfter(IntMinText, int) ELSE NotAfter(int, IntMaxText)

\* command::getNumber()
GetNumber(text) ==
    LET frac == Trimmed(text.frac) IN
    IF numeric = "optimal" /\ frac = <<>> /\ FitsInt(text.neg, text.int)
    THEN StrToLL(text.neg, text.int)
    ELSE [type |-> "number", neg |-> text.neg, int |-> text.int, frac |-> frac]

-----------------------------------------------------------------------------
(* Dates and times.  A Qore date is the seconds from 1970 and microseconds.*)

Instant(secs, us) == [type |-> "date", secs |-> secs, us |-> us]

\* Mutated form of DaysOf: the seconds of a day are counted to the next one.
DaysOfRounded(secs) == RoundedTo(secs, DaySecs)

\* int days = secs / 86400
DaysOf(secs) == Quotient(secs, DaySecs)

\* Mutated form of ToDatetime: the ticks of the microseconds are cut off.
ToDatetimeCut(d) ==
    LET days == DaysOf(d.secs) IN
    [days |-> days + SybDays,
     time |-> (d.secs - days * DaySecs) * Ticks + Quotient(d.us * Ticks, Micros)]

\* Conversions::DateTime_to_DATETIME().  days * 86400 is computed in an int: it
\* may overflow, but the result is cut to 32 bits with or without the wrap.
ToDatetime(d) ==
    LET days == DaysOf(d.secs) IN
    [days |-> days + SybDays,
     time |-> Signed((d.secs - Signed(days * DaySecs)) * Ticks
                     + RoundedTo(d.us * Ticks, Micros))]

InRange(d) == MinSecs <= d.secs /\ d.secs <= MaxSecs    \* check_epoch()

\* Mutated form of Milliseconds: the part of a second is cut off, not rounded.
MillisecondsCut(ticks) == Quotient(ticks * Millis, Ticks)

\* round(ticks * 3.3333333): milliseconds of a number of ticks.
Milliseconds(ticks) == RoundedTo(ticks * Millis, Ticks)

OfTicks(secs, ticks) ==
    LET whole == Quotient(ticks, Ticks) IN
    Instant(secs + whole, Milliseconds(ticks - whole * Ticks) * (Micros \div Millis))

TimeToDate(t)     == OfTicks(0, t)
DatetimeToDate(v) == OfTicks(v.days * DaySecs - SybSecs, v.time)

\* DATETIME4_to_DateTime()
SmallToDate(v) == Instant(v.minutes * MinuteSecs + v.days * DaySecs - SybSecs, 0)

\* DATE_to_DateTime(): an unsigned times ints less an unsigned, all of 32 bits.
DateToDate(days) == Instant(Unsigned(days * DaySecs - SybSecs), 0)

\* Mutated form of BigTimeToDate: the seconds are not taken off.
BigTimeToDateWhole(v) == Instant(v \div Micros, v)

\* BIGTIME_to_DateTime(), and BIGDATETIME_to_DateTime() with its other epoch.
BigTimeToDate(v) == LET secs == v \div Micros IN Instant(secs, v - secs * Micros)
BigToDate(v)     == LET d == BigTimeToDate(v) IN [d EXCEPT !.secs = @ - YearZeroSecs]

-----------------------------------------------------------------------------
(* Strings: sequences of characters, of which only blanks and the          *)
(* terminator matter.                                                      *)

\* get_row_description(): what a column is bound as.  FLOAT26 is the FLOAT with
\* the usertype 26 that FreeTDS makes of a DECIMAL.
Described(type) ==
    CASE type \in {"DECIMAL", "CHAR"}            -> [datatype |-> "CHAR", format |-> "PADBLANK"]
      [] type = "UNICHAR"                        -> [datatype |-> "TEXT", format |-> "NULLTERM"]
      [] type \in {"VARCHAR", "LONGCHAR", "TEXT"} -> [datatype |-> type, format |-> "NULLTERM"]
      [] type = "FLOAT26" /\ freetds             -> [datatype |-> "CHAR", format |-> "NULLTERM"]
      [] OTHER                                   -> [datatype |-> type, format |-> "UNUSED"]

NeedTrim(d) == \/ d.format = "PADBLANK" \/ d.datatype = "TEXT"
               \/ ~freetds /\ d.datatype = "LONGCHAR"

WithoutBlanks(s) == SubSeq(s, 1, Max({0} \cup {k \in DOMAIN s : s[k] # " "}))

\* What ct_fetch() puts in the buffer.
Fetched(d, s) == s \o CASE d.format = "NULLTERM" -> <<"NUL">>
                        [] d.format = "PADBLANK" -> <<" ", " ">>
                        [] d.format = "UNUSED"   -> <<>>

\* Mutated form of Length: the terminator is taken for a character.
LengthOfBuffer(d, s) == Len(s)

\* value_len - 1 for the types that are bound with a terminator.
Length(d, s) == IF d.datatype = "CHAR" THEN Len(s) ELSE Len(s) - 1

GetText(d, s) ==
    LET text == SubSeq(Fetched(d, s), 1, Length(d, Fetched(d, s))) IN
    [type |-> "string",
     text |-> IF NeedTrim(d) /\ (d.datatype = "CHAR" \/ ~freetds) THEN WithoutBlanks(text)
              ELSE text]

GetDate ==
    CASE column = "DATETIME"      -> DatetimeToDate(stored)
      [] column = "TIME"          -> TimeToDate(stored)
      [] column = "SMALLDATETIME" -> SmallToDate(stored)
      [] column = "DATE"          -> DateToDate(stored)
      [] column = "BIGDATETIME"   -> BigToDate(stored)
      [] column = "BIGTIME"       -> BigTimeToDate(stored)

\* get_value().  A DECIMAL comes as a text without blanks.
GetValue ==
    CASE column \in DateTypes -> GetDate
      [] column = "DECIMAL" /\ numeric = "string" -> [type |-> "string", text |-> stored]
      [] column = "DECIMAL" /\ numeric # "string" -> GetNumber(stored)
      [] column = "FLOAT26" /\ ~freetds -> [type |-> "float", text |-> stored]
      [] OTHER -> GetText(Described(column), stored)

-----------------------------------------------------------------------------
(* What the server may have in a column.                                   *)

DayTicks == DaySecs * Ticks
Days     == Quotient(MinSecs, DaySecs) + SybDays .. Quotient(MaxSecs, DaySecs) + SybDays

ServerValues(type) ==
    CASE type = "DECIMAL"       -> Numbers
      [] type \in TextTypes     -> Texts
      [] type = "DATETIME"      -> [days : Days, time : 0..DayTicks - 1]
      [] type = "TIME"          -> 0..DayTicks - 1
      [] type = "SMALLDATETIME" -> [days : 0..SybDays + 1, minutes : 0..DaySecs \div MinuteSecs - 1]
      [] type = "DATE"          -> Days
      [] type = "BIGDATETIME"   -> {(d.secs + YearZeroSecs) * Micros + d.us : d \in Dates}
      [] type = "BIGTIME"       -> {(d.secs % DaySecs) * Micros + d.us : d \in Dates}

\* A CS_DATETIME the server takes, and what becomes of it in a BIGDATETIME.
LegalDatetime(v) == v.time \in 0..DayTicks - 1
AsBig(v) == ((v.days - SybDays) * DaySecs + YearZeroSecs) * Micros
            + RoundedTo(v.time * Micros, Ticks)

-----------------------------------------------------------------------------
Init ==
    /\ freetds \in BOOLEAN
    /\ numeric = "optimal" /\ optimized = FALSE
    /\ column \in NumberTypes \cup TextTypes \cup DateTypes
    /\ stored \in ServerValues(column)
    /\ bound = None /\ value = None /\ raised = FALSE

\* setOption(): the number options exclude each other, their arguments are not
\* looked at, and nothing ever clears optimized_date_binds.
SetOption(o) ==
    /\ value' = None /\ bound' = None /\ raised' = FALSE
    /\ \/ o # "optimized-date-binds" /\ numeric' = o /\ UNCHANGED optimized
       \/ o = "optimized-date-binds" /\ optimized' = TRUE /\ UNCHANGED numeric
    /\ UNCHANGED <<freetds, column, stored>>

Refused == raised' = TRUE /\ UNCHANGED <<stored, bound>>
Stored(v, d) == stored' = v /\ bound' = [d |-> [secs |-> d.secs, us |-> d.us], full |-> optimized] /\ raised' = FALSE

\* The case NT_DATE of set_params(), and what the server does with the result.
\* With optimized-date-binds the date is sent as a text with its microseconds,
\* which a DATETIME column does not take.
BindDate(d) ==
    /\ column \in {"DATETIME", "BIGDATETIME"}
    /\ \/ /\ optimized /\ column = "BIGDATETIME"
          /\ Stored((d.secs + YearZeroSecs) * Micros + d.us, d)
       \/ /\ optimized /\ column = "DATETIME" /\ d.us = 0 /\ InRange(d)
          /\ Stored([days |-> d.secs \div DaySecs + SybDays,
                     time |-> (d.secs % DaySecs) * Ticks], d)
       \/ /\ optimized /\ column = "DATETIME" /\ (d.us # 0 \/ ~InRange(d))
          /\ Refused
       \/ /\ ~optimized
          /\ IF InRange(d) /\ LegalDatetime(ToDatetime(d))
             THEN Stored(IF column = "DATETIME" THEN ToDatetime(d) ELSE AsBig(ToDatetime(d)), d)
             ELSE Refused
    /\ value' = None
    /\ UNCHANGED <<freetds, numeric, optimized, column>>

\* A program writes back what it has read.
Rebind == value.type = "date" /\ BindDate(Instant(value.secs, value.us))

Read ==
    /\ value' = GetValue /\ raised' = FALSE
    /\ UNCHANGED <<freetds, numeric, optimized, column, stored, bound>>

-----------------------------------------------------------------------------
Next == \/ \E o \in {"optimal", "string", "numeric", "optimized-date-binds"} : SetOption(o)
        \/ \E d \in Dates : BindDate(d)
        \/ Rebind \/ Read

Spec == Init /\ [][Next]_vars

-----------------------------------------------------------------------------
(* The properties.                                                         *)

Abs(a) == IF a < 0 THEN -a ELSE a
IsRead == value # None

TypeOK ==
    /\ freetds \in BOOLEAN /\ optimized \in BOOLEAN /\ raised \in BOOLEAN
    /\ numeric \in {"optimal", "string", "numeric"}
    /\ column \in NumberTypes \cup TextTypes \cup DateTypes
    /\ bound = None \/ bound.d \in [secs : Int, us : Nat]
    /\ IsRead => value.type \in CASE column \in NumberTypes -> {"int", "number", "string"}
                                 [] column \in TextTypes   -> {"string", "float"}
                                 [] column \in DateTypes   -> {"date"}
    /\ IsRead /\ value.type = "date" => value.us \in 0..Micros - 1

\* Whether a number is one of a 64-bit integer.
Whole(text)   == Trimmed(text.frac) = <<>>
InInt64(text) == \/ Len(text.int) < Len(IntMaxText)
                 \/ /\ Len(text.int) = Len(IntMaxText)
                    /\ NotAfter(text.int, IF text.neg THEN IntMinText ELSE IntMaxText)

\* A DECIMAL is the same number when it is read, whatever type the options give
\* it: no value is rounded, saturated or cut on its way.  Left out are the whole
\* numbers of 19 digits below the smallest integer, which getNumber() takes for
\* integers (see OptimalNumbers).
NumbersExact ==
    column = "DECIMAL" /\ IsRead
    /\ ~(stored.neg /\ Len(stored.int) = Len(IntMaxText) /\ ~InInt64(stored)) =>
        CASE value.type = "string" -> value.text = stored
          [] value.type = "int"    -> /\ value.neg = stored.neg /\ value.digits = stored.int
                                      /\ Whole(stored)
          [] value.type = "number" -> /\ value.neg = stored.neg /\ value.int = stored.int
                                      /\ value.frac = Trimmed(stored.frac)

\* What the documentation says of optimal-numbers: an integer if possible, an
\* arbitrary-precision number if not.
OptimalNumbers ==
    column = "DECIMAL" /\ IsRead /\ numeric = "optimal" =>
        (value.type = "int" <=> Whole(stored) /\ InInt64(stored))

\* A string comes back exactly as the server has it, but for the blanks at its
\* end: a CHAR comes without them, and with Sybase so do LONGCHAR, UNICHAR and
\* TEXT (see TextDirect).  No terminator is taken for a character, and no
\* character for the terminator.  Left out is the FLOAT of FreeTDS, which is
\* bound with a terminator and read without allowing for it.
TextsRead ==
    column \in TextTypes \ {"FLOAT26"} /\ IsRead =>
        value.text = IF column = "CHAR" \/ (~freetds /\ column # "VARCHAR")
                     THEN WithoutBlanks(stored) ELSE stored

\* What the documentation says of TEXT, for both drivers: a direct conversion.
\* As an invariant of values.cfg it fails: with Sybase the blanks are trimmed.
TextDirect == column = "TEXT" /\ IsRead => value.text = stored

\* Seconds from 1970 of a date of the server, and microseconds times Ticks.
TrueSecs ==
    CASE column = "DATETIME"      -> (stored.days - SybDays) * DaySecs + stored.time \div Ticks
      [] column = "TIME"          -> stored \div Ticks
      [] column = "SMALLDATETIME" -> (stored.days - SybDays) * DaySecs + stored.minutes * MinuteSecs
      [] column = "DATE"          -> (stored - SybDays) * DaySecs
      [] column = "BIGDATETIME"   -> stored \div Micros - YearZeroSecs
      [] column = "BIGTIME"       -> stored \div Micros
TrueTicksMicros ==
    CASE column = "DATETIME" -> (stored.time % Ticks) * Micros
      [] column = "TIME"     -> (stored % Ticks) * Micros
      [] column \in {"BIGDATETIME", "BIGTIME"} -> (stored % Micros) * Ticks
      [] OTHER               -> 0

\* A date read is the instant the server has, in every type: over both epochs,
\* before 1970 and after it, the rest exactly and the ticks of 1/300 s to the
\* nearest millisecond, which is what the code keeps of them and less than the
\* documentation says (see TicksToMicrosecond).  Of the DATEs only those from
\* 1970 to the end of 32 bits of seconds (see DatesDirect).
ServerDatesRead ==
    column \in DateTypes /\ IsRead
    /\ (column = "DATE" => TrueSecs \in 0..Word - 1) =>
        /\ value.secs = TrueSecs
        /\ IF column \in {"DATETIME", "TIME"}
           THEN 2 * Abs(value.us * Ticks - TrueTicksMicros) <= Ticks * (Micros \div Millis)
           ELSE value.us * Ticks = TrueTicksMicros

\* What the documentation says of DATETIME and TIME: values of 1/300 s are
\* rounded to the nearest microsecond.  As an invariant of values.cfg it fails.
TicksToMicrosecond ==
    column \in {"DATETIME", "TIME"} /\ IsRead =>
        2 * Abs(value.us * Ticks - TrueTicksMicros) <= Ticks

\* What the documentation says of DATE: a direct conversion.  As an invariant of
\* values.cfg it fails.
DatesDirect == column = "DATE" /\ IsRead => value.secs = TrueSecs

\* A date bound and then read is the same instant up to half a tick of the server
\* and half a millisecond of the way back; with optimized-date-binds it is the
\* same to the microsecond, if the column has them.
DatesRoundTrip ==
    bound # None /\ IsRead =>
        LET d == bound.d
            off == (value.secs - d.secs) * Micros + value.us - d.us IN
        /\ 2 * Ticks * Abs(off) <= Micros + Ticks * (Micros \div Millis)
        /\ bound.full => off = 0

\* A program that reads a date and writes it back changes nothing, although the
\* milliseconds it was given are not the ticks of the server.  (A BIGDATETIME
\* needs optimized-date-binds for that.)
WrittenBackUnchanged ==
    [][Rebind /\ ~raised' /\ (column = "DATETIME" \/ optimized) => stored' = stored]_vars

\* The dates a call of set_params() fails for: those out of range; with
\* optimized-date-binds those with a part of a second in a DATETIME column;
\* without it those before 1970 with a time of day, whose time of day comes out
\* negative, and those that round up to the end of their day.
HasTimeOfDay(d) == d.secs % DaySecs # 0 \/ d.us # 0
EndOfDay(d)     == d.secs % DaySecs = DaySecs - 1 /\ 2 * d.us * Ticks >= (2 * Ticks - 1) * Micros
MayBeRefused(d) ==
    \/ ~InRange(d)
    \/ optimized /\ column = "DATETIME" /\ d.us # 0
    \/ ~optimized /\ (EndOfDay(d) \/ (d.secs < 0 /\ HasTimeOfDay(d)))
RefusedDates ==
    [][raised' => \A d \in Dates : MayBeRefused(d) \/ ~BindDate(d)]_vars
=============================================================================
