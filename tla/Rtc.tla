-------------------------------- MODULE Rtc --------------------------------
(***************************************************************************)
(* The real time clock, drivers/rtc.cpp: get_unix_timestamp reads six      *)
(* registers one after the other while the clock goes on, and              *)
(* timestamp_to_string turns a timestamp into a date.  The hardware keeps  *)
(* the time as clock has it and shows two digits of each field.            *)
(***************************************************************************)
EXTENDS Integers, Sequences

CONSTANTS SECONDS, MINUTES, HOURS, \* of a minute, an hour and a day: 60, 60, 24
          Starts,                  \* when a behaviour may begin
          Span                     \* bound: the seconds it lasts

\* The kernel reads the digits 70 as 1970, so the last year is 2069.
Years == 1970..2069
DaysBefore == <<0, 31, 59, 90, 120, 151, 181, 212, 243, 273, 304, 334>>
DaysInMonth == <<31, 28, 31, 30, 31, 30, 31, 31, 30, 31, 30, 31>>

VARIABLES clock, read,  \* what the call at work has read, in the order of its reads
          timestamp,    \* what the last call returned
          elapsed,
          since, carry  \* history: when the call read its first register, and
                        \* whether another field than the seconds changed since

rtcVars == <<clock, read, timestamp, elapsed, since, carry>>

\* Mutant: no century is a leap year.
LeapNoCentury(y) == y % 4 = 0 /\ y % 100 # 0

Leap(y) == y % 4 = 0 /\ (y % 100 # 0 \/ y % 400 = 0)

LeapDay(month, y) == IF Leap(y) /\ month > 2 THEN 1 ELSE 0
-----------------------------------------------------------------------------
(***************************************************************************)
(* The clock and the calendar, counted from their definitions.             *)
(***************************************************************************)
LengthOf(month, y) == IF month = 2 /\ (\E n \in 0..25 : y = 1968 + 4 * n) THEN 29
                      ELSE DaysInMonth[month]

\* The days of a year before a month; month 13 is its end.
DaysToMonth(month, y) ==
  LET days[m \in 1..13] == IF m = 1 THEN 0 ELSE days[m - 1] + LengthOf(m - 1, y)
  IN days[month]

\* The days of all years before y.
DaysToYear ==
  LET days[y \in Years] == IF y = 1970 THEN 0 ELSE days[y - 1] + DaysToMonth(13, y - 1)
  IN [y \in Years |-> days[y]]

DaysSince1970(c) == DaysToYear[c.year] + DaysToMonth(c.month, c.year) + c.day - 1

Time(c) == ((DaysSince1970(c) * HOURS + c.hour) * MINUTES + c.min) * SECONDS + c.sec

NextDay(c) ==
  IF c.day < LengthOf(c.month, c.year) THEN [c EXCEPT !.day = @ + 1]
  ELSE IF c.month < 12 THEN [c EXCEPT !.day = 1, !.month = @ + 1]
  ELSE [c EXCEPT !.day = 1, !.month = 1, !.year = @ + 1]

NextSecond(c) ==
  IF c.sec + 1 < SECONDS THEN [c EXCEPT !.sec = @ + 1]
  ELSE IF c.min + 1 < MINUTES THEN [c EXCEPT !.sec = 0, !.min = @ + 1]
  ELSE IF c.hour + 1 < HOURS THEN [c EXCEPT !.sec = 0, !.min = 0, !.hour = @ + 1]
  ELSE NextDay([c EXCEPT !.sec = 0, !.min = 0, !.hour = 0])

Dates == {c \in [sec : 0..(SECONDS - 1), min : 0..(MINUTES - 1), hour : 0..(HOURS - 1),
                 day : 1..31, month : 1..12, year : Years] : c.day <= LengthOf(c.month, c.year)}

ASSUME RtcAssumption ==
  {SECONDS, MINUTES, HOURS} \subseteq 1..60 /\ Span \in Nat /\ Starts \subseteq Dates

\* A register holds two decimal digits.
Bcd(n) == 16 * (n \div 10) + (n % 10)
-----------------------------------------------------------------------------
bcd_to_bin(val) == (val \div 16) * 10 + (val % 16)

Registers(c) == <<c.sec, c.min, c.hour, c.day, c.month, c.year % 100>>

\* Mutant: the year first, the seconds last.
OrderFromYear == <<6, 5, 4, 3, 2, 1>>

\* get_second, get_minute, get_hour, get_day, get_month, get_year.
Order == <<1, 2, 3, 4, 5, 6>>

\* What was read of each register.
Fields(r) == [f \in 1..6 |-> r[CHOOSE i \in 1..6 : Order[i] = f]]

FullYear(digits) == IF digits < 70 THEN digits + 2000 ELSE digits + 1900

\* The arithmetic of get_unix_timestamp.
unix_timestamp(r) ==
  LET year == FullYear(r[6])
      days == (year - 1970) * 365 + (year - 1969) \div 4 - (year - 1901) \div 100
              + (year - 1601) \div 400 + DaysBefore[r[5]]
              + LeapDay(r[5], year) + r[4] - 1
  IN ((days * HOURS + r[3]) * MINUTES + r[2]) * SECONDS + r[1]

\* What the loop over whole years has taken away when it comes to year y.
YearsTaken ==
  LET taken[y \in 1970..2070] ==
        IF y = 1970 THEN 0 ELSE taken[y - 1] + IF Leap(y - 1) THEN 366 ELSE 365
  IN [y \in 1970..2070 |-> taken[y]]

\* What the loop over the months of year y has taken away when it comes to month m.
MonthTaken(month, y) ==
  LET taken[m \in 1..13] ==
        IF m = 1 THEN 0
        ELSE taken[m - 1] + DaysInMonth[m - 1] + IF Leap(y) /\ m - 1 = 2 THEN 1 ELSE 0
  IN taken[month]

\* The loops of timestamp_to_string stop at the first year, then at the first
\* month, that is longer than what is left.
timestamp_to_date(ts) ==
  LET days  == ts \div (SECONDS * MINUTES * HOURS)
      year  == CHOOSE y \in Years : YearsTaken[y] <= days /\ days < YearsTaken[y + 1]
      left  == days - YearsTaken[year]
      month == CHOOSE m \in 1..12 : MonthTaken(m, year) <= left /\ left < MonthTaken(m + 1, year)
  IN [sec |-> ts % SECONDS, min |-> (ts \div SECONDS) % MINUTES,
      hour |-> (ts \div (SECONDS * MINUTES)) % HOURS,
      day |-> left - MonthTaken(month, year) + 1, month |-> month, year |-> year]
-----------------------------------------------------------------------------
RtcInit == /\ clock \in Starts
           /\ read = <<>> /\ timestamp = 0 /\ elapsed = 0 /\ since = 0 /\ carry = FALSE

Second == /\ elapsed < Span /\ NextSecond(clock).year \in Years
          /\ elapsed' = elapsed + 1
          /\ clock' = NextSecond(clock)
          /\ carry' = (carry \/ [clock' EXCEPT !.sec = clock.sec] # clock)
          /\ UNCHANGED <<read, timestamp, since>>

\* One register of get_unix_timestamp; with the last one the call returns.
get_unix_timestamp ==
  LET i == Len(read) + 1
      r == Append(read, bcd_to_bin(Bcd(Registers(clock)[Order[i]])))
  IN /\ IF i = 1 THEN since' = Time(clock) /\ carry' = FALSE
                 ELSE UNCHANGED <<since, carry>>
     /\ IF i < 6 THEN read' = r /\ UNCHANGED timestamp
                 ELSE read' = <<>> /\ timestamp' = unix_timestamp(Fields(r))
     /\ UNCHANGED <<clock, elapsed>>

RtcNext == Second \/ get_unix_timestamp

RtcSpec == RtcInit /\ [][RtcNext]_rtcVars
-----------------------------------------------------------------------------
CallReturns == Len(read) = 5 /\ read' = <<>>

(***************************************************************************)
(* If no field but the seconds changed during the call, the timestamp is a *)
(* time at which the call was at work, on each side of every end of a      *)
(* month in a hundred years.  If the minute, the day or the year changed,  *)
(* wherever in the call, it is still not before the call began: the        *)
(* registers are read from the seconds up, so a carry adds a whole minute, *)
(* day or year too much and never takes one away (get_unix_timestamp).     *)
(***************************************************************************)
ReadingIsExactOrAhead ==
  [][CallReturns => /\ timestamp' >= since
                    /\ ~carry => timestamp' <= Time(clock)]_rtcVars

(***************************************************************************)
(* The date that timestamp_to_string prints for a time is the one that the *)
(* clock has at that time.                                                 *)
(***************************************************************************)
DateIsTheClocks == timestamp_to_date(Time(clock)) = clock
=============================================================================
