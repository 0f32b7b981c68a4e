------------------------------ MODULE CivilDate ------------------------------
(***************************************************************************)
(* TDBDate, TDBDateTime and TDBTime: the conversions between a calendar    *)
(* date and a count of seconds since 1970 in core.mod/glue.c, the          *)
(* validators in strptime.bmx, and the objects that hold both forms.       *)
(*                                                                         *)
(* The reference is a walk through the calendar, month by month, from      *)
(* January 1970 to either end of the range.  Microseconds, which every     *)
(* operation passes on, are left out.                                      *)
(***************************************************************************)
EXTENDS Integers, Sequences

CONSTANTS
  YearsBefore,   \* bound: the walk goes back to this many years before the year 0
  MaxYear,       \* bound: and forward to the end of this year
  MaxDays,       \* bound: how far from 1970 objects are made, in days
  Minute         \* seconds in a minute: 60 in the code, fewer where the count of
                 \* seconds has to fit the integers of a checker

ASSUME RangeAssumption ==
  /\ YearsBefore \in Nat /\ MaxDays \in Nat /\ Minute \in Nat \ {0}
  /\ MaxYear \in Nat /\ MaxYear >= 1970

VARIABLES
  y, m,      \* the month the walk has come to
  first,     \* the number of its first day, 1970-01-01 being day 0
  obj,       \* a date object, or NoObject
  meant      \* history: the day of this month and the time it was set to

dateVars == <<y, m, first, obj, meant>>

-----------------------------------------------------------------------------
(* The calendar: the reference.                                            *)

MinYear == -YearsBefore
Hour    == 60 * Minute
Day     == 24 * Hour

Divides(n, k) == k % n = 0
LeapYear(yr)  == Divides(4, yr) /\ (Divides(100, yr) => Divides(400, yr))
MonthLength(yr, mo) ==
  IF mo = 2 /\ LeapYear(yr) THEN 29
  ELSE <<31, 28, 31, 30, 31, 30, 31, 31, 30, 31, 30, 31>>[mo]

NextMonth     == IF m = 12 THEN <<y + 1, 1>> ELSE <<y, m + 1>>
PreviousMonth == IF m = 1 THEN <<y - 1, 12>> ELSE <<y, m - 1>>

-----------------------------------------------------------------------------
(* Division and remainder in C go toward zero.                             *)

Quot(a, b) == IF a >= 0 THEN a \div b ELSE -((-a) \div b)
Rest(a, b) == a - b * Quot(a, b)

(* glue.c: years are counted from March, in eras of 400.                   *)
db_days_from_civil(yr, mo, d) ==
  LET y1  == IF mo <= 2 THEN yr - 1 ELSE yr
      era == Quot(IF y1 >= 0 THEN y1 ELSE y1 - 399, 400)
      yoe == y1 - era * 400
      doy == (153 * (mo + (IF mo > 2 THEN -3 ELSE 9)) + 2) \div 5 + d - 1
      doe == yoe * 365 + yoe \div 4 - yoe \div 100 + doy
  IN era * 146097 + doe - 719468

db_civil_from_days_trunc(days) ==     \* seeded fault: negative eras are rounded up
  LET z   == days + 719468
      era == Quot(z, 146097)
      doe == z - era * 146097
      yoe == (doe - doe \div 1460 + doe \div 36524 - doe \div 146096) \div 365
      doy == doe - (365 * yoe + yoe \div 4 - yoe \div 100)
      mp  == (5 * doy + 2) \div 153
      mo  == mp + (IF mp < 10 THEN 3 ELSE -9)
  IN <<yoe + era * 400 + (IF mo <= 2 THEN 1 ELSE 0), mo, doy - (153 * mp + 2) \div 5 + 1>>
db_civil_from_days(days) ==
  LET z   == days + 719468
      era == Quot(IF z >= 0 THEN z ELSE z - 146096, 146097)
      doe == z - era * 146097
      yoe == (doe - doe \div 1460 + doe \div 36524 - doe \div 146096) \div 365
      doy == doe - (365 * yoe + yoe \div 4 - yoe \div 100)
      mp  == (5 * doy + 2) \div 153
      mo  == mp + (IF mp < 10 THEN 3 ELSE -9)
  IN <<yoe + era * 400 + (IF mo <= 2 THEN 1 ELSE 0), mo, doy - (153 * mp + 2) \div 5 + 1>>

_calcDateValue(date, time) ==
  db_days_from_civil(date[1], date[2], date[3]) * Day
    + time[1] * Hour + time[2] * Minute + time[3]

_splitDateValueTrunc(v) ==     \* seeded fault: a negative rest is kept
  LET rem == Rest(v, Day)
  IN [date |-> db_civil_from_days(Quot(v, Day)),
      time |-> <<Quot(rem, Hour), Quot(Rest(rem, Hour), Minute), Rest(rem, Minute)>>]
_splitDateValue(v) ==
  LET r    == Rest(v, Day)
      rem  == IF r < 0 THEN r + Day ELSE r
      days == IF r < 0 THEN Quot(v, Day) - 1 ELSE Quot(v, Day)
  IN [date |-> db_civil_from_days(days),
      time |-> <<rem \div Hour, (rem % Hour) \div Minute, rem % Minute>>]

-----------------------------------------------------------------------------
(* strptime.bmx: the validators.                                           *)

dbIsLeapYearJulian(yr) == yr % 4 = 0     \* seeded fault: centuries are forgotten
dbIsLeapYear(yr) ==
  \/ yr % 400 = 0
  \/ yr % 100 # 0 /\ yr % 4 = 0

dbDaysInMonth(yr, mo) ==
  CASE mo \in {1, 3, 5, 7, 8, 10, 12} -> 31
    [] mo \in {4, 6, 9, 11}           -> 30
    [] mo = 2                         -> IF dbIsLeapYear(yr) THEN 29 ELSE 28
    [] OTHER                          -> 0

dbIsValidDate(date) ==
  /\ date[1] >= 1
  /\ date[2] \in 1..12
  /\ date[3] \in 1..dbDaysInMonth(date[1], date[2])

(* Microseconds are in range: they have a field of their own, which neither*)
(* form of the instant depends on, and the check of them is left out here  *)
(* and in setDate of a TDBTime.                                            *)
dbIsValidTime(time) == time[1] \in 0..23 /\ time[2] \in 0..59 /\ time[3] \in 0..(Minute - 1)

-----------------------------------------------------------------------------
(* The objects.  A TDBDate keeps the date part only, a TDBTime the time    *)
(* part only, with 1900-01-01 for a date.                                  *)

Kinds    == {"date", "datetime", "time"}
Midnight == <<0, 0, 0>>
NoObject == [kind |-> "none", isNull |-> TRUE, value |-> 0,
             date |-> <<1900, 1, 1>>, time |-> Midnight]

(* clear() resets the parts of a TDBTime only.                             *)
ClearedDate(o) ==
  [o EXCEPT !.value = 0, !.isNull = TRUE,
            !.time = IF o.kind = "time" THEN Midnight ELSE @]

(* The parts of an object that its kind keeps of a date and a time.        *)
Parts(o, date, time) ==
  [o EXCEPT !.date = IF o.kind = "time" THEN @ ELSE date,
            !.time = IF o.kind = "date" THEN @ ELSE time]

setFromParts(o, date, time) ==
  IF (o.kind = "time" \/ dbIsValidDate(date)) /\ (o.kind = "date" \/ dbIsValidTime(time))
  THEN LET p == Parts(o, date, time)
       IN [p EXCEPT !.isNull = FALSE, !.value = _calcDateValue(p.date, p.time)]
  ELSE ClearedDate(o)

(* setDate: the value is kept as it is given.                              *)
setDate(o, v) ==
  [Parts(o, _splitDateValue(v).date, _splitDateValue(v).time)
     EXCEPT !.isNull = FALSE, !.value = v]

-----------------------------------------------------------------------------
DateInit ==
  /\ y = 1970 /\ m = 1 /\ first = 0
  /\ obj = NoObject /\ meant = <<1, Midnight>>

Forward ==
  /\ NextMonth[1] <= MaxYear
  /\ y' = NextMonth[1] /\ m' = NextMonth[2]
  /\ first' = first + MonthLength(y, m)
  /\ obj' = NoObject /\ meant' = <<1, Midnight>>

Back ==
  /\ PreviousMonth[1] >= MinYear
  /\ y' = PreviousMonth[1] /\ m' = PreviousMonth[2]
  /\ first' = first - MonthLength(PreviousMonth[1], PreviousMonth[2])
  /\ obj' = NoObject /\ meant' = <<1, Midnight>>

(* Days at either end of the month and outside it, times at either end of  *)
(* the day and outside it.                                                 *)
Days  == {0, 1, MonthLength(y, m), MonthLength(y, m) + 1}
Times == {Midnight, <<23, 59, Minute - 1>>, <<24, 0, 0>>, <<0, 60, 0>>, <<0, 0, Minute>>}

Near == first \in (-MaxDays)..(MaxDays - 31)

Create(kind) ==
  /\ Near /\ obj = NoObject
  /\ obj' = [NoObject EXCEPT !.kind = kind]
  /\ UNCHANGED <<y, m, first, meant>>

SetFromParts(d, time) ==
  /\ obj.kind # "none"
  /\ obj' = setFromParts(obj, <<y, m, d>>, time)
  /\ meant' = <<d, time>>
  /\ UNCHANGED <<y, m, first>>

(* The instant of a day and a time of the calendar, in seconds.            *)
InCalendar(d, time) ==
  /\ d \in 1..MonthLength(y, m)
  /\ time[1] < 24 /\ time[2] < 60 /\ time[3] < Minute
Instant(d, time) == (first + d - 1) * Day + (time[1] * 60 + time[2]) * Minute + time[3]

SetDate(d, time) ==
  /\ obj.kind # "none" /\ InCalendar(d, time)
  /\ obj' = setDate(obj, Instant(d, time))
  /\ meant' = <<d, time>>
  /\ UNCHANGED <<y, m, first>>

Clear ==
  /\ obj.kind # "none"
  /\ obj' = ClearedDate(obj)
  /\ UNCHANGED <<y, m, first, meant>>

DateNext ==
  \/ Forward \/ Back \/ Clear
  \/ \E kind \in Kinds : Create(kind)
  \/ \E d \in Days, time \in Times : SetFromParts(d, time) \/ SetDate(d, time)

DateSpec == DateInit /\ [][DateNext]_dateVars

-----------------------------------------------------------------------------
DayTime    == (0..23) \X (0..59) \X (0..(Minute - 1))
DateObject == [kind : Kinds \cup {"none"}, isNull : BOOLEAN, value : Int,
               date : Int \X (1..12) \X (1..31), time : DayTime]

(* The parts of an object are a date and a time, whatever it was set to.   *)
DateTypeOK ==
  /\ y \in MinYear..MaxYear /\ m \in 1..12 /\ first \in Int
  /\ meant \in Days \X Times
  /\ obj \in DateObject

(***************************************************************************)
(* The arithmetic of glue.c counts the days as the calendar does, and back,*)
(* over whole eras and in the negative ones, which setDate can reach.      *)
(***************************************************************************)
DaysCountedRight ==
  \A d \in 1..MonthLength(y, m) :
    /\ db_days_from_civil(y, m, d) = first + d - 1
    /\ db_civil_from_days(first + d - 1) = <<y, m, d>>

(***************************************************************************)
(* The validators accept the dates of the calendar from the year 1 on, and *)
(* no others.                                                              *)
(***************************************************************************)
ValidatorsAgree ==
  \A d \in 0..32 :
    dbIsValidDate(<<y, m, d>>) <=> (y >= 1 /\ d \in 1..MonthLength(y, m))

(***************************************************************************)
(* After any sequence of setFromParts, setDate and clear an object that is *)
(* not null holds, in both forms, the day and the time it was last set to, *)
(* also before 1970, and they are in the calendar; a time is told by its   *)
(* value whatever the day in it.                                           *)
(***************************************************************************)
BothFormsRight ==
  ~obj.isNull =>
    /\ InCalendar(IF obj.kind = "time" THEN 1 ELSE meant[1],
                  IF obj.kind = "date" THEN Midnight ELSE meant[2])
    /\ obj.kind # "time" => obj.date = <<y, m, meant[1]>>
    /\ obj.kind # "date" => obj.time = meant[2]
    /\ CASE obj.kind = "date"     -> obj.value \div Day = first + meant[1] - 1
         [] obj.kind = "datetime" -> obj.value = Instant(meant[1], meant[2])
         [] obj.kind = "time"     ->
              obj.value % Day = Instant(meant[1], meant[2]) % Day

(* Together they are inductive.                                            *)
DateInv == DateTypeOK /\ DaysCountedRight /\ BothFormsRight
=============================================================================
