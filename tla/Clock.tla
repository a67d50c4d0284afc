-------------------------------- MODULE Clock --------------------------------
(***************************************************************************)
(* System time: the calendar (time/date.rs), the reading of the CMOS clock *)
(* at boot (hardware/rtc.rs) and the time the kernel keeps from then on    *)
(* (time/system.rs).                                                       *)
(*                                                                         *)
(* A timestamp, in seconds since 1 January 1980, is kept as days and the   *)
(* rest; none of the sums of the code leaves 32 bits before 2100.  The     *)
(* real date advances a day at a time by the rules of the calendar, and    *)
(* the kernel may boot on any day from 2000 on, around the end of any of   *)
(* Hours: the clock turns over before, between or after the reads of its   *)
(* six registers, of which nothing keeps it.                               *)
(***************************************************************************)
EXTENDS Integers

CONSTANTS
  Hours,      \* hours at which the kernel boots
  MaxDay,     \* bound on the days that pass
  MaxTicks    \* bound on the timer ticks after boot

VARIABLES
  day,      \* days since 1 January 1980
  date,     \* the real date, its year counted from 1980
  booted,   \* the hour, the mode and the turn-over at which the kernel booted, or NotBooted
  known,    \* KNOWN_TIME
  ticks     \* TIME_OFFSET, in ticks

vars == <<day, date, booted, known, ticks>>

NotBooted == [hour |-> -1, mode |-> [bcd |-> FALSE, h24 |-> FALSE], turn |-> 0]

Init ==
  /\ day = 0 /\ date = [day |-> 1, month |-> 1, year |-> 0]
  /\ booted = NotBooted
  /\ known = [days |-> 0, rest |-> 0]
  /\ ticks = 0

-----------------------------------------------------------------------------
(* The calendar from 1980 to 2099, for reference.                          *)
MonthLength(month, year) ==
  IF month = 2 THEN IF year % 4 = 0 THEN 29 ELSE 28
  ELSE IF month \in {4, 6, 9, 11} THEN 30 ELSE 31

Following(d) ==
  IF d.day < MonthLength(d.month, d.year) THEN [d EXCEPT !.day = @ + 1]
  ELSE IF d.month < 12 THEN [d EXCEPT !.day = 1, !.month = @ + 1]
  ELSE [day |-> 1, month |-> 1, year |-> d.year + 1]

-----------------------------------------------------------------------------
MONTH_START_OFFSET == <<0, 31, 59, 90, 120, 151, 181, 212, 243, 273, 304, 334>>

year_offset_from_days(days) == (days * 100) \div 36525

(* The month loop of to_datetime: the leap day counts from March on.       *)
MonthsStarted(year_days, leap) ==
  {m \in 1 .. 12 : MONTH_START_OFFSET[m] + (IF m > 2 THEN leap ELSE 0) <= year_days}

(* Mutant: the leap day is left in the day of the month.                   *)
MutToDatetime(days) ==
  LET year == year_offset_from_days(days)
      quadrennial_days == days % 1461
      year_days == IF quadrennial_days > 365 THEN (quadrennial_days - 366) % 365
                                             ELSE quadrennial_days
      leap == IF year % 4 = 0 THEN 1 ELSE 0
      month == CHOOSE m \in MonthsStarted(year_days, leap) :
                 m + 1 \notin MonthsStarted(year_days, leap)
  IN  [day |-> year_days + 1 - MONTH_START_OFFSET[month], month |-> month, year |-> year]

(* Timestamp::to_datetime, the date.                                       *)
to_datetime(days) ==
  LET year == year_offset_from_days(days)
      quadrennial_days == days % 1461
      year_days == IF quadrennial_days > 365 THEN (quadrennial_days - 366) % 365
                                             ELSE quadrennial_days
      leap == IF year % 4 = 0 THEN 1 ELSE 0
      month == CHOOSE m \in MonthsStarted(year_days, leap) :
                 m + 1 \notin MonthsStarted(year_days, leap)
  IN  [day |-> year_days + 1 - MONTH_START_OFFSET[month] - (IF month > 2 THEN leap ELSE 0),
       month |-> month, year |-> year]

(* Timestamp::from_datetime.                                               *)
from_datetime(d, time) ==
  LET year_remainder == d.year % 4
  IN  [days |-> (d.year \div 4) * 1461 + year_remainder * 365
                  + (IF year_remainder > 0 THEN 1 ELSE 0)
                  + MONTH_START_OFFSET[d.month] + d.day,
       rest |-> time.hours * 3600 + time.minutes * 60 + time.seconds]

-----------------------------------------------------------------------------
(* The registers of the CMOS clock: in BCD if so set, the hour with bit 7  *)
(* for the afternoon in 12-hour mode, where 12 comes before 1.             *)
Modes == [bcd : BOOLEAN, h24 : BOOLEAN]

Bcd(n) == (n \div 10) * 16 + (n % 10)

Register(mode, n) == IF mode.bcd THEN Bcd(n) ELSE n

HourRegister(mode, hour) ==
  IF mode.h24 THEN Register(mode, hour)
  ELSE Register(mode, IF hour % 12 = 0 THEN 12 ELSE hour % 12)
         + (IF hour >= 12 THEN 128 ELSE 0)

convert_bcd(b) == (b \div 16) * 10 + (b % 16)

(* RTC::read_time, the hours: BCD is converted in 12-hour mode only.       *)
ReadHours(mode, register) ==
  LET low == register % 128
      hours == IF mode.bcd THEN convert_bcd(low) ELSE low
  IN  IF mode.h24 THEN register
      ELSE (hours % 12) + (IF register >= 128 THEN 12 ELSE 0)

(* RTC::read_time, any other register.                                     *)
ReadField(mode, register) == IF mode.bcd THEN convert_bcd(register) ELSE register

(* What the clock shows in the last second of an hour, and in the next     *)
(* one: seconds, minutes, hours, day, month, year.                         *)
Before(hour) == <<59, 59, hour, date.day, date.month, date.year - 20>>

After(hour) ==
  LET next == IF hour = 23 THEN Following(date) ELSE date
  IN  <<0, 0, (hour + 1) % 24, next.day, next.month, next.year - 20>>

(* The register at a place of that list, when it is read; the clock turns  *)
(* over after so many reads.                                               *)
read_register(hour, mode, turn, i) ==
  LET shown == IF i <= turn THEN Before(hour)[i] ELSE After(hour)[i]
  IN  IF i = 3 THEN HourRegister(mode, shown) ELSE Register(mode, shown)

(* Mutant: the registers are read from the year down.                      *)
MutReadTime(hour, mode, turn) ==
  LET read(i) == read_register(hour, mode, IF 7 - i <= turn THEN 6 ELSE 0, i)
  IN  [date |-> [day |-> ReadField(mode, read(4)), month |-> ReadField(mode, read(5)),
                 year |-> ReadField(mode, read(6)) + 20],
       time |-> [hours |-> ReadHours(mode, read(3)), minutes |-> ReadField(mode, read(2)),
                 seconds |-> ReadField(mode, read(1))]]

(* RTC::read_time and RTCTime::to_datetime: years count from 2000.         *)
read_time(hour, mode, turn) ==
  LET read(i) == read_register(hour, mode, turn, i)
  IN  [date |-> [day |-> ReadField(mode, read(4)), month |-> ReadField(mode, read(5)),
                 year |-> ReadField(mode, read(6)) + 20],
       time |-> [hours |-> ReadHours(mode, read(3)), minutes |-> ReadField(mode, read(2)),
                 seconds |-> ReadField(mode, read(1))]]

initialize_from_rtc(hour, mode, turn) ==
  LET read == read_time(hour, mode, turn)
  IN  /\ booted = NotBooted /\ date.year >= 20
      /\ booted' = [hour |-> hour, mode |-> mode, turn |-> turn]
      /\ known' = from_datetime(read.date, read.time)
      /\ ticks' = 0
      /\ UNCHANGED <<day, date>>

(* increment_offset, called by the timer.                                  *)
increment_offset ==
  /\ booted # NotBooted /\ ticks < MaxTicks
  /\ ticks' = ticks + 1
  /\ UNCHANGED <<day, date, booted, known>>

(* The machine is off for another day.                                     *)
DayPasses ==
  /\ booted = NotBooted /\ day < MaxDay
  /\ day' = day + 1 /\ date' = Following(date)
  /\ UNCHANGED <<booted, known, ticks>>

Next ==
  \/ DayPasses
  \/ \E hour \in Hours, mode \in Modes, turn \in 0 .. 6 : initialize_from_rtc(hour, mode, turn)
  \/ increment_offset

Spec == Init /\ [][Next]_vars

-----------------------------------------------------------------------------
(* The date of a timestamp is the one reached by counting off its days on  *)
(* the calendar (to_datetime, through leap years and ends of months).      *)
DatesExact == to_datetime(day) = date

LeapDayPassed(d) == d.year % 4 = 0 /\ d.month > 2

Seconds(days, hour) == days * 86400 + hour * 3600 + 3599

(* The time taken from the CMOS clock is the real time, but for three      *)
(* things the code does: outside the leap years' March to December it is a *)
(* day late, hours that are BCD in 24-hour mode are not converted, and     *)
(* when the clock turns over between two reads, the old values of the      *)
(* smaller units mix with the new ones of the larger.  The last can put    *)
(* the kernel's clock ahead by up to a year, but never back                *)
(* (from_datetime, read_time).                                             *)
KnownTimeBut ==
  LET hour == booted.hour
      late(d) == IF LeapDayPassed(d) THEN 0 ELSE 1
      unconverted(h) == booted.mode = [bcd |-> TRUE, h24 |-> TRUE] /\ h >= 10
  IN  booted # NotBooted =>
        /\ booted.turn = 6 =>
             /\ known.days = day + late(date)
             /\ known.rest = hour * 3600 + 3599 \/ unconverted(hour)
        /\ booted.turn = 0 =>
             /\ hour < 23 => known.days = day + late(date)
             /\ hour = 23 => known.days = day + 1 + late(Following(date))
             /\ known.rest = ((hour + 1) % 24) * 3600 \/ unconverted((hour + 1) % 24)
        /\ Seconds(day, hour) <= known.days * 86400 + known.rest
        /\ known.days <= day + 1 + 366

(* The time the kernel starts from is the one the CMOS clock shows, as a   *)
(* number of seconds since midnight on 1 January 1980, if the clock keeps  *)
(* still while it is read.                                                 *)
KnownTimeExact ==
  booted # NotBooted /\ booted.turn = 6 =>
    known = [days |-> day, rest |-> booted.hour * 3600 + 3599]
=============================================================================
