------------------------------ MODULE Holidays ------------------------------
(***************************************************************************)
(* The public holidays of a place in a year. A country has rules that name *)
(* days, some of them in some regions or in some years only, and in some   *)
(* countries a holiday on a weekend is kept on a weekday instead. A day is *)
(* its number in the Gregorian calendar, so that weekdays and the days     *)
(* after Easter are sums. The names of the holidays are left out, and of   *)
(* the seventeen countries these seven: between them they use every kind   *)
(* of rule.                                                                *)
(***************************************************************************)
EXTENDS Integers, FiniteSets, Sequences, SequencesExt

CONSTANTS Places,      \* [country, region] records that are asked about
          FirstYear,   \* the years asked about
          LastYear

VARIABLES query        \* [place, year]: what is worked out

holidayVars == <<query>>

(***************************************************************************)
(* Days.                                                                   *)
(***************************************************************************)
Date(y, m, d) ==
  LET a == (14 - m) \div 12
      yy == y + 4800 - a
  IN d + (153 * (m + 12 * a - 3) + 2) \div 5 + 365 * yy + yy \div 4 - yy \div 100 + yy \div 400 - 32045
Monday == 0
Wednesday == 2
Thursday == 3
Friday == 4
Saturday == 5
Sunday == 6
Weekday(day) == day % 7
Earliest(days) == CHOOSE d \in days : \A e \in days : d <= e
Latest(days) == CHOOSE d \in days : \A e \in days : e <= d
InYear(day, y) == day \in Date(y, 1, 1)..Date(y, 12, 31)

weekend(day) == Weekday(day) \in {Saturday, Sunday}
weekdayFrom(weekday, day) == Earliest({d \in day..(day + 6) : Weekday(d) = weekday})
weekdayUpTo(weekday, day) == Latest({d \in (day - 6)..day : Weekday(d) = weekday})

easterSunday(y) ==
  LET a == y % 19
      b == y \div 100
      c == y % 100
      g == (b - (b + 8) \div 25 + 1) \div 3
      h == (19 * a + b - b \div 4 - g + 15) % 30
      l == (32 + 2 * (b % 4) + 2 * (c \div 4) - h - (c % 4)) % 7
      n == h + l - 7 * ((a + 11 * h + 22 * l) \div 451) + 114
  IN Date(y, n \div 31, (n % 31) + 1)

(***************************************************************************)
(* Rules.                                                                  *)
(***************************************************************************)
Rule(day) == [day |-> day, regions |-> {}, from |-> 0, until |-> 0, only |-> {}, except |-> {}]
In(rule, regions) == [rule EXCEPT !.regions = regions]
From(rule, y) == [rule EXCEPT !.from = y]
Until(rule, y) == [rule EXCEPT !.until = y]
Only(rule, years) == [rule EXCEPT !.only = years]
Except(rule, years) == [rule EXCEPT !.except = years]

fixed(y, m, d) == Rule(Date(y, m, d))
afterEaster(y, days) == Rule(easterSunday(y) + days)
nthWeekday(y, n, weekday, m) == Rule(weekdayFrom(weekday, Date(y, m, 1)) + 7 * (n - 1))
lastWeekday(y, weekday, m) == Rule(weekdayUpTo(weekday, Date(y, m + 1, 1) - 1))
weekdayAfter(y, weekday, m, d) == Rule(weekdayFrom(weekday, Date(y, m, d)))
repentanceDay(y) == Rule(weekdayUpTo(Wednesday, Date(y, 11, 22)))
stBrigidsDay(y) ==
  LET first == Date(y, 2, 1)
  IN Rule(IF Weekday(first) = Friday THEN first ELSE weekdayFrom(Monday, first))
saturdayForSunday(y, m, d) ==
  LET day == Date(y, m, d) IN Rule(IF Weekday(day) = Sunday THEN day - 1 ELSE day)

holidaysDE(y) == {
  fixed(y, 1, 1), In(fixed(y, 1, 6), {"BW", "BY", "ST"}), From(In(fixed(y, 3, 8), {"BE"}), 2019),
  From(In(fixed(y, 3, 8), {"MV"}), 2023), afterEaster(y, -2), In(afterEaster(y, 0), {"BB"}),
  afterEaster(y, 1), fixed(y, 5, 1), Only(In(fixed(y, 5, 8), {"BE"}), {2020, 2025}),
  afterEaster(y, 39), In(afterEaster(y, 49), {"BB"}), afterEaster(y, 50),
  In(afterEaster(y, 60), {"BW", "BY", "HE", "NW", "RP", "SL"}),
  Only(In(fixed(y, 6, 17), {"BE"}), {2028}), In(fixed(y, 8, 15), {"SL"}),
  From(In(fixed(y, 9, 20), {"TH"}), 2019), From(fixed(y, 10, 3), 1990),
  In(fixed(y, 10, 31), {"BB", "MV", "SN", "ST", "TH"}),
  From(In(fixed(y, 10, 31), {"HB", "HH", "NI", "SH"}), 2018), Only(fixed(y, 10, 31), {2017}),
  In(fixed(y, 11, 1), {"BW", "BY", "NW", "RP", "SL"}), In(repentanceDay(y), {"SN"}),
  Until(repentanceDay(y), 1994), fixed(y, 12, 25), fixed(y, 12, 26)}
holidaysGB(y) == {
  fixed(y, 1, 1), In(fixed(y, 1, 2), {"SCT"}), In(fixed(y, 3, 17), {"NIR"}), afterEaster(y, -2),
  In(afterEaster(y, 1), {"ENG", "WLS", "NIR"}),
  Except(From(nthWeekday(y, 1, Monday, 5), 1978), {2020}), Only(fixed(y, 5, 8), {2020}),
  Except(lastWeekday(y, Monday, 5), {2012, 2022}), Only(fixed(y, 6, 4), {2012}),
  Only(fixed(y, 6, 2), {2022}), In(fixed(y, 7, 12), {"NIR"}),
  In(nthWeekday(y, 1, Monday, 8), {"SCT"}), In(lastWeekday(y, Monday, 8), {"ENG", "WLS", "NIR"}),
  From(In(fixed(y, 11, 30), {"SCT"}), 2007), fixed(y, 12, 25), fixed(y, 12, 26),
  Only(fixed(y, 4, 29), {2011}), Only(fixed(y, 6, 5), {2012}), Only(fixed(y, 6, 3), {2022}),
  Only(fixed(y, 9, 19), {2022}), Only(fixed(y, 5, 8), {2023}), Only(In(fixed(y, 6, 15), {"SCT"}), {2026})}
holidaysUS(y) == {
  fixed(y, 1, 1), From(nthWeekday(y, 3, Monday, 1), 1986), nthWeekday(y, 3, Monday, 2),
  lastWeekday(y, Monday, 5), From(fixed(y, 6, 19), 2021), fixed(y, 7, 4), nthWeekday(y, 1, Monday, 9),
  nthWeekday(y, 2, Monday, 10), fixed(y, 11, 11), nthWeekday(y, 4, Thursday, 11), fixed(y, 12, 25)}
holidaysNL(y) == {
  fixed(y, 1, 1), afterEaster(y, 0), afterEaster(y, 1),
  Until(From(saturdayForSunday(y, 4, 30), 1980), 2013), From(saturdayForSunday(y, 4, 27), 2014),
  afterEaster(y, 39), afterEaster(y, 49), afterEaster(y, 50), fixed(y, 12, 25), fixed(y, 12, 26)}
holidaysIE(y) == {
  fixed(y, 1, 1), From(stBrigidsDay(y), 2023), fixed(y, 3, 17), Only(fixed(y, 3, 18), {2022}),
  afterEaster(y, 1), From(nthWeekday(y, 1, Monday, 5), 1994), nthWeekday(y, 1, Monday, 6),
  nthWeekday(y, 1, Monday, 8), From(lastWeekday(y, Monday, 10), 1977), fixed(y, 12, 25), fixed(y, 12, 26)}
holidaysSE(y) == {
  fixed(y, 1, 1), fixed(y, 1, 6), afterEaster(y, -2), afterEaster(y, 0), afterEaster(y, 1),
  fixed(y, 5, 1), afterEaster(y, 39), afterEaster(y, 49), Until(afterEaster(y, 50), 2004),
  From(fixed(y, 6, 6), 2005), weekdayAfter(y, Friday, 6, 19), weekdayAfter(y, Saturday, 6, 20),
  weekdayAfter(y, Saturday, 10, 31), fixed(y, 12, 24), fixed(y, 12, 25), fixed(y, 12, 26), fixed(y, 12, 31)}
suspendedInPortugal == 2013..2015
holidaysPT(y) == {
  fixed(y, 1, 1), afterEaster(y, -2), afterEaster(y, 0), fixed(y, 4, 25), fixed(y, 5, 1),
  In(afterEaster(y, 50), {"20"}), Except(afterEaster(y, 60), suspendedInPortugal), fixed(y, 6, 10),
  In(fixed(y, 7, 1), {"30"}), fixed(y, 8, 15), Except(fixed(y, 10, 5), suspendedInPortugal),
  Except(fixed(y, 11, 1), suspendedInPortugal), Except(fixed(y, 12, 1), suspendedInPortugal),
  fixed(y, 12, 8), fixed(y, 12, 25), In(fixed(y, 12, 26), {"30"})}

holidaysByCountry(country, y) ==
  CASE country = "DE" -> holidaysDE(y) [] country = "GB" -> holidaysGB(y) [] country = "US" -> holidaysUS(y)
    [] country = "NL" -> holidaysNL(y) [] country = "IE" -> holidaysIE(y) [] country = "SE" -> holidaysSE(y)
    [] country = "PT" -> holidaysPT(y) [] OTHER -> {}
RegionsOf(country) ==
  CASE country = "DE" -> {"BW", "BY", "BE", "BB", "HB", "HH", "HE", "MV", "NI", "NW", "RP", "SL", "SN", "ST", "SH", "TH"}
    [] country = "GB" -> {"ENG", "WLS", "SCT", "NIR"} [] country = "PT" -> {"20", "30"} [] OTHER -> {}
Countries == {"DE", "GB", "US", "NL", "IE", "SE", "PT"}
ValidHolidayPlace(place) ==
  /\ place.country \in Countries
  /\ place.region = "" => place.country \notin {"DE", "GB"}      \* regionRequired
  /\ place.region # "" => place.region \in RegionsOf(place.country)

holdsIn(rule, region, y) ==
  /\ rule.regions # {} => region \in rule.regions
  /\ IF rule.only # {} THEN y \in rule.only
     ELSE /\ y \notin rule.except
          /\ rule.from = 0 \/ y >= rule.from
          /\ rule.until = 0 \/ y <= rule.until

(***************************************************************************)
(* The holidays of a year, each with the weekday it is kept on when it is  *)
(* moved; 0 is not moved.                                                  *)
(***************************************************************************)
nextFreeWeekday(day, taken) ==
  IF weekend(day) THEN Earliest({d \in day..(day + 9) : ~weekend(d) /\ d \notin taken}) ELSE 0
nearestWeekday(day) ==
  CASE Weekday(day) = Saturday -> day - 1 [] Weekday(day) = Sunday -> day + 1 [] OTHER -> 0
substitute(country, day, taken) ==
  CASE country = "GB" -> nextFreeWeekday(day, taken) [] country = "US" -> nearestWeekday(day) [] OTHER -> 0

InOrder(days) ==
  [n \in 1..Cardinality(days) |-> CHOOSE d \in days : Cardinality({e \in days : e < d}) = n - 1]
RuleDays(place, y) == {r.day : r \in {r \in holidaysByCountry(place.country, y) : holdsIn(r, place.region, y)}}
WithSubstitutes(country, days) ==
  LET Keep(sofar, day) ==
        LET instead == substitute(country, day, sofar.taken)
        IN IF instead = 0 THEN sofar
           ELSE [taken |-> sofar.taken \union {instead},
                 kept |-> sofar.kept \union {[day |-> instead, of |-> day, substitute |-> TRUE]}]
      initially == [taken |-> days, kept |-> {[day |-> d, of |-> d, substitute |-> FALSE] : d \in days}]
  IN FoldLeft(Keep, initially, InOrder(days)).kept
year(place, y) == WithSubstitutes(place.country, RuleDays(place, y))

\* A slip: a holiday kept in the year before or after its own is lost.
HolidaysInOwnYear(place, y) ==
  IF ValidHolidayPlace(place) THEN {h \in year(place, y) : InYear(h.day, y)} ELSE {}
\* A holiday may be kept in the year before or after its own.
HolidaysIn(place, y) ==
  IF ~ValidHolidayPlace(place) THEN {}
  ELSE {h \in UNION {year(place, z) : z \in (y - 1)..(y + 1)} : InYear(h.day, y)}
HolidaysBetween(place, from, to) ==
  LET years == {y \in FirstYear..LastYear : Date(y, 1, 1) <= to /\ from <= Date(y, 12, 31)}
  IN {h \in UNION {HolidaysIn(place, y) : y \in years} : h.day \in from..to}

HolidaysInit == query \in [place : Places, year : {FirstYear}]
AskNextYear ==
  /\ query.year < LastYear
  /\ query' = [query EXCEPT !.year = @ + 1]
HolidaysNext == AskNextYear
HolidaysSpec == HolidaysInit /\ [][HolidaysNext]_holidayVars

(***************************************************************************)
(* What holds.                                                             *)
(***************************************************************************)
\* The day of March on or after the 21st on which the Gregorian lunar tables have the
\* paschal full moon.
PaschalMoon(y) ==
  LET golden == (y % 19) + 1
      century == y \div 100 + 1
      solar == (3 * century) \div 4 - 12
      lunar == (8 * century + 5) \div 25 - 5
      epact == (11 * golden + 20 + lunar - solar) % 30
      n == 44 - (IF epact = 24 \/ (epact = 25 /\ golden > 11) THEN epact + 1 ELSE epact)
  IN IF n < 21 THEN n + 30 ELSE n

\* Easter is the first Sunday after the paschal full moon of the lunar tables, in every
\* year asked about (easterSunday).
EasterIsTheSunday ==
  LET moon == Date(query.year, 3, 1) + PaschalMoon(query.year) - 1
  IN easterSunday(query.year) = weekdayFrom(Sunday, moon + 1)

\* Where holidays on weekends are kept on weekdays, nobody loses one: as many working days
\* are off as the rules of the year name days, two holidays never share one, and the days
\* off are found in the years they fall in (year, HolidaysIn).
NobodyLosesAHoliday ==
  query.place.country \in {"GB", "US"} =>
    LET y == query.year
        off == UNION {HolidaysIn(query.place, z) : z \in (y - 1)..(y + 1)}
        Off(d) == {h \in off : h.of = d /\ ~weekend(h.day)}
    IN /\ \A d \in RuleDays(query.place, y) : Cardinality(Off(d)) = 1
       /\ \A g, h \in {h \in off : ~weekend(h.day)} : g.day = h.day => g.of = h.of

\* The holidays of a year are those the rules mean: the movable ones hang on the right
\* Easter, and one that falls on a weekend is kept on a day of its own.
HolidaysAreKept == EasterIsTheSunday /\ NobodyLosesAHoliday
=============================================================================
