---------------------------- MODULE WorkCalendar ----------------------------
(***************************************************************************)
(* What somebody's working days ask of them: the weeks they planned, the   *)
(* public holidays of their place, the days they were away, and what the   *)
(* hours they booked come to beside that, as a balance of hours and as an  *)
(* account of vacation. Everything is worked out anew whenever it is asked *)
(* for. Days are those of Holidays, hours are whole, vacation is counted   *)
(* in half days.                                                           *)
(***************************************************************************)
EXTENDS Holidays

CONSTANTS FirstDay, LastDay, \* the days that something happens on
          Kinds,             \* the kinds of absence recorded
          Ranges,            \* <<from, to>>: the ranges absences are recorded for
          PlaceChoices,      \* choices of a place: "" follows, "none" keeps none
          Years,             \* the years asked about
          Entitlements,      \* the entitlements given, in half days
          LookBack,          \* reminderLookBack
          Starts,            \* [booked, away, countsFrom, today, entitled, rights]: states to begin in
          MaxEdits           \* bound: changes

VARIABLES booked,       \* day -> hours
          absent,       \* day -> kind, "" for a day not away
          weekPlan,         \* day -> the week valid from it, "" for none
          entitled,     \* year -> entitlement from it on, NoEntitlement for none
          own,          \* the person's choice of a place
          installation, \* the installation's
          countsFrom,   \* everyDayCountsFrom, 0 for never
          currentDate,
          rights,       \* what the person's role allows
          edits         \* changes left

calendarVars == <<booked, absent, weekPlan, entitled, own, installation, countsFrom, currentDate, rights, edits>>

CalendarDays == FirstDay..LastDay
ASSUME CalendarAssumption ==  \* no day is 0, which stands for none
  /\ FirstDay \in Nat \ {0} /\ LastDay \in Nat /\ LookBack \in Nat
  /\ Years \subseteq Nat /\ \A y, z \in Years : y..z \subseteq Years
  /\ Entitlements \subseteq Nat
  /\ \A s \in Starts : s.countsFrom \in CalendarDays \union {0} /\ s.today \in CalendarDays
NoEntitlement == -1
DaysIn == [y \in Years |-> {d \in CalendarDays : InYear(d, y)}]
Edit == edits > 0 /\ edits' = edits - 1
Require(right) == right \in rights

(***************************************************************************)
(* What a day asks.                                                        *)
(***************************************************************************)
DefaultWeek == "default"
On(week, day) == CASE week = DefaultWeek -> IF weekend(day) THEN 0 ELSE 8
                   [] week = "halves" -> 4
                   [] week = "free" -> 0
TargetOn(day) ==
  LET since == {d \in FirstDay..day : weekPlan[d] # ""}
  IN On(IF since = {} THEN DefaultWeek ELSE weekPlan[Latest(since)], day)

SplitHolidayPlace(choice) ==
  CASE choice = "GB-ENG" -> [country |-> "GB", region |-> "ENG"]
    [] choice = "US" -> [country |-> "US", region |-> ""]
    [] OTHER -> [country |-> "", region |-> ""]
HolidayTable == [c \in PlaceChoices |-> {h.day : h \in HolidaysBetween(SplitHolidayPlace(c), FirstDay, LastDay)}]
HolidayPlaceOf(mine, instance) ==
  LET choice == IF mine = "" THEN instance ELSE mine IN IF choice = "none" THEN "" ELSE choice
holidaysOf(first, last) == HolidayTable[HolidayPlaceOf(own, installation)] \intersect first..last

AbsenceTarget(kind, planned) ==
  CASE kind = "halfVacation" -> planned \div 2 [] kind = "flexDay" -> planned [] OTHER -> 0

\* dayRules.of: what a day asks, and whether it counts.
of(day) ==
  LET planned == TargetOn(day)
      target == IF countsFrom = 0 \/ day < countsFrom THEN planned
                ELSE IF day \in holidaysOf(day, day) THEN 0
                ELSE IF absent[day] # "" THEN AbsenceTarget(absent[day], planned) ELSE planned
  IN [target |-> target,
      counts |-> booked[day] > 0
                   \/ (countsFrom # 0 /\ day >= countsFrom /\ target > 0 /\ day <= currentDate)]

expectsWork(day) ==
  /\ TargetOn(day) > 0
  /\ day \notin holidaysOf(day, day)
  /\ absent[day] \in {"", "halfVacation"}

(***************************************************************************)
(* The balance.                                                            *)
(***************************************************************************)
latest(a, b) == IF a > b THEN a ELSE b
earliest(a, b) == IF a < b THEN a ELSE b
\* A slip: every day counts from its beginning, wherever the stretch begins.
candidatesFromTheStart(first, last) ==
  {d \in first..last : booked[d] > 0}
    \union (IF countsFrom = 0 THEN {} ELSE countsFrom..earliest(last, currentDate))
candidates(first, last) ==
  {d \in first..last : booked[d] > 0}
    \union (IF countsFrom = 0 THEN {} ELSE latest(first, countsFrom)..earliest(last, currentDate))
Balance(first, last) ==
  SumFunction([d \in {x \in candidates(first, last) : of(x).counts} |-> booked[d] - of(d).target])

DaysBetween(first, last) ==
  {[date |-> d, booked |-> booked[d], target |-> of(d).target, counts |-> of(d).counts] : d \in first..last}

BookedDays == {d \in CalendarDays : booked[d] > 0}
beginning ==                  \* 0: nothing has begun
  IF countsFrom # 0 /\ (BookedDays = {} \/ countsFrom < Earliest(BookedDays)) THEN countsFrom
  ELSE IF BookedDays = {} THEN 0 ELSE Earliest(BookedDays)
running == IF beginning = 0 \/ beginning > currentDate THEN 0 ELSE Balance(beginning, currentDate)

\* The day the reminder mentions, 0 for none.
IfUnbooked(day) == IF day = 0 \/ booked[day] > 0 THEN 0 ELSE day
unbookedDay ==
  IfUnbooked(Latest({0} \union {d \in latest(currentDate - LookBack, FirstDay)..(currentDate - 1) :
                                  beginning # 0 /\ d >= beginning /\ expectsWork(d)}))

(***************************************************************************)
(* The vacation account.                                                   *)
(***************************************************************************)
VacationDays(kind) == CASE kind = "vacation" -> 2 [] kind = "halfVacation" -> 1 [] OTHER -> 0
Entitling == {y \in Years : entitled[y] # NoEntitlement}
EntitlementIn(y) ==
  LET since == {z \in Entitling : z <= y} IN IF since = {} THEN 0 ELSE entitled[Latest(since)]
Used(days) ==
  SumFunction([d \in {x \in days : TargetOn(x) > 0 /\ x \notin holidaysOf(x, x)} |-> VacationDays(absent[d])])
taken(y) == Used({d \in DaysIn[y] : d <= currentDate})
planned(y) == Used({d \in DaysIn[y] : d > currentDate})
carried(first, y) == SumFunction([z \in first..(y - 1) |-> EntitlementIn(z) - taken(z) - planned(z)])
VacationYear(y) ==
  IF Entitling = {} \/ y < Earliest(Entitling)
  THEN [entitlement |-> 0, carriedOver |-> 0, taken |-> 0, planned |-> 0]
  ELSE [entitlement |-> EntitlementIn(y), carriedOver |-> carried(Earliest(Entitling), y),
        taken |-> taken(y), planned |-> planned(y)]
Remaining(account) == account.entitlement + account.carriedOver - account.taken - account.planned

(***************************************************************************)
(* Operations, each with the right its handler asks for.                   *)
(***************************************************************************)
WriteOwn == "timesheets:write:own"
SettingsOwn == "settings:write:own"
Booking(day, hours) ==
  /\ Require(WriteOwn) /\ Edit
  /\ booked' = [booked EXCEPT ![day] = hours]
  /\ UNCHANGED <<absent, weekPlan, entitled, own, installation, countsFrom, currentDate, rights>>

saveAbsences(days, kind) == absent' = [d \in CalendarDays |-> IF d \in days THEN kind ELSE absent[d]]
RecordAbsence(first, last, kind) ==
  LET days == {d \in first..last : d \notin holidaysOf(first, last) /\ TargetOn(d) > 0}
  IN /\ days # {}
     /\ saveAbsences(days, kind)
     /\ UNCHANGED <<booked, weekPlan, entitled, own, installation, countsFrom, currentDate, rights>>
SaveAbsence(range, kind) == Require(WriteOwn) /\ Edit /\ RecordAbsence(range[1], range[2], kind)
deleteAbsence(day) == absent[day] # "" /\ absent' = [absent EXCEPT ![day] = ""]
RemoveAbsence(day) ==
  /\ deleteAbsence(day)
  /\ UNCHANGED <<booked, weekPlan, entitled, own, installation, countsFrom, currentDate, rights>>
DeleteAbsence(day) == Require(WriteOwn) /\ Edit /\ RemoveAbsence(day)

saveWeek(day, week) == weekPlan' = [weekPlan EXCEPT ![day] = week]
Plan(day, week) ==
  /\ saveWeek(day, week)
  /\ UNCHANGED <<booked, absent, entitled, own, installation, countsFrom, currentDate, rights>>
SavePlan(day, week) == Require(SettingsOwn) /\ Edit /\ Plan(day, week)
deleteWeek(day) == weekPlan[day] # "" /\ weekPlan' = [weekPlan EXCEPT ![day] = ""]
RemovePlan(day) ==
  /\ deleteWeek(day)
  /\ UNCHANGED <<booked, absent, entitled, own, installation, countsFrom, currentDate, rights>>
DeletePlan(day) == Require(SettingsOwn) /\ Edit /\ RemovePlan(day)

saveEntitlement(y, days) == entitled' = [entitled EXCEPT ![y] = days]
Entitle(y, days) ==
  /\ saveEntitlement(y, days)
  /\ UNCHANGED <<booked, absent, weekPlan, own, installation, countsFrom, currentDate, rights>>
SaveEntitlement(y, days) == Require(SettingsOwn) /\ Edit /\ Entitle(y, days)
deleteEntitlement(y) == entitled[y] # NoEntitlement /\ entitled' = [entitled EXCEPT ![y] = NoEntitlement]
Withdraw(y) ==
  /\ deleteEntitlement(y)
  /\ UNCHANGED <<booked, absent, weekPlan, own, installation, countsFrom, currentDate, rights>>
DeleteEntitlement(y) == Require(SettingsOwn) /\ Edit /\ Withdraw(y)

ValidHolidayChoice(choice) == choice \in {"", "none"} \/ ValidHolidayPlace(SplitHolidayPlace(choice))
SetHolidayPlace(choice) ==
  /\ ValidHolidayChoice(choice)
  /\ own' = choice
  /\ UNCHANGED <<booked, absent, weekPlan, entitled, installation, countsFrom, currentDate, rights>>
SetMyPlace(choice) == Edit /\ SetHolidayPlace(choice)
SaveHolidayPlace(choice) ==
  /\ ValidHolidayChoice(choice)
  /\ installation' = choice
  /\ UNCHANGED <<booked, absent, weekPlan, entitled, own, countsFrom, currentDate, rights>>
SetInstallationPlace(choice) == Edit /\ SaveHolidayPlace(choice)   \* by an administrator of the installation
UpdateWorkingTimes(day) ==
  /\ countsFrom' = day
  /\ UNCHANGED <<booked, absent, weekPlan, entitled, own, installation, currentDate, rights>>
SetEveryDayCountsFrom(day) == Require(SettingsOwn) /\ Edit /\ UpdateWorkingTimes(day)

DayPasses ==
  /\ currentDate < LastDay
  /\ currentDate' = currentDate + 1
  /\ UNCHANGED <<booked, absent, weekPlan, entitled, own, installation, countsFrom, rights, edits>>

CalendarInit ==
  \E s \in Starts :
    /\ booked = [d \in CalendarDays |-> IF d \in s.booked THEN 8 ELSE 0]
    /\ countsFrom = s.countsFrom /\ currentDate = s.today /\ rights = s.rights
    /\ absent = [d \in CalendarDays |-> IF d \in s.away THEN "vacation" ELSE ""]
    /\ weekPlan = [d \in CalendarDays |-> ""]
    /\ entitled = [y \in Years |-> IF y \in s.entitled THEN 4 ELSE NoEntitlement]
    /\ own = "" /\ installation = "GB-ENG"
    /\ edits = MaxEdits

CalendarNext ==
  \/ DayPasses
  \/ \E d \in CalendarDays :
       \/ \E hours \in {0, 10} : booked[d] # hours /\ Booking(d, hours)
       \/ \E week \in {"halves", "free"} : SavePlan(d, week)
       \/ DeleteAbsence(d) \/ DeletePlan(d)
  \/ \E d \in CalendarDays \union {0} : d # countsFrom /\ SetEveryDayCountsFrom(d)
  \/ \E range \in Ranges : \E kind \in Kinds : SaveAbsence(range, kind)
  \/ \E y \in Years : DeleteEntitlement(y) \/ \E days \in Entitlements : SaveEntitlement(y, days)
  \/ \E c \in PlaceChoices : SetMyPlace(c) \/ SetInstallationPlace(c)

CalendarSpec == CalendarInit /\ [][CalendarNext]_calendarVars

(***************************************************************************)
(* What holds.                                                             *)
(***************************************************************************)
\* The balance of a stretch of days is the sum of the balances of its days, so that no day
\* counts twice or falls between two reports, wherever a stretch is cut (Balance).
BalancesAdd ==
  \A a, c \in CalendarDays : a < c => Balance(a, c) = Balance(a, a) + Balance(a + 1, c)

\* The calendar page lists the days one by one and the report adds them up along a way of
\* its own: the days the calendar says count come to what the report says (Days, Balance).
CalendarAndReportAgree ==
  \A a, c \in CalendarDays : a <= c =>
    Balance(a, c) =
      SumFunction([x \in {day \in DaysBetween(a, c) : day.counts} |-> x.booked - x.target])

\* The balance beside the clock is the balance of everything up to today, whichever came
\* first of the first booking and the day every day counts from (running, beginning).
RunningIsWhole == running = Balance(FirstDay, currentDate)

\* A reminder names the day before today on which hours were last owed and nobody but the
\* person could have taken it off: with every day counting, it is owed in the balance, and
\* no later day before today is, but for a flexible day (unbookedDay, dayRules.of).
ReminderIsOwed ==
  \A d \in CalendarDays : d = unbookedDay /\ countsFrom # 0 /\ d >= countsFrom =>
    LET owed == {x \in d..(currentDate - 1) : x >= countsFrom /\ booked[x] = 0 /\ of(x).counts}
    IN d \in owed /\ \A x \in owed \ {d} : absent[x] = "flexDay"

\* What a year carries over is what the year before had left, whatever was entitled,
\* withdrawn, taken and planned in any order (Year, Remaining).
CarriedOverIsWhatRemained ==
  \A y \in Years : y + 1 \in Years /\ Entitling # {} /\ y >= Earliest(Entitling) =>
    VacationYear(y + 1).carriedOver = Remaining(VacationYear(y))

\* Hours and vacation come to the same by whichever way they are worked out, and in
\* whatever pieces: by days, by stretches, on the calendar page, in the report, beside the
\* clock, in the reminder and from one year to the next.
AccountsAddUp ==
  /\ BalancesAdd /\ CalendarAndReportAgree /\ RunningIsWhole
  /\ ReminderIsOwed /\ CarriedOverIsWhatRemained
=============================================================================
