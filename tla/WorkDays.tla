------------------------------ MODULE WorkDays ------------------------------
(***************************************************************************)
(* The record of when somebody worked: per day a start, an end and breaks, *)
(* in minutes. Two days that meet at midnight are one shift. A stretch of  *)
(* days is listed with what the working time rules say about the shifts    *)
(* that begin on them.                                                     *)
(***************************************************************************)
EXTENDS Integers, FiniteSets, Sequences, SequencesExt

CONSTANTS LastDate,      \* the days are 1..LastDate
          Clocks,        \* [from, to, breaks]: what somebody writes for a day
          MaxRecords     \* bound: changes

VARIABLES record,        \* day -> [start, end, breaks], NoWork for a day without
          records        \* changes left

ASSUME WorkDaysAssumption ==
  /\ LastDate \in Nat
  /\ \A w \in Clocks : /\ w.from.hours \in Int /\ w.from.minutes \in Int
                       /\ w.to.hours \in Int /\ w.to.minutes \in Int /\ w.breaks \in Int

workdayVars == <<record, records>>

MinutesPerDay == 24 * 60
longestShiftMinutes == 10 * 60
shortestRestMinutes == 11 * 60
NoWork == [start |-> 0, end |-> 0, breaks |-> 0]
Recorded(d) == record[d] # NoWork
WorkedMinutes(w) == w.end - w.start - w.breaks
breakNeeded(worked) == IF worked > 9 * 60 THEN 45 ELSE IF worked > 6 * 60 THEN 30 ELSE 0

(***************************************************************************)
(* The shifts of a stretch of days, in the order they begin in, and what   *)
(* there is to say about them.                                             *)
(***************************************************************************)
shift(d) == [startDay |-> d, endDay |-> d, start |-> record[d].start, end |-> record[d].end,
             worked |-> WorkedMinutes(record[d]), breaks |-> record[d].breaks]
GoesOn(last, d) == last.end = MinutesPerDay /\ record[d].start = 0 /\ d = last.endDay + 1
Longer(last, d) == [last EXCEPT !.endDay = d, !.end = record[d].end, !.breaks = @ + record[d].breaks,
                                !.worked = @ + WorkedMinutes(record[d])]
\* A slip: two days that meet at midnight are two shifts.
neverOneShift(shifts, d) == Append(shifts, shift(d))
withDay(shifts, d) ==
  IF shifts # <<>> /\ GoesOn(Last(shifts), d)
  THEN ReplaceAt(shifts, Len(shifts), Longer(Last(shifts), d))
  ELSE Append(shifts, shift(d))
shiftsOf(first, last) ==
  LET upTo[d \in (first - 1)..last] ==
        IF d < first THEN <<>> ELSE IF Recorded(d) THEN withDay(upTo[d - 1], d) ELSE upTo[d - 1]
  IN upTo[last]

WorkingTimeNotices(first, last) ==
  LET shifts == shiftsOf(first, last)
      Notice(i, rule, minutes) == [day |-> shifts[i].startDay, rule |-> rule, minutes |-> minutes]
      Rest(i) == (shifts[i].startDay - shifts[i - 1].endDay) * MinutesPerDay + shifts[i].start - shifts[i - 1].end
  IN {Notice(i, "longDay", shifts[i].worked) :
        i \in {i \in DOMAIN shifts : shifts[i].worked > longestShiftMinutes}}
     \union {Notice(i, "shortBreak", breakNeeded(shifts[i].worked)) :
        i \in {i \in DOMAIN shifts : shifts[i].breaks < breakNeeded(shifts[i].worked)}}
     \union {Notice(i, "shortRest", Rest(i)) :
        i \in {i \in DOMAIN shifts : i > 1 /\ Rest(i) < shortestRestMinutes}}

\* The list of a stretch: the day before it is read for the rest, and not returned.
Between(first, last) ==
  {n \in WorkingTimeNotices(IF first > 1 THEN first - 1 ELSE first, last) : n.day >= first}

(***************************************************************************)
(* Operations. A time of day is written as hours and minutes; 24:00 is the *)
(* end of the day and nothing is later.                                    *)
(***************************************************************************)
minuteOf(clock) == clock.hours * 60 + clock.minutes
Written(clock) == clock.minutes <= 59 /\ minuteOf(clock) <= MinutesPerDay
ValidDay(w) ==
  /\ w.start >= 0 /\ w.start < MinutesPerDay
  /\ w.end > w.start /\ w.end <= MinutesPerDay
  /\ w.breaks >= 0 /\ w.breaks < w.end - w.start
saveDay(d, w) == record' = [record EXCEPT ![d] = w]
Record(d, w) == ValidDay(w) /\ saveDay(d, w)   \* recording a day again replaces what it said
RecordDay(d, from, to, breaks) ==
  /\ records > 0 /\ Written(from) /\ Written(to)
  /\ Record(d, [start |-> minuteOf(from), end |-> minuteOf(to), breaks |-> breaks])
  /\ records' = records - 1
deleteDay(d) == Recorded(d) /\ record' = [record EXCEPT ![d] = NoWork]
RemoveDay(d) == records > 0 /\ deleteDay(d) /\ records' = records - 1

WorkDaysInit == record = [d \in 1..LastDate |-> NoWork] /\ records = MaxRecords
WorkDaysNext == \E d \in 1..LastDate : RemoveDay(d) \/ \E w \in Clocks : RecordDay(d, w.from, w.to, w.breaks)
WorkDaysSpec == WorkDaysInit /\ [][WorkDaysNext]_workdayVars

(***************************************************************************)
(* What holds. The rules are stated on one line of minutes, on which a     *)
(* shift is an unbroken run of recorded days.                              *)
(***************************************************************************)
BeginOf(d) == d * MinutesPerDay + record[d].start
EndOf(d) == d * MinutesPerDay + record[d].end
Joined(d) == d > 1 /\ Recorded(d - 1) /\ Recorded(d) /\ EndOf(d - 1) = BeginOf(d)
WholeShift(d) == {e \in d..LastDate : \A x \in (d + 1)..e : Joined(x)}
TheActSays(d, rule) ==
  LET worked == SumFunction([e \in WholeShift(d) |-> WorkedMinutes(record[e])])
      breaks == SumFunction([e \in WholeShift(d) |-> record[e].breaks])
  IN /\ Recorded(d) /\ ~Joined(d)
     /\ CASE rule = "longDay" -> worked > 600
          [] rule = "shortBreak" -> (worked > 360 /\ breaks < 30) \/ (worked > 540 /\ breaks < 45)
          [] rule = "shortRest" -> \E e \in 1..(d - 1) : Recorded(e) /\ BeginOf(d) - EndOf(e) < 660
Rules == {"longDay", "shortBreak", "shortRest"}
Said(first, last, d, rule) == \E n \in Between(first, last) : n.day = d /\ n.rule = rule

\* Beside each day stands exactly what the act says about the shift that began on it,
\* wherever the list begins, when the list reaches the end of the last shift
\* (WorkingTimeNotices, shiftsOf, Between).
StandsBesideItsDay ==
  \A first, last \in 1..LastDate : first <= last /\ ~(last < LastDate /\ Joined(last + 1)) =>
    \A d \in first..last : \A rule \in Rules : Said(first, last, d, rule) <=> TheActSays(d, rule)
=============================================================================
