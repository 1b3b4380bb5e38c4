----------------------------- MODULE MCRecords -----------------------------
(***************************************************************************)
(* The records somebody keeps, for TLC: the public holidays of a year,     *)
(* their days with balances and vacation, when they worked, workbooks and  *)
(* copied weeks, and the terminal client. They share no variable here, so  *)
(* a behaviour follows one of the five.                                    *)
(***************************************************************************)
EXTENDS WorkCalendar, WorkDays, Workbooks, Terminal

VARIABLE part

Place(country, region) == [country |-> country, region |-> region]
cPlaces ==
  {Place("DE", r) : r \in {"", "BE", "SN", "BB", "BY"}} \union {Place("GB", r) : r \in {"SCT", "ENG", "NIR"}}
    \union {Place(c, "") : c \in {"US", "NL", "IE", "SE", "PT"}} \union {Place("PT", "20")}

\* The six days around a turn of the year, over a weekend.
cFirstDay == Date(2021, 12, 30)
cLastDay == Date(2022, 1, 4)
cRanges ==
  {<<cFirstDay, cLastDay>>, <<cFirstDay, cFirstDay>>, <<cFirstDay + 1, cFirstDay + 1>>,
   <<cFirstDay + 4, cLastDay>>, <<cLastDay, cLastDay>>}
Start(b, a, c, t, e, r) ==
  [booked |-> b, away |-> a, countsFrom |-> c, today |-> t, entitled |-> e, rights |-> r]
cStarts ==
  LET d == cFirstDay IN
    {Start({d, d + 1}, {}, 0, d + 2, {}, {WriteOwn, SettingsOwn}),
     Start({d + 1, d + 2}, {d, cLastDay}, d + 1, d + 1, {2021}, {WriteOwn, SettingsOwn}),
     Start({}, {}, d, d + 3, {2022}, {WriteOwn, SettingsOwn}),
     Start({d}, {}, d + 4, cLastDay, {}, {WriteOwn})}

\* Nights to and from midnight, whole days, long days, and what is refused.
W(h, m, k, n, b) == [from |-> [hours |-> h, minutes |-> m], to |-> [hours |-> k, minutes |-> n], breaks |-> b]
cClocks ==
  {W(22, 0, 24, 0, 0), W(0, 0, 6, 0, 0), W(0, 0, 24, 0, 60), W(8, 0, 18, 0, 30), W(8, 0, 17, 0, 0),
   W(20, 0, 24, 0, 45), W(8, 0, 8, 0, 0), W(8, 0, 24, 30, 0)}

\* Workbooks with rows that are new, known, repeated and refused, of all four kinds.
OfProject(n, s, b) == [name |-> n, status |-> s, start |-> b]
OfAccount(m, n, r) == [mail |-> m, name |-> n, role |-> r]
OfRole(n, r) == [name |-> n, rights |-> r]
OfEntry(u, p, d, h) == [user |-> u, project |-> p, day |-> d, hours |-> h]
cFiles ==
  [kind : {"projects"}, rows : {<<>>, <<OfProject("c", "odd", 1)>>,
     <<OfProject("a", "archived", 1), OfProject("b", "", 2)>>,
     <<OfProject("b", "completed", 1), OfProject("a", "completed", 2), OfProject("c", "archived", 1)>>,
     <<OfProject("c", "", 0), OfProject("a", "active", 2)>>}]
  \union [kind : {"accounts"}, rows : {<<OfAccount("me", "", "u"), OfAccount("dir", "z", "u")>>,
     <<OfAccount("me", "n", "x"), OfAccount("dir", "d", ""), OfAccount("sys", "", "u")>>,
     <<OfAccount("you", "", "u"), OfAccount("", "n", "u")>>}]
  \union [kind : {"roles"}, rows : {<<OfRole("s", {"w"})>>, <<OfRole("z", {})>>,
     <<OfRole("x", {"w"}), OfRole("y", {"w"}), OfRole("u", {})>>,
     <<OfRole("x", {}), OfRole("u", {"w"}), OfRole("y", {"w"})>>}]
  \union [kind : {"entries"}, rows : {<<OfEntry("", "", 4, 4), OfEntry("me", "", 4, 5)>>,
     <<OfEntry("", "a", 1, 4), OfEntry("me", "", 1, 3), OfEntry("", "b", 2, 1)>>,
     <<OfEntry("dir", "", 1, 1), OfEntry("", "", 0, 1)>>,
     <<OfEntry("", "a", 3, 2), OfEntry("", "", 10, 2)>>}]
cText == STRING
cCopies == {[from |-> 1, to |-> 8]}

\* Two installations: their projects and entries differ, their accounts and roles do not.
Kept(n, o, s) == [there |-> TRUE, name |-> n, owner |-> o, status |-> s, start |-> 1]
Booked(p, d, h) == [user |-> "me", project |-> p, day |-> d, hours |-> h]
Holding(projects, entries) ==
  [projects |-> projects, entries |-> entries,
   accounts |-> [a \in {"me", "dir", "sys"} |->
                   [name |-> a, external |-> a = "dir", system |-> a = "sys", role |-> IF a = "sys" THEN "s" ELSE "u"]],
   roles |-> [r \in {"s", "u", "x"} |->
                [system |-> r = "s", shipped |-> r # "x", rights |-> IF r = "s" THEN {"roles:write"} ELSE {"r"}]]]
cStores ==
  {Holding(<<Kept("a", "me", "active"), Kept("b", "dir", "active"), Kept("b", "me", "completed")>>,
           <<Booked(1, 2, 3), Booked(0, 1, 4), Booked(0, 1, 3), Booked(1, 1, 1)>>),
   Holding(<<Kept("a", "me", "completed"), Kept("b", "me", "active")>>,
           <<Booked(1, 1, 2), Booked(0, 8, 1), Booked(2, 2, 8)>>)}

\* Two changes; a change and a call that fails; a change beside a command line.
Spends(c, f, l) == [changes |-> c, failures |-> f, commands |-> l]
cBudgets == {Spends(2, 0, 0), Spends(1, 1, 0), Spends(1, 0, 1)}

\* The parts that are not followed start in one state.
Init ==
  /\ part \in {"holidays", "days", "work", "books", "terminal"}
  /\ HolidaysInit /\ CalendarInit /\ WorkDaysInit /\ WorkbooksInit /\ TerminalInit
  /\ part # "holidays" => query.place = Place("NL", "")
  /\ part # "days" => BookedDays = {}
  /\ part # "books" => Len(store.projects) = 2
  /\ part # "terminal" => budget.commands = 1 /\ loads[CHOOSE l \in Loads : TRUE] = Unstarted

calendarsVars == <<holidayVars, calendarVars, workdayVars>>
allVars == <<part, calendarsVars, workbookVars, terminalVars>>

Next ==
  /\ UNCHANGED part
  /\ \/ /\ UNCHANGED <<workbookVars, terminalVars>>
        /\ \/ part = "holidays" /\ HolidaysNext /\ UNCHANGED <<calendarVars, workdayVars>>
           \/ part = "days" /\ CalendarNext /\ UNCHANGED <<holidayVars, workdayVars>>
           \/ part = "work" /\ WorkDaysNext /\ UNCHANGED <<holidayVars, calendarVars>>
     \/ part = "books" /\ WorkbooksNext /\ UNCHANGED <<calendarsVars, terminalVars>>
     \/ part = "terminal" /\ TerminalNext /\ UNCHANGED <<calendarsVars, workbookVars>>
Spec == Init /\ [][Next]_allVars

(***************************************************************************)
(* Properties of one part each.                                            *)
(***************************************************************************)

\* Beside each day stands what the working-time act says of the shift that began on it
\* (WorkingTimeNotices, shiftsOf).
NoticesStandBesideTheirDay == part = "work" => StandsBesideItsDay

\* The ways of working out somebody's hours and vacation agree, asked where their days are
\* followed (Balance, Days, running, unbookedDay, Year).
DaysAddUp == part = "days" => AccountsAddUp
=============================================================================
