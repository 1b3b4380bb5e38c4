----------------------------- MODULE Stopwatch -----------------------------
(***************************************************************************)
(* One person's stopwatch, worked from several clients at once: the        *)
(* browser, the terminal and the telephone all start, switch, adjust, stop *)
(* and discard the same row of running_timers.                             *)
(*                                                                         *)
(* A request reads the clock, reads the time, books an entry and clears    *)
(* the clock with statements of its own; one action is one of them.  The   *)
(* clock a start puts there is given an identity the table does not hold,  *)
(* so that it can be said what became of it.                               *)
(***************************************************************************)
EXTENDS Integers, FiniteSets

CONSTANTS
  Clocks,     \* identities of the clocks that are started
  Calls,      \* requests of this person's clients in flight at the same time
  TimerOps,   \* the operations they ask for
  MinSpan,    \* the smallest span that becomes an entry
  MaxSpan,    \* the largest: a day
  MaxTime,    \* bound: how far the time runs
  MaxEntries, \* bound: how many entries are booked
  Modes,      \* what a behaviour may do: [overlap: do requests run at the same time,
              \* fails: may the server stop, or a statement fail, half way]
  Off         \* no clock is running

ASSUME StopwatchAssumption ==
  /\ MinSpan \in Nat \ {0} /\ MaxSpan \in Nat /\ MinSpan <= MaxSpan
  /\ MaxTime \in Nat /\ MaxEntries \in Nat
  /\ Modes \subseteq [overlap : BOOLEAN, fails : BOOLEAN]
  /\ Off \notin [id : Clocks, start : Int]

VARIABLES
  mode,       \* the member of Modes it is about
  second,     \* the time, in whole seconds as readClock reads it
  clock,      \* the running clock, or Off
  started,    \* the clocks that were ever started
  given,      \* the clocks somebody gave up: discarded, or replaced by a start
  booked,     \* the entries clocks became
  calls       \* what every request in flight has read so far

stopwatchVars == <<mode, second, clock, started, given, booked, calls>>

Times == 0 .. MaxTime

Clock == [id : Clocks, start : Times]

Entry == [nr : 1 .. MaxEntries, clock : Clocks, from : Times, to : Times]

TimerOpNames == {"start", "stop", "switch", "adjust", "discard"}

CallStages == {"idle", "measure", "book", "clear", "start", "move"}

Call ==
  [op : TimerOpNames \cup {"none"}, stage : CallStages, timer : Clock \cup {Off}, at : Times]

NoCall == [op |-> "none", stage |-> "idle", timer |-> Off, at |-> 0]

Asks(r, op) == calls[r] = NoCall /\ op \in TimerOps

GoesOn(r, q) == calls' = [calls EXCEPT ![r] = q]

Answers(r) == calls' = [calls EXCEPT ![r] = NoCall]

-----------------------------------------------------------------------------
(* The steps requests take.                                                *)

\* Start, and the reading of the clock behind it.  What requireStartable
\* refuses ends here (Refuse).
Start(r) ==
  /\ Asks(r, "start")
  /\ GoesOn(r, [NoCall EXCEPT !.op = "start", !.stage = "start", !.at = second])
  /\ UNCHANGED <<second, clock, started, given, booked>>

\* A slip: the clock is read again for the row that is written.
StartNow(r) ==
  /\ calls[r].stage = "start"
  /\ \E c \in Clocks \ started :
       /\ clock' = [id |-> c, start |-> second]
       /\ started' = started \cup {c}
  /\ given' = given \cup (IF clock = Off THEN {} ELSE {clock.id})
  /\ Answers(r)
  /\ UNCHANGED <<second, booked>>

\* TimerRepository.Start: the clock replaces whatever row there is.
StartAt(r) ==
  /\ calls[r].stage = "start"
  /\ \E c \in Clocks \ started :
       /\ clock' = [id |-> c, start |-> calls[r].at]
       /\ started' = started \cup {c}
  /\ given' = given \cup (IF clock = Off THEN {} ELSE {clock.id})
  /\ Answers(r)
  /\ UNCHANGED <<second, booked>>

\* What Stop, Switch and AdjustStart begin with: the running clock is read.
Running(r) ==
  /\ clock # Off
  /\ \E op \in {"stop", "switch", "adjust"} :
       /\ Asks(r, op)
       /\ GoesOn(r, [NoCall EXCEPT !.op = op, !.stage = "measure", !.timer = clock])
  /\ UNCHANGED <<second, clock, started, given, booked>>

\* A slip: the two ends of what one entry can hold are left to the database.
AnyMeasure(start, end) == end > start

\* TimerTooShort and TimerTooLong.
Measurable(start, end) == end - start >= MinSpan /\ end - start <= MaxSpan

\* The clock is read: up to the time it is, or up to the end somebody gave to Stop.
Measure(r) ==
  /\ calls[r].op \in {"stop", "switch"} /\ calls[r].stage = "measure"
  /\ \E end \in IF calls[r].op = "stop" THEN 0 .. second ELSE {second} :
       /\ end > calls[r].timer.start \/ end = second
       /\ Measurable(calls[r].timer.start, end)
       /\ GoesOn(r, [calls[r] EXCEPT !.stage = "book", !.at = end])
  /\ UNCHANGED <<second, clock, started, given, booked>>

\* CreateTimesheet, as one step: the entry is booked, or it is refused (Refuse).
Book(r) ==
  /\ calls[r].stage = "book"
  /\ Cardinality(booked) < MaxEntries
  /\ booked' = booked \cup {[nr |-> Cardinality(booked) + 1, clock |-> calls[r].timer.id,
                             from |-> calls[r].timer.start, to |-> calls[r].at]}
  /\ GoesOn(r, [calls[r] EXCEPT !.stage = "clear"])
  /\ UNCHANGED <<second, clock, started, given>>

\* A slip: an entry is booked and its clock runs on.
BookedAndLeft(r) ==
  /\ calls[r].stage = "clear"
  /\ IF calls[r].op = "switch" THEN GoesOn(r, [calls[r] EXCEPT !.stage = "start"]) ELSE Answers(r)
  /\ UNCHANGED <<second, clock, started, given, booked>>

\* TimerRepository.Clear, once the entry is there; a switch then starts the next
\* clock at the time it read.
Clear(r) ==
  /\ calls[r].stage = "clear"
  /\ clock' = Off
  /\ IF calls[r].op = "switch" THEN GoesOn(r, [calls[r] EXCEPT !.stage = "start"]) ELSE Answers(r)
  /\ UNCHANGED <<second, started, given, booked>>

\* Discard: whatever runs is thrown away.
Discard(r) ==
  /\ Asks(r, "discard")
  /\ clock # Off
  /\ clock' = Off
  /\ given' = given \cup {clock.id}
  /\ UNCHANGED <<second, started, booked, calls>>

\* AdjustStart: no clock starts in the future.
AdjustStart(r) ==
  /\ calls[r].op = "adjust" /\ calls[r].stage = "measure"
  /\ \E start \in 0 .. second : GoesOn(r, [calls[r] EXCEPT !.stage = "move", !.at = start])
  /\ UNCHANGED <<second, clock, started, given, booked>>

\* A slip: the clock that was read is written back with its new start.
MoveStartBack(r) ==
  /\ calls[r].stage = "move"
  /\ clock' = [calls[r].timer EXCEPT !.start = calls[r].at]
  /\ Answers(r)
  /\ UNCHANGED <<second, started, given, booked>>

\* TimerRepository.MoveStart: an update, which changes the row that is there
\* and none where there is none.
MoveStart(r) ==
  /\ calls[r].stage = "move"
  /\ clock' = IF clock = Off THEN Off ELSE [clock EXCEPT !.start = calls[r].at]
  /\ Answers(r)
  /\ UNCHANGED <<second, started, given, booked>>

\* A request that is refused before it has written anything: no startable
\* project, a span no entry can hold, a full day, a closed project.
Refuse(r) ==
  /\ calls[r].stage \in {"measure", "book"} \/ calls[r].op = "start"
  /\ Answers(r)
  /\ UNCHANGED <<second, clock, started, given, booked>>

\* One that ends where only a failure ends it.
CallFails(r) ==
  /\ mode.fails
  /\ calls[r].stage \in {"clear", "start", "move"}
  /\ Answers(r)
  /\ UNCHANGED <<second, clock, started, given, booked>>

Tick ==
  /\ second < MaxTime
  /\ second' = second + 1
  /\ UNCHANGED <<clock, started, given, booked, calls>>

-----------------------------------------------------------------------------
StopwatchInit ==
  /\ mode \in Modes
  /\ second = 0
  /\ clock = Off
  /\ started = {}
  /\ given = {}
  /\ booked = {}
  /\ calls = [r \in Calls |-> NoCall]

CallStep(r) ==
  \/ Start(r) \/ StartAt(r)
  \/ Running(r) \/ Measure(r) \/ Book(r) \/ Clear(r)
  \/ Discard(r)
  \/ AdjustStart(r) \/ MoveStart(r)
  \/ Refuse(r) \/ CallFails(r)

\* One client waits for its answer before it asks again.
InFlight == {r \in Calls : calls[r] # NoCall}
MayStep(r) == mode.overlap \/ InFlight \subseteq {r}

StopwatchNext ==
  /\ UNCHANGED mode
  /\ Tick \/ \E r \in Calls : MayStep(r) /\ CallStep(r)

StopwatchSpec == StopwatchInit /\ [][StopwatchNext]_stopwatchVars

-----------------------------------------------------------------------------
(* What is claimed.                                                        *)

\* Every variable holds what its column or its request may hold.
StopwatchTypeOK ==
  /\ mode \in Modes
  /\ second \in Times
  /\ clock \in Clock \cup {Off}
  /\ started \subseteq Clocks
  /\ given \subseteq started
  /\ booked \subseteq Entry
  /\ calls \in [Calls -> Call]

EntriesOf(c) == {b \in booked : b.clock = c}

\* A clock that has stopped running never runs again: a start that is adjusted
\* while the clock is stopped, discarded, switched or replaced from another
\* client does not bring it back (AdjustStart moves, it does not start).
NoClockComesBack ==
  [][\A c \in started :
       (clock = Off \/ clock.id # c) => (clock' = Off \/ clock'.id # c)]_stopwatchVars

\* What a clock became is a span one entry can hold, that had passed by the time
\* it was booked, and no clock starts in the future - whatever another client
\* does to the start in between (book, AdjustStart).
Measured ==
  /\ clock # Off => clock.start <= second
  /\ \A b \in booked : /\ b.to - b.from >= MinSpan
                       /\ b.to - b.from <= MaxSpan
                       /\ b.to <= second

\* A clock becomes one entry at most: stopping twice cannot double-count.
BookedOnce == \A c \in Clocks : Cardinality(EntriesOf(c)) <= 1

\* A clock that no longer runs was booked, or somebody gave it up: no time that
\* was being measured is lost (Clear removes what was booked or discarded).
ClockAccountedFor ==
  \A c \in started : \/ clock # Off /\ clock.id = c
                     \/ c \in given
                     \/ EntriesOf(c) # {}

\* What one client that waits for its answers measures becomes one entry or is given up:
\* stopping twice does not double-count, and no clock goes without its time being booked
\* or discarded (Stop, Switch, Start, Discard).
OneClientAccounts == ~mode.overlap /\ ~mode.fails => BookedOnce /\ ClockAccountedFor

\* A switch carries on from the same second: the clock it starts starts where
\* the entry it booked ends, however long the two writes take and whatever the
\* other clients do between them.
SwitchMeets ==
  [][\A r \in Calls :
       calls[r].op = "switch" /\ calls[r].stage = "start" /\ calls'[r] = NoCall
         /\ clock' # clock => \E b \in EntriesOf(calls[r].timer.id) : b.to = clock'.start]_stopwatchVars

=============================================================================
