------------------------------ MODULE Terminal ------------------------------
(***************************************************************************)
(* The terminal client. Its screen shows the stopwatch and the day as it   *)
(* last read them, reads them again every half minute, after each change   *)
(* and on a key, and offers the changes the stopwatch can take. Reads and  *)
(* changes run beside the screen and report back in any order. A command   *)
(* does one change without a screen, and ends with an exit code.           *)
(***************************************************************************)
EXTENDS Integers, FiniteSets

CONSTANTS Loads,        \* reads that may be on their way together
          Changes,      \* changes that may be on their way together
          RefreshTicks, \* refreshEvery, in ticks of the second hand
          Commands,     \* the commands a command line may hold
          Budgets       \* bounds on the changes, here and in the browser, on the calls that
                        \* fail and on the command lines

ASSUME TerminalAssumption == Commands \subseteq {"help", "status", "today", "start", "stop", "switch", "book"}

VARIABLES server,    \* [running, entries, language]: what the installation holds
          screen,    \* what the screen keeps: see FreshScreen
          loads,     \* read -> where it is and what it has read
          sent,      \* change -> where it is
          command,   \* the command line being carried out
          budget     \* what is left of the bounds

terminalVars == <<server, screen, loads, sent, command, budget>>

Languages == {"de", "en"}
Unstarted == [at |-> "none", language |-> "en", running |-> FALSE, entries |-> 0, failed |-> FALSE]
Unsent == [at |-> "none", doing |-> "", failed |-> FALSE]
FreshScreen == [loaded |-> FALSE, busy |-> FALSE, reading |-> TRUE, since |-> 0, form |-> "",
          running |-> FALSE, entries |-> 0, lang |-> "en", stale |-> FALSE]
NoCommand == [at |-> "none", doing |-> "", posted |-> FALSE, done |-> FALSE, code |-> 0]

Allow(what) == budget[what] > 0 /\ budget' = [budget EXCEPT ![what] = @ - 1]
FreeLoad == {l \in Loads : loads[l].at = "none"}

(***************************************************************************)
(* Reading the day: the account, the stopwatch, today's entries, one       *)
(* call after another.                                                     *)
(***************************************************************************)
\* The screen after it has asked, and the read it started.
asked(s) == [s EXCEPT !.reading = TRUE, !.since = 0]
ask(s, l) ==
  /\ screen' = asked(s)
  /\ loads' = [loads EXCEPT ![l] = [Unstarted EXCEPT !.at = "account"]]

\* A call whose answer does not come, or is a refusal, ends the read it belongs to.
call(l, read) ==
  \/ loads' = [loads EXCEPT ![l] = read] /\ UNCHANGED budget
  \/ Allow("failures") /\ loads' = [loads EXCEPT ![l].at = "back", ![l].failed = TRUE]
accountRead(l) ==
  loads[l].at = "account" /\ call(l, [loads[l] EXCEPT !.at = "timer", !.language = server.language])
timerRead(l) ==
  loads[l].at = "timer" /\ call(l, [loads[l] EXCEPT !.at = "today", !.running = server.running])
entriesOn(l) ==
  loads[l].at = "today" /\ call(l, [loads[l] EXCEPT !.at = "back", !.entries = server.entries])
load(l) ==
  /\ accountRead(l) \/ timerRead(l) \/ entriesOn(l)
  /\ UNCHANGED <<server, screen, sent, command>>

take(s, l) == [s EXCEPT !.running = loads[l].running, !.entries = loads[l].entries,
                        !.loaded = TRUE, !.stale = FALSE]
\* A slip: a read that failed leaves the screen waiting for it.
answeredOnlyIfRead(s, l) ==
  IF loads[l].failed THEN [s EXCEPT !.stale = TRUE] ELSE take([s EXCEPT !.reading = FALSE, !.busy = FALSE], l)
answered(s, l) ==
  IF loads[l].failed THEN [s EXCEPT !.reading = FALSE, !.busy = FALSE, !.stale = TRUE]
  ELSE take([s EXCEPT !.reading = FALSE, !.busy = FALSE], l)
read(l) ==                    \* a language chosen since is spoken from here on
  /\ loads[l].at = "back"
  /\ IF ~loads[l].failed /\ loads[l].language # screen.lang
     THEN ask([answered(screen, l) EXCEPT !.lang = loads[l].language], l)
     ELSE /\ screen' = answered(screen, l)
          /\ loads' = [loads EXCEPT ![l] = Unstarted]
  /\ UNCHANGED <<server, sent, command, budget>>

tick ==
  LET s == [screen EXCEPT !.since = IF @ < RefreshTicks THEN @ + 1 ELSE @]
  IN /\ IF ~s.reading /\ s.since >= RefreshTicks
        THEN \E l \in FreeLoad : ask(s, l)
        ELSE /\ screen' = s
             /\ UNCHANGED loads
     /\ UNCHANGED <<server, sent, command, budget>>
refresh ==
  /\ screen.form = "" /\ ~screen.reading
  /\ \E l \in FreeLoad : ask(screen, l)
  /\ UNCHANGED <<server, sent, command, budget>>

(***************************************************************************)
(* Changing something: the menu, its form, and the request.                *)
(***************************************************************************)
choices == IF ~screen.loaded \/ screen.busy THEN {}
           ELSE IF screen.running THEN {"switch", "stop", "book", "settings"} ELSE {"start", "book", "settings"}
open(doing) ==
  /\ screen.form = "" /\ doing \in choices
  /\ screen' = [screen EXCEPT !.form = doing]
  /\ UNCHANGED <<server, loads, sent, command, budget>>
abort ==
  /\ screen.form # ""
  /\ screen' = [screen EXCEPT !.form = ""]
  /\ UNCHANGED <<server, loads, sent, command, budget>>
\* The change the form asks for: none when the stopwatch is to be kept running, and one
\* that comes straight back when the hours cannot be read.
request(doing, confirmed, readable) ==
  CASE doing = "stop" /\ ~confirmed -> Unsent
    [] doing = "book" /\ ~readable -> [Unsent EXCEPT !.at = "back", !.doing = doing, !.failed = TRUE]
    [] OTHER -> [Unsent EXCEPT !.at = "sent", !.doing = doing]
fillIn(c) ==
  /\ screen.form # "" /\ sent[c].at = "none" /\ Allow("changes")
  /\ \E confirmed, readable \in BOOLEAN :
       LET change == request(screen.form, confirmed, readable)
       IN /\ sent' = [sent EXCEPT ![c] = change]
          /\ screen' = [screen EXCEPT !.form = "", !.busy = @ \/ change # Unsent]
  /\ UNCHANGED <<server, loads, command>>

\* What the installation does with a change; one the stopwatch cannot take is refused.
Accepted(doing) == (doing = "start" => ~server.running) /\ (doing \in {"stop", "switch"} => server.running)
startClock == [server EXCEPT !.running = TRUE]
stopClock == [server EXCEPT !.running = FALSE, !.entries = @ + 1]
switchClock == [server EXCEPT !.entries = @ + 1]
bookHours == [server EXCEPT !.entries = @ + 1]
saveSetting == [server EXCEPT !.language = CHOOSE x \in Languages : x # @]
Applied(doing) == CASE doing = "start" -> startClock
                    [] doing = "stop" -> stopClock
                    [] doing = "switch" -> switchClock
                    [] doing = "book" -> bookHours
                    [] doing = "settings" -> saveSetting
carriedOut(c) ==
  /\ sent[c].at = "sent"
  /\ \/ /\ server' = IF Accepted(sent[c].doing) THEN Applied(sent[c].doing) ELSE server
        /\ sent' = [sent EXCEPT ![c].at = "back", ![c].failed = ~Accepted(sent[c].doing)]
        /\ UNCHANGED budget
     \/ /\ Allow("failures")   \* the request or its answer is lost
        /\ server' \in {server, Applied(sent[c].doing)}
        /\ server' # server => Accepted(sent[c].doing)
        /\ sent' = [sent EXCEPT ![c].at = "back", ![c].failed = TRUE]
  /\ UNCHANGED <<screen, loads, command>>
done(c) ==                    \* says what it did, and reads the day again
  /\ sent[c].at = "back"
  /\ sent' = [sent EXCEPT ![c] = Unsent]
  /\ \E l \in FreeLoad : ask(screen, l)
  /\ UNCHANGED <<server, command, budget>>

InTheBrowser(doing) ==
  /\ Allow("changes") /\ Accepted(doing)
  /\ server' = Applied(doing)
  /\ UNCHANGED <<screen, loads, sent, command>>

(***************************************************************************)
(* A command line: what cannot be read is refused before anything is       *)
(* changed, then the calls it needs first, then the change.                *)
(***************************************************************************)
ReadsOnly(doing) == doing \in {"help", "status", "today"}
Ends(code) == command' = [command EXCEPT !.at = "ended", !.code = code]
OnlyCommand == UNCHANGED <<server, screen, loads, sent>>
Run(doing) ==                 \* nothing to do, a language or an address missing: 2
  /\ command.at = "none" /\ Allow("commands")
  /\ command' \in {[NoCommand EXCEPT !.at = "ended", !.doing = doing, !.code = 2],
                   [NoCommand EXCEPT !.at = IF doing = "help" THEN "ended" ELSE "language", !.doing = doing]}
  /\ OnlyCommand
accountLanguage ==            \* asked for unless a language was named
  /\ command.at = "language"
  /\ command' = [command EXCEPT !.at = "parse"] \/ Ends(1)
  /\ OnlyCommand /\ UNCHANGED budget
carryOut ==                   \* a switch without its value, or words the command takes none of
  /\ command.at = "parse"
  /\ command' = [command EXCEPT !.at = command.doing] \/ Ends(2)
  /\ OnlyCommand /\ UNCHANGED budget

\* The project the words name, when exactly one active project is called that.
aimedAt == command' = [command EXCEPT !.at = "post"] \/ Ends(1)
status == command.at = "status" /\ (Ends(0) \/ Ends(1))
today == command.at = "today" /\ (Ends(0) \/ Ends(1))
start == command.at = "start" /\ aimedAt
stop == command.at = "stop" /\ (command' = [command EXCEPT !.at = "post"] \/ Ends(1))
switchTo == command.at = "switch" /\ aimedAt
unreadableHours == Ends(2)
book == command.at = "book" /\ (aimedAt \/ unreadableHours)
Prepare == (status \/ today \/ start \/ stop \/ switchTo \/ book) /\ OnlyCommand /\ UNCHANGED budget

\* A slip: what failed is reported, and the exit code says nothing of it.
reportAnyway(err) == [command EXCEPT !.at = "ended", !.posted = TRUE, !.done = ~err]
report(err) == [command EXCEPT !.at = "ended", !.posted = TRUE, !.done = ~err, !.code = IF err THEN 1 ELSE 0]
Post ==
  /\ command.at = "post"
  /\ \/ /\ Accepted(command.doing) /\ Allow("changes")
        /\ server' = Applied(command.doing)
        /\ command' \in {report(FALSE), report(TRUE)}       \* the answer may be lost
     \/ /\ ~Accepted(command.doing) \/ budget.failures > 0
        /\ command' = report(TRUE)
        /\ UNCHANGED <<server, budget>>
  /\ UNCHANGED <<screen, loads, sent>>

TerminalInit ==
  /\ server = [running |-> FALSE, entries |-> 0, language |-> "en"]
  /\ screen = FreshScreen
  /\ \E l \in Loads : loads = [x \in Loads |-> IF x = l THEN [Unstarted EXCEPT !.at = "account"] ELSE Unstarted]
  /\ sent = [c \in Changes |-> Unsent]
  /\ command = NoCommand
  /\ budget \in Budgets

Reads(l) == load(l) \/ read(l)
TerminalNext ==
  \/ \E l \in Loads : Reads(l)
  \/ tick \/ refresh \/ abort
  \/ \E doing \in {"start", "stop", "switch", "book", "settings"} : open(doing) \/ InTheBrowser(doing)
  \/ \E c \in Changes : fillIn(c) \/ carriedOut(c) \/ done(c)
  \/ \E doing \in Commands : Run(doing)
  \/ accountLanguage \/ carryOut \/ Prepare \/ Post

\* The second hand ticks, and calls and their reports come back.
TerminalSpec ==
  /\ TerminalInit /\ [][TerminalNext]_terminalVars
  /\ WF_terminalVars(tick)
  /\ \A l \in Loads : WF_terminalVars(Reads(l))
  /\ \A c \in Changes : WF_terminalVars(carriedOut(c) \/ done(c))

(***************************************************************************)
(* What holds.                                                             *)
(***************************************************************************)
Shows == screen.loaded /\ screen.running = server.running /\ screen.entries = server.entries
           /\ screen.lang = server.language

\* A command that ends with 0 has done what it says, and one that could not be read has
\* asked for nothing (Run, carryOut).
ExitCodeIsTrue ==
  command.at = "ended" =>
    /\ command.code = 0 => command.done \/ ReadsOnly(command.doing)
    /\ command.code = 2 => ~command.posted
=============================================================================
