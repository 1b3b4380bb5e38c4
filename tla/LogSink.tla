------------------------------ MODULE LogSink ------------------------------
(***************************************************************************)
(* The process log. Output goes down two pipes; a goroutine for each reads *)
(* its lines, drops the ones below the level in force, writes the rest to  *)
(* the console and puts them in a ring of fixed size under a lock, where   *)
(* an administrator's screen follows them with one query after another.    *)
(***************************************************************************)
EXTENDS Integers, Sequences, FiniteSets

CONSTANTS Capacity,    \* of the ring
          PipeRoom,    \* lines a pipe holds before a write to it blocks
          Modes        \* what a behaviour may contain: the kinds of lines written, the
                       \* size of a page, and bounds on lines, queries, restarts and levels

LineKinds == {"debug", "info", "warn", "error", "env", "quiet", "long", "plain"}
ASSUME SinkAssumption ==
  /\ Capacity \in Nat \ {0} /\ PipeRoom \in Nat
  /\ Modes \subseteq [kinds : SUBSET LineKinds, lines : Nat, page : Nat, polls : Nat, restarts : Nat, levels : Nat]

VARIABLES epoch,       \* the process: its name for the log
          ring, next, filled, lastSeq,
          threshold,   \* the rank of the level in force
          pipes,       \* pipe -> the lines in it
          hands,       \* pipe -> the record its goroutine has written to the console, if any
          capture,     \* "on", "closing" or "off"
          console,     \* the times of the lines on the console
          query,       \* the query in flight: its place and what it copied
          answer,      \* the last answer's lines
          follower,    \* where the screen follows on from
          heard,       \* ghost: lines shown or counted as missing since it follows
          mode, lines, polls, levels,
          gaveUp       \* ghost: capturing ended before the pipes were empty

sinkVars == <<epoch, ring, next, filled, lastSeq, threshold, pipes, hands, capture, console, query,
              answer, follower, heard, mode, lines, polls, levels, gaveUp>>
ringVars == <<ring, next, filled, lastSeq>>
screenVars == <<query, answer, follower, heard>>

Pipes == {"out", "err"}
NoRecord == [seq |-> 0, time |-> 0, kind |-> "none"]
severity == [debug |-> 1, info |-> 2, warn |-> 4, error |-> 5]
PipeOf(kind) == IF kind = "error" THEN "err" ELSE "out"
NoQuery == [at |-> "none", since |-> 0, following |-> FALSE, last |-> 0, dropped |-> 0, held |-> <<>>]

(***************************************************************************)
(* Writing and draining.                                                   *)
(***************************************************************************)
WriteLine(kind) ==           \* blocks while the pipe is full
  /\ capture = "on" /\ lines < mode.lines
  /\ Len(pipes[PipeOf(kind)]) < PipeRoom
  /\ lines' = lines + 1
  /\ pipes' = [pipes EXCEPT ![PipeOf(kind)] = Append(@, [seq |-> 0, time |-> 2 * lines', kind |-> kind])]
  /\ UNCHANGED <<mode, epoch, ringVars, threshold, hands, capture, console, screenVars, polls, levels, gaveUp>>

SetLevel(rank) ==
  /\ levels < mode.levels /\ rank # threshold
  /\ threshold' = rank /\ levels' = levels + 1
  /\ UNCHANGED <<mode, epoch, ringVars, pipes, hands, capture, console, screenVars, lines, polls, gaveUp>>

\* A line that is no JSON has no level of its own; one cut at the limit still opens with
\* its level.
unlevelled(line) == line.kind = "plain"
parse(line) == CASE line.kind = "env" -> "warn"
                 [] line.kind \in {"quiet", "long", "plain"} -> "info"
                 [] OTHER -> line.kind
keeps(line) == unlevelled(line) \/ severity[parse(line)] >= threshold
\* A line without a time of its own is given the one at which it was read, which lies
\* between the lines written before and after that.
stamped(line) ==
  IF line.kind \in {"plain", "long"} THEN [line EXCEPT !.time = 2 * lines + 1] ELSE line
isAbsentEnvFile(r) == r.kind = "env"
readLine(pipe) == Head(pipes[pipe])         \* in pieces, however long: see Take
\* A slip: a line that is too long to be read at once ends the draining.
drainStops(pipe) == pipes[pipe] # <<>> /\ hands[pipe] = NoRecord /\ readLine(pipe).kind # "long"
drains(pipe) == pipes[pipe] # <<>> /\ hands[pipe] = NoRecord
Take(pipe) ==
  /\ drains(pipe)
  /\ pipes' = [pipes EXCEPT ![pipe] = Tail(@)]
  /\ IF keeps(readLine(pipe)) /\ ~isAbsentEnvFile(readLine(pipe))
     THEN /\ console' = console \cup {readLine(pipe).time}
          /\ hands' = [hands EXCEPT ![pipe] = stamped(readLine(pipe))]
     ELSE UNCHANGED <<console, hands>>
  /\ UNCHANGED <<mode, epoch, ringVars, threshold, capture, screenVars, lines, polls, levels, gaveUp>>

quiet(r) == r.kind = "quiet"      \* a reading of this very log that succeeded
Stored(kept) ==
  /\ lastSeq' = lastSeq + 1
  /\ ring' = [ring EXCEPT ![next] = [kept EXCEPT !.seq = lastSeq']]
  /\ next' = (next + 1) % Capacity
  /\ filled' = (filled \/ next' = 0)
AppendRecord(pipe) ==
  /\ hands[pipe] # NoRecord
  /\ hands' = [hands EXCEPT ![pipe] = NoRecord]
  /\ IF quiet(hands[pipe]) THEN UNCHANGED ringVars ELSE Stored(hands[pipe])
  /\ UNCHANGED <<mode, epoch, threshold, pipes, capture, console, screenVars, lines, polls, levels, gaveUp>>

(***************************************************************************)
(* The end of capturing: close the write ends, wait for the goroutines,    *)
(* for two seconds at most.                                                *)
(***************************************************************************)
CloseWriters ==
  /\ capture = "on" /\ capture' = "closing"
  /\ UNCHANGED <<mode, epoch, ringVars, threshold, pipes, hands, console, screenVars, lines, polls, levels, gaveUp>>
Drained == \A p \in Pipes : pipes[p] = <<>> /\ hands[p] = NoRecord
\* A slip: the console is given back without waiting for what is in the pipes.
restoreAtOnce ==
  /\ capture = "closing" /\ capture' = "off"
  /\ UNCHANGED <<mode, epoch, ringVars, threshold, pipes, hands, console, screenVars, lines, polls, levels, gaveUp>>
restore ==
  /\ capture = "closing" /\ capture' = "off"
  /\ Drained
  /\ UNCHANGED <<mode, epoch, ringVars, threshold, pipes, hands, console, screenVars, lines, polls, levels, gaveUp>>
WaitedLongEnough ==
  /\ capture = "closing" /\ capture' = "off" /\ ~Drained
  /\ gaveUp' = TRUE
  /\ UNCHANGED <<mode, epoch, ringVars, threshold, pipes, hands, console, screenVars, lines, polls, levels>>
EmptySink ==
  /\ ring = [i \in 0..Capacity - 1 |-> NoRecord] /\ next = 0 /\ filled = FALSE /\ lastSeq = 0
NewProcess ==
  /\ capture = "off" /\ epoch < mode.restarts
  /\ epoch' = epoch + 1 /\ capture' = "on" /\ gaveUp' = FALSE
  /\ ring' = [i \in 0..Capacity - 1 |-> NoRecord] /\ next' = 0 /\ filled' = FALSE /\ lastSeq' = 0
  /\ pipes' = [p \in Pipes |-> <<>>] /\ hands' = [p \in Pipes |-> NoRecord]
  /\ query' = NoQuery
  /\ UNCHANGED <<mode, threshold, console, answer, follower, heard, lines, polls, levels>>

(***************************************************************************)
(* A query: under the lock a copy of what is newer than the place asked    *)
(* for, then the matching on the copy while lines go on being stored.      *)
(***************************************************************************)
oldestSeqLocked == IF filled THEN ring[next].seq ELSE IF next = 0 THEN 0 ELSE ring[0].seq
\* Numbers rise along the ring, so the records that are not newer than since come first.
heldAfterLocked(since) ==
  LET first == IF filled THEN next ELSE 0
      inOrder == [i \in 1..(IF filled THEN Capacity ELSE next) |-> ring[(first + i - 1) % Capacity]]
      older == Cardinality({i \in DOMAIN inOrder : inOrder[i].seq <= since})
  IN SubSeq(inOrder, older + 1, Len(inOrder))
Restarted == follower.process # epoch \/ follower.line > lastSeq
Query ==
  LET since == IF Restarted THEN 0 ELSE follower.line
      following == follower.line > 0
  IN /\ capture # "off" /\ query.at = "none" /\ polls < mode.polls
     /\ polls' = polls + 1
     /\ query' = [at |-> "match", since |-> since, following |-> following, last |-> lastSeq,
                  dropped |-> IF following /\ oldestSeqLocked > since + 1 THEN oldestSeqLocked - since - 1 ELSE 0,
                  held |-> heldAfterLocked(since)]
     /\ UNCHANGED <<mode, epoch, ringVars, threshold, pipes, hands, capture, console, answer, follower, heard,
                    lines, levels, gaveUp>>
newest(records) == IF Len(records) > mode.page
                   THEN SubSeq(records, Len(records) - mode.page + 1, Len(records)) ELSE records
\* A stable sort: a line's place is how many come before it in time, or stand before it.
placeWritten(records, i) ==
  Cardinality({j \in DOMAIN records : \/ records[j].time < records[i].time
                                     \/ (records[j].time = records[i].time /\ j <= i)})
inTheOrderWritten(records) ==
  [n \in DOMAIN records |-> records[CHOOSE i \in DOMAIN records : placeWritten(records, i) = n]]
Logs(records) ==             \* the rest of Query, and the page the handler answers
  /\ query.at = "match" /\ capture # "off"
  /\ answer' = inTheOrderWritten(newest(records))
  /\ follower' = [process |-> epoch, line |-> query.last]
  /\ heard' = heard + IF query.following
                      THEN Len(newest(records)) + query.dropped + (Len(records) - Len(newest(records))) ELSE 0
  /\ query' = NoQuery
  /\ UNCHANGED <<mode, epoch, ringVars, threshold, pipes, hands, capture, console, lines, polls, levels, gaveUp>>
\* A slip: the lines are matched where they are, while others are stored.
MatchInPlace == Logs(heldAfterLocked(query.since))
Match == Logs(query.held)

SinkInit ==
  /\ epoch = 0 /\ EmptySink /\ threshold = 2
  /\ pipes = [p \in Pipes |-> <<>>] /\ hands = [p \in Pipes |-> NoRecord]
  /\ capture = "on" /\ console = {} /\ gaveUp = FALSE
  /\ query = NoQuery /\ answer = <<>> /\ follower = [process |-> 0, line |-> 0] /\ heard = 0
  /\ mode \in Modes /\ lines = 0 /\ polls = 0 /\ levels = 0

Drains(pipe) == Take(pipe) \/ AppendRecord(pipe)
SinkNext ==
  \/ \E kind \in mode.kinds : WriteLine(kind)
  \/ \E pipe \in Pipes : Drains(pipe)
  \/ \E rank \in {1, 4} : SetLevel(rank)
  \/ CloseWriters \/ restore \/ WaitedLongEnough \/ NewProcess
  \/ Query \/ Match

\* The two goroutines run for as long as the process does.
SinkSpec == SinkInit /\ [][SinkNext]_sinkVars /\ \A p \in Pipes : WF_sinkVars(Drains(p))

(***************************************************************************)
(* What holds.                                                             *)
(***************************************************************************)

\* The ring implements the promise of LogTail: each line kept between two answers is
\* shown or counted as dropped or skipped, across overwritten slots, pages that are too
\* short, lines stored while a query matches, and a process that is replaced (Query).
TailOf == INSTANCE LogTail WITH process <- epoch, written <- lastSeq, place <- follower, told <- heard
FollowsTheTail == TailOf!TailSpec

\* A line is read out of its pipe however long it is and whatever is in it, so that a
\* write blocks for a while at most (drain).
PipesEmpty == \A p \in Pipes : pipes[p] # <<>> ~> pipes[p] = <<>>

\* Capturing ends with every line on its way to the console, unless two seconds were not
\* enough (Capture).
LastLinesReachTheConsole == capture = "off" /\ ~gaveUp => Drained

\* Lines of one answer are in the order of their times, although the two goroutines number
\* them in the order they get the lock, and lines of one time in that order (Query).
ShownInOrder ==
  \A i, j \in DOMAIN answer :
    i < j => \/ answer[i].time < answer[j].time
             \/ answer[i].time = answer[j].time /\ answer[i].seq < answer[j].seq

\* The console ends up with everything that was printed before the end, and a screen shows
\* it in the order it was written.
WholeAndInOrder == LastLinesReachTheConsole /\ ShownInOrder
=============================================================================
