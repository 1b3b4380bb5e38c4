-------------------------- MODULE Stopwatch_proofs --------------------------
(***************************************************************************)
(* What the stopwatch promises for any number of clients that work it at   *)
(* the same time, and whatever fails half way.                             *)
(***************************************************************************)
EXTENDS Stopwatch, FiniteSetTheorems, TLAPS

\* What a request has read and measured by the time it uses it, at time t, with
\* the clocks s started and the entries b booked.
ReadAt(q, t, s, b) ==
  /\ q.op \in {"stop", "switch", "adjust"} => q.timer \in Clock /\ q.timer.id \in s
  /\ q.op = "start" => q.stage = "start"
  /\ q.stage \in {"measure", "book", "clear"} => q.op \in {"stop", "switch", "adjust"}
  /\ q.at <= t
  /\ q.stage = "book" => Measurable(q.timer.start, q.at)
  /\ q.op = "switch" /\ q.stage \in {"clear", "start"} =>
       \E e \in b : e.clock = q.timer.id /\ e.to = q.at

Read(q) == ReadAt(q, second, started, booked)

Inv ==
  /\ StopwatchTypeOK
  /\ IsFiniteSet(booked)
  /\ clock # Off => clock.id \in started
  /\ Measured
  /\ \A r \in Calls : Read(calls[r])

LEMMA InitInv ==
  ASSUME StopwatchInit
  PROVE  Inv
<1>1. NoCall \in Call
  BY StopwatchAssumption DEF NoCall, Call, TimerOpNames, CallStages, Times
<1>2. StopwatchTypeOK
  BY <1>1, StopwatchAssumption DEF StopwatchInit, StopwatchTypeOK, Times
<1>3. IsFiniteSet(booked)
  BY FS_EmptySet DEF StopwatchInit
<1>4. \A r \in Calls : Read(calls[r])
  BY DEF StopwatchInit, Read, ReadAt, NoCall
<1> QED
  BY <1>2, <1>3, <1>4 DEF Inv, StopwatchInit, Measured

\* Time, the clocks that were started and the entries only ever grow.
Grows == second <= second' /\ started \subseteq started' /\ booked \subseteq booked'

\* What a request read stays what it was while they do.
LEMMA ReadStays ==
  ASSUME Inv, StopwatchTypeOK', Grows, NEW x \in Calls, calls'[x] = calls[x]
  PROVE  Read(calls[x])'
<1>1. Read(calls[x]) /\ calls[x].at \in Int /\ second \in Int /\ second' \in Int
  BY DEF Inv, StopwatchTypeOK, Call, Times
<1>2. calls[x].at <= second'
  BY <1>1 DEF Grows, Read, ReadAt
<1> QED
  BY <1>1, <1>2 DEF Grows, Read, ReadAt, Measurable

\* One request's new record is enough for all of them.
LEMMA ReadAll ==
  ASSUME Inv, StopwatchTypeOK', Grows, NEW r \in Calls, NEW q, GoesOn(r, q),
         ReadAt(q, second', started', booked')
  PROVE  (\A x \in Calls : Read(calls[x]))'
<1>1. calls'[r] = q /\ \A x \in Calls : x # r => calls'[x] = calls[x]
  BY DEF GoesOn, Inv, StopwatchTypeOK
<1>2. \A x \in Calls : x # r => Read(calls[x])'
  BY <1>1, ReadStays
<1>3. Read(calls[r])'
  BY <1>1 DEF Read, ReadAt
<1> QED
  BY <1>2, <1>3

LEMMA IdleRead ==
  ASSUME StopwatchTypeOK'
  PROVE  ReadAt(NoCall, second', started', booked')
BY DEF StopwatchTypeOK, Times, NoCall, ReadAt

\* A step that gives a request a new record and changes nothing else.
LEMMA AwaitTyped ==
  ASSUME StopwatchTypeOK, NEW r \in Calls, NEW q \in Call, GoesOn(r, q),
         UNCHANGED <<mode, second, clock, started, given, booked>>
  PROVE  StopwatchTypeOK' /\ Grows
<1>1. calls' \in [Calls -> Call]
  BY DEF StopwatchTypeOK, GoesOn
<1>2. second <= second
  BY DEF StopwatchTypeOK, Times
<1> QED
  BY <1>1, <1>2 DEF StopwatchTypeOK, Grows

LEMMA StepInv ==
  ASSUME Inv, NEW r \in Calls, CallStep(r), UNCHANGED mode
  PROVE  Inv'
<1> DEFINE q == calls[r]
<1>q. /\ StopwatchTypeOK /\ IsFiniteSet(booked) /\ Measured
      /\ clock # Off => clock.id \in started
      /\ q \in Call /\ Read(q)
      /\ second \in Nat /\ MaxTime \in Nat /\ MaxEntries \in Nat
  BY StopwatchAssumption DEF Inv, StopwatchTypeOK, Times
<1>i. NoCall \in Call
  BY StopwatchAssumption DEF NoCall, Call, TimerOpNames, CallStages, Times
<1>1. CASE Start(r)
  <2> DEFINE n == [NoCall EXCEPT !.op = "start", !.stage = "start", !.at = second]
  <2>1. n \in Call
    BY <1>q, <1>i DEF NoCall, Call, TimerOpNames, CallStages, StopwatchTypeOK
  <2>2. StopwatchTypeOK' /\ Grows /\ GoesOn(r, n)
    BY <1>q, <1>1, <2>1 DEF Start, StopwatchTypeOK, Grows, GoesOn
  <2>3. ReadAt(n, second', started', booked')
    BY <1>q, <1>1 DEF Start, Read, ReadAt, NoCall
  <2> HIDE DEF n
  <2>4. (\A x \in Calls : Read(calls[x]))'
    BY <2>2, <2>3, ReadAll
  <2> QED
    BY <1>q, <1>1, <2>2, <2>4 DEF Inv, Start, Measured
<1>2. CASE StartAt(r)
  <2>1. PICK c \in Clocks \ started : /\ clock' = [id |-> c, start |-> q.at]
                                       /\ started' = started \cup {c}
    BY <1>2 DEF StartAt
  <2>2. q.at \in Times /\ q.at <= second /\ clock' \in Clock
    BY <1>q, <2>1 DEF Read, ReadAt, Call, Clock
  <2>3. given' \subseteq started'
    BY <1>q, <1>2, <2>1 DEF StartAt, StopwatchTypeOK
  <2>4. StopwatchTypeOK'
    BY <1>q, <1>i, <1>2, <2>1, <2>2, <2>3 DEF StartAt, StopwatchTypeOK, Answers
  <2>5. Grows /\ GoesOn(r, NoCall)
    BY <1>q, <1>2, <2>1 DEF StartAt, Grows, Answers, GoesOn
  <2>6. (\A x \in Calls : Read(calls[x]))'
    BY <2>4, <2>5, IdleRead, ReadAll
  <2>7. Measured'
    BY <1>q, <1>2, <2>1, <2>2 DEF StartAt, Measured
  <2> QED
    BY <1>q, <1>2, <2>1, <2>4, <2>6, <2>7 DEF Inv, StartAt
<1>3. CASE Running(r)
  <2>1. PICK op \in {"stop", "switch", "adjust"} :
          GoesOn(r, [NoCall EXCEPT !.op = op, !.stage = "measure", !.timer = clock])
    BY <1>3 DEF Running
  <2> DEFINE n == [NoCall EXCEPT !.op = op, !.stage = "measure", !.timer = clock]
  <2>2. clock \in Clock /\ clock.id \in started
    BY <1>q, <1>3 DEF Running, StopwatchTypeOK
  <2>3. n \in Call
    BY <1>i, <2>2 DEF NoCall, Call, TimerOpNames, CallStages
  <2>a. GoesOn(r, n)
    BY <2>1
  <2>5. ReadAt(n, second', started', booked')
    BY <1>q, <1>3, <2>2 DEF Running, Read, ReadAt, NoCall
  <2> HIDE DEF n
  <2>4. StopwatchTypeOK' /\ Grows /\ GoesOn(r, n)
    BY <1>q, <1>3, <2>a, <2>3, AwaitTyped DEF Running
  <2>6. (\A x \in Calls : Read(calls[x]))'
    BY <2>4, <2>5, ReadAll
  <2> QED
    BY <1>q, <1>3, <2>4, <2>6 DEF Inv, Running, Measured
<1>4. CASE Measure(r)
  <2>1. PICK end \in 0 .. second : /\ Measurable(q.timer.start, end)
                                /\ GoesOn(r, [q EXCEPT !.stage = "book", !.at = end])
    <3>1. second \in 0 .. second
      BY <1>q
    <3> QED
      BY <1>4, <3>1 DEF Measure
  <2>t. end \in Times /\ end <= second
    BY <1>q, <2>1 DEF StopwatchTypeOK, Times
  <2> DEFINE n == [q EXCEPT !.stage = "book", !.at = end]
  <2>2. n \in Call
    BY <1>q, <2>t DEF Call, CallStages
  <2>a. GoesOn(r, n)
    BY <2>1
  <2>4. ReadAt(n, second', started', booked')
    BY <1>q, <1>4, <2>1, <2>t DEF Measure, Read, ReadAt, Call, Measurable
  <2> HIDE DEF n
  <2>3. StopwatchTypeOK' /\ Grows /\ GoesOn(r, n)
    BY <1>q, <1>4, <2>a, <2>2, AwaitTyped DEF Measure
  <2>5. (\A x \in Calls : Read(calls[x]))'
    BY <2>3, <2>4, ReadAll
  <2> QED
    BY <1>q, <1>4, <2>3, <2>5 DEF Inv, Measure, Measured
<1>5. CASE Book(r)
  <2> DEFINE n == [q EXCEPT !.stage = "clear"]
             b == [nr |-> Cardinality(booked) + 1, clock |-> q.timer.id,
                   from |-> q.timer.start, to |-> q.at]
  <2>1. /\ q.timer \in Clock /\ q.at \in Times /\ q.at <= second
        /\ Measurable(q.timer.start, q.at)
        /\ q.op \in {"stop", "switch", "adjust"}
    BY <1>q, <1>5 DEF Book, Read, ReadAt, Call
  <2>2. Cardinality(booked) \in Nat
    BY <1>q, FS_CardinalityType
  <2>3. b \in Entry /\ booked' = booked \cup {b}
    BY <1>q, <1>5, <2>1, <2>2 DEF Book, Entry, Clock
  <2>4. IsFiniteSet(booked')
    BY <1>q, <2>3, FS_AddElement
  <2>5. n \in Call
    BY <1>q DEF Call, CallStages
  <2>6. StopwatchTypeOK' /\ Grows /\ GoesOn(r, n)
    BY <1>q, <1>5, <2>3, <2>5 DEF Book, StopwatchTypeOK, Grows, GoesOn
  <2>7. b \in booked' /\ b.clock = q.timer.id /\ b.to = q.at
    BY <2>3
  <2>8. /\ n.op = q.op /\ n.stage = "clear" /\ n.timer = q.timer /\ n.at = q.at
    BY <1>q DEF Call
  <2>9. Measured'
    <3>1. b.to - b.from >= MinSpan /\ b.to - b.from <= MaxSpan /\ b.to <= second
      BY <2>1 DEF Measurable
    <3> HIDE DEF b
    <3> QED
      BY <1>q, <1>5, <2>3, <3>1 DEF Book, Measured
  <2> HIDE DEF n, b
  <2>10. ReadAt(n, second', started', booked')
    BY <1>q, <1>5, <2>1, <2>7, <2>8 DEF Book, Read, ReadAt
  <2>11. (\A x \in Calls : Read(calls[x]))'
    BY <2>6, <2>10, ReadAll
  <2> QED
    BY <1>q, <1>5, <2>4, <2>6, <2>9, <2>11 DEF Inv, Book
<1>6. CASE Clear(r)
  <2> DEFINE n == IF q.op = "switch" THEN [q EXCEPT !.stage = "start"] ELSE NoCall
  <2>1. n \in Call
    BY <1>q, <1>i DEF Call, CallStages
  <2>2. StopwatchTypeOK' /\ Grows /\ GoesOn(r, n)
    BY <1>q, <1>6, <2>1 DEF Clear, StopwatchTypeOK, Grows, GoesOn, Answers
  <2>3. ReadAt(n, second', started', booked')
    <3>1. CASE q.op = "switch"
      <4>1. n.op = "switch" /\ n.stage = "start" /\ n.timer = q.timer /\ n.at = q.at
        BY <1>q, <3>1 DEF Call
      <4> HIDE DEF n
      <4> QED
        BY <1>q, <1>6, <3>1, <4>1 DEF Clear, Read, ReadAt, EntriesOf
    <3>2. CASE q.op # "switch"
      BY <2>2, <3>2, IdleRead
    <3> QED
      BY <3>1, <3>2
  <2> HIDE DEF n
  <2>4. (\A x \in Calls : Read(calls[x]))'
    BY <2>2, <2>3, ReadAll
  <2> QED
    BY <1>q, <1>6, <2>2, <2>4 DEF Inv, Clear, Measured
<1>7. CASE Discard(r)
  <2>1. clock.id \in started
    BY <1>q, <1>7 DEF Discard
  <2>2. StopwatchTypeOK' /\ Grows
    BY <1>q, <1>7, <2>1 DEF Discard, StopwatchTypeOK, Grows
  <2>3. (\A x \in Calls : Read(calls[x]))'
    BY <1>7, <2>2, ReadStays DEF Discard
  <2> QED
    BY <1>q, <1>7, <2>2, <2>3 DEF Inv, Discard, Measured
<1>8. CASE AdjustStart(r)
  <2>1. PICK start \in 0 .. second : GoesOn(r, [q EXCEPT !.stage = "move", !.at = start])
    BY <1>8 DEF AdjustStart
  <2>t. start \in Times /\ start <= second
    BY <1>q, <2>1 DEF StopwatchTypeOK, Times
  <2> DEFINE n == [q EXCEPT !.stage = "move", !.at = start]
  <2>2. n \in Call
    BY <1>q, <2>t DEF Call, CallStages
  <2>a. GoesOn(r, n)
    BY <2>1
  <2>4. ReadAt(n, second', started', booked')
    BY <1>q, <1>8, <2>t DEF AdjustStart, Read, ReadAt, Call
  <2> HIDE DEF n
  <2>3. StopwatchTypeOK' /\ Grows /\ GoesOn(r, n)
    BY <1>q, <1>8, <2>a, <2>2, AwaitTyped DEF AdjustStart
  <2>5. (\A x \in Calls : Read(calls[x]))'
    BY <2>3, <2>4, ReadAll
  <2> QED
    BY <1>q, <1>8, <2>3, <2>5 DEF Inv, AdjustStart, Measured
<1>9. CASE MoveStart(r)
  <2>1. /\ clock' \in Clock \cup {Off}
        /\ clock' # Off => clock'.id \in started /\ clock'.start <= second
    BY <1>q, <1>9 DEF MoveStart, StopwatchTypeOK, Clock, Call, Read, ReadAt
  <2>2. StopwatchTypeOK' /\ Grows /\ GoesOn(r, NoCall)
    BY <1>q, <1>i, <1>9, <2>1 DEF MoveStart, StopwatchTypeOK, Grows, GoesOn, Answers
  <2>3. (\A x \in Calls : Read(calls[x]))'
    BY <2>2, IdleRead, ReadAll
  <2> QED
    BY <1>q, <1>9, <2>1, <2>2, <2>3 DEF Inv, MoveStart, Measured
<1>10. CASE Refuse(r) \/ CallFails(r)
  <2>1. StopwatchTypeOK' /\ Grows /\ GoesOn(r, NoCall)
    BY <1>q, <1>i, <1>10 DEF Refuse, CallFails, StopwatchTypeOK, Grows, GoesOn, Answers
  <2>2. (\A x \in Calls : Read(calls[x]))'
    BY <2>1, IdleRead, ReadAll
  <2> QED
    BY <1>q, <1>10, <2>1, <2>2 DEF Inv, Refuse, CallFails, Measured
<1> QED
  BY <1>1, <1>2, <1>3, <1>4, <1>5, <1>6, <1>7, <1>8, <1>9, <1>10 DEF CallStep

LEMMA TickInv ==
  ASSUME Inv, Tick, UNCHANGED mode
  PROVE  Inv'
<1>1. StopwatchTypeOK' /\ Grows
  BY StopwatchAssumption DEF Inv, Tick, StopwatchTypeOK, Times, Grows
<1>2. (\A x \in Calls : Read(calls[x]))'
  BY <1>1, ReadStays DEF Tick
<1>3. Measured'
  BY DEF Inv, StopwatchTypeOK, Clock, Entry, Times, Tick, Measured
<1> QED
  BY <1>1, <1>2, <1>3 DEF Inv, Tick

LEMMA InvInvariant == StopwatchSpec => []Inv
<1>1. StopwatchInit => Inv
  BY InitInv
<1>2. Inv /\ [StopwatchNext]_stopwatchVars => Inv'
  <2> SUFFICES ASSUME Inv, [StopwatchNext]_stopwatchVars PROVE Inv'
    OBVIOUS
  <2>1. CASE StopwatchNext
    BY <2>1, StepInv, TickInv DEF StopwatchNext
  <2>2. CASE UNCHANGED stopwatchVars
    BY <2>2 DEF stopwatchVars, Inv, StopwatchTypeOK, Measured, Read, ReadAt, EntriesOf
  <2> QED
    BY <2>1, <2>2
<1> QED
  BY <1>1, <1>2, PTL DEF StopwatchSpec

\* However many clients stop, switch and adjust one clock at the same time, what
\* it becomes is a span one entry can hold and that had passed, and no clock
\* starts in the future.
THEOREM SpansMeasured == StopwatchSpec => []Measured
<1>1. Inv => Measured
  BY DEF Inv
<1> QED
  BY <1>1, InvInvariant, PTL

\* An adjusted start never brings back a clock that was stopped, discarded,
\* switched or replaced in the meantime.
THEOREM NoClockReturns == StopwatchSpec => NoClockComesBack
<1> DEFINE Stays == \A c \in started :
             (clock = Off \/ clock.id # c) => (clock' = Off \/ clock'.id # c)
<1>1. Inv /\ [StopwatchNext]_stopwatchVars => [Stays]_stopwatchVars
  <2> SUFFICES ASSUME Inv, StopwatchNext PROVE Stays
    OBVIOUS
  <2>1. clock \in Clock \cup {Off}
    BY DEF Inv, StopwatchTypeOK
  <2>2. CASE UNCHANGED clock
    BY <2>2
  <2>3. ASSUME NEW r \in Calls, StartAt(r) PROVE Stays
    BY <2>3 DEF StartAt
  <2>4. ASSUME NEW r \in Calls, Clear(r) \/ Discard(r) PROVE Stays
    BY <2>4 DEF Clear, Discard
  <2>5. ASSUME NEW r \in Calls, MoveStart(r) PROVE Stays
    BY <2>1, <2>5 DEF MoveStart, Clock
  <2> QED
    BY <2>2, <2>3, <2>4, <2>5
    DEF StopwatchNext, Tick, CallStep, Start, Running, Measure, Book, AdjustStart, Refuse, CallFails
<1> HIDE DEF Stays
<1>2. []Inv /\ [][StopwatchNext]_stopwatchVars => [][Stays]_stopwatchVars
  BY <1>1, PTL
<1> QED
  BY <1>2, InvInvariant, PTL DEF StopwatchSpec, NoClockComesBack, Stays

\* The clock a switch starts begins at the second its entry ends, whatever the other clients
\* did to the clock meanwhile.
THEOREM SwitchesMeet == StopwatchSpec => SwitchMeets
<1> DEFINE Meets == \A r \in Calls :
       calls[r].op = "switch" /\ calls[r].stage = "start" /\ calls'[r] = NoCall
         /\ clock' # clock => \E b \in EntriesOf(calls[r].timer.id) : b.to = clock'.start
<1>1. Inv /\ [StopwatchNext]_stopwatchVars => [Meets]_stopwatchVars
  <2> SUFFICES ASSUME Inv, StopwatchNext, NEW r \in Calls, calls[r].op = "switch", calls[r].stage = "start",
                      calls'[r] = NoCall, clock' # clock
               PROVE  \E b \in EntriesOf(calls[r].timer.id) : b.to = clock'.start
    OBVIOUS
  <2>1. PICK e \in booked : e.clock = calls[r].timer.id /\ e.to = calls[r].at
    BY DEF Inv, Read, ReadAt
  <2>2. calls[r] # NoCall /\ calls \in [Calls -> Call]
    BY DEF NoCall, Inv, StopwatchTypeOK
  <2>3. PICK s \in Calls : CallStep(s)
    BY <2>2 DEF StopwatchNext, Tick
  <2>4. s = r
    BY <2>2, <2>3
       DEF CallStep, Start, StartAt, Running, Measure, Book, Clear, Discard, AdjustStart, MoveStart, Refuse, CallFails,
       GoesOn, Answers
  <2>5. StartAt(r)
    BY <2>2, <2>3, <2>4
       DEF CallStep, Start, Running, Measure, Book, Clear, Discard, AdjustStart, MoveStart, Refuse, CallFails, Asks
  <2>6. clock'.start = calls[r].at
    BY <2>5 DEF StartAt
  <2> QED
    BY <2>1, <2>6 DEF EntriesOf
<1> HIDE DEF Meets
<1>2. []Inv /\ [][StopwatchNext]_stopwatchVars => [][Meets]_stopwatchVars
  BY <1>1, PTL
<1> QED
  BY <1>2, InvInvariant, PTL DEF StopwatchSpec, SwitchMeets, Meets

-----------------------------------------------------------------------------
(* One client that waits for its answers.                                  *)

\* Only one request is under way, the clock it has read is the one that runs, and an entry
\* whose clock still runs is about to be cleared.
AloneInv ==
  /\ \A r, s \in Calls : calls[r] # NoCall /\ calls[s] # NoCall => r = s
  /\ \A r \in Calls :
       /\ calls[r].stage \in {"measure", "book", "clear"} => clock = calls[r].timer
       /\ calls[r].stage = "clear" => \E b \in booked : b.clock = calls[r].timer.id
       /\ calls[r].stage = "start" /\ calls[r].op = "switch" => clock = Off
  /\ \A b \in booked : /\ b.clock \in started
                       /\ clock # Off /\ clock.id = b.clock => \E r \in Calls : calls[r].stage = "clear"
  /\ \A b, c \in booked : b.clock = c.clock => b = c
  /\ \A c \in started : (clock # Off /\ clock.id = c) \/ c \in given \/ \E b \in booked : b.clock = c

OneClientInv == ~mode.overlap /\ ~mode.fails => AloneInv

LEMMA AloneStart == StopwatchInit => AloneInv
BY DEF StopwatchInit, AloneInv, NoCall

\* The one request under way steps; nothing fails.
LEMMA AloneStep ==
  ASSUME Inv, AloneInv, StopwatchNext, ~mode.overlap, ~mode.fails
  PROVE  AloneInv'
<1>0. /\ calls \in [Calls -> Call] /\ clock \in Clock \cup {Off}
      /\ clock # Off => clock.id \in started
      /\ \A r \in Calls : Read(calls[r])
  BY DEF Inv, StopwatchTypeOK
<1>1. CASE Tick
  BY <1>1 DEF Tick, AloneInv
<1>2. ASSUME NEW r \in Calls, InFlight \subseteq {r}, CallStep(r) PROVE AloneInv'
  <2>1. \A s \in Calls \ {r} : calls[s] = NoCall
    BY <1>2 DEF InFlight
  <2>2. \A s \in Calls \ {r} : calls'[s] = NoCall
    BY <1>0, <1>2, <2>1
       DEF CallStep, Start, StartAt, Running, Measure, Book, Clear, Discard, AdjustStart, MoveStart, Refuse, CallFails,
       GoesOn, Answers
  <2>3. NoCall.stage = "idle" /\ NoCall.op = "none"
    BY DEF NoCall
  <2>4. SUFFICES /\ calls'[r].stage \in {"measure", "book", "clear"} => clock' = calls'[r].timer
                 /\ calls'[r].stage = "clear" => \E b \in booked' : b.clock = calls'[r].timer.id
                 /\ calls'[r].stage = "start" /\ calls'[r].op = "switch" => clock' = Off
                 /\ \A b \in booked' : /\ b.clock \in started'
                                       /\ clock' # Off /\ clock'.id = b.clock => calls'[r].stage = "clear"
                 /\ \A b, c \in booked' : b.clock = c.clock => b = c
                 /\ \A c \in started' : (clock' # Off /\ clock'.id = c) \/ c \in given' \/ \E b \in booked' : b.clock = c
    <3>1. ASSUME NEW s \in Calls PROVE s = r \/ calls'[s] = NoCall
      BY <2>2
    <3> QED
      BY <2>3, <2>4, <3>1 DEF AloneInv
  <2>5. /\ calls[r].stage \in {"measure", "book", "clear"} => clock = calls[r].timer
        /\ calls[r].stage = "clear" => \E b \in booked : b.clock = calls[r].timer.id
        /\ calls[r].stage = "start" /\ calls[r].op = "switch" => clock = Off
        /\ \A b \in booked : /\ b.clock \in started
                             /\ clock # Off /\ clock.id = b.clock => calls[r].stage = "clear"
        /\ \A b, c \in booked : b.clock = c.clock => b = c
        /\ \A c \in started : (clock # Off /\ clock.id = c) \/ c \in given \/ \E b \in booked : b.clock = c
    BY <2>1, <2>3 DEF AloneInv
  <2>6. calls[r] \in Call /\ Read(calls[r])
    BY <1>0
  <2>7. CASE Start(r)
    BY <1>0, <2>3, <2>5, <2>7 DEF Start, Asks, GoesOn, NoCall
  <2>8. CASE StartAt(r)
    <3>1. PICK c \in Clocks \ started : /\ clock' = [id |-> c, start |-> calls[r].at]
                                         /\ started' = started \cup {c}
      BY <2>8 DEF StartAt
    <3>2. clock' # Off /\ clock'.id = c /\ calls'[r] = NoCall
      BY <1>0, <2>6, <2>8, <3>1, StopwatchAssumption DEF StartAt, Answers, Call, Times
    <3> QED
      BY <2>3, <2>5, <2>8, <3>1, <3>2 DEF StartAt
  <2>9. CASE Running(r)
    <3>1. PICK op \in {"stop", "switch", "adjust"} :
            calls' = [calls EXCEPT ![r] = [NoCall EXCEPT !.op = op, !.stage = "measure", !.timer = clock]]
      BY <2>9 DEF Running, GoesOn
    <3>2. calls'[r].stage = "measure" /\ calls'[r].timer = clock
      BY <1>0, <3>1 DEF NoCall
    <3> QED
      BY <2>3, <2>5, <2>9, <3>2 DEF Running, Asks
  <2>10. CASE Measure(r)
    <3>1. calls'[r].stage = "book" /\ calls'[r].timer = calls[r].timer
      BY <1>0, <2>6, <2>10 DEF Measure, GoesOn, Call
    <3> QED
      BY <2>5, <2>10, <3>1 DEF Measure
  <2>11. CASE Book(r)
    <3> DEFINE entry == [nr |-> Cardinality(booked) + 1, clock |-> calls[r].timer.id,
                         from |-> calls[r].timer.start, to |-> calls[r].at]
    <3>1. booked' = booked \cup {entry} /\ entry.clock = calls[r].timer.id
      BY <2>11 DEF Book
    <3> HIDE DEF entry
    <3>2. calls'[r].stage = "clear" /\ calls'[r].timer = calls[r].timer
      BY <1>0, <2>6, <2>11 DEF Book, GoesOn, Call
    <3>3. calls[r].stage = "book" /\ calls[r].timer = clock /\ clock \in Clock /\ clock # Off /\ clock.id \in started
      BY <1>0, <2>5, <2>6, <2>11, StopwatchAssumption DEF Book, Read, ReadAt, Clock, Times
    <3>4. \A b \in booked : b.clock # entry.clock
      BY <2>5, <3>1, <3>3
    <3> QED
      BY <2>5, <2>11, <3>1, <3>2, <3>3, <3>4 DEF Book
  <2>12. CASE Clear(r)
    <3>1. calls'[r] = NoCall \/ (calls[r].op = "switch" /\ calls'[r].stage = "start")
      BY <1>0, <2>6, <2>12 DEF Clear, GoesOn, Answers, Call
    <3>2. calls[r].stage = "clear" /\ clock = calls[r].timer
      BY <2>5, <2>12 DEF Clear
    <3> QED
      BY <2>3, <2>5, <2>12, <3>1, <3>2 DEF Clear
  <2>13. CASE Discard(r)
    BY <1>0, <2>3, <2>5, <2>13 DEF Discard, Asks
  <2>14. CASE AdjustStart(r)
    <3>1. calls'[r].stage = "move"
      BY <1>0, <2>6, <2>14 DEF AdjustStart, GoesOn, Call
    <3> QED
      BY <2>5, <2>14, <3>1 DEF AdjustStart
  <2>15. CASE MoveStart(r)
    <3>1. calls'[r] = NoCall /\ (clock = Off => clock' = Off) /\ (clock # Off => clock'.id = clock.id /\ clock' # Off)
      BY <1>0, <2>6, <2>15, StopwatchAssumption DEF MoveStart, Answers, Clock, Call, Times
    <3> QED
      BY <2>3, <2>5, <2>15, <3>1 DEF MoveStart
  <2>16. CASE Refuse(r)
    <3>1. calls'[r] = NoCall /\ calls[r].stage # "clear"
      BY <1>0, <2>6, <2>16 DEF Refuse, Answers, Read, ReadAt
    <3> QED
      BY <2>3, <2>5, <2>16, <3>1 DEF Refuse
  <2> QED
    BY <1>2, <2>7, <2>8, <2>9, <2>10, <2>11, <2>12, <2>13, <2>14, <2>15, <2>16 DEF CallStep, CallFails
<1> QED
  BY <1>1, <1>2 DEF StopwatchNext, MayStep

\* Stopping twice does not double-count for a client that waits for its answers, and none of
\* its clocks goes without its time being booked or given up.
THEOREM OneClientIsAccountedFor == StopwatchSpec => []OneClientAccounts
<1>1. StopwatchInit => OneClientInv
  BY AloneStart DEF OneClientInv
<1>2. Inv /\ OneClientInv /\ [StopwatchNext]_stopwatchVars => OneClientInv'
  <2> SUFFICES ASSUME Inv, OneClientInv, [StopwatchNext]_stopwatchVars, ~mode'.overlap, ~mode'.fails PROVE AloneInv'
    BY DEF OneClientInv
  <2>1. mode' = mode /\ AloneInv
    BY DEF StopwatchNext, stopwatchVars, OneClientInv
  <2>2. CASE StopwatchNext
    BY <2>1, <2>2, AloneStep
  <2>3. CASE UNCHANGED stopwatchVars
    BY <2>1, <2>3 DEF stopwatchVars, AloneInv
  <2> QED
    BY <2>2, <2>3
<1>3. OneClientInv => OneClientAccounts
  <2> SUFFICES ASSUME AloneInv PROVE BookedOnce /\ ClockAccountedFor
    BY DEF OneClientInv, OneClientAccounts
  <2>1. ASSUME NEW c \in Clocks PROVE Cardinality(EntriesOf(c)) <= 1
    <3>1. EntriesOf(c) = {} \/ \E b \in booked : EntriesOf(c) = {b}
      BY DEF AloneInv, EntriesOf
    <3>2. CASE EntriesOf(c) = {}
      BY <3>2, FS_EmptySet
    <3>3. ASSUME NEW b, EntriesOf(c) = {b} PROVE Cardinality(EntriesOf(c)) <= 1
      BY <3>3, FS_Singleton
    <3> QED
      BY <3>1, <3>2, <3>3
  <2>2. ClockAccountedFor
    BY DEF AloneInv, ClockAccountedFor, EntriesOf
  <2> QED
    BY <2>1, <2>2 DEF BookedOnce
<1> QED
  BY <1>1, <1>2, <1>3, InvInvariant, PTL DEF StopwatchSpec

=============================================================================
