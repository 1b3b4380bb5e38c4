--------------------------- MODULE Running_proofs ---------------------------
(***************************************************************************)
(* What runs beside the requests: the log and the screen that follows it,  *)
(* the announcements, a session against the clock, the terminal's          *)
(* commands, and the updates: that the binary that replaces itself is      *)
(* never lost, and that the answer an update of the image is told by is    *)
(* its own, for any browsers, any number of presses and versions.          *)
(***************************************************************************)
EXTENDS LogSink, Notices, SessionClock, Terminal, SelfUpdate, ImageUpdate,
        FiniteSetTheorems, SequenceTheorems, WellFoundedInduction, TLAPS

-----------------------------------------------------------------------------
(* The log and the screen that follows it.                                 *)

Record == [seq : Nat, time : Nat, kind : LineKinds \cup {"none"}]
Slots == 0..Capacity - 1

\* The lines on their way to the ring.
LinesInv ==
  /\ mode \in Modes /\ lines \in Nat
  /\ pipes \in [Pipes -> Seq(Record)] /\ hands \in [Pipes -> Record]

\* The ring holds the last lines kept, without a gap: in the order of their numbers from
\* its first slot, or, once it has been filled, from the slot the next line goes to.
RingInv ==
  /\ lastSeq \in Nat /\ next \in Slots /\ filled \in BOOLEAN /\ ring \in [Slots -> Record]
  /\ ~filled => next = lastSeq /\ \A i \in 0..next - 1 : ring[i].seq = i + 1
  /\ filled => /\ lastSeq >= Capacity
               /\ \A i \in Slots : ring[i].seq = lastSeq - next + 1 + i - (IF i < next THEN 0 ELSE Capacity)

\* A screen's place is a line its process has kept, and a query that is being matched has
\* copied, or counted as dropped, every line from that place to the last.
PlaceInv ==
  /\ epoch \in Nat /\ heard \in Int
  /\ follower \in [process : 0..epoch, line : Nat]
  /\ follower.process = epoch => follower.line <= lastSeq
  /\ query.at = "match" =>
       /\ query.following <=> follower.line > 0
       /\ query.since = IF follower.process = epoch THEN follower.line ELSE 0
       /\ query.last \in query.since..lastSeq /\ query.held \in Seq(Record) /\ query.dropped \in Nat
       /\ query.following => Len(query.held) + query.dropped = query.last - query.since
SinkInv == LinesInv /\ RingInv /\ PlaceInv

\* The first n numbers are n.
LEMMA FirstNumbers ==
  ASSUME NEW n \in Nat
  PROVE  IsFiniteSet(1..n) /\ Cardinality(1..n) = n
<1>1. 1 \in Int /\ n \in Int
  OBVIOUS
<1>2. IsFiniteSet(1..n) /\ Cardinality(1..n) = IF 1 > n THEN 0 ELSE n - 1 + 1
  BY <1>1, FS_Interval
<1>3. (IF 1 > n THEN 0 ELSE n - 1 + 1) = n
  OBVIOUS
<1> QED
  BY <1>2, <1>3

LEMMA Wrap == \A a \in 0..2 * Capacity - 1 : a % Capacity = IF a < Capacity THEN a ELSE a - Capacity
BY SinkAssumption

LEMMA NoRecordIsOne == NoRecord \in Record
BY DEF NoRecord, Record

LEMMA NoQueryIsNone == NoQuery.at = "none"
BY DEF NoQuery

LEMMA SinkInitInv == SinkInit => SinkInv
<1> SUFFICES ASSUME SinkInit PROVE SinkInv
  OBVIOUS
<1>1. LinesInv
  BY NoRecordIsOne DEF SinkInit, LinesInv
<1>2. RingInv
  <2>1. lastSeq = 0 /\ next = 0 /\ filled = FALSE /\ ring = [i \in Slots |-> NoRecord]
    BY DEF SinkInit, EmptySink, Slots
  <2>2. ring \in [Slots -> Record] /\ next \in Slots
    BY <2>1, NoRecordIsOne, SinkAssumption DEF Slots
  <2>3. \A i \in 0..next - 1 : FALSE
    BY <2>1
  <2> QED
    BY <2>1, <2>2, <2>3 DEF RingInv
<1>3. PlaceInv
  BY NoQueryIsNone DEF SinkInit, EmptySink, PlaceInv
<1> QED
  BY <1>1, <1>2, <1>3 DEF SinkInv

\* Storing a line keeps the ring without a gap.
LEMMA StoredStep ==
  ASSUME RingInv, NEW kept \in Record, Stored(kept)
  PROVE  RingInv' /\ lastSeq' = lastSeq + 1
<1> DEFINE new == [kept EXCEPT !.seq = lastSeq + 1]
<1>1. /\ lastSeq' = lastSeq + 1 /\ next' = (next + 1) % Capacity /\ filled' = (filled \/ next' = 0)
      /\ ring' = [ring EXCEPT ![next] = new]
  BY DEF Stored
<1>2. new \in Record /\ new.seq = lastSeq + 1
  BY DEF RingInv, Record
<1> HIDE DEF new
<1>3. next' = IF next + 1 < Capacity THEN next + 1 ELSE 0
  <2>1. next \in 0..Capacity - 1 /\ Capacity \in Nat
    BY SinkAssumption DEF RingInv, Slots
  <2>2. next + 1 \in 0..2 * Capacity - 1
    BY <2>1
  <2>3. next + 1 < Capacity \/ next + 1 = Capacity
    BY <2>1
  <2> QED
    BY <1>1, <2>2, <2>3, <2>1, Wrap
<1>4. ring' \in [Slots -> Record] /\ \A i \in Slots : ring'[i].seq = IF i = next THEN lastSeq + 1 ELSE ring[i].seq
  BY <1>1, <1>2 DEF RingInv
<1>5. lastSeq \in Nat /\ next \in Slots /\ next' \in Slots /\ Capacity \in Nat \ {0} /\ filled' \in BOOLEAN
  BY <1>1, <1>3, SinkAssumption DEF RingInv, Slots
<1>6. CASE ~filled'
  <2>1. ~filled /\ next' = next + 1 /\ next = lastSeq
    BY <1>1, <1>3, <1>5, <1>6 DEF RingInv, Slots
  <2>2. ASSUME NEW i \in 0..next' - 1 PROVE ring'[i].seq = i + 1
    BY <1>4, <1>5, <2>1 DEF RingInv, Slots
  <2> QED
    BY <1>1, <1>4, <1>5, <1>6, <2>1, <2>2 DEF RingInv
<1>7. CASE filled' /\ filled
  <2>1. ASSUME NEW i \in Slots
        PROVE  ring'[i].seq = lastSeq' - next' + 1 + i - (IF i < next' THEN 0 ELSE Capacity)
    <3>1. /\ ring'[i].seq = IF i = next THEN lastSeq + 1 ELSE ring[i].seq
          /\ ring[i].seq = lastSeq - next + 1 + i - (IF i < next THEN 0 ELSE Capacity)
          /\ i \in 0..Capacity - 1 /\ next \in 0..Capacity - 1 /\ lastSeq \in Nat /\ Capacity \in Nat \ {0}
          /\ lastSeq' = lastSeq + 1
      BY <1>1, <1>4, <1>5, <1>7 DEF RingInv, Slots
    <3>2. CASE next + 1 < Capacity
      <4>1. next' = next + 1
        BY <1>3, <3>2
      <4> QED
        BY <3>1, <4>1
    <3>3. CASE ~(next + 1 < Capacity)
      <4>1. next' = 0
        BY <1>3, <3>3
      <4>2. next = Capacity - 1
        BY <3>1, <3>3
      <4> QED
        BY <3>1, <4>1, <4>2
    <3> QED
      BY <3>2, <3>3
  <2> QED
    BY <1>1, <1>4, <1>5, <1>7, <2>1 DEF RingInv
<1>8. CASE filled' /\ ~filled
  <2>1. next' = 0 /\ next + 1 = Capacity /\ next = lastSeq
    BY <1>1, <1>3, <1>5, <1>8 DEF RingInv, Slots
  <2>2. ASSUME NEW i \in Slots
        PROVE  ring'[i].seq = lastSeq' - next' + 1 + i - (IF i < next' THEN 0 ELSE Capacity)
    BY <1>1, <1>4, <1>5, <1>8, <2>1, <2>2 DEF RingInv, Slots
  <2> QED
    BY <1>1, <1>4, <1>5, <1>8, <2>1, <2>2 DEF RingInv
<1> QED
  BY <1>1, <1>6, <1>7, <1>8

\* Records in the order of their numbers.
Rising(records) == \A i, j \in 1..Len(records) : i < j => records[i].seq < records[j].seq

\* What a query copies and what it counts as dropped are together all the lines after the
\* place it was asked about.
LEMMA HeldAfter ==
  ASSUME RingInv, NEW since \in 0..lastSeq
  PROVE  /\ heldAfterLocked(since) \in Seq(Record)
         /\ oldestSeqLocked \in Nat
         /\ Len(heldAfterLocked(since)) + (IF oldestSeqLocked > since + 1 THEN oldestSeqLocked - since - 1 ELSE 0)
              = lastSeq - since
         /\ Rising(heldAfterLocked(since))
<1> DEFINE n == IF filled THEN Capacity ELSE next
<1> DEFINE first == IF filled THEN next ELSE 0
<1> DEFINE inOrder == [i \in 1..n |-> ring[(first + i - 1) % Capacity]]
<1> DEFINE k == IF since < lastSeq - n THEN 0 ELSE since - (lastSeq - n)
<1>1. /\ n \in Nat /\ n <= Capacity /\ n <= lastSeq /\ first \in Slots /\ Capacity \in Nat \ {0} /\ lastSeq \in Nat
      /\ filled \/ (n = next /\ next = lastSeq)
  BY SinkAssumption DEF RingInv, Slots
<1>2. ASSUME NEW i \in 1..n PROVE inOrder[i] \in Record /\ inOrder[i].seq = lastSeq - n + i
  <2>1. first + i - 1 \in 0..2 * Capacity - 1
    BY <1>1 DEF Slots
  <2> HIDE DEF first
  <2>2. (first + i - 1) % Capacity = IF first + i - 1 < Capacity THEN first + i - 1 ELSE first + i - 1 - Capacity
    BY <1>1, <2>1, Wrap DEF Slots
  <2> DEFINE slot == (first + i - 1) % Capacity
  <2>3. inOrder[i] = ring[slot]
    OBVIOUS
  <2>4. slot \in Slots
    BY <1>1, <2>1, <2>2 DEF Slots
  <2>5. CASE filled
    <3>1. ring[slot].seq = lastSeq - next + 1 + slot - (IF slot < next THEN 0 ELSE Capacity)
      BY <2>4, <2>5 DEF RingInv
    <3>2. next \in 0..Capacity - 1 /\ slot = IF next + i - 1 < Capacity THEN next + i - 1 ELSE next + i - 1 - Capacity
      BY <2>2, <2>5 DEF RingInv, Slots, first
    <3>3. n = Capacity
      BY <2>5
    <3> HIDE DEF slot, n, inOrder
    <3>4. ring[slot].seq = lastSeq - Capacity + i
      BY <1>1, <3>1, <3>2, <3>3
    <3> QED
      BY <2>3, <2>4, <3>3, <3>4 DEF RingInv
  <2>6. CASE ~filled
    <3>1. slot = i - 1 /\ n = next /\ next = lastSeq
      BY <1>1, <2>2, <2>6 DEF RingInv, Slots, first
    <3>2. ring[slot].seq = i
      BY <1>1, <2>6, <3>1 DEF RingInv, Slots
    <3> QED
      BY <1>1, <2>3, <2>4, <3>1, <3>2 DEF RingInv
  <2> QED
    BY <2>5, <2>6
<1>3. inOrder \in Seq(Record) /\ Len(inOrder) = n /\ DOMAIN inOrder = 1..n
  <2>1. inOrder \in [1..n -> Record]
    BY <1>2
  <2> HIDE DEF inOrder, n
  <2> QED
    BY <1>1, <2>1
<1>4. oldestSeqLocked = IF n = 0 THEN 0 ELSE lastSeq - n + 1
  <2>1. CASE filled
    <3>1. next \in Slots /\ ring[next].seq = lastSeq - Capacity + 1
      BY <1>1, <2>1 DEF RingInv, Slots
    <3> QED
      BY <1>1, <2>1, <3>1 DEF oldestSeqLocked
  <2>2. CASE ~filled
    BY <1>1, <2>2 DEF oldestSeqLocked, RingInv
  <2> QED
    BY <2>1, <2>2
<1>5. heldAfterLocked(since) = SubSeq(inOrder, Cardinality({i \in DOMAIN inOrder : inOrder[i].seq <= since}) + 1, Len(inOrder))
  BY DEF heldAfterLocked
<1> HIDE DEF n, first, inOrder
<1>6. {i \in DOMAIN inOrder : inOrder[i].seq <= since} = 1..k
  <2>1. \A i \in 1..n : inOrder[i].seq <= since <=> i <= k
    BY <1>1, <1>2
  <2> QED
    BY <1>1, <1>3, <2>1
<1>7. k \in 0..n
  BY <1>1
<1> HIDE DEF k
<1>8. Cardinality(1..k) = k
  <2>1. k \in Nat
    BY <1>1, <1>7
  <2> QED
    BY <2>1, FirstNumbers
<1>9. heldAfterLocked(since) = SubSeq(inOrder, k + 1, n)
  BY <1>3, <1>5, <1>6, <1>8
<1>10. heldAfterLocked(since) \in Seq(Record) /\ Len(heldAfterLocked(since)) = n - k
  BY <1>1, <1>3, <1>7, <1>9, SubSeqProperties
<1>11. Rising(heldAfterLocked(since))
  <2>1. \A i \in 1..n - k : heldAfterLocked(since)[i] = inOrder[k + i]
    BY <1>1, <1>3, <1>7, <1>9, SubSeqProperties
  <2>2. \A i \in 1..n - k : k + i \in 1..n
    BY <1>1, <1>7
  <2>3. \A i \in 1..n - k : heldAfterLocked(since)[i].seq = lastSeq - n + (k + i)
    BY <1>2, <2>1, <2>2
  <2> QED
    BY <1>1, <1>7, <1>10, <2>3 DEF Rising
<1>12. CASE since < lastSeq - n
  <2>1. k = 0 /\ oldestSeqLocked = (IF n = 0 THEN 0 ELSE lastSeq - n + 1) /\ Len(heldAfterLocked(since)) = n
    BY <1>1, <1>4, <1>10, <1>12 DEF k
  <2>2. n # 0
    BY <1>1, <1>12 DEF n
  <2>3. CASE oldestSeqLocked > since + 1
    BY <1>1, <1>10, <1>11, <1>12, <2>1, <2>2, <2>3
  <2>4. CASE ~(oldestSeqLocked > since + 1)
    <3>1. lastSeq - n = since
      BY <1>1, <1>12, <2>1, <2>2, <2>4
    <3> QED
      BY <1>1, <1>10, <1>11, <2>1, <2>2, <2>4, <3>1
  <2> QED
    BY <2>3, <2>4
<1>13. CASE ~(since < lastSeq - n)
  <2>1. k = since - (lastSeq - n) /\ ~(oldestSeqLocked > since + 1)
    BY <1>1, <1>4, <1>13 DEF k
  <2> QED
    BY <1>1, <1>4, <1>10, <1>11, <1>13, <2>1
<1> QED
  BY <1>12, <1>13

LEMMA LinesStep == ASSUME LinesInv, [SinkNext]_sinkVars PROVE LinesInv'
<1>1. CASE UNCHANGED sinkVars
  BY <1>1 DEF LinesInv, sinkVars
<1>2. ASSUME NEW kind \in mode.kinds, WriteLine(kind) PROVE LinesInv'
  <2> DEFINE new == [seq |-> 0, time |-> 2 * lines', kind |-> kind]
  <2>1. mode' = mode /\ lines' = lines + 1 /\ hands' = hands /\ pipes' = [pipes EXCEPT ![PipeOf(kind)] = Append(pipes[PipeOf(kind)], new)]
    BY <1>2 DEF WriteLine
  <2>2. kind \in LineKinds
    BY SinkAssumption DEF LinesInv
  <2>3. new \in Record
    BY <2>1, <2>2 DEF LinesInv, Record
  <2> HIDE DEF new
  <2>4. PipeOf(kind) \in Pipes
    BY DEF PipeOf, Pipes
  <2>5. Append(pipes[PipeOf(kind)], new) \in Seq(Record)
    BY <2>3, <2>4 DEF LinesInv
  <2> QED
    BY <2>1, <2>4, <2>5 DEF LinesInv
<1>3. ASSUME NEW pipe \in Pipes, Take(pipe) PROVE LinesInv'
  <2>1. mode' = mode /\ lines' = lines /\ pipes[pipe] \in Seq(Record) /\ pipes[pipe] # <<>>
        /\ pipes' = [pipes EXCEPT ![pipe] = Tail(pipes[pipe])]
    BY <1>3 DEF Take, drains, LinesInv
  <2>2. Head(pipes[pipe]) \in Record /\ Tail(pipes[pipe]) \in Seq(Record)
    BY <2>1
  <2>3. stamped(Head(pipes[pipe])) \in Record
    <3>1. 2 * lines + 1 \in Nat
      BY DEF LinesInv
    <3>2. PICK line \in Record : line = Head(pipes[pipe])
      BY <2>2
    <3>3. \A t \in Nat : [line EXCEPT !.time = t] \in Record
      BY DEF Record
    <3> QED
      BY <3>1, <3>2, <3>3 DEF stamped
  <2>4. hands' = hands \/ hands' = [hands EXCEPT ![pipe] = stamped(Head(pipes[pipe]))]
    BY <1>3 DEF Take, readLine
  <2> QED
    BY <2>1, <2>2, <2>3, <2>4 DEF LinesInv
<1>4. ASSUME NEW pipe \in Pipes, AppendRecord(pipe) PROVE LinesInv'
  BY <1>4, NoRecordIsOne DEF AppendRecord, LinesInv
<1>5. CASE NewProcess
  BY <1>5, NoRecordIsOne DEF NewProcess, LinesInv
<1>6. CASE (\E rank \in {1, 4} : SetLevel(rank)) \/ CloseWriters \/ restore \/ WaitedLongEnough \/ Query \/ Match
  BY <1>6 DEF SetLevel, CloseWriters, restore, WaitedLongEnough, Query, Match, Logs, LinesInv
<1> QED
  BY <1>1, <1>2, <1>3, <1>4, <1>5, <1>6 DEF SinkNext, Drains

LEMMA NewestIsSome == ASSUME LinesInv, NEW records \in Seq(Record) PROVE Len(newest(records)) \in Nat
<1>1. mode.page \in Nat
  BY SinkAssumption DEF LinesInv
<1>2. newest(records) \in Seq(Record)
  BY <1>1, SubSeqProperties DEF newest
<1> QED
  BY <1>2

\* An answer counts what it shows, what did not fit its page, and what was dropped.
LEMMA AnswerCounts ==
  ASSUME LinesInv, heard \in Int, query.held \in Seq(Record), query.dropped \in Nat, Match
  PROVE  /\ heard' \in Int /\ Len(query.held) \in Nat
         /\ query.following => heard' = heard + (Len(query.held) + query.dropped)
         /\ ~query.following => heard' = heard
<1>1. PICK n \in Nat : n = Len(newest(query.held))
  BY NewestIsSome
<1>2. PICK all \in Nat : all = Len(query.held)
  OBVIOUS
<1>3. PICK d \in Nat : d = query.dropped
  OBVIOUS
<1>4. heard' = heard + (IF query.following THEN n + d + (all - n) ELSE 0)
  BY <1>1, <1>2, <1>3, Zenon DEF Match, Logs
<1>5. CASE query.following
  <2>1. heard' = heard + (n + d + (all - n))
    BY <1>4, <1>5
  <2>2. heard' = heard + (all + d)
    BY <2>1
  <2> QED
    BY <1>2, <1>3, <1>5, <2>2
<1>6. CASE ~query.following
  <2>1. heard' = heard + 0
    BY <1>4, <1>6
  <2> QED
    BY <1>2, <1>6, <2>1
<1> QED
  BY <1>5, <1>6

\* A record of the ring, and the place a screen follows on from, once a step has been made.
LEMMA RingStep == ASSUME SinkInv, [SinkNext]_sinkVars PROVE RingInv' /\ (epoch' = epoch => lastSeq' >= lastSeq)
<1>0. lastSeq \in Nat
  BY DEF SinkInv, RingInv
<1>1. CASE UNCHANGED <<ringVars, epoch>>
  BY <1>0, <1>1 DEF SinkInv, RingInv, ringVars
<1>2. ASSUME NEW pipe \in Pipes, AppendRecord(pipe), ~quiet(hands[pipe]) PROVE RingInv' /\ lastSeq' >= lastSeq
  <2>1. hands[pipe] \in Record /\ Stored(hands[pipe])
    BY <1>2 DEF AppendRecord, SinkInv, LinesInv
  <2> QED
    BY <1>0, <2>1, StoredStep DEF SinkInv
<1>3. CASE NewProcess
  <2>1. lastSeq' = 0 /\ next' = 0 /\ filled' = FALSE /\ ring' = [i \in Slots |-> NoRecord] /\ epoch' = epoch + 1 /\ epoch \in Nat
    BY <1>3 DEF NewProcess, Slots, SinkInv, PlaceInv
  <2>2. ring' \in [Slots -> Record] /\ next' \in Slots
    BY <2>1, NoRecordIsOne, SinkAssumption DEF Slots
  <2>3. \A i \in 0..next' - 1 : FALSE
    BY <2>1
  <2>4. RingInv'
    BY <2>1, <2>2, <2>3 DEF RingInv
  <2>5. epoch' # epoch
    BY <2>1
  <2> QED
    BY <2>4, <2>5
<1>4. ASSUME NEW pipe \in Pipes, AppendRecord(pipe), quiet(hands[pipe]) PROVE UNCHANGED <<ringVars, epoch>>
  BY <1>4 DEF AppendRecord
<1>5. ASSUME ~NewProcess, \A pipe \in Pipes : ~AppendRecord(pipe) PROVE UNCHANGED <<ringVars, epoch>>
  BY <1>5 DEF SinkNext, sinkVars, ringVars, Drains, WriteLine, Take, SetLevel, CloseWriters, restore,
     WaitedLongEnough, Query, Match, Logs
<1> QED
  BY <1>1, <1>2, <1>3, <1>4, <1>5

LEMMA PlaceStep == ASSUME SinkInv, [SinkNext]_sinkVars PROVE PlaceInv'
<1>0. /\ RingInv' /\ (epoch' = epoch => lastSeq' >= lastSeq) /\ lastSeq \in Nat /\ lastSeq' \in Nat
      /\ epoch \in Nat /\ heard \in Int /\ follower \in [process : 0..epoch, line : Nat]
      /\ follower.process \in 0..epoch /\ follower.line \in Nat
  BY RingStep DEF SinkInv, RingInv, PlaceInv
<1>1. CASE UNCHANGED <<screenVars, epoch>>
  BY <1>0, <1>1 DEF SinkInv, PlaceInv, screenVars
<1>2. CASE NewProcess
  <2>1. epoch' = epoch + 1 /\ query' = NoQuery /\ UNCHANGED <<follower, heard>>
    BY <1>2 DEF NewProcess
  <2>2. query'.at # "match"
    BY <2>1, NoQueryIsNone
  <2>3. epoch' \in Nat /\ follower \in [process : 0..epoch', line : Nat] /\ follower.process # epoch'
    BY <1>0, <2>1
  <2> QED
    BY <1>0, <2>1, <2>2, <2>3 DEF PlaceInv
<1>3. CASE Query
  <2> DEFINE since == IF Restarted THEN 0 ELSE follower.line
  <2> DEFINE following == follower.line > 0
  <2> DEFINE dropped == IF following /\ oldestSeqLocked > since + 1 THEN oldestSeqLocked - since - 1 ELSE 0
  <2>1. /\ query' = [at |-> "match", since |-> since, following |-> following, last |-> lastSeq,
                     dropped |-> dropped, held |-> heldAfterLocked(since)]
        /\ UNCHANGED <<ringVars, epoch, follower, heard>>
    BY <1>3 DEF Query
  <2>2. since = (IF follower.process = epoch THEN follower.line ELSE 0) /\ since \in 0..lastSeq
    BY <1>0 DEF Restarted, SinkInv, PlaceInv
  <2>3. /\ heldAfterLocked(since) \in Seq(Record) /\ oldestSeqLocked \in Nat
        /\ Len(heldAfterLocked(since)) + (IF oldestSeqLocked > since + 1 THEN oldestSeqLocked - since - 1 ELSE 0)
             = lastSeq - since
    BY <2>2, HeldAfter DEF SinkInv
  <2>4. /\ query'.following = following /\ query'.since = since /\ query'.last = lastSeq /\ query'.dropped = dropped
        /\ query'.held = heldAfterLocked(since)
    BY <2>1
  <2> HIDE DEF since
  <2>5. dropped \in Nat /\ (following => Len(heldAfterLocked(since)) + dropped = lastSeq - since)
    BY <2>2, <2>3
  <2> HIDE DEF dropped
  <2> DEFINE held == heldAfterLocked(since)
  <2> HIDE DEF held
  <2>6. held \in Seq(Record) /\ (following => Len(held) + dropped = lastSeq - since) /\ query'.held = held
    BY <2>3, <2>4, <2>5 DEF held
  <2>7. follower' = follower /\ epoch' = epoch /\ lastSeq' = lastSeq /\ heard' = heard
    BY <2>1 DEF ringVars
  <2>8. follower' \in [process : 0..epoch', line : Nat] /\ (follower'.process = epoch' => follower'.line <= lastSeq')
    BY <1>0, <2>7 DEF SinkInv, PlaceInv
  <2>9. /\ query'.following <=> follower'.line > 0
        /\ query'.since = (IF follower'.process = epoch' THEN follower'.line ELSE 0)
    BY <2>2, <2>4, <2>7
  <2>10. query'.last \in query'.since..lastSeq'
    BY <1>0, <2>2, <2>4, <2>7
  <2>11. query'.held \in Seq(Record) /\ query'.dropped \in Nat
    BY <2>4, <2>5, <2>6
  <2>12. query'.following => Len(query'.held) + query'.dropped = query'.last - query'.since
    BY <2>4, <2>6
  <2>13. epoch' \in Nat /\ heard' \in Int
    BY <1>0, <2>7
  <2> HIDE DEF following
  <2> QED
    BY <2>8, <2>9, <2>10, <2>11, <2>12, <2>13 DEF PlaceInv
<1>4. CASE Match
  <2>1. /\ query.at = "match" /\ follower' = [process |-> epoch, line |-> query.last] /\ query' = NoQuery
        /\ UNCHANGED <<ringVars, epoch>>
    BY <1>4 DEF Match, Logs
  <2>2. query'.at # "match"
    BY <2>1, NoQueryIsNone
  <2>3. query.last \in Nat /\ query.last <= lastSeq /\ lastSeq' = lastSeq
    BY <1>0, <2>1 DEF SinkInv, PlaceInv, ringVars
  <2>4. query.held \in Seq(Record) /\ query.dropped \in Nat
    BY <2>1 DEF SinkInv, PlaceInv
  <2>6. heard' \in Int
    BY <1>0, <1>4, <2>4, AnswerCounts DEF SinkInv
  <2> QED
    BY <1>0, <2>1, <2>2, <2>3, <2>6 DEF PlaceInv
<1>5. ASSUME ~NewProcess, ~Query, ~Match PROVE UNCHANGED <<screenVars, epoch>>
  BY <1>5
     DEF SinkNext, sinkVars, screenVars, Drains, WriteLine, Take, AppendRecord, SetLevel, CloseWriters, restore,
     WaitedLongEnough
<1> QED
  BY <1>1, <1>2, <1>3, <1>4, <1>5

LEMMA SinkInvariant == SinkInit /\ [][SinkNext]_sinkVars => []SinkInv
<1>1. SinkInv /\ [SinkNext]_sinkVars => SinkInv'
  BY LinesStep, RingStep, PlaceStep DEF SinkInv
<1> QED
  BY <1>1, SinkInitInv, PTL

\* Each step of the log is one of what it promises, or none.
LEMMA SinkFollows == ASSUME SinkInv, [SinkNext]_sinkVars PROVE [TailOf!TailNext]_(TailOf!tailVars)
<1>0. /\ lastSeq \in Nat /\ epoch \in Nat /\ heard \in Int
      /\ follower.process \in 0..epoch /\ follower.line \in Nat
  BY DEF SinkInv, RingInv, PlaceInv
<1>1. ASSUME NEW pipe \in Pipes, AppendRecord(pipe), ~quiet(hands[pipe]) PROVE TailOf!Keep
  BY <1>1 DEF AppendRecord, Stored, screenVars, TailOf!Keep
<1>2. CASE NewProcess
  BY <1>2 DEF NewProcess, TailOf!Replace, TailOf!TailNext
<1>3. CASE Match
  <2>1. /\ query.at = "match" /\ follower' = [process |-> epoch, line |-> query.last]
        /\ UNCHANGED <<ringVars, epoch>>
    BY <1>3 DEF Match, Logs
  <2> DEFINE from == IF follower.process = epoch THEN follower.line ELSE 0
  <2>2. /\ query.following <=> follower.line > 0
        /\ query.last \in from..lastSeq /\ query.held \in Seq(Record) /\ query.dropped \in Nat
        /\ query.following => Len(query.held) + query.dropped = query.last - from
    BY <2>1 DEF SinkInv, PlaceInv
  <2>3. /\ query.following => heard' = heard + (Len(query.held) + query.dropped)
        /\ ~query.following => heard' = heard
    BY <1>0, <1>3, <2>2, AnswerCounts DEF SinkInv
  <2>4. query.last \in 0..lastSeq /\ query.last >= from
    BY <1>0, <2>2
  <2>5. CASE follower.line > 0
    <3>1. heard' = heard + (query.last - from)
      BY <1>0, <2>1, <2>2, <2>3, <2>5
    <3> QED
      BY <2>1, <2>4, <2>5, <3>1 DEF TailOf!TailNext, TailOf!Follow, ringVars
  <2>6. CASE ~(follower.line > 0)
    <3>1. heard' = heard
      BY <2>2, <2>3, <2>6
    <3>2. follower.line = 0
      BY <1>0, <2>6
    <3> QED
      BY <2>1, <2>4, <3>1, <3>2 DEF TailOf!TailNext, TailOf!Begin, ringVars
  <2> QED
    BY <2>5, <2>6
<1>4. ASSUME NEW pipe \in Pipes, AppendRecord(pipe), quiet(hands[pipe]) PROVE UNCHANGED TailOf!tailVars
  BY <1>4 DEF AppendRecord, ringVars, screenVars, TailOf!tailVars
<1>5. ASSUME ~NewProcess, ~Match, \A pipe \in Pipes : ~AppendRecord(pipe) PROVE UNCHANGED TailOf!tailVars
  BY <1>5
     DEF SinkNext, sinkVars, ringVars, screenVars, Drains, WriteLine, Take, SetLevel, CloseWriters, restore,
     WaitedLongEnough, Query, TailOf!tailVars
<1> QED
  BY <1>1, <1>2, <1>3, <1>4, <1>5 DEF TailOf!TailNext

\* However fast lines come and however small the ring: each line kept between two answers is
\* shown to the screen that follows, or counted as missing, once; and after a restart the
\* new process is followed from its first line.
THEOREM LogIsFollowed == SinkSpec => FollowsTheTail
<1>1. SinkInit => TailOf!TailInit
  BY DEF SinkInit, EmptySink, TailOf!TailInit
<1>2. SinkSpec => SinkInit /\ [][SinkNext]_sinkVars
  BY PTL DEF SinkSpec
<1> QED
  BY <1>1, <1>2, SinkInvariant, SinkFollows, PTL DEF FollowsTheTail, TailOf!TailSpec

\* Every record has a place of its own, so each place has a record.
LEMMA PlacesFilled ==
  ASSUME NEW records \in Seq(Record)
  PROVE  LET D == DOMAIN records
         IN  /\ \A i \in D : placeWritten(records, i) \in D
             /\ \A n \in D : \E i \in D : placeWritten(records, i) = n
             /\ \A i, j \in D : placeWritten(records, i) < placeWritten(records, j) =>
                  \/ records[i].time < records[j].time
                  \/ records[i].time = records[j].time /\ i < j
<1> DEFINE D == DOMAIN records
           f == [i \in D |-> placeWritten(records, i)]
           Before(i) == {j \in D : \/ records[j].time < records[i].time
                                   \/ (records[j].time = records[i].time /\ j <= i)}
<1>1. D = 1..Len(records) /\ Len(records) \in Nat /\ (\A i \in D : i \in Nat /\ records[i].time \in Nat)
  <2>1. DOMAIN records = 1..Len(records) /\ Len(records) \in Nat /\ \A i \in DOMAIN records : records[i] \in Record
    OBVIOUS
  <2>2. \A r \in Record : r.time \in Nat
    BY DEF Record
  <2> QED
    BY <2>1, <2>2
<1>2. IsFiniteSet(D) /\ Cardinality(D) = Len(records)
  <2>1. /\ IsFiniteSet(1..Len(records)) /\ Cardinality(1..Len(records)) = Len(records)
    BY <1>1, FirstNumbers
  <2> QED
    BY <1>1, <2>1
<1>3. \A i \in D : placeWritten(records, i) = Cardinality(Before(i)) /\ i \in Before(i) /\ Before(i) \subseteq D
  BY <1>1 DEF placeWritten
<1>4. ASSUME NEW i \in D PROVE IsFiniteSet(Before(i)) /\ placeWritten(records, i) \in D
  <2>1. IsFiniteSet(Before(i)) /\ Cardinality(Before(i)) <= Len(records) /\ Before(i) # {}
    BY <1>2, <1>3, FS_Subset
  <2> HIDE DEF Before
  <2>2. Cardinality(Before(i)) \in Nat /\ Cardinality(Before(i)) # 0
    BY <2>1, FS_CardinalityType, FS_EmptySet
  <2> QED
    BY <1>1, <1>3, <2>1, <2>2
<1>5. ASSUME NEW i \in D, NEW j \in D, ~(records[i].time < records[j].time \/ (records[i].time = records[j].time /\ i < j))
      PROVE  placeWritten(records, j) <= placeWritten(records, i) /\ (placeWritten(records, j) = placeWritten(records, i) => i = j)
  <2>1. Before(j) \subseteq Before(i)
    BY <1>1, <1>5
  <2>2. i \in Before(j) => i = j
    BY <1>1, <1>5
  <2> HIDE DEF Before
  <2>3. Cardinality(Before(j)) <= Cardinality(Before(i)) /\ (Cardinality(Before(i)) = Cardinality(Before(j)) => Before(i) = Before(j))
    BY <1>4, <2>1, FS_Subset
  <2> QED
    BY <1>3, <2>2, <2>3
<1>6. \A i, j \in D : f[i] = f[j] => i = j
  <2>1. ASSUME NEW i \in D, NEW j \in D, placeWritten(records, i) = placeWritten(records, j) PROVE i = j
    <3>1. CASE ~(records[i].time < records[j].time \/ (records[i].time = records[j].time /\ i < j))
      BY <1>5, <2>1, <3>1
    <3>2. CASE ~(records[j].time < records[i].time \/ (records[j].time = records[i].time /\ j < i))
      BY <1>5, <2>1, <3>2
    <3> QED
      BY <1>1, <3>1, <3>2
  <2> QED
    BY <2>1
<1>7. f \in Injection(D, D)
  BY <1>4, <1>6 DEF Injection, IsInjective
<1>8. f \in Surjection(D, D)
  <2> HIDE DEF f, D
  <2> QED
    BY <1>2, <1>7, FS_Injection
<1>9. \A n \in D : \E i \in D : placeWritten(records, i) = n
  BY <1>8 DEF Surjection
<1>10. ASSUME NEW i \in D, NEW j \in D, placeWritten(records, i) < placeWritten(records, j)
       PROVE  records[i].time < records[j].time \/ (records[i].time = records[j].time /\ i < j)
  <2>1. placeWritten(records, i) \in Nat /\ placeWritten(records, j) \in Nat
    BY <1>1, <1>4
  <2> QED
    BY <1>5, <1>10, <2>1
<1> QED
  BY <1>4, <1>9, <1>10

\* A page is in the order of its lines' times, and of their numbers where those are one.
LEMMA PageInOrder ==
  ASSUME NEW records \in Seq(Record), Rising(records),
         NEW i \in DOMAIN inTheOrderWritten(records), NEW j \in DOMAIN inTheOrderWritten(records), i < j
  PROVE  LET page == inTheOrderWritten(records)
         IN  \/ page[i].time < page[j].time
             \/ page[i].time = page[j].time /\ page[i].seq < page[j].seq
<1> DEFINE D == DOMAIN records
           at(n) == CHOOSE m \in D : placeWritten(records, m) = n
<1>1. D = 1..Len(records) /\ i \in D /\ j \in D
  BY DEF inTheOrderWritten
<1>2. at(i) \in D /\ placeWritten(records, at(i)) = i /\ at(j) \in D /\ placeWritten(records, at(j)) = j
  BY <1>1, PlacesFilled
<1>3. inTheOrderWritten(records)[i] = records[at(i)] /\ inTheOrderWritten(records)[j] = records[at(j)]
  BY <1>1 DEF inTheOrderWritten
<1> HIDE DEF at
<1>4. records[at(i)].time < records[at(j)].time \/ (records[at(i)].time = records[at(j)].time /\ at(i) < at(j))
  BY <1>2, PlacesFilled
<1>5. at(i) < at(j) => records[at(i)].seq < records[at(j)].seq
  BY <1>1, <1>2 DEF Rising
<1> QED
  BY <1>3, <1>4, <1>5

\* What a query has copied is in the order of the numbers, and so is the page that ends it.
HeldRising == query.at = "match" => query.held \in Seq(Record) /\ Rising(query.held)
LEMMA NewestRises == ASSUME LinesInv, NEW records \in Seq(Record), Rising(records)
                     PROVE  newest(records) \in Seq(Record) /\ Rising(newest(records))
<1>1. mode.page \in Nat /\ Len(records) \in Nat
  BY SinkAssumption DEF LinesInv
<1>2. CASE ~(Len(records) > mode.page)
  BY <1>2 DEF newest
<1>3. CASE Len(records) > mode.page
  <2> DEFINE m == Len(records) - mode.page + 1
             page == SubSeq(records, m, Len(records))
  <2>1. m \in 1..Len(records) + 1
    BY <1>1, <1>3
  <2>2. page \in Seq(Record) /\ Len(page) = mode.page /\ \A i \in 1..mode.page : page[i] = records[m + i - 1]
    <3>1. PICK k \in 1..Len(records) + 1 : k = m
      BY <2>1
    <3>2. PICK last \in Nat : last = Len(records)
      BY <1>1
    <3>3. /\ SubSeq(records, k, last) \in Seq(Record)
          /\ Len(SubSeq(records, k, last)) = IF k <= last THEN last - k + 1 ELSE 0
          /\ \A i \in 1..last - k + 1 : SubSeq(records, k, last)[i] = records[k + i - 1]
      <4>1. \A i \in k..last : records[i] \in Record
        BY <3>1, <3>2
      <4>2. k \in Int /\ last \in Int
        BY <3>1, <3>2
      <4> HIDE DEF m, page
      <4> QED
        BY <4>1, <4>2, SubSeqProperties
    <3>4. last - k + 1 = mode.page
      BY <1>1, <3>1, <3>2
    <3>5. page = SubSeq(records, k, last)
      BY <3>1, <3>2
    <3>6. (IF k <= last THEN last - k + 1 ELSE 0) = mode.page
      BY <1>1, <3>1, <3>2, <3>4
    <3> QED
      BY <3>1, <3>3, <3>4, <3>5, <3>6
  <2>3. newest(records) = page
    BY <1>3 DEF newest
  <2>4. \A i \in 1..mode.page : m + i - 1 \in 1..Len(records)
    BY <1>1, <1>3
  <2> HIDE DEF page
  <2>5. ASSUME NEW i \in 1..mode.page, NEW j \in 1..mode.page, i < j PROVE page[i].seq < page[j].seq
    <3>1. m + i - 1 < m + j - 1
      BY <1>1, <2>5
    <3> HIDE DEF m
    <3> QED
      BY <2>2, <2>4, <2>5, <3>1 DEF Rising
  <2> QED
    BY <2>2, <2>3, <2>5 DEF Rising
<1> QED
  BY <1>2, <1>3

OrderInv == HeldRising /\ WholeAndInOrder
LEMMA OrderStep == ASSUME SinkInv, OrderInv, [SinkNext]_sinkVars PROVE OrderInv'
<1>1. CASE Query
  <2>1. (IF Restarted THEN 0 ELSE follower.line) \in 0..lastSeq
    BY DEF SinkInv, PlaceInv, RingInv, Restarted
  <2>2. query'.held \in Seq(Record) /\ Rising(query'.held)
    BY <1>1, <2>1, HeldAfter DEF Query, SinkInv
  <2>3. WholeAndInOrder'
    BY <1>1 DEF Query, OrderInv, WholeAndInOrder, LastLinesReachTheConsole, ShownInOrder, Drained
  <2> QED
    BY <2>2, <2>3 DEF OrderInv, HeldRising
<1>2. CASE Match
  <2>1. query.held \in Seq(Record) /\ Rising(query.held)
    BY <1>2 DEF Match, Logs, OrderInv, HeldRising
  <2>2. newest(query.held) \in Seq(Record) /\ Rising(newest(query.held)) /\ answer' = inTheOrderWritten(newest(query.held))
    BY <1>2, <2>1, NewestRises DEF Match, Logs, SinkInv
  <2>3. ShownInOrder'
    BY <2>2, PageInOrder DEF ShownInOrder
  <2>4. LastLinesReachTheConsole' /\ HeldRising'
    BY <1>2, NoQueryIsNone DEF Match, Logs, OrderInv, WholeAndInOrder, LastLinesReachTheConsole, Drained, HeldRising
  <2> QED
    BY <2>3, <2>4 DEF OrderInv, WholeAndInOrder
<1>3. ASSUME UNCHANGED <<answer, query>> \/ NewProcess PROVE HeldRising' /\ ShownInOrder'
  BY <1>3, NoQueryIsNone DEF NewProcess, OrderInv, WholeAndInOrder, HeldRising, ShownInOrder
<1>4. CASE UNCHANGED sinkVars
  BY <1>3, <1>4 DEF sinkVars, screenVars, OrderInv, WholeAndInOrder, LastLinesReachTheConsole, Drained
<1>5. ASSUME NEW kind \in mode.kinds, WriteLine(kind) PROVE OrderInv'
  BY <1>3, <1>5 DEF WriteLine, screenVars, OrderInv, WholeAndInOrder, LastLinesReachTheConsole
<1>6. ASSUME NEW pipe \in Pipes, Take(pipe) \/ AppendRecord(pipe) PROVE OrderInv'
  <2>1. UNCHANGED <<answer, query, capture, gaveUp>> /\ ~Drained
    BY <1>6 DEF Take, AppendRecord, drains, Drained, screenVars
  <2> QED
    BY <1>3, <2>1 DEF OrderInv, WholeAndInOrder, LastLinesReachTheConsole
<1>7. CASE (\E rank \in {1, 4} : SetLevel(rank)) \/ CloseWriters \/ restore \/ WaitedLongEnough
  <2>1. UNCHANGED <<answer, query>>
    BY <1>7 DEF SetLevel, CloseWriters, restore, WaitedLongEnough, screenVars
  <2>2. LastLinesReachTheConsole'
    BY <1>7 DEF SetLevel, CloseWriters, restore, WaitedLongEnough, OrderInv, WholeAndInOrder, LastLinesReachTheConsole, Drained
  <2> QED
    BY <1>3, <2>1, <2>2 DEF OrderInv, WholeAndInOrder
<1>8. CASE NewProcess
  <2>1. capture' = "on"
    BY <1>8 DEF NewProcess
  <2> QED
    BY <1>3, <1>8, <2>1 DEF OrderInv, WholeAndInOrder, LastLinesReachTheConsole
<1> QED
  BY <1>1, <1>2, <1>4, <1>5, <1>6, <1>7, <1>8 DEF SinkNext, Drains

\* Every line is on the console when capturing has ended in time, and a page is in the
\* order of its lines' times (Capture, Query).
THEOREM LogIsWholeAndInOrder == SinkSpec => []WholeAndInOrder
<1>1. SinkInit => OrderInv
  BY NoQueryIsNone DEF SinkInit, OrderInv, HeldRising, WholeAndInOrder, LastLinesReachTheConsole, ShownInOrder
<1>2. SinkInv /\ OrderInv /\ [SinkNext]_sinkVars => OrderInv'
  BY OrderStep
<1>3. OrderInv => WholeAndInOrder
  BY DEF OrderInv
<1> QED
  BY SinkInvariant, <1>1, <1>2, <1>3, PTL DEF SinkSpec

-----------------------------------------------------------------------------
(* The terminal's commands.                                                *)

\* Nothing has been asked of the installation before a command ends, and one that only
\* reads is carried out as what it is.
CommandInv ==
  /\ command \in [at : {command.at}, doing : {command.doing}, posted : {command.posted},
                  done : {command.done}, code : {command.code}]
  /\ command.at # "ended" => ~command.posted
  /\ command.doing # "ended"
  /\ command.at \in {"status", "today"} => command.doing = command.at
  /\ ExitCodeIsTrue

LEMMA CommandInitInv == TerminalInit => CommandInv
<1> SUFFICES ASSUME TerminalInit PROVE CommandInv
  OBVIOUS
<1>1. command \in [at : {command.at}, doing : {command.doing}, posted : {command.posted},
                  done : {command.done}, code : {command.code}]
  BY DEF TerminalInit, NoCommand
<1>2. command.at = "none" /\ ~command.posted
  BY DEF TerminalInit, NoCommand
<1>3. command.doing = ""
  BY DEF TerminalInit, NoCommand
<1>4. command.doing # "ended"
  BY <1>3, Zenon
<1> QED
  BY <1>1, <1>2, <1>4 DEF CommandInv, ExitCodeIsTrue

\* A command is read, and moves on to its next call.
LEMMA MovesOn ==
  ASSUME CommandInv, NEW at, command' = [command EXCEPT !.at = at], at # "ended", command.at # "ended",
         at \in {"status", "today"} => command.doing = at
  PROVE  CommandInv'
BY DEF CommandInv, ExitCodeIsTrue

\* A command ends before it has asked for anything.
LEMMA EndsEarly ==
  ASSUME CommandInv, NEW code \in {0, 1, 2}, Ends(code), command.at # "ended",
         code = 0 => ReadsOnly(command.doing)
  PROVE  CommandInv'
BY DEF CommandInv, Ends, ExitCodeIsTrue, ReadsOnly

LEMMA CommandStep ==
  ASSUME CommandInv, [TerminalNext]_terminalVars
  PROVE  CommandInv'
<1>1. CASE UNCHANGED command
  BY <1>1 DEF CommandInv, ExitCodeIsTrue, ReadsOnly
<1>2. ASSUME NEW doing \in Commands, Run(doing) PROVE CommandInv'
  <2> DEFINE begun == [NoCommand EXCEPT !.at = IF doing = "help" THEN "ended" ELSE "language", !.doing = doing]
  <2> DEFINE refused == [NoCommand EXCEPT !.at = "ended", !.doing = doing, !.code = 2]
  <2>1. /\ begun \in [at : {begun.at}, doing : {begun.doing}, posted : {begun.posted}, done : {begun.done}, code : {begun.code}]
        /\ begun.at = (IF doing = "help" THEN "ended" ELSE "language") /\ begun.doing = doing /\ begun.posted = FALSE
        /\ begun.code = 0
    BY DEF NoCommand
  <2>2. /\ refused \in [at : {refused.at}, doing : {refused.doing}, posted : {refused.posted}, done : {refused.done}, code : {refused.code}]
        /\ refused.at = "ended" /\ refused.posted = FALSE /\ refused.code = 2
    BY DEF NoCommand
  <2>3. command' = begun \/ command' = refused
    BY <1>2 DEF Run
  <2>4. refused.doing = doing /\ doing # "ended"
    BY TerminalAssumption DEF NoCommand
  <2> HIDE DEF begun, refused
  <2> QED
    BY <2>1, <2>2, <2>3, <2>4 DEF CommandInv, ExitCodeIsTrue, ReadsOnly
<1>3. CASE accountLanguage
  BY <1>3, MovesOn, EndsEarly DEF accountLanguage
<1>4. CASE carryOut
  <2>1. CASE command' = [command EXCEPT !.at = command.doing]
    <3>1. command.doing # "ended"
      BY DEF CommandInv
    <3> QED
      BY <1>4, <2>1, <3>1, MovesOn DEF carryOut
  <2>2. CASE Ends(2)
    BY <1>4, <2>2, EndsEarly DEF carryOut
  <2> QED
    BY <1>4, <2>1, <2>2 DEF carryOut
<1>5. CASE Prepare
  <2>1. CASE status \/ today
    BY <2>1, EndsEarly DEF status, today, CommandInv, ReadsOnly
  <2>2. CASE start \/ stop \/ switchTo \/ book
    BY <2>2, MovesOn, EndsEarly DEF start, stop, switchTo, book, aimedAt, unreadableHours
  <2> QED
    BY <1>5, <2>1, <2>2 DEF Prepare
<1>6. CASE Post
  <2>1. command' = report(FALSE) \/ command' = report(TRUE)
    BY <1>6 DEF Post
  <2>2. ASSUME NEW err \in BOOLEAN, command' = report(err) PROVE CommandInv'
    <3> DEFINE c == report(err)
    <3>1. c \in [at : {c.at}, doing : {c.doing}, posted : {c.posted}, done : {c.done}, code : {c.code}]
          /\ c.at = "ended" /\ c.doing = command.doing /\ (c.code = 1 \/ (c.code = 0 /\ c.done))
      BY DEF report, CommandInv
    <3> HIDE DEF c
    <3>2. command' = c
      BY <2>2 DEF c
    <3> QED
      BY <3>1, <3>2 DEF CommandInv, ExitCodeIsTrue
  <2> QED
    BY <2>1, <2>2
<1> QED
  BY <1>1, <1>2, <1>3, <1>4, <1>5, <1>6
     DEF TerminalNext, terminalVars, Reads, load, read, tick, refresh, abort, open,
     InTheBrowser, fillIn, carriedOut, done

\* Whatever fails on the way: a command that ends with 0 has done what it says, and one that
\* could not be read has asked for nothing.
THEOREM ExitCodesAreTrue == TerminalSpec => []ExitCodeIsTrue
<1>1. CommandInv => ExitCodeIsTrue
  BY DEF CommandInv
<1> QED
  BY <1>1, CommandInitInv, CommandStep, PTL DEF TerminalSpec

-----------------------------------------------------------------------------
(* A session against the clock.                                            *)

\* The timeouts that can be stored: none, or one that is not too short.
ValidIdle == {0} \cup {i \in Idles : i >= MinIdle}
Reading == [at : {"limits", "fill", "end", "touch", "serve"}, attended : BOOLEAN,
            session : [there : BOOLEAN, expires : {Lifetime}, seen : Nat], idle : Int, t : Nat, used : Nat]

ClockTyped ==
  /\ clockMode \in ClockModes /\ now \in 0..MaxTime /\ lastUse \in 0..now /\ cookie \in BOOLEAN /\ saving \in BOOLEAN
  /\ row \in [there : BOOLEAN, expires : {Lifetime}, seen : 0..lastUse]
  /\ setting \in [idle : ValidIdle, since : 0..now, saves : Nat]
  /\ cache \in [idle : ValidIdle, fetched : {Long} \cup 0..now]
  /\ calling \in [Callers -> {Quiet} \cup Reading]

\* A request is answered in time, it read a session nobody had used before its last use was
\* recorded, and where it is follows from what it read.
Underway(c) ==
  Waiting(c) =>
    /\ calling[c].t <= now /\ now - calling[c].t <= MaxDelay
    /\ calling[c].session.seen <= calling[c].used
    /\ calling[c].at # "limits" => calling[c].idle \in ValidIdle
    /\ calling[c].at = "end" => Ended(calling[c], calling[c].idle)
    /\ calling[c].at \in {"touch", "serve"} => ~Ended(calling[c], calling[c].idle)
    /\ calling[c].at = "touch" => calling[c].attended
    /\ calling[c].at = "serve" /\ calling[c].attended
         => calling[c].t - calling[c].session.seen <= MaxTouch

\* As long as every statement succeeds, a use is recorded no later than the coarsest interval
\* and the longest request, also when a slower request writes its older time over it.
Recorded(c) ==
  Waiting(c) => /\ calling[c].used - calling[c].session.seen <= MaxTouch + MaxDelay
                /\ row.seen >= calling[c].session.seen \/ calling[c].t - row.seen <= MaxDelay

\* And a timeout that is not the stored one was read before it was changed.
Outdated(c) ==
  Waiting(c) /\ calling[c].idle # setting.idle =>
    /\ calling[c].at = "fill" => calling[c].t <= setting.since
    /\ calling[c].at \in {"end", "touch", "serve"} => calling[c].t - setting.since <= LimitsTTL + MaxDelay

Unfailing ==
  ~clockMode.fails =>
    /\ lastUse - row.seen <= MaxTouch + MaxDelay
    /\ cache.idle # setting.idle => cache.fetched <= setting.since + MaxDelay
    /\ \A c \in Callers : Recorded(c) /\ Outdated(c)

ClockInv == ClockTyped /\ (\A c \in Callers : Underway(c)) /\ Unfailing

LEMMA QuietIsNoReading == Quiet \notin Reading
<1>1. Quiet.at = "none"
  BY DEF Quiet
<1> QED
  BY <1>1 DEF Reading

LEMMA TouchedOften == \A idle \in Nat : touchInterval(idle) <= MaxTouch
BY ClockAssumption DEF touchInterval

LEMMA IdlesAreTimes == ValidIdle \subseteq Nat
<1> SUFFICES ASSUME NEW i \in ValidIdle PROVE i \in Nat
  OBVIOUS
<1>1. i = 0 \/ i \in Idles
  BY DEF ValidIdle
<1>2. Idles \subseteq Nat
  BY ClockAssumption, Zenon
<1>3. 0 \in Nat
  OBVIOUS
<1> QED
  BY <1>1, <1>2, <1>3, Zenon

LEMMA ClockInitInv == ClockInit => ClockInv
<1> SUFFICES ASSUME ClockInit PROVE ClockInv
  OBVIOUS
<1>1. PICK idle \in Idles : ~InvalidIdle(idle) /\ setting = [idle |-> idle, since |-> 0, saves |-> 0]
  BY DEF ClockInit
<1>2. idle \in ValidIdle
  BY <1>1, ClockAssumption DEF InvalidIdle, ValidIdle
<1>3. ClockTyped
  <2>1. /\ clockMode \in ClockModes /\ now \in 0..MaxTime /\ lastUse \in 0..now /\ cookie \in BOOLEAN /\ saving \in BOOLEAN
    <3>1. MaxTime \in Nat
      BY ClockAssumption, Zenon
    <3>2. clockMode \in ClockModes /\ cookie \in BOOLEAN /\ saving \in BOOLEAN
      BY Zenon DEF ClockInit
    <3>3. now = 0 /\ lastUse = 0
      BY DEF ClockInit
    <3> QED
      BY <3>1, <3>2, <3>3
  <2>2. row \in [there : BOOLEAN, expires : {Lifetime}, seen : 0..lastUse]
    BY DEF ClockInit
  <2>3. setting \in [idle : ValidIdle, since : 0..now, saves : Nat] /\ setting.idle = idle
    BY <1>1, <1>2 DEF ClockInit
  <2>4. cache \in [idle : ValidIdle, fetched : {Long} \cup 0..now]
    BY <1>2, <2>3 DEF ClockInit
  <2>5. calling \in [Callers -> {Quiet} \cup Reading]
    BY DEF ClockInit
  <2> QED
    BY <2>1, <2>2, <2>3, <2>4, <2>5 DEF ClockTyped
<1>4. \A c \in Callers : ~Waiting(c)
  BY DEF ClockInit, Waiting
<1>5. Unfailing
  BY <1>1, <1>4, ClockAssumption DEF ClockInit, Unfailing, Recorded, Outdated
<1> QED
  BY <1>3, <1>4, <1>5 DEF ClockInv, Underway

\* A request that waits is one that has read the session.
LEMMA WaitingHasRead ==
  ASSUME ClockTyped, NEW c \in Callers, Waiting(c)
  PROVE  calling[c] \in Reading
BY DEF ClockTyped, Waiting

\* A step of one request leaves the others as they were.
LEMMA OthersStay ==
  ASSUME ClockInv, NEW c \in Callers, NEW was \in {Quiet} \cup Reading,
         calling' = [calling EXCEPT ![c] = was]
  PROVE  /\ calling' \in [Callers -> {Quiet} \cup Reading] /\ calling'[c] = was
         /\ \A d \in Callers \ {c} : calling'[d] = calling[d]
BY DEF ClockInv, ClockTyped

\* What is decided is decided from what was read.
LEMMA DecidesWhole ==
  ASSUME ClockInv, NEW c \in Callers, NEW idle \in ValidIdle, Waiting(c), Decide(c, idle)
  PROVE  /\ calling' \in [Callers -> {Quiet} \cup Reading]
         /\ \A d \in Callers \ {c} : calling'[d] = calling[d]
         /\ calling'[c] = [calling[c] EXCEPT !.at = Verdict(calling[c], idle), !.idle = idle]
         /\ calling'[c] \in Reading
<1>1. calling[c] \in Reading
  BY WaitingHasRead DEF ClockInv
<1>2. Verdict(calling[c], idle) \in {"end", "touch", "serve"}
  BY DEF Verdict
<1>3. calling' = [calling EXCEPT ![c] = [calling[c] EXCEPT !.at = Verdict(calling[c], idle), !.idle = idle]]
  BY DEF Decide, ClockInv, ClockTyped
<1>4. [calling[c] EXCEPT !.at = Verdict(calling[c], idle), !.idle = idle] \in Reading
  <2>1. idle \in Int
    BY IdlesAreTimes
  <2> QED
    BY <1>1, <1>2, <2>1 DEF Reading
<1> QED
  BY <1>3, <1>4, OthersStay

\* The request that decides is where its reading says it should be.
LEMMA DecidesRightly ==
  ASSUME ClockInv, NEW c \in Callers, NEW idle \in ValidIdle, Waiting(c), Decide(c, idle), UNCHANGED now
  PROVE  Underway(c)'
<1>1. /\ calling'[c] = [calling[c] EXCEPT !.at = Verdict(calling[c], idle), !.idle = idle]
      /\ calling[c] \in Reading /\ idle \in Nat /\ now \in Nat
  <2>1. idle \in Nat /\ now \in Nat
    BY IdlesAreTimes, ClockAssumption DEF ClockInv, ClockTyped
  <2> QED
    BY <2>1, DecidesWhole, WaitingHasRead DEF ClockInv
<1>2. /\ calling'[c].at = Verdict(calling[c], idle) /\ calling'[c].idle = idle /\ calling'[c].t = calling[c].t
      /\ calling'[c].attended = calling[c].attended /\ calling'[c].session = calling[c].session
      /\ calling'[c].used = calling[c].used
  BY <1>1 DEF Reading
<1>3. Underway(c)
  BY DEF ClockInv
<1>4. Ended(calling'[c], idle) <=> Ended(calling[c], idle)
  BY <1>2 DEF Ended
<1>5. /\ calling'[c].at = "end" => Ended(calling[c], idle)
      /\ calling'[c].at \in {"touch", "serve"} => ~Ended(calling[c], idle)
      /\ calling'[c].at = "touch" => calling[c].attended
      /\ calling'[c].at = "serve" /\ calling[c].attended
           => ~(calling[c].t - calling[c].session.seen >= touchInterval(idle))
  BY <1>2 DEF Verdict
<1>6. ~(calling[c].t - calling[c].session.seen >= touchInterval(idle)) => calling[c].t - calling[c].session.seen <= MaxTouch
  <2>1. touchInterval(idle) \in Int
    BY <1>1, ClockAssumption DEF touchInterval
  <2> QED
    BY <1>1, <2>1, TouchedOften, ClockAssumption DEF Reading
<1> QED
  BY <1>2, <1>3, <1>4, <1>5, <1>6 DEF Underway, Waiting

LEMMA ClockNumbers ==
  ASSUME ClockTyped
  PROVE  /\ now \in Nat /\ now <= MaxTime /\ lastUse \in Nat /\ lastUse <= now /\ row.seen \in Nat /\ row.seen <= lastUse
         /\ setting.idle \in Nat /\ setting.since \in Nat /\ setting.since <= now /\ cache.idle \in Nat
         /\ setting.idle \in ValidIdle /\ cache.idle \in ValidIdle
         /\ cache.fetched \in Int /\ (cache.fetched = -LimitsTTL \/ (cache.fetched >= 0 /\ cache.fetched <= now))
<1>1. setting.idle \in ValidIdle /\ cache.idle \in ValidIdle
  BY DEF ClockTyped
<1>2. MaxTime \in Nat /\ LimitsTTL \in Nat
  BY ClockAssumption, Zenon
<1>3. now \in Nat /\ now <= MaxTime /\ lastUse \in Nat /\ lastUse <= now
  BY <1>2 DEF ClockTyped
<1>4. row.seen \in 0..lastUse /\ setting.since \in 0..now /\ cache.fetched \in {Long} \cup 0..now
  BY DEF ClockTyped
<1>5. setting.idle \in Nat /\ cache.idle \in Nat
  BY <1>1, IdlesAreTimes
<1>6. row.seen \in Nat /\ row.seen <= lastUse /\ setting.since \in Nat /\ setting.since <= now
  BY <1>3, <1>4
<1>7. cache.fetched \in Int /\ (cache.fetched = -LimitsTTL \/ (cache.fetched >= 0 /\ cache.fetched <= now))
  BY <1>2, <1>3, <1>4 DEF Long
<1> QED
  BY <1>1, <1>3, <1>5, <1>6, <1>7

LEMMA ReadingNumbers ==
  ASSUME ClockInv, NEW c \in Callers, Waiting(c)
  PROVE  /\ calling[c] \in Reading /\ calling[c].t \in Nat /\ calling[c].idle \in Int /\ calling[c].used \in Nat
         /\ calling[c].session.seen \in Nat /\ calling[c].session.expires = Lifetime
         /\ calling[c].t <= now /\ now - calling[c].t <= MaxDelay
         /\ calling[c].at \in {"limits", "fill", "end", "touch", "serve"}
<1>1. calling[c] \in Reading
  BY WaitingHasRead DEF ClockInv
<1>2. Underway(c)
  BY DEF ClockInv
<1> QED
  BY <1>1, <1>2 DEF Reading, Underway

LEMMA UnderwayStays ==
  ASSUME NEW d \in Callers, Underway(d), calling'[d] = calling[d], now' = now
  PROVE  Underway(d)'
BY DEF Underway, Waiting, Ended, Expired, IdleOver

\* A use is of now or before, and no earlier than any use before it.
LEMMA UsesInTime ==
  ASSUME ClockInv, NEW c \in Callers, Waiting(c), Use(c)
  PROVE  /\ lastUse' \in lastUse..now
         /\ calling[c].attended => lastUse' >= calling[c].t
         /\ lastUse' = lastUse \/ (calling[c].attended /\ lastUse' = calling[c].t)
<1>1. /\ now \in Nat /\ lastUse \in Nat /\ lastUse <= now
      /\ calling[c].t \in Nat /\ calling[c].t <= now
  BY ClockNumbers, ReadingNumbers DEF ClockInv
<1> QED
  BY <1>1 DEF Use

\* One step of a request: it goes on, or it is answered.
LEMMA GoesOnTyped ==
  ASSUME ClockInv, NEW c \in Callers, calling' \in [Callers -> {Quiet} \cup Reading],
         UNCHANGED <<clockMode, now, row, cookie, setting, saving, lastUse>>,
         cache' \in [idle : ValidIdle, fetched : {Long} \cup 0..now]
  PROVE  ClockTyped'
BY DEF ClockInv, ClockTyped, Long

LEMMA ClockTypedStep ==
  ASSUME ClockInv, [ClockNext]_clockVars
  PROVE  ClockTyped'
<1> USE DEF ClockInv
<1>1. CASE UNCHANGED clockVars
  BY <1>1 DEF clockVars, ClockTyped, Long
<1>2. ASSUME NEW c \in Callers, NEW attended \in BOOLEAN, Get(c, attended) PROVE ClockTyped'
  <2> DEFINE hasRead == [at |-> "limits", attended |-> attended, session |-> row, idle |-> -1, t |-> now, used |-> lastUse]
  <2>1. CASE row.there
    <3>1. hasRead \in Reading
      <4>1. row \in [there : BOOLEAN, expires : {Lifetime}, seen : Nat]
        BY ClockNumbers DEF ClockTyped
      <4> QED
        BY <4>1, ClockNumbers DEF Reading
    <3>2. calling' = [calling EXCEPT ![c] = hasRead]
      BY <1>2, <2>1 DEF Get
    <3> HIDE DEF hasRead
    <3>3. calling' \in [Callers -> {Quiet} \cup Reading]
      BY <3>1, <3>2, OthersStay
    <3> QED
      BY <1>2, <2>1, <3>3 DEF Get, ClockTyped, Long
  <2>2. CASE ~row.there
    BY <1>2, <2>2 DEF Get, ClockTyped, Long
  <2> QED
    BY <2>1, <2>2
<1>3. ASSUME NEW c \in Callers, Answered(c) PROVE calling' \in [Callers -> {Quiet} \cup Reading]
  BY <1>3, OthersStay DEF Answered
<1>4. ASSUME NEW c \in Callers, GetFails(c) PROVE ClockTyped'
  BY <1>3, <1>4 DEF GetFails, ClockTyped, Long
<1>5. ASSUME NEW c \in Callers, Waiting(c), CachedLimits(c) PROVE ClockTyped'
  BY <1>5, DecidesWhole, ClockNumbers DEF CachedLimits, ClockTyped, Long
<1>6. ASSUME NEW c \in Callers, Waiting(c), ReadLimits(c) PROVE ClockTyped'
  <2> DEFINE hasRead == [calling[c] EXCEPT !.at = "fill", !.idle = setting.idle]
  <2>1. hasRead \in Reading
    <3>1. calling[c] \in Reading /\ setting.idle \in Int
      BY <1>6, ReadingNumbers, ClockNumbers
    <3> QED
      BY <3>1 DEF Reading
  <2>2. calling' = [calling EXCEPT ![c] = hasRead]
    BY <1>6 DEF ReadLimits, ClockTyped
  <2> HIDE DEF hasRead
  <2>3. calling' \in [Callers -> {Quiet} \cup Reading]
    BY <2>1, <2>2, OthersStay
  <2> QED
    BY <1>6, <2>3 DEF ReadLimits, ClockTyped, Long
<1>7. ASSUME NEW c \in Callers, Waiting(c), FillLimits(c) PROVE ClockTyped'
  <2>1. calling[c].idle \in ValidIdle
    BY <1>7 DEF FillLimits, Underway
  <2>2. calling' \in [Callers -> {Quiet} \cup Reading]
    BY <1>7, <2>1, DecidesWhole DEF FillLimits
  <2>3. cache' \in [idle : ValidIdle, fetched : {Long} \cup 0..now]
    BY <1>7, <2>1, ClockNumbers DEF FillLimits
  <2> QED
    BY <1>7, <2>2, <2>3, GoesOnTyped DEF FillLimits
<1>8. ASSUME NEW c \in Callers, Waiting(c), LimitsFail(c) PROVE ClockTyped'
  <2>1. calling' \in [Callers -> {Quiet} \cup Reading]
    BY <1>8, DecidesWhole, ClockNumbers DEF LimitsFail
  <2>2. cache' \in [idle : ValidIdle, fetched : {Long} \cup 0..now]
    BY <1>8, ClockNumbers DEF LimitsFail, ClockTyped
  <2> QED
    BY <1>8, <2>1, <2>2, GoesOnTyped DEF LimitsFail
<1>9. ASSUME NEW c \in Callers, Waiting(c), End(c) PROVE ClockTyped'
  BY <1>3, <1>9 DEF End, ClockTyped, Long
<1>10. ASSUME NEW c \in Callers, Waiting(c), TouchSession(c) \/ ServeSession(c) PROVE ClockTyped'
  <2>1. calling' \in [Callers -> {Quiet} \cup Reading] /\ UNCHANGED <<clockMode, now, cookie, setting, cache, saving>>
    BY <1>3, <1>10 DEF TouchSession, ServeSession
  <2>2. lastUse' \in lastUse..now /\ (calling[c].attended => lastUse' >= calling[c].t)
    BY <1>10, UsesInTime DEF TouchSession, ServeSession
  <2>3. row' = row \/ (row' = [row EXCEPT !.seen = calling[c].t] /\ calling[c].attended)
    BY <1>10 DEF TouchSession, ServeSession, Underway
  <2>4. row' \in [there : BOOLEAN, expires : {Lifetime}, seen : 0..lastUse']
    BY <1>10, <2>2, <2>3, ClockNumbers, ReadingNumbers DEF ClockTyped
  <2>5. lastUse' \in 0..now
    BY <2>2, ClockNumbers
  <2> QED
    BY <2>1, <2>4, <2>5 DEF ClockTyped, Long
<1>11. CASE Logout \/ Prune \/ InvalidateLimits
  BY <1>11 DEF Logout, Prune, InvalidateLimits, ClockTyped, Long
<1>12. CASE ClockTick
  <2>1. now' = now + 1 /\ now < MaxTime /\ now' \in 0..MaxTime /\ lastUse' \in 0..now' /\ setting.since \in 0..now'
        /\ 0..now \subseteq 0..now'
    BY <1>12, ClockNumbers, ClockAssumption DEF ClockTick
  <2>2. setting \in [idle : ValidIdle, since : 0..now', saves : Nat]
    BY <2>1 DEF ClockTyped
  <2>3. cache \in [idle : ValidIdle, fetched : {Long} \cup 0..now']
    BY <2>1 DEF ClockTyped
  <2> QED
    BY <1>12, <2>1, <2>2, <2>3 DEF ClockTick, ClockTyped, Long
<1>13. ASSUME NEW idle \in Idles, SaveOperational(idle) PROVE ClockTyped'
  <2>1. idle \in ValidIdle
    BY <1>13, ClockAssumption DEF SaveOperational, InvalidIdle, ValidIdle
  <2>2. setting' \in [idle : ValidIdle, since : 0..now, saves : Nat]
    BY <1>13, <2>1, ClockNumbers DEF SaveOperational, ClockTyped
  <2> QED
    BY <1>13, <2>2 DEF SaveOperational, ClockTyped, Long
<1> QED
  BY <1>1, <1>2, <1>4, <1>5, <1>6, <1>7, <1>8, <1>9, <1>10, <1>11, <1>12, <1>13 DEF ClockNext, RequestStep

\* The request that steps, and those that wait meanwhile.
LEMMA UnderwayStep ==
  ASSUME ClockInv, [ClockNext]_clockVars, NEW d \in Callers
  PROVE  Underway(d)'
<1> USE DEF ClockInv
<1>1. Underway(d)
  OBVIOUS
<1>2. CASE UNCHANGED clockVars
  BY <1>1, <1>2, UnderwayStays DEF clockVars
<1>3. ASSUME NEW c \in Callers, Answered(c), UNCHANGED now PROVE Underway(d)'
  <2>1. CASE d = c
    BY <1>3, <2>1, OthersStay DEF Answered, Underway, Waiting
  <2>2. CASE d # c
    BY <1>1, <1>3, <2>2, OthersStay, UnderwayStays DEF Answered
  <2> QED
    BY <2>1, <2>2
<1>4. ASSUME NEW c \in Callers, NEW idle \in ValidIdle, Waiting(c), Decide(c, idle), UNCHANGED now PROVE Underway(d)'
  <2>1. CASE d = c
    BY <1>4, <2>1, DecidesRightly
  <2>2. CASE d # c
    BY <1>1, <1>4, <2>2, DecidesWhole, UnderwayStays
  <2> QED
    BY <2>1, <2>2
<1>5. ASSUME NEW c \in Callers, NEW attended \in BOOLEAN, Get(c, attended) PROVE Underway(d)'
  <2>1. CASE calling'[d] = calling[d]
    BY <1>1, <1>5, <2>1, UnderwayStays DEF Get
  <2>2. CASE calling'[d] # calling[d]
    <3>1. calling'[d] = [at |-> "limits", attended |-> attended, session |-> row, idle |-> -1, t |-> now, used |-> lastUse]
      BY <1>5, <2>2 DEF Get, ClockTyped
    <3>2. /\ calling'[d].at = "limits" /\ calling'[d].session = row /\ calling'[d].t = now /\ calling'[d].used = lastUse
          /\ now' = now
      BY <1>5, <3>1 DEF Get
    <3>3. MaxDelay \in Nat
      BY ClockAssumption, Zenon
    <3> HIDE DEF ClockInv
    <3> QED
      BY <3>2, <3>3, ClockNumbers DEF Underway, ClockInv
  <2> QED
    BY <2>1, <2>2
<1>6. ASSUME NEW c \in Callers, Waiting(c), ReadLimits(c) PROVE Underway(d)'
  <2>1. CASE d = c
    <3>1. calling'[c] = [calling[c] EXCEPT !.at = "fill", !.idle = setting.idle] /\ now' = now
      BY <1>6 DEF ReadLimits, ClockTyped
    <3>2. calling[c] \in Reading /\ setting.idle \in ValidIdle
      BY <1>6, ReadingNumbers, ClockNumbers
    <3>3. /\ calling'[c].at = "fill" /\ calling'[c].idle \in ValidIdle /\ calling'[c].t = calling[c].t
          /\ calling'[c].session = calling[c].session /\ calling'[c].used = calling[c].used
      BY <3>1, <3>2 DEF Reading
    <3> QED
      BY <1>1, <1>6, <2>1, <3>1, <3>3 DEF Underway
  <2>2. CASE d # c
    <3>1. calling'[d] = calling[d] /\ now' = now
      BY <1>6, <2>2 DEF ReadLimits, ClockTyped
    <3> QED
      BY <1>1, <3>1, UnderwayStays
  <2> QED
    BY <2>1, <2>2
<1>7. ASSUME NEW c \in Callers, Waiting(c), CachedLimits(c) \/ FillLimits(c) \/ LimitsFail(c) PROVE Underway(d)'
  <2>1. calling[c].at = "fill" => calling[c].idle \in ValidIdle
    BY <1>7 DEF Underway
  <2> QED
    BY <1>4, <1>7, <2>1, ClockNumbers DEF CachedLimits, FillLimits, LimitsFail
<1>8. CASE ClockTick
  <2>1. /\ now' = now + 1 /\ calling' = calling
        /\ Waiting(d) => now + 1 - calling[d].t <= MaxDelay /\ calling[d].t \in Nat /\ calling[d].t <= now
    BY <1>8, ReadingNumbers DEF ClockTick
  <2>2. now \in Nat
    BY ClockNumbers
  <2>3. Waiting(d) => calling[d].t <= now' /\ now' - calling[d].t <= MaxDelay
    BY <2>1, <2>2
  <2> QED
    BY <1>1, <2>1, <2>3 DEF Underway, Waiting, Ended, Expired, IdleOver
<1>9. ASSUME NEW idle \in Idles, SaveOperational(idle) PROVE Underway(d)'
  BY <1>1, <1>9, UnderwayStays DEF SaveOperational
<1>10. CASE Logout \/ Prune \/ InvalidateLimits
  BY <1>1, <1>10, UnderwayStays DEF Logout, Prune, InvalidateLimits
<1>11. ASSUME NEW c \in Callers, GetFails(c) \/ End(c) \/ TouchSession(c) \/ ServeSession(c) PROVE Underway(d)'
  BY <1>3, <1>11 DEF GetFails, End, TouchSession, ServeSession
<1> QED
  BY <1>2, <1>5, <1>6, <1>7, <1>8, <1>9, <1>10, <1>11 DEF ClockNext, RequestStep

\* What a request has read of the session stays as it goes on.
LEMMA ReadingStays ==
  ASSUME ClockInv, [ClockNext]_clockVars, NEW d \in Callers, Waiting(d), Waiting(d)'
  PROVE  /\ calling'[d].t = calling[d].t /\ calling'[d].used = calling[d].used
         /\ calling'[d].session = calling[d].session
<1> USE DEF ClockInv
<1>1. calling[d] \in Reading
  BY ReadingNumbers
<1>2. ASSUME NEW c \in Callers, NEW idle \in ValidIdle, Waiting(c), Decide(c, idle)
      PROVE  /\ calling'[d].t = calling[d].t /\ calling'[d].used = calling[d].used
             /\ calling'[d].session = calling[d].session
  <2>1. CASE d = c
    <3>1. calling'[d] = [calling[d] EXCEPT !.at = Verdict(calling[d], idle), !.idle = idle]
      BY <1>2, <2>1, DecidesWhole
    <3> QED
      BY <1>1, <3>1 DEF Reading
  <2>2. CASE d # c
    BY <1>2, <2>2, DecidesWhole
  <2> QED
    BY <2>1, <2>2
<1>3. ASSUME NEW c \in Callers, Answered(c)
      PROVE  /\ calling'[d].t = calling[d].t /\ calling'[d].used = calling[d].used
             /\ calling'[d].session = calling[d].session
  BY <1>3, OthersStay DEF Answered, Waiting
<1>4. ASSUME NEW c \in Callers, NEW attended \in BOOLEAN, Get(c, attended)
      PROVE  calling'[d] = calling[d]
  BY <1>4 DEF Get, ClockTyped
<1>5. ASSUME NEW c \in Callers, ReadLimits(c)
      PROVE  /\ calling'[d].t = calling[d].t /\ calling'[d].used = calling[d].used
             /\ calling'[d].session = calling[d].session
  BY <1>1, <1>5 DEF ReadLimits, ClockTyped, Reading
<1>6. ASSUME NEW c \in Callers, Waiting(c), CachedLimits(c) \/ FillLimits(c) \/ LimitsFail(c)
      PROVE  \E idle \in ValidIdle : Decide(c, idle)
  <2>1. calling[c].at = "fill" => calling[c].idle \in ValidIdle
    BY <1>6 DEF Underway
  <2> QED
    BY <1>6, <2>1, ClockNumbers DEF CachedLimits, FillLimits, LimitsFail
<1>7. CASE UNCHANGED calling
  BY <1>7
<1> QED
  BY <1>2, <1>3, <1>4, <1>5, <1>6, <1>7
     DEF ClockNext, RequestStep, clockVars, GetFails, End, TouchSession, ServeSession,
     Logout, Prune, InvalidateLimits, ClockTick, SaveOperational

\* A request that begins reads the session as it is.
LEMMA BeginsWithTheRow ==
  ASSUME ClockInv, [ClockNext]_clockVars, NEW d \in Callers, ~Waiting(d), Waiting(d)'
  PROVE  /\ calling'[d].at = "limits" /\ calling'[d].t = now /\ calling'[d].used = lastUse /\ calling'[d].session = row
         /\ UNCHANGED <<now, row, lastUse, setting, cache>>
<1> USE DEF ClockInv
<1>1. ASSUME NEW c \in Callers, NEW attended \in BOOLEAN, Get(c, attended)
      PROVE  /\ calling'[d].at = "limits" /\ calling'[d].t = now /\ calling'[d].used = lastUse /\ calling'[d].session = row
             /\ UNCHANGED <<now, row, lastUse, setting, cache>>
  <2>1. calling'[d] # calling[d]
    BY DEF Waiting
  <2>2. calling'[d] = [at |-> "limits", attended |-> attended, session |-> row, idle |-> -1, t |-> now, used |-> lastUse]
    BY <1>1, <2>1 DEF Get, ClockTyped
  <2>3. UNCHANGED <<now, row, lastUse, setting, cache>>
    <3>1. row.there
      BY <1>1, <2>1 DEF Get
    <3> QED
      BY <1>1, <3>1 DEF Get
  <2> QED
    BY <2>2, <2>3
<1>2. ASSUME NEW c \in Callers, Waiting(c), RequestStep(c)
      PROVE  calling'[d] = calling[d] \/ (\E attended \in BOOLEAN : Get(c, attended))
  BY <1>2
     DEF RequestStep, GetFails, CachedLimits, ReadLimits, FillLimits, LimitsFail, End, TouchSession, ServeSession,
     Decide, Answered, ClockTyped, Waiting
<1>3. ASSUME NEW c \in Callers, ~Waiting(c), RequestStep(c)
      PROVE  \E attended \in BOOLEAN : Get(c, attended)
  BY <1>3 DEF RequestStep
<1>4. CASE calling' = calling
  BY <1>4 DEF Waiting
<1> QED
  BY <1>1, <1>2, <1>3, <1>4
     DEF ClockNext, clockVars, Logout, Prune, InvalidateLimits, ClockTick, SaveOperational, Waiting

\* What a step does to the record of the last use, when every statement succeeds.
LEMMA StepRecords ==
  ASSUME ClockInv, [ClockNext]_clockVars, ~clockMode.fails
  PROVE  \/ lastUse' = lastUse /\ row'.seen = row.seen
         \/ \E c \in Callers : /\ Waiting(c) /\ calling[c].at = "serve" /\ row'.seen = row.seen /\ calling[c].attended
                               /\ lastUse' = calling[c].t
         \/ \E c \in Callers : /\ Waiting(c) /\ calling[c].at = "touch" /\ row'.seen = calling[c].t
                               /\ lastUse' \in lastUse..now
<1> USE DEF ClockInv
<1>1. ASSUME NEW c \in Callers, Waiting(c), TouchSession(c)
      PROVE  row'.seen = calling[c].t /\ lastUse' \in lastUse..now /\ calling[c].at = "touch"
  BY <1>1, UsesInTime DEF TouchSession, ClockTyped
<1>2. ASSUME NEW c \in Callers, Waiting(c), ServeSession(c)
      PROVE  /\ row'.seen = row.seen /\ calling[c].at = "serve"
             /\ lastUse' = lastUse \/ (calling[c].attended /\ lastUse' = calling[c].t)
  BY <1>2, UsesInTime DEF ServeSession
<1>3. ASSUME row' = row \/ row' = [row EXCEPT !.there = FALSE]
      PROVE  row'.seen = row.seen
  BY <1>3 DEF ClockTyped
<1>4. CASE lastUse' = lastUse /\ (row' = row \/ row' = [row EXCEPT !.there = FALSE])
  BY <1>3, <1>4
<1> QED
  BY <1>1, <1>2, <1>4
     DEF ClockNext, RequestStep, clockVars, Get, GetFails, CachedLimits, ReadLimits, FillLimits, LimitsFail,
     End, Logout, Prune, InvalidateLimits, ClockTick, SaveOperational

LEMMA RecordedStep ==
  ASSUME ClockInv, ClockTyped', [ClockNext]_clockVars, ~clockMode.fails
  PROVE  lastUse' - row'.seen <= MaxTouch + MaxDelay /\ \A d \in Callers : Recorded(d)'
<1>1. MaxTouch \in Nat /\ MaxDelay \in Nat
  BY ClockAssumption, Zenon
<1>2. /\ lastUse \in Nat /\ lastUse' \in Nat /\ row.seen \in Nat /\ row'.seen \in Nat /\ now \in Nat /\ lastUse <= now
      /\ lastUse - row.seen <= MaxTouch + MaxDelay
  BY ClockNumbers DEF ClockInv, ClockTyped, Unfailing
<1>3. lastUse' - row'.seen <= MaxTouch + MaxDelay
  <2>1. ASSUME NEW c \in Callers, Waiting(c), calling[c].at = "serve", row'.seen = row.seen, calling[c].attended,
               lastUse' = calling[c].t
        PROVE  lastUse' - row'.seen <= MaxTouch + MaxDelay
    <3>1. calling[c].t - calling[c].session.seen <= MaxTouch
      BY <2>1 DEF ClockInv, Underway
    <3>2. row.seen >= calling[c].session.seen \/ calling[c].t - row.seen <= MaxDelay
      BY <2>1 DEF ClockInv, Unfailing, Recorded
    <3>3. calling[c].t \in Nat /\ calling[c].session.seen \in Nat
      BY <2>1, ReadingNumbers
    <3> QED
      BY <1>1, <1>2, <2>1, <3>1, <3>2, <3>3
  <2>2. ASSUME NEW c \in Callers, Waiting(c), row'.seen = calling[c].t, lastUse' \in lastUse..now
        PROVE  lastUse' - row'.seen <= MaxTouch + MaxDelay
    <3>1. calling[c].t \in Nat /\ now - calling[c].t <= MaxDelay
      BY <2>2, ReadingNumbers
    <3> QED
      BY <1>1, <1>2, <2>2, <3>1
  <2> QED
    BY <1>2, <2>1, <2>2, StepRecords
<1>4. ASSUME NEW d \in Callers PROVE Recorded(d)'
  <2> SUFFICES ASSUME Waiting(d)'
               PROVE  /\ calling'[d].used - calling'[d].session.seen <= MaxTouch + MaxDelay
                      /\ row'.seen >= calling'[d].session.seen \/ calling'[d].t - row'.seen <= MaxDelay
    BY DEF Recorded
  <2>1. CASE ~Waiting(d)
    BY <1>2, <2>1, BeginsWithTheRow
  <2>2. CASE Waiting(d)
    <3>1. /\ calling'[d].t = calling[d].t /\ calling'[d].used = calling[d].used
          /\ calling'[d].session = calling[d].session
      BY <2>2, ReadingStays
    <3>2. Recorded(d)
      BY DEF ClockInv, Unfailing
    <3>3. calling[d].t \in Nat /\ calling[d].t <= now /\ calling[d].session.seen \in Nat
      BY <2>2, ReadingNumbers
    <3>4. CASE row'.seen = row.seen
      BY <2>2, <3>1, <3>2, <3>4 DEF Recorded
    <3>5. ASSUME NEW c \in Callers, Waiting(c), row'.seen = calling[c].t
          PROVE  calling[d].t - row'.seen <= MaxDelay
      <4>1. calling[c].t \in Nat /\ now - calling[c].t <= MaxDelay
        BY <3>5, ReadingNumbers
      <4> QED
        BY <1>1, <1>2, <3>3, <3>5, <4>1
    <3> QED
      BY <2>2, <3>1, <3>2, <3>4, <3>5, StepRecords DEF Recorded
  <2> QED
    BY <2>1, <2>2
<1> QED
  BY <1>3, <1>4

\* What a step may do to the cache and to the stored timeout, when every statement succeeds.
LEMMA StepCaches ==
  ASSUME ClockInv, [ClockNext]_clockVars, ~clockMode.fails
  PROVE  \/ cache' = cache /\ setting' = setting
         \/ /\ setting' = setting /\ now' = now
            /\ \E c \in Callers : /\ Waiting(c) /\ calling[c].at = "fill"
                                  /\ cache'.idle = calling[c].idle /\ cache'.fetched = now
         \/ setting' = setting /\ cache'.idle = cache.idle /\ cache'.fetched = -LimitsTTL
         \/ cache' = cache /\ setting'.since = now
<1> USE DEF ClockInv
<1>1. ASSUME NEW c \in Callers, FillLimits(c)
      PROVE  setting' = setting /\ calling[c].at = "fill" /\ cache'.idle = calling[c].idle /\ cache'.fetched = now /\ now' = now
  BY <1>1 DEF FillLimits
<1>2. CASE InvalidateLimits
  BY <1>2 DEF InvalidateLimits, ClockTyped, Long
<1>3. ASSUME NEW idle \in Idles, SaveOperational(idle) PROVE cache' = cache /\ setting'.since = now
  BY <1>3 DEF SaveOperational
<1> QED
  BY <1>1, <1>2, <1>3
     DEF ClockNext, RequestStep, clockVars, Get, GetFails, CachedLimits, ReadLimits, LimitsFail,
     End, TouchSession, ServeSession, Logout, Prune, ClockTick

\* Where a waiting request has its timeout from.
LEMMA StepDecides ==
  ASSUME ClockInv, [ClockNext]_clockVars, ~clockMode.fails, NEW d \in Callers, Waiting(d), Waiting(d)'
  PROVE  \/ calling'[d].at = calling[d].at /\ calling'[d].idle = calling[d].idle
         \/ /\ UNCHANGED <<setting, now>> /\ calling[d].at = "limits" /\ calling'[d].idle = cache.idle
            /\ now - cache.fetched < LimitsTTL /\ calling'[d].at # "fill"
         \/ setting' = setting /\ calling'[d].idle = setting.idle
         \/ setting' = setting /\ calling[d].at = "fill" /\ calling'[d].idle = calling[d].idle /\ calling'[d].at # "fill"
<1> USE DEF ClockInv
<1>1. calling[d] \in Reading
  BY ReadingNumbers
<1>2. ASSUME NEW c \in Callers, NEW idle \in ValidIdle, Waiting(c), Decide(c, idle)
      PROVE  /\ d = c => calling'[d].idle = idle /\ calling'[d].at # "fill"
             /\ d # c => calling'[d] = calling[d]
  <2>1. calling'[c] = [calling[c] EXCEPT !.at = Verdict(calling[c], idle), !.idle = idle] /\ (d # c => calling'[d] = calling[d])
    BY <1>2, DecidesWhole
  <2>2. Verdict(calling[c], idle) # "fill"
    BY DEF Verdict
  <2>3. ASSUME NEW at PROVE [calling[d] EXCEPT !.at = at, !.idle = idle].at = at
                            /\ [calling[d] EXCEPT !.at = at, !.idle = idle].idle = idle
    BY <1>1 DEF Reading
  <2>4. ASSUME d = c PROVE calling'[d].idle = idle /\ calling'[d].at = Verdict(calling[c], idle)
    BY <2>1, <2>3, <2>4, Zenon
  <2> QED
    BY <2>1, <2>2, <2>4
<1>3. ASSUME NEW c \in Callers, Waiting(c), CachedLimits(c)
      PROVE  /\ UNCHANGED <<setting, now>> /\ now - cache.fetched < LimitsTTL
             /\ d = c => calling[d].at = "limits" /\ calling'[d].idle = cache.idle /\ calling'[d].at # "fill"
             /\ d # c => calling'[d] = calling[d]
  BY <1>2, <1>3, ClockNumbers DEF CachedLimits, FreshLimits
<1>4. ASSUME NEW c \in Callers, Waiting(c), FillLimits(c)
      PROVE  /\ setting' = setting
             /\ d = c => calling[d].at = "fill" /\ calling'[d].idle = calling[d].idle /\ calling'[d].at # "fill"
             /\ d # c => calling'[d] = calling[d]
  <2>1. calling[c].idle \in ValidIdle
    BY <1>4 DEF FillLimits, Underway
  <2> QED
    BY <1>2, <1>4, <2>1 DEF FillLimits
<1>5. ASSUME NEW c \in Callers, ReadLimits(c)
      PROVE  setting' = setting /\ (d = c => calling'[d].idle = setting.idle) /\ (d # c => calling'[d] = calling[d])
  BY <1>1, <1>5 DEF ReadLimits, ClockTyped, Reading
<1>6. ASSUME NEW c \in Callers, Answered(c) PROVE calling'[d] = calling[d]
  BY <1>6, OthersStay DEF Answered, Waiting
<1>7. ASSUME NEW c \in Callers, NEW attended \in BOOLEAN, Get(c, attended) PROVE calling'[d] = calling[d]
  BY <1>7 DEF Get, ClockTyped
<1>8. CASE calling'[d] = calling[d]
  BY <1>8
<1> QED
  BY <1>3, <1>4, <1>5, <1>6, <1>7, <1>8
     DEF ClockNext, RequestStep, clockVars, GetFails, LimitsFail, End, TouchSession,
     ServeSession, Logout, Prune, InvalidateLimits, ClockTick, SaveOperational

LEMMA OutdatedStep ==
  ASSUME ClockInv, ClockTyped', [ClockNext]_clockVars, ~clockMode.fails
  PROVE  /\ cache'.idle # setting'.idle => cache'.fetched <= setting'.since + MaxDelay
         /\ \A d \in Callers : Outdated(d)'
<1>1. MaxDelay \in Nat /\ LimitsTTL \in Nat
  BY ClockAssumption, Zenon
<1>2. /\ now \in Nat /\ setting.since \in Nat /\ setting.since <= now /\ setting'.since \in Nat /\ cache.fetched \in Int
      /\ cache.fetched = -LimitsTTL \/ cache.fetched <= now
      /\ cache.idle # setting.idle => cache.fetched <= setting.since + MaxDelay
  BY ClockNumbers DEF ClockInv, ClockTyped, Unfailing
<1>3. cache'.idle # setting'.idle => cache'.fetched <= setting'.since + MaxDelay
  <2>1. ASSUME NEW c \in Callers, Waiting(c), calling[c].at = "fill", cache'.idle = calling[c].idle, cache'.fetched = now,
               setting' = setting, cache'.idle # setting'.idle
        PROVE  cache'.fetched <= setting'.since + MaxDelay
    <3>1. calling[c].t <= setting.since
      BY <2>1 DEF ClockInv, Unfailing, Outdated
    <3>2. calling[c].t \in Nat /\ now - calling[c].t <= MaxDelay
      BY <2>1, ReadingNumbers
    <3> QED
      BY <1>1, <1>2, <2>1, <3>1, <3>2
  <2>2. CASE cache' = cache /\ setting'.since = now
    <3>1. cache.fetched <= now + MaxDelay
      BY <1>1, <1>2
    <3> QED
      BY <2>2, <3>1
  <2>3. CASE setting' = setting /\ cache'.fetched = -LimitsTTL
    <3>1. -LimitsTTL <= setting.since + MaxDelay
      BY <1>1, <1>2
    <3> QED
      BY <2>3, <3>1
  <2> QED
    BY <1>2, <2>1, <2>2, <2>3, StepCaches
<1>4. ASSUME NEW d \in Callers PROVE Outdated(d)'
  <2> SUFFICES ASSUME Waiting(d)', calling'[d].idle # setting'.idle
               PROVE  /\ calling'[d].at = "fill" => calling'[d].t <= setting'.since
                      /\ calling'[d].at \in {"end", "touch", "serve"} => calling'[d].t - setting'.since <= LimitsTTL + MaxDelay
    BY DEF Outdated
  <2>1. CASE ~Waiting(d)
    BY <2>1, BeginsWithTheRow
  <2>2. CASE Waiting(d)
    <3>1. calling'[d].t = calling[d].t
      BY <2>2, ReadingStays
    <3>2. calling[d].t \in Nat /\ calling[d].t <= now
      BY <2>2, ReadingNumbers
    <3>3. Outdated(d)
      BY DEF ClockInv, Unfailing
    <3>4. CASE setting'.since = now
      BY <1>1, <1>2, <3>1, <3>2, <3>4
    <3>5. CASE setting' = setting
      <4>1. CASE calling'[d].at = calling[d].at /\ calling'[d].idle = calling[d].idle
        BY <2>2, <3>1, <3>3, <3>5, <4>1 DEF Outdated
      <4>2. CASE /\ calling'[d].idle = cache.idle /\ now - cache.fetched < LimitsTTL /\ calling'[d].at # "fill"
        <5>1. cache.fetched <= setting.since + MaxDelay
          BY <1>2, <3>5, <4>2
        <5> QED
          BY <1>1, <1>2, <3>1, <3>2, <3>5, <4>2, <5>1
      <4>3. CASE calling[d].at = "fill" /\ calling'[d].idle = calling[d].idle /\ calling'[d].at # "fill"
        <5>1. calling[d].t <= setting.since
          BY <2>2, <3>3, <3>5, <4>3 DEF Outdated
        <5> QED
          BY <1>1, <1>2, <3>1, <3>2, <3>5, <4>3, <5>1
      <4> QED
        BY <2>2, <3>5, <4>1, <4>2, <4>3, StepDecides
    <3> QED
      BY <3>4, <3>5, StepCaches
  <2> QED
    BY <2>1, <2>2
<1> QED
  BY <1>3, <1>4

LEMMA ClockStep ==
  ASSUME ClockInv, [ClockNext]_clockVars
  PROVE  ClockInv'
<1>1. clockMode' = clockMode
  BY DEF ClockNext, RequestStep, clockVars, Get, GetFails, CachedLimits, ReadLimits, FillLimits, LimitsFail, End,
     TouchSession, ServeSession, Logout, Prune, InvalidateLimits, ClockTick, SaveOperational
<1>2. ClockTyped'
  BY ClockTypedStep
<1>3. \A c \in Callers : Underway(c)'
  BY UnderwayStep
<1>4. Unfailing'
  <2> SUFFICES ASSUME ~clockMode.fails
               PROVE  /\ lastUse' - row'.seen <= MaxTouch + MaxDelay
                      /\ cache'.idle # setting'.idle => cache'.fetched <= setting'.since + MaxDelay
                      /\ \A c \in Callers : Recorded(c)' /\ Outdated(c)'
    BY <1>1 DEF Unfailing
  <2> QED
    BY <1>2, RecordedStep, OutdatedStep
<1> QED
  BY <1>2, <1>3, <1>4 DEF ClockInv

\* The session lasts as long as it is used, by the timeout in force, however requests overlap
\* each other and a change of the timeout, and whatever fails.
THEOREM SessionLastsWhileUsed == ClockSpec => []LastsWhileUsed
<1>1. ClockInv => LastsWhileUsed
  <2> SUFFICES ASSUME ClockInv PROVE LastsWhileUsed
    OBVIOUS
  <2>0. /\ MaxTouch \in Nat /\ MaxDelay \in Nat /\ MinIdle \in Nat /\ Lifetime \in Nat
        /\ \A i \in ValidIdle : i \in Nat /\ (i > 0 => i >= MinIdle)
    <3>1. \A i \in ValidIdle : i \in Nat /\ (i > 0 => i >= MinIdle)
      BY IdlesAreTimes DEF ValidIdle
    <3> QED
      BY <3>1, ClockAssumption, Zenon
  <2>1. ClockTypeOK
    <3>1. \A c \in Callers : Waiting(c) => calling[c].at \in {"limits", "fill", "end", "touch", "serve"}
      BY ReadingNumbers
    <3>2. row.there \in BOOLEAN /\ row.seen \in 0..now /\ row.expires = Lifetime
      BY ClockNumbers DEF ClockInv, ClockTyped
    <3> QED
      BY <3>1, <3>2 DEF ClockInv, ClockTyped, ClockTypeOK, ValidIdle
  <2>2. \A c \in Callers : calling[c].at # "none" => Waiting(c)
    BY DEF Waiting, Quiet
  <2>3. UsedStays
    <3> SUFFICES ASSUME ~clockMode.fails, NEW c \in Callers, calling[c].at = "end",
                        ~Expired(calling[c].session, calling[c].t)
                 PROVE  calling[c].t - calling[c].used > MinIdle - MaxTouch - MaxDelay
      BY DEF UsedStays
    <3>1. Waiting(c)
      BY <2>2
    <3>2. IdleOver(calling[c].session, calling[c].t, calling[c].idle) /\ calling[c].idle \in ValidIdle
      BY <3>1 DEF ClockInv, Underway, Ended
    <3>3. calling[c].used - calling[c].session.seen <= MaxTouch + MaxDelay
      BY <3>1 DEF ClockInv, Unfailing, Recorded
    <3>4. calling[c].t \in Nat /\ calling[c].used \in Nat /\ calling[c].session.seen \in Nat /\ calling[c].idle \in Nat
      BY <2>0, <3>1, <3>2, ReadingNumbers
    <3>5. calling[c].t - calling[c].session.seen > calling[c].idle /\ calling[c].idle >= MinIdle
      BY <2>0, <3>2 DEF IdleOver
    <3> QED
      BY <2>0, <3>3, <3>4, <3>5
  <2>4. IdleIsOver
    <3> SUFFICES ASSUME NEW c \in Callers, calling[c].at \in {"touch", "serve"}
                 PROVE  /\ calling[c].t < Lifetime
                        /\ calling[c].idle > 0 => calling[c].t - calling[c].used <= calling[c].idle
      BY DEF IdleIsOver
    <3>1. Waiting(c)
      BY <2>2
    <3>2. /\ ~Expired(calling[c].session, calling[c].t)
          /\ ~IdleOver(calling[c].session, calling[c].t, calling[c].idle)
          /\ calling[c].session.seen <= calling[c].used
      BY <3>1 DEF ClockInv, Underway, Ended
    <3>3. /\ calling[c].t \in Nat /\ calling[c].used \in Nat /\ calling[c].session.seen \in Nat /\ calling[c].idle \in Int
          /\ calling[c].session.expires = Lifetime
      BY <3>1, ReadingNumbers
    <3> QED
      BY <2>0, <3>2, <3>3 DEF Expired, IdleOver
  <2>5. SettingTakesHold
    BY <2>2 DEF SettingTakesHold, ClockInv, Unfailing, Outdated
  <2> QED
    BY <2>1, <2>3, <2>4, <2>5 DEF LastsWhileUsed
<1> QED
  BY <1>1, ClockInitInv, ClockStep, PTL DEF ClockSpec

-----------------------------------------------------------------------------
(* The announcements.                                                      *)

\* What is remembered and what is on its way are known kinds, at most one of what is
\* remembered is about each subject, and a stream has room for what is replayed to it.
Stream == [open : BOOLEAN, queue : Seq(Kinds), shows : About \cup {"none"}, overrun : BOOLEAN]
OneOfEach ==
  /\ standing \in Seq(Kinds \ {"cancelled"}) /\ Len(standing) <= 2
  /\ Len(standing) = 2 => (standing[1] \in About <=> standing[2] = "maintenance")
StreamsInv ==
  /\ streams \in [Screens -> Stream]
  /\ \A s \in Screens : Len(streams[s].queue) <= Buffer
Agrees(s) ==
  streams[s].open /\ ~streams[s].overrun =>
    WillShow(s) = Stands \/ (WillShow(s) = "cancelled" /\ Stands = "none")
GateInv ==
  /\ closed \in BOOLEAN /\ said \in 0..MaxSaid
  /\ storedSwitch \in Switch /\ saver \in {"idle", "saved", "dropped"} /\ switchSaves \in 0..MaxSwitchSaves
  /\ gate \in [state : Switch, left : 0..CacheTTL]
  /\ fills \in [Readers -> {"none", "reading"} \cup Switch]
NoticeInv == OneOfEach /\ GateInv /\ StreamsInv /\ (\A s \in Screens : Agrees(s))

LEMMA Least == ASSUME NEW T \in SUBSET Nat, T # {} PROVE \E x \in T : \A y \in T : x <= y
<1> DEFINE Before == OpToRel(<, Nat)
<1>1. IsWellFoundedOn(Before, Nat)
  BY NatLessThanWellFounded
<1>2. \A x, y \in Nat : x < y => <<x, y>> \in Before
  BY DEF OpToRel
<1> HIDE DEF Before
<1>3. PICK x \in T : \A y \in T : ~ (<<y, x>> \in Before)
  BY <1>1, WFMin
<1>4. ASSUME NEW y \in T PROVE x <= y
  <2>1. x \in Nat /\ y \in Nat /\ ~(<<y, x>> \in Before)
    BY <1>3
  <2>2. ~(y < x)
    BY <1>2, <2>1
  <2> QED
    BY <2>1, <2>2
<1> QED
  BY <1>4

LEMMA HasLast ==
  ASSUME NEW n \in Nat, NEW at \in SUBSET (1..n), at # {}
  PROVE  \E i \in at : \A j \in at : j <= i
<1> DEFINE fromTheEnd == {n - i : i \in at}
<1>1. fromTheEnd \in SUBSET Nat /\ fromTheEnd # {}
  <2>1. \A i \in at : i \in Nat /\ n - i \in Nat
    OBVIOUS
  <2> QED
    BY <2>1
<1>2. PICK x \in fromTheEnd : \A y \in fromTheEnd : x <= y
  BY <1>1, Least
<1>3. PICK i \in at : x = n - i
  BY <1>2
<1>4. ASSUME NEW j \in at PROVE j <= i
  <2>1. x <= n - j
    BY <1>2
  <2> QED
    BY <1>3, <2>1
<1> QED
  BY <1>4

\* The last one about the update, if there is any, is the one nothing about it comes after.
LEMMA LastIs ==
  ASSUME NEW seq \in Seq(Kinds), NEW otherwise, NEW i \in 1..Len(seq), seq[i] \in About,
         \A j \in 1..Len(seq) : j > i => seq[j] \notin About
  PROVE  LastAbout(seq, otherwise) = seq[i]
<1> DEFINE at == IndicesOf(seq, About)
           last == CHOOSE k \in at : \A j \in at : j <= k
<1>1. i \in at /\ \A j \in at : j <= i /\ j \in Nat
  BY DEF IndicesOf
<1>2. last \in at /\ \A j \in at : j <= last
  BY <1>1
<1>3. last = i
  <2>1. last <= i /\ i <= last /\ last \in Nat /\ i \in Nat
    BY <1>1, <1>2
  <2> QED
    BY <2>1
<1> QED
  BY <1>1, <1>3 DEF LastAbout

LEMMA NoneIs ==
  ASSUME NEW seq \in Seq(Kinds), NEW otherwise, \A j \in 1..Len(seq) : seq[j] \notin About
  PROVE  LastAbout(seq, otherwise) = otherwise
BY DEF LastAbout, IndicesOf

LEMMA LastOrNone ==
  ASSUME NEW seq \in Seq(Kinds)
  PROVE  \/ \A j \in 1..Len(seq) : seq[j] \notin About
         \/ \E i \in 1..Len(seq) : seq[i] \in About /\ \A j \in 1..Len(seq) : j > i => seq[j] \notin About
<1> DEFINE at == IndicesOf(seq, About)
<1>1. at \in SUBSET (1..Len(seq)) /\ Len(seq) \in Nat
  BY DEF IndicesOf
<1>2. CASE at = {}
  BY <1>2 DEF IndicesOf
<1>3. CASE at # {}
  <2>1. PICK i \in at : \A j \in at : j <= i
    BY <1>1, <1>3, HasLast
  <2>2. i \in 1..Len(seq) /\ seq[i] \in About
    BY DEF IndicesOf
  <2>3. ASSUME NEW j \in 1..Len(seq), j > i PROVE seq[j] \notin About
    <3>1. j \notin at
      BY <2>1, <2>2, <2>3
    <3> QED
      BY <3>1 DEF IndicesOf
  <2> QED
    BY <2>2, <2>3
<1> QED
  BY <1>2, <1>3

LEMMA LastOfAppend ==
  ASSUME NEW seq \in Seq(Kinds), NEW kind \in Kinds, NEW otherwise
  PROVE  LastAbout(Append(seq, kind), otherwise) = IF kind \in About THEN kind ELSE LastAbout(seq, otherwise)
<1> DEFINE longer == Append(seq, kind)
<1>1. /\ longer \in Seq(Kinds) /\ Len(longer) = Len(seq) + 1 /\ Len(seq) \in Nat /\ longer[Len(seq) + 1] = kind
      /\ \A j \in 1..Len(seq) : longer[j] = seq[j]
  OBVIOUS
<1> HIDE DEF longer
<1>2. CASE kind \in About
  <2>1. /\ Len(seq) + 1 \in 1..Len(longer) /\ longer[Len(seq) + 1] \in About
        /\ \A j \in 1..Len(longer) : ~(j > Len(seq) + 1)
    BY <1>1, <1>2
  <2>2. LastAbout(longer, otherwise) = longer[Len(seq) + 1]
    BY <1>1, <2>1, LastIs
  <2> QED
    BY <1>1, <1>2, <2>2 DEF longer
<1>3. CASE kind \notin About
  <2>1. \A j \in 1..Len(longer) : j \in 1..Len(seq) \/ j = Len(seq) + 1
    BY <1>1
  <2>2. CASE \A j \in 1..Len(seq) : seq[j] \notin About
    <3>1. \A j \in 1..Len(longer) : longer[j] \notin About
      BY <1>1, <1>3, <2>1, <2>2
    <3> QED
      BY <1>1, <1>3, <2>2, <3>1, NoneIs DEF longer
  <2>3. ASSUME NEW i \in 1..Len(seq), seq[i] \in About, \A j \in 1..Len(seq) : j > i => seq[j] \notin About
        PROVE  LastAbout(longer, otherwise) = LastAbout(seq, otherwise)
    <3>1. i \in 1..Len(longer) /\ longer[i] = seq[i]
      BY <1>1
    <3>2. \A j \in 1..Len(longer) : j > i => longer[j] \notin About
      BY <1>1, <1>3, <2>1, <2>3
    <3>3. LastAbout(longer, otherwise) = longer[i] /\ LastAbout(seq, otherwise) = seq[i]
      BY <1>1, <2>3, <3>1, <3>2, LastIs
    <3> QED
      BY <3>1, <3>3
  <2> QED
    BY <1>3, <2>2, <2>3, LastOrNone DEF longer
<1> QED
  BY <1>2, <1>3

LEMMA LastOfTail ==
  ASSUME NEW seq \in Seq(Kinds), seq # <<>>, NEW otherwise
  PROVE  LastAbout(seq, otherwise) = LastAbout(Tail(seq), IF Head(seq) \in About THEN Head(seq) ELSE otherwise)
<1> DEFINE rest == Tail(seq)
           shown == IF Head(seq) \in About THEN Head(seq) ELSE otherwise
<1>1. /\ rest \in Seq(Kinds) /\ Len(seq) \in Nat /\ Len(seq) > 0 /\ Len(rest) = Len(seq) - 1 /\ Head(seq) = seq[1]
      /\ \A j \in 1..Len(rest) : rest[j] = seq[j + 1]
  OBVIOUS
<1>2. \A j \in 1..Len(seq) : j = 1 \/ (j - 1 \in 1..Len(rest) /\ rest[j - 1] = seq[j])
  BY <1>1
<1> HIDE DEF rest
<1>3. CASE \A j \in 1..Len(rest) : rest[j] \notin About
  <2>1. LastAbout(rest, shown) = shown
    BY <1>1, <1>3, NoneIs
  <2>2. \A j \in 1..Len(seq) : j > 1 => seq[j] \notin About
    BY <1>2, <1>3
  <2>3. CASE seq[1] \in About
    <3>1. 1 \in 1..Len(seq)
      BY <1>1
    <3>2. LastAbout(seq, otherwise) = seq[1]
      BY <2>2, <2>3, <3>1, LastIs
    <3> QED
      BY <1>1, <2>1, <2>3, <3>2 DEF rest
  <2>4. CASE seq[1] \notin About
    <3>1. \A j \in 1..Len(seq) : seq[j] \notin About
      BY <1>2, <2>2, <2>4, <1>3
    <3> QED
      BY <1>1, <2>1, <2>4, <3>1, NoneIs DEF rest
  <2> QED
    BY <2>3, <2>4
<1>4. ASSUME NEW i \in 1..Len(rest), rest[i] \in About, \A j \in 1..Len(rest) : j > i => rest[j] \notin About
      PROVE  LastAbout(seq, otherwise) = LastAbout(rest, shown)
  <2>1. i + 1 \in 1..Len(seq) /\ seq[i + 1] = rest[i]
    BY <1>1
  <2>2. ASSUME NEW j \in 1..Len(seq), j > i + 1 PROVE seq[j] \notin About
    <3>1. j # 1 /\ j - 1 > i
      BY <2>2
    <3> QED
      BY <1>2, <1>4, <3>1
  <2>3. LastAbout(seq, otherwise) = seq[i + 1] /\ LastAbout(rest, shown) = rest[i]
    BY <1>1, <1>4, <2>1, <2>2, LastIs
  <2> QED
    BY <2>1, <2>3
<1> QED
  BY <1>1, <1>3, <1>4, LastOrNone DEF rest

\* Nothing, or the one announcement about the other subject.
LEMMA OtherIsOne ==
  ASSUME OneOfEach, NEW kinds \in {About, {"maintenance"}}
  PROVE  \/ AllOf(standing, kinds) = <<>> /\ \A j \in 1..Len(standing) : standing[j] \notin kinds
         \/ \E i \in 1..Len(standing) : /\ AllOf(standing, kinds) = <<standing[i]>> /\ standing[i] \in kinds
                                        /\ \A j \in 1..Len(standing) : j # i => standing[j] \notin kinds
<1> DEFINE at == IndicesOf(standing, kinds)
           nth(n) == CHOOSE i \in at : Cardinality({j \in at : j < i}) = n - 1
<1>1. /\ Len(standing) \in Nat /\ Len(standing) <= 2 /\ \A j \in 1..Len(standing) : standing[j] \in Kinds
      /\ Len(standing) = 2 => (standing[1] \in About <=> standing[2] = "maintenance")
  BY DEF OneOfEach
<1>2. AllOf(standing, kinds) = [n \in 1..Cardinality(at) |-> standing[nth(n)]]
  BY DEF AllOf
<1>3. CASE at = {}
  <2>1. Cardinality(at) = 0
    BY <1>3, FS_EmptySet
  <2>2. AllOf(standing, kinds) = <<>>
    BY <1>2, <2>1
  <2> QED
    BY <1>3, <2>2 DEF IndicesOf
<1>4. ASSUME NEW i \in at PROVE \A j \in 1..Len(standing) : j # i => standing[j] \notin kinds
  <2>1. i \in 1..Len(standing) /\ standing[i] \in kinds
    BY DEF IndicesOf
  <2>2. \A k \in Kinds : k \in About <=> k # "maintenance"
    BY DEF Kinds, About
  <2>3. SUFFICES ASSUME NEW j \in 1..Len(standing), j # i PROVE standing[j] \notin kinds
    OBVIOUS
  <2>4. Len(standing) = 2 /\ ((i = 1 /\ j = 2) \/ (i = 2 /\ j = 1))
    <3>1. \A n \in Nat : n <= 2 => n = 0 \/ n = 1 \/ n = 2
      OBVIOUS
    <3>2. PICK n \in Nat : n = Len(standing) /\ n <= 2 /\ i \in 1..n /\ j \in 1..n
      BY <1>1, <2>1, <2>3
    <3>3. n = 2 /\ ((i = 1 /\ j = 2) \/ (i = 2 /\ j = 1))
      BY <2>3, <3>1, <3>2
    <3> QED
      BY <3>2, <3>3
  <2>5. standing[i] \in About <=> standing[j] \notin About
    BY <1>1, <2>2, <2>4
  <2> QED
    BY <1>1, <2>1, <2>2, <2>5
<1>5. ASSUME NEW i \in at PROVE AllOf(standing, kinds) = <<standing[i]>>
  <2>1. at = {i}
    BY <1>4 DEF IndicesOf
  <2>2. Cardinality(at) = 1
    BY <2>1, FS_Singleton
  <2>3. {j \in at : j < i} = {}
    BY <1>1, <2>1 DEF IndicesOf
  <2>4. Cardinality({j \in at : j < i}) = 0
    BY <2>3, FS_EmptySet
  <2>5. nth(1) = i
    BY <2>1, <2>4
  <2>6. AllOf(standing, kinds) = [n \in 1..1 |-> standing[nth(n)]]
    BY <1>2, <2>2
  <2>7. \A n \in 1..1 : n = 1
    OBVIOUS
  <2> HIDE DEF nth
  <2>8. [n \in 1..1 |-> standing[nth(n)]] = [n \in 1..1 |-> standing[i]]
    BY <2>5, <2>7
  <2>9. [n \in 1..1 |-> standing[i]] = <<standing[i]>>
    OBVIOUS
  <2> QED
    BY <2>6, <2>8, <2>9
<1> QED
  BY <1>3, <1>4, <1>5 DEF IndicesOf

LEMMA KindsApart == /\ \A k \in Kinds : (k \in About) <=> (k # "maintenance")
                    /\ "maintenance" \in Kinds /\ "cancelled" \in About /\ About \subseteq Kinds
BY DEF Kinds, About

LEMMA EmptySaysNothing == \A otherwise : LastAbout(<<>>, otherwise) = otherwise
<1>1. \A j \in 1..Len(<<>>) : FALSE
  OBVIOUS
<1>2. IndicesOf(<<>>, About) = {}
  BY <1>1 DEF IndicesOf
<1> QED
  BY <1>2 DEF LastAbout

LEMMA TwoAfterAnother == ASSUME NEW x, NEW y PROVE Append(<<x>>, y) = <<x, y>>
<1> DEFINE longer == Append(<<x>>, y)
           both == <<x, y>>
<1>1. <<x>> \in Seq({x, y}) /\ Len(<<x>>) = 1
  OBVIOUS
<1>2. longer \in Seq({x, y}) /\ Len(longer) = 2 /\ longer[1] = x /\ longer[2] = y
  BY <1>1
<1>3. both \in Seq({x, y}) /\ Len(both) = 2 /\ both[1] = x /\ both[2] = y
  OBVIOUS
<1> HIDE DEF longer, both
<1>4. \A i \in 1..2 : i = 1 \/ i = 2
  OBVIOUS
<1>5. longer = both
  BY <1>2, <1>3, <1>4, SeqEqual
<1> QED
  BY <1>5 DEF longer, both

LEMMA OneStands ==
  ASSUME NEW x \in Kinds
  PROVE  <<x>> \in Seq(Kinds) /\ LastAbout(<<x>>, "none") = IF x \in About THEN x ELSE "none"
<1>1. <<>> \in Seq(Kinds) /\ <<x>> = Append(<<>>, x) /\ <<x>> \in Seq(Kinds)
  OBVIOUS
<1>2. LastAbout(<<>>, "none") = "none"
  BY EmptySaysNothing
<1>3. LastAbout(Append(<<>>, x), "none") = IF x \in About THEN x ELSE LastAbout(<<>>, "none")
  BY <1>1, LastOfAppend
<1> QED
  BY <1>1, <1>2, <1>3

\* After a Publish what stands of the update is what was said of it, or what stood before.
LEMMA KeepsBoth ==
  ASSUME OneOfEach, NEW kind \in Kinds, standing' = Keeps(kind)
  PROVE  /\ OneOfEach'
         /\ Stands' = IF kind = "cancelled" THEN "none" ELSE IF kind = "maintenance" THEN Stands ELSE kind
<1> DEFINE kinds == IF kind = "maintenance" THEN About ELSE {"maintenance"}
           other == AllOf(standing, kinds)
<1>0. kinds \in {About, {"maintenance"}}
  OBVIOUS
<1>1. standing' = IF kind = "cancelled" THEN other ELSE Append(other, kind)
  BY DEF Keeps
<1>2. /\ standing \in Seq(Kinds) /\ \A j \in 1..Len(standing) : standing[j] \in Kinds \ {"cancelled"}
  <2>1. standing \in Seq(Kinds \ {"cancelled"})
    BY DEF OneOfEach
  <2> QED
    BY <2>1
<1>3. Stands' = LastAbout(standing', "none")
  BY DEF Stands, LastAbout, IndicesOf
<1>4. CASE other = <<>> /\ \A j \in 1..Len(standing) : standing[j] \notin kinds
  <2>1. CASE kind = "cancelled"
    <3>1. standing' = <<>>
      BY <1>1, <1>4, <2>1
    <3>2. Stands' = "none"
      BY <1>3, <3>1, EmptySaysNothing
    <3>3. <<>> \in Seq(Kinds \ {"cancelled"}) /\ Len(<<>>) = 0
      OBVIOUS
    <3>4. OneOfEach'
      BY <3>1, <3>3 DEF OneOfEach
    <3> QED
      BY <2>1, <3>2, <3>4
  <2>2. CASE kind # "cancelled"
    <3>1. standing' = <<kind>>
      <4>1. Append(<<>>, kind) = <<kind>>
        OBVIOUS
      <4> QED
        BY <1>1, <1>4, <2>2, <4>1
    <3>2. OneOfEach'
      BY <2>2, <3>1 DEF OneOfEach
    <3>3. Stands' = IF kind \in About THEN kind ELSE "none"
      BY <1>3, <3>1, OneStands
    <3>4. kind = "maintenance" => Stands = "none"
      <4> SUFFICES ASSUME kind = "maintenance" PROVE Stands = "none"
        OBVIOUS
      <4>1. \A j \in 1..Len(standing) : standing[j] \notin About
        BY <1>4
      <4> QED
        BY <1>2, <4>1, NoneIs DEF Stands
    <3> QED
      BY <2>2, <3>2, <3>3, <3>4, KindsApart
  <2> QED
    BY <2>1, <2>2
<1>5. ASSUME NEW i \in 1..Len(standing), other = <<standing[i]>>, standing[i] \in kinds,
             \A j \in 1..Len(standing) : j # i => standing[j] \notin kinds
      PROVE  /\ OneOfEach'
             /\ Stands' = IF kind = "cancelled" THEN "none" ELSE IF kind = "maintenance" THEN Stands ELSE kind
  <2> DEFINE x == standing[i]
  <2>0. x \in Kinds /\ x # "cancelled" /\ (x \in About <=> kind = "maintenance")
    BY <1>2, <1>5, KindsApart
  <2>1. CASE kind = "cancelled"
    <3>1. standing' = <<x>>
      BY <1>1, <1>5, <2>1
    <3>2. Stands' = "none"
      BY <1>3, <2>0, <2>1, <3>1, OneStands
    <3> QED
      BY <2>0, <2>1, <3>1, <3>2 DEF OneOfEach
  <2>2. CASE kind # "cancelled"
    <3>1. standing' = Append(<<x>>, kind) /\ standing' = <<x, kind>>
      <4>1. Append(<<x>>, kind) = <<x, kind>>
        BY TwoAfterAnother
      <4> QED
        BY <1>1, <1>5, <2>2, <4>1
    <3>2. OneOfEach'
      <4>1. <<x, kind>> \in Seq(Kinds \ {"cancelled"})
        BY <2>0, <2>2
      <4>2. x \in About <=> kind = "maintenance"
        BY <2>0
      <4> HIDE DEF x
      <4> QED
        BY <3>1, <4>1, <4>2 DEF OneOfEach
    <3>3. Stands' = IF kind \in About THEN kind ELSE x
      <4>1. x \notin About => kind \in About
        BY <2>0, KindsApart
      <4> HIDE DEF x
      <4> QED
        BY <1>3, <2>0, <3>1, <4>1, OneStands, LastOfAppend
    <3>4. kind = "maintenance" => Stands = x
      <4> SUFFICES ASSUME kind = "maintenance" PROVE Stands = x
        OBVIOUS
      <4>1. \A j \in 1..Len(standing) : j # i => standing[j] \notin About
        BY <1>5
      <4>2. \A j \in 1..Len(standing) : j > i => j # i
        OBVIOUS
      <4>3. x \in About
        BY <2>0
      <4> QED
        BY <1>2, <4>1, <4>2, <4>3, LastIs DEF Stands
    <3> QED
      BY <2>2, <3>2, <3>3, <3>4, KindsApart
  <2> QED
    BY <2>1, <2>2
<1> HIDE DEF kinds
<1>6. \/ other = <<>> /\ \A j \in 1..Len(standing) : standing[j] \notin kinds
      \/ \E i \in 1..Len(standing) : /\ other = <<standing[i]>> /\ standing[i] \in kinds
                                     /\ \A j \in 1..Len(standing) : j # i => standing[j] \notin kinds
  BY <1>0, OtherIsOne
<1> QED
  BY <1>4, <1>5, <1>6

LEMMA NoStreamIsOne ==
  /\ NoStream \in Stream /\ NoStream.open = FALSE /\ NoStream.queue = <<>> /\ Len(NoStream.queue) = 0
  /\ NoStream.shows = "none"
<1>1. <<>> \in Seq(Kinds) /\ Len(<<>>) = 0
  OBVIOUS
<1>2. NoStream \in Stream
  BY <1>1 DEF NoStream, Stream
<1> QED
  BY <1>1, <1>2 DEF NoStream

LEMMA NoticeInitInv == NoticeInit => NoticeInv
<1> SUFFICES ASSUME NoticeInit PROVE NoticeInv
  OBVIOUS
<1>1. OneOfEach
  <2>1. <<>> \in Seq(Kinds \ {"cancelled"}) /\ Len(<<>>) = 0
    OBVIOUS
  <2> QED
    BY <2>1 DEF NoticeInit, OneOfEach
<1>2. GateInv
  <2>1. MaxSaid \in Nat /\ MaxSwitchSaves \in Nat /\ CacheTTL \in Nat
    BY NoticesAssumption
  <2>2. 0 \in 0..MaxSaid /\ 0 \in 0..MaxSwitchSaves /\ 0 \in 0..CacheTTL
    BY <2>1
  <2> QED
    BY <2>2 DEF NoticeInit, GateInv, Switch
<1>3. StreamsInv /\ \A s \in Screens : ~streams[s].open
  BY NoStreamIsOne, NoticesAssumption DEF NoticeInit, StreamsInv
<1> QED
  BY <1>1, <1>2, <1>3 DEF NoticeInv, Agrees

\* What is said reaches every stream with room for it, and is what stands afterwards.
LEMMA SayStep ==
  ASSUME NoticeInv, NEW kind \in Kinds, Say(kind)
  PROVE  OneOfEach' /\ StreamsInv' /\ \A s \in Screens : Agrees(s)'
<1>1. /\ OneOfEach'
      /\ Stands' = IF kind = "cancelled" THEN "none" ELSE IF kind = "maintenance" THEN Stands ELSE kind
  BY KeepsBoth DEF NoticeInv, Say
<1>2. ASSUME NEW s \in Screens
      PROVE  /\ streams'[s] \in Stream /\ Len(streams'[s].queue) <= Buffer
             /\ streams'[s].open = streams[s].open /\ streams'[s].shows = streams[s].shows
             /\ streams'[s].open /\ ~streams'[s].overrun
                  => streams'[s].queue = Append(streams[s].queue, kind) /\ ~streams[s].overrun
  <2>1. streams'[s] = Hears(streams[s], kind)
    BY DEF Say
  <2>2. streams[s] \in Stream /\ Len(streams[s].queue) <= Buffer
    BY DEF NoticeInv, StreamsInv
  <2>3. CASE ~streams[s].open
    BY <2>1, <2>2, <2>3 DEF Hears
  <2>4. CASE streams[s].open /\ Len(streams[s].queue) < Buffer
    <3> DEFINE longer == Append(streams[s].queue, kind)
    <3>1. longer \in Seq(Kinds) /\ Len(longer) = Len(streams[s].queue) + 1 /\ Len(streams[s].queue) \in Nat
      BY <2>2 DEF Stream
    <3>2. streams'[s] = [streams[s] EXCEPT !.queue = longer]
      BY <2>1, <2>4 DEF Hears
    <3> HIDE DEF longer
    <3>3. streams'[s] \in Stream /\ streams'[s].queue = longer /\ streams'[s].open = streams[s].open
          /\ streams'[s].shows = streams[s].shows /\ streams'[s].overrun = streams[s].overrun
      BY <2>2, <3>1, <3>2 DEF Stream
    <3>4. Len(longer) <= Buffer
      BY <2>4, <3>1, NoticesAssumption
    <3> QED
      BY <3>3, <3>4 DEF longer
  <2>5. CASE streams[s].open /\ ~(Len(streams[s].queue) < Buffer)
    <3>1. streams'[s] = [streams[s] EXCEPT !.overrun = TRUE]
      BY <2>1, <2>5 DEF Hears
    <3>2. streams'[s] \in Stream /\ streams'[s].queue = streams[s].queue /\ streams'[s].open = streams[s].open
          /\ streams'[s].shows = streams[s].shows /\ streams'[s].overrun = TRUE
      BY <2>2, <3>1 DEF Stream
    <3> QED
      BY <2>2, <3>2
  <2> QED
    BY <2>3, <2>4, <2>5
<1>3. StreamsInv'
  BY <1>2 DEF StreamsInv, Say
<1>4. ASSUME NEW s \in Screens PROVE Agrees(s)'
  <2> SUFFICES ASSUME streams'[s].open, ~streams'[s].overrun
               PROVE  WillShow(s)' = Stands' \/ (WillShow(s)' = "cancelled" /\ Stands' = "none")
    BY DEF Agrees
  <2>1. streams[s].queue \in Seq(Kinds)
    BY DEF NoticeInv, StreamsInv, Stream
  <2>2. WillShow(s)' = LastAbout(Append(streams[s].queue, kind), streams[s].shows)
    <3>1. WillShow(s)' = LastAbout(streams'[s].queue, streams'[s].shows)
      BY DEF WillShow, LastAbout, IndicesOf
    <3> QED
      BY <1>2, <3>1
  <2>3. WillShow(s)' = IF kind \in About THEN kind ELSE WillShow(s)
    BY <2>1, <2>2, LastOfAppend DEF WillShow
  <2>4. WillShow(s) = Stands \/ (WillShow(s) = "cancelled" /\ Stands = "none")
    BY <1>2 DEF NoticeInv, Agrees
  <2> QED
    BY <1>1, <2>3, <2>4, KindsApart
<1> QED
  BY <1>1, <1>3, <1>4

\* A step that leaves what is said as it is.
LEMMA StreamsStep ==
  ASSUME NoticeInv, UNCHANGED standing, StreamsInv', NEW s \in Screens,
         streams'[s].open /\ ~streams'[s].overrun =>
           \/ WillShow(s)' = Stands
           \/ streams[s].open /\ ~streams[s].overrun /\ WillShow(s)' = WillShow(s)
  PROVE  Agrees(s)'
<1>1. Stands' = Stands
  BY DEF Stands, LastAbout, IndicesOf
<1> QED
  BY <1>1 DEF NoticeInv, Agrees

LEMMA NoticeStep ==
  ASSUME NoticeInv, [NoticeNext]_noticeVars
  PROVE  NoticeInv'
<1> USE DEF NoticeInv
<1>1. ASSUME NEW kind \in About, Say(kind), UNCHANGED gateVars PROVE NoticeInv'
  <2>1. GateInv'
    BY <1>1, NoticesAssumption DEF Say, gateVars, GateInv
  <2> QED
    BY <1>1, <2>1, SayStep, KindsApart
<1>2. CASE AnnounceSwitch
  <2>1. GateInv'
    BY <1>2, NoticesAssumption DEF AnnounceSwitch, Say, GateInv
  <2> QED
    BY <1>2, <2>1, SayStep, KindsApart DEF AnnounceSwitch
<1>3. ASSUME UNCHANGED <<standing, said, gateVars>>, closed' \in BOOLEAN, streams' \in [Screens -> Stream],
             ASSUME NEW s \in Screens
             PROVE  /\ Len(streams'[s].queue) <= Buffer
                    /\ streams'[s].open /\ ~streams'[s].overrun =>
                         \/ WillShow(s)' = Stands
                         \/ streams[s].open /\ ~streams[s].overrun /\ WillShow(s)' = WillShow(s)
      PROVE  NoticeInv'
  <2>1. OneOfEach' /\ GateInv'
    BY <1>3 DEF OneOfEach, GateInv, gateVars
  <2>2. StreamsInv'
    BY <1>3 DEF StreamsInv
  <2> QED
    BY <1>3, <2>1, <2>2, StreamsStep
<1>4. ASSUME NEW s \in Screens PROVE streams'[s] = streams[s] => WillShow(s)' = WillShow(s)
  BY DEF WillShow, LastAbout, IndicesOf
<1>5. ASSUME NEW s \in Screens, Subscribe(s) PROVE NoticeInv'
  <2> DEFINE replayed == [NoStream EXCEPT !.open = TRUE, !.queue = standing]
  <2>1. standing \in Seq(Kinds) /\ Len(standing) <= Buffer
    <3>1. standing \in Seq(Kinds \ {"cancelled"}) /\ Len(standing) <= 2
      BY DEF OneOfEach
    <3>2. standing \in Seq(Kinds) /\ Len(standing) \in Nat
      BY <3>1
    <3> QED
      BY <3>1, <3>2, NoticesAssumption
  <2>2. replayed \in Stream /\ replayed.queue = standing /\ replayed.shows = "none"
    BY <2>1, NoStreamIsOne DEF Stream
  <2> HIDE DEF replayed
  <2>3. streams' = [streams EXCEPT ![s] = replayed] /\ streams \in [Screens -> Stream]
    BY <1>5 DEF Subscribe, StreamsInv, replayed
  <2>4. streams' \in [Screens -> Stream] /\ streams'[s] = replayed /\ \A o \in Screens \ {s} : streams'[o] = streams[o]
    BY <2>2, <2>3
  <2>5. WillShow(s)' = Stands
    <3>1. WillShow(s)' = LastAbout(streams'[s].queue, streams'[s].shows)
      BY DEF WillShow, LastAbout, IndicesOf
    <3> QED
      BY <2>2, <2>4, <3>1 DEF Stands
  <2>6. ASSUME NEW o \in Screens
        PROVE  /\ Len(streams'[o].queue) <= Buffer
               /\ streams'[o].open /\ ~streams'[o].overrun =>
                    \/ WillShow(o)' = Stands
                    \/ streams[o].open /\ ~streams[o].overrun /\ WillShow(o)' = WillShow(o)
    <3>1. CASE o = s
      BY <2>1, <2>2, <2>4, <2>5, <3>1
    <3>2. CASE o # s
      BY <1>4, <2>4, <3>2 DEF StreamsInv
    <3> QED
      BY <3>1, <3>2
  <2>7. UNCHANGED <<standing, said, gateVars>> /\ closed' \in BOOLEAN
    BY <1>5 DEF Subscribe, GateInv
  <2> QED
    BY <1>3, <2>4, <2>6, <2>7
<1>6. ASSUME NEW s \in Screens, Deliver(s) PROVE NoticeInv'
  <2> DEFINE queue == streams[s].queue
             kind == Head(queue)
             shows == IF kind = "maintenance" THEN streams[s].shows ELSE kind
             written == [streams[s] EXCEPT !.queue = Tail(queue), !.shows = shows]
  <2>1. queue \in Seq(Kinds) /\ queue # <<>> /\ Len(queue) <= Buffer /\ streams \in [Screens -> Stream] /\ streams[s] \in Stream
    BY <1>6 DEF Deliver, StreamsInv, Stream
  <2>2. Tail(queue) \in Seq(Kinds) /\ Len(Tail(queue)) = Len(queue) - 1 /\ Len(queue) \in Nat /\ kind \in Kinds
    <3> HIDE DEF queue
    <3> QED
      BY <2>1
  <2>3. shows \in About \cup {"none"} /\ shows = IF kind \in About THEN kind ELSE streams[s].shows
    BY <2>1, <2>2, KindsApart DEF Stream
  <2>4. streams' = [streams EXCEPT ![s] = written]
    BY <1>6, <2>1 DEF Deliver
  <2>5. /\ written \in Stream /\ written.queue = Tail(queue) /\ written.shows = shows
        /\ written.open = streams[s].open /\ written.overrun = streams[s].overrun
    <3> HIDE DEF queue, kind, shows
    <3> QED
      BY <2>1, <2>2, <2>3 DEF Stream
  <2> HIDE DEF written, shows, kind
  <2>6. streams' \in [Screens -> Stream] /\ streams'[s] = written /\ \A o \in Screens \ {s} : streams'[o] = streams[o]
    BY <2>1, <2>4, <2>5
  <2>7. WillShow(s)' = WillShow(s)
    <3>1. WillShow(s)' = LastAbout(streams'[s].queue, streams'[s].shows)
      BY DEF WillShow, LastAbout, IndicesOf
    <3>2. WillShow(s)' = LastAbout(Tail(queue), IF kind \in About THEN kind ELSE streams[s].shows)
      BY <2>3, <2>5, <2>6, <3>1
    <3> QED
      BY <2>1, <3>2, LastOfTail DEF WillShow, kind
  <2>8. ASSUME NEW o \in Screens
        PROVE  /\ Len(streams'[o].queue) <= Buffer
               /\ streams'[o].open /\ ~streams'[o].overrun =>
                    \/ WillShow(o)' = Stands
                    \/ streams[o].open /\ ~streams[o].overrun /\ WillShow(o)' = WillShow(o)
    <3>1. CASE o = s
      <4>1. Len(Tail(queue)) <= Buffer
        BY <2>1, <2>2, NoticesAssumption
      <4> QED
        BY <2>5, <2>6, <2>7, <3>1, <4>1
    <3>2. CASE o # s
      BY <1>4, <2>6, <3>2 DEF StreamsInv
    <3> QED
      BY <3>1, <3>2
  <2>9. UNCHANGED <<standing, said, gateVars>> /\ closed' \in BOOLEAN
    BY <1>6 DEF Deliver, GateInv
  <2> QED
    BY <1>3, <2>6, <2>8, <2>9
<1>7. ASSUME \A s \in Screens : \/ streams'[s] = [streams[s] EXCEPT !.open = FALSE, !.queue = <<>>]
                                \/ streams'[s] = streams[s],
             DOMAIN streams' = Screens, streams' = [s \in Screens |-> streams'[s]],
             UNCHANGED <<standing, said, gateVars>>, closed' \in BOOLEAN
      PROVE  NoticeInv'
  <2>1. <<>> \in Seq(Kinds) /\ Len(<<>>) = 0
    OBVIOUS
  <2>2. ASSUME NEW s \in Screens
        PROVE  /\ streams'[s] \in Stream /\ Len(streams'[s].queue) <= Buffer
               /\ streams'[s].open /\ ~streams'[s].overrun =>
                    \/ WillShow(s)' = Stands
                    \/ streams[s].open /\ ~streams[s].overrun /\ WillShow(s)' = WillShow(s)
    <3>1. streams[s] \in Stream /\ Len(streams[s].queue) <= Buffer
      BY DEF StreamsInv
    <3>2. CASE streams'[s] = [streams[s] EXCEPT !.open = FALSE, !.queue = <<>>]
      <4>1. streams'[s] \in Stream /\ streams'[s].queue = <<>> /\ ~streams'[s].open
        BY <2>1, <3>1, <3>2 DEF Stream
      <4> QED
        BY <2>1, <4>1, NoticesAssumption
    <3>3. CASE streams'[s] = streams[s]
      BY <1>4, <3>1, <3>3
    <3> QED
      BY <1>7, <3>2, <3>3
  <2>3. streams' \in [Screens -> Stream]
    BY <1>7, <2>2
  <2> QED
    BY <1>3, <1>7, <2>2, <2>3
<1>8. ASSUME NEW s \in Screens, Unsubscribe(s) PROVE NoticeInv'
  <2>1. streams' = [streams EXCEPT ![s] = [streams[s] EXCEPT !.open = FALSE, !.queue = <<>>]]
    BY <1>8 DEF Unsubscribe, StreamsInv
  <2> QED
    BY <1>7, <1>8, <2>1 DEF Unsubscribe, StreamsInv, GateInv
<1>9. CASE Close
  BY <1>7, <1>9 DEF Close
<1>10. CASE UNCHANGED hubVars /\ GateInv'
  <2>1. \A s \in Screens : Agrees(s)'
    BY <1>4, <1>10, StreamsStep DEF hubVars, StreamsInv
  <2> QED
    BY <1>10, <2>1 DEF hubVars, OneOfEach, StreamsInv
<1>11. ASSUME NEW r \in Readers, StartFill(r) \/ ReadSwitch(r) \/ ReadFails(r) \/ Fill(r) PROVE UNCHANGED hubVars /\ GateInv'
  <2>1. CacheTTL \in 0..CacheTTL /\ fills[r] \in {"none", "reading"} \cup Switch
    BY NoticesAssumption DEF GateInv
  <2> QED
    BY <1>11, <2>1 DEF StartFill, ReadSwitch, ReadFails, Fill, GateInv, hubVars
<1>12. ASSUME SaveSwitch \/ Invalidate \/ Tick PROVE UNCHANGED hubVars /\ GateInv'
  <2>1. CASE SaveSwitch
    <3>1. switchSaves' \in 0..MaxSwitchSaves
      BY <2>1, NoticesAssumption DEF SaveSwitch, GateInv
    <3> QED
      BY <2>1, <3>1 DEF SaveSwitch, GateInv, hubVars
  <2>2. CASE Invalidate \/ Tick
    <3>1. gate.left \in 0..CacheTTL /\ CacheTTL \in Nat
      BY NoticesAssumption DEF GateInv
    <3>2. ASSUME NEW left \in 0..CacheTTL, gate' = [gate EXCEPT !.left = left]
          PROVE  gate' \in [state : Switch, left : 0..CacheTTL]
      BY <3>2 DEF GateInv
    <3>3. 0 \in 0..CacheTTL /\ (gate.left > 0 => gate.left - 1 \in 0..CacheTTL)
      BY <3>1
    <3>4. gate' \in [state : Switch, left : 0..CacheTTL]
      BY <2>2, <3>2, <3>3 DEF Invalidate, Tick, Fresh
    <3> QED
      BY <2>2, <3>4 DEF Invalidate, Tick, GateInv, hubVars
  <2> QED
    BY <1>12, <2>1, <2>2
<1>13. CASE UNCHANGED noticeVars
  <2>1. GateInv'
    BY <1>13 DEF noticeVars, GateInv
  <2>2. UNCHANGED hubVars
    BY <1>13 DEF noticeVars, hubVars
  <2> QED
    BY <1>10, <2>1, <2>2
<1> QED
  BY <1>1, <1>2, <1>5, <1>6, <1>8, <1>9, <1>10, <1>11, <1>12, <1>13
     DEF NoticeNext, HubNext, GateNext, PublishUpdate

\* A connected page that kept up shows what stands about the update, whenever it connected and
\* whatever was said of maintenance in between.
THEOREM NoticesReachEveryScreen == NoticeSpec => []ScreensAgree
<1>1. NoticeInv => ScreensAgree
  BY DEF NoticeInv, ScreensAgree, NoticeTypeOK, OneOfEach, GateInv, StreamsInv, Stream, Agrees
<1>2. NoticeSpec => NoticeInit /\ [][NoticeNext]_noticeVars
  BY PTL DEF NoticeSpec
<1> QED
  BY <1>1, <1>2, NoticeInitInv, NoticeStep, PTL

-----------------------------------------------------------------------------
(* The binary.                                                             *)

\* The stages in which a press is inside InstallOver.
Holding == {"locked", "summed", "loading", "loaded", "checked", "cleared", "aside", "placed"}

\* Who holds the lock is installing, nobody without a process is, and a press works on a
\* release that was published.
LockInv ==
  /\ \A p \in Presses : presses[p].stage \in Holding <=> installing = p
  /\ \A p \in Presses : IF presses[p].stage = "idle" THEN presses[p] = Idle ELSE presses[p].release \in Versions
  /\ running = 0 => installing = Nobody /\ \A p \in Presses : presses[p] = Idle

\* What has been asked for its version is, until it is in place, still what was asked - or
\* gone; and no file is without a version.
StagedInv ==
  /\ \A f \in Places : files[f] = Absent \/ files[f].version \in Versions
  /\ \A p \in Presses : presses[p].stage \in {"checked", "cleared", "aside"} =>
       files["new"] \in {Absent, Whole(presses[p].release)} /\ presses[p].release \notin Broken

\* Where nothing is at the program's own path while it runs, one rename is under way, and
\* the file it is to be made good from is there.
MissingInv ==
  /\ running # 0 /\ ~There("self") =>
       \/ rollback = "aside" /\ There("failed")
       \/ There("old") /\ \E p \in Presses : presses[p].stage = "aside"
  /\ rollback = "looked" /\ ~There("self") => There("old")

UpdateInv == UpdateLeavesAProgram /\ LockInv /\ StagedInv /\ MissingInv

Stages == {"idle", "announced", "locked", "summed", "loading", "loaded", "checked", "cleared", "aside",
           "placed", "installed", "already", "failed"}
Press == [stage : Stages, release : 0 .. LastVersion]

LEMMA UpdateInitInv ==
  ASSUME UpdateInit
  PROVE  UpdateInv
<1> USE UpdateAssumption
<1>1. files["self"] = Whole(1) /\ \A f \in Places \ {"self"} : files[f] = Absent
  BY DEF UpdateInit, Whole, Places, Kept
<1>2. Absent \in Binary /\ Whole(1) \in Binary /\ Absent # Whole(1) /\ 1 \in Versions /\ Idle \in Press
  BY DEF Absent, Whole, Binary, Versions, Idle, Press, Stages
<1>3. UpdateTypeOK
  <2>1. files \in [Places -> Binary]
    BY <1>1, <1>2 DEF UpdateInit, Places, Kept
  <2>2. presses \in [Presses -> Press]
    BY <1>2 DEF UpdateInit
  <2>3. installing \in Presses \cup {Nobody}
    BY DEF UpdateInit
  <2> QED
    BY <1>2, <2>1, <2>2, <2>3 DEF UpdateInit, UpdateTypeOK, Press, Stages, Versions
<1>4. OnlyChecked
  BY <1>1 DEF OnlyChecked, There, Kept, Places, Whole
<1>5. NeverWithout /\ There("self")
  BY <1>1, <1>2 DEF NeverWithout, There, Kept, Places
<1>6. NoWarningLeft
  BY DEF NoWarningLeft, UpdateInit
<1>7. LockInv
  BY <1>2 DEF LockInv, UpdateInit, Idle, Holding, Nobody
<1>8. StagedInv
  <2>1. ASSUME NEW f \in Places PROVE files[f] = Absent \/ files[f].version \in Versions
    BY <1>1, <1>2 DEF Whole
  <2>2. \A p \in Presses : presses[p].stage = "idle"
    BY DEF UpdateInit, Idle
  <2> QED
    BY <2>1, <2>2 DEF StagedInv
<1>9. MissingInv
  BY <1>5 DEF MissingInv
<1> QED
  BY <1>3, <1>4, <1>5, <1>6, <1>7, <1>8, <1>9 DEF UpdateInv, UpdateLeavesAProgram

\* One press comes to another stage, the others stay.
LEMMA StageStep ==
  ASSUME UpdateInv, NEW p \in Presses, NEW stage \in Stages, At(p, stage), presses[p].stage # "idle",
         stage # "idle"
  PROVE  /\ presses' \in [Presses -> Press]
         /\ \A x \in Presses : x # p => presses'[x] = presses[x]
         /\ presses'[p].stage = stage /\ presses'[p].release = presses[p].release
         /\ presses[p].release \in Versions /\ presses'[p] # Idle
<1>1. presses \in [Presses -> Press]
  BY DEF UpdateInv, UpdateLeavesAProgram, UpdateTypeOK, Press, Stages
<1>2. presses' = [presses EXCEPT ![p].stage = stage]
  BY DEF At
<1>3. /\ presses' \in [Presses -> Press]
      /\ \A x \in Presses : x # p => presses'[x] = presses[x]
      /\ presses'[p].stage = stage /\ presses'[p].release = presses[p].release
  BY <1>1, <1>2 DEF Press
<1>4. presses[p].release \in Versions
  BY DEF UpdateInv, LockInv
<1>5. presses'[p] # Idle
  BY <1>3 DEF Idle
<1> QED
  BY <1>3, <1>4, <1>5

LEMMA DoneStep ==
  ASSUME UpdateInv, NEW p \in Presses, Done(p)
  PROVE  /\ presses' \in [Presses -> Press]
         /\ \A x \in Presses : x # p => presses'[x] = presses[x]
         /\ presses'[p] = Idle /\ presses'[p].stage = "idle"
<1>1. presses \in [Presses -> Press] /\ Idle \in Press
  BY UpdateAssumption DEF UpdateInv, UpdateLeavesAProgram, UpdateTypeOK, Press, Stages, Idle
<1> QED
  BY <1>1 DEF Done, Idle

\* A step inside an install that changes no file and keeps the lock.
LEMMA HoldStep ==
  ASSUME UpdateInv, NEW p \in Presses, NEW stage \in {"summed", "checked"}, At(p, stage),
         presses[p].stage \in {"locked", "loaded"},
         stage = "checked" => files["new"] = Whole(presses[p].release) /\ presses[p].release \notin Broken,
         UNCHANGED <<files, pendingVersion, running, started, feed, cached, installing, banner, rollback>>
  PROVE  UpdateInv'
<1>1. /\ presses' \in [Presses -> Press]
      /\ \A x \in Presses : x # p => presses'[x] = presses[x]
      /\ presses'[p].stage = stage /\ presses'[p].release = presses[p].release
      /\ presses[p].release \in Versions /\ presses'[p] # Idle
  BY StageStep DEF Stages
<1>2. UpdateLeavesAProgram'
  BY <1>1 DEF UpdateInv, UpdateLeavesAProgram, UpdateTypeOK, Press, Stages, OnlyChecked, NeverWithout, There,
              NoWarningLeft
<1>3. LockInv'
  BY <1>1 DEF UpdateInv, LockInv, Holding, Idle
<1>4. StagedInv'
  BY <1>1 DEF UpdateInv, StagedInv
<1>5. MissingInv'
  <2>1. \A x \in Presses : presses[x].stage = "aside" => presses'[x].stage = "aside"
    BY <1>1
  <2> QED
    BY <2>1 DEF UpdateInv, MissingInv, There
<1> QED
  BY <1>2, <1>3, <1>4, <1>5 DEF UpdateInv

\* What the files may be once an install has ended.
Sound(left) ==
  /\ left \in [Places -> Binary]
  /\ \A f \in Places : left[f] = Absent \/ left[f].version \in Versions
  /\ \A f \in Kept : left[f] # Absent => left[f].whole /\ left[f].version \notin Broken
  /\ left["self"] # Absent \/ (rollback = "aside" /\ left["failed"] # Absent)

\* As long as the one install is not between its renames, they are sound as they are.
LEMMA SoundAsTheyAre ==
  ASSUME UpdateInv, NEW p \in Presses, presses[p].stage \in Holding, presses[p].stage # "aside"
  PROVE  Sound(files)
<1>1. running # 0
  BY DEF UpdateInv, LockInv, Holding, Idle
<1>2. \A x \in Presses : presses[x].stage # "aside"
  BY DEF UpdateInv, LockInv, Holding
<1>3. There("self") \/ (rollback = "aside" /\ There("failed"))
  BY <1>1, <1>2 DEF UpdateInv, MissingInv
<1> QED
  BY <1>3 DEF Sound, UpdateInv, StagedInv, UpdateLeavesAProgram, UpdateTypeOK, OnlyChecked, There

\* Every way out of an install that put nothing in place.
LEMMA GiveUpStep ==
  ASSUME UpdateInv, NEW p \in Presses, presses[p].stage \in Holding, NEW left, Sound(left),
         NEW stage \in {"failed", "already"}, GiveUp(p, left, stage)
  PROVE  UpdateInv'
<1>1. /\ presses' \in [Presses -> Press]
      /\ \A x \in Presses : x # p => presses'[x] = presses[x]
      /\ presses'[p].stage = stage /\ presses'[p].release = presses[p].release
      /\ presses[p].release \in Versions /\ presses'[p] # Idle
  BY StageStep DEF Stages, GiveUp, Holding
<1>2. Absent \in Binary
  BY UpdateAssumption DEF Absent, Binary
<1>3. /\ files' \in [Places -> Binary]
      /\ files'["new"] = Absent /\ \A f \in Kept : files'[f] = left[f]
  BY <1>2 DEF GiveUp, Sound, Places, Kept
<1>4. \A f \in Places : files'[f] = Absent \/ files'[f].version \in Versions
  BY <1>3 DEF Sound, Places
<1>5. \A x \in Presses : presses[x].stage \in Holding => x = p
  BY DEF UpdateInv, LockInv
<1>6. UpdateLeavesAProgram'
  <2>1. UpdateTypeOK'
    BY <1>1, <1>3 DEF GiveUp, UpdateInv, UpdateLeavesAProgram, UpdateTypeOK, Press, Stages
  <2>2. OnlyChecked'
    BY <1>3 DEF OnlyChecked, There, Sound
  <2>3. NeverWithout'
    BY <1>3 DEF NeverWithout, There, Sound, Kept
  <2>4. NoWarningLeft'
    BY <1>1 DEF NoWarningLeft
  <2> QED
    BY <2>1, <2>2, <2>3, <2>4 DEF UpdateLeavesAProgram
<1>7. LockInv'
  <2>1. installing' = Nobody /\ Nobody \notin Presses /\ running # 0
    BY UpdateAssumption DEF GiveUp, Nobody, UpdateInv, LockInv, Holding, Idle
  <2> QED
    BY <1>1, <1>5, <2>1 DEF GiveUp, UpdateInv, LockInv, Holding, Idle
<1>8. StagedInv'
  BY <1>1, <1>4, <1>5 DEF StagedInv, Holding
<1>9. MissingInv'
  BY <1>3 DEF MissingInv, There, Sound, GiveUp, Kept
<1> QED
  BY <1>6, <1>7, <1>8, <1>9 DEF UpdateInv

LEMMA SumsInv ==
  ASSUME UpdateInv, NEW p \in Presses, Sums(p)
  PROVE  UpdateInv'
<1>1. presses[p].stage = "locked" /\ Sound(files)
  BY SoundAsTheyAre DEF Sums, Holding
<1>2. CASE GiveUp(p, files, "failed") \/ GiveUp(p, files, "already")
  BY <1>1, <1>2, GiveUpStep DEF Holding
<1>3. CASE At(p, "summed") /\ UNCHANGED <<files, pendingVersion, running, started, feed, cached, installing,
                                          banner, rollback>>
  BY <1>1, <1>3, HoldStep
<1> QED
  BY <1>2, <1>3 DEF Sums

LEMMA RunnableInv ==
  ASSUME UpdateInv, NEW p \in Presses, Runnable(p)
  PROVE  UpdateInv'
<1>1. presses[p].stage = "loaded" /\ Sound(files)
  BY SoundAsTheyAre DEF Runnable, Holding
<1>2. CASE GiveUp(p, files, "failed")
  BY <1>1, <1>2, GiveUpStep DEF Holding
<1>3. CASE /\ files["new"] = Whole(presses[p].release) /\ presses[p].release \notin Broken
           /\ At(p, "checked")
           /\ UNCHANGED <<files, pendingVersion, running, started, feed, cached, installing, banner, rollback>>
  BY <1>1, <1>3, HoldStep
<1> QED
  BY <1>2, <1>3 DEF Runnable

\* The files an install moves between being asked for and being in place.
LEMMA FilesStep ==
  ASSUME UpdateInv, NEW p \in Presses, presses[p].stage \in Holding,
         NEW stage \in {"loading", "loaded", "cleared", "aside", "placed"}, At(p, stage),
         files' \in [Places -> Binary],
         \A f \in Places : files'[f] = Absent \/ files'[f].version \in Versions,
         \A f \in Kept : files'[f] # Absent => files'[f].whole /\ files'[f].version \notin Broken,
         \/ files'["self"] # Absent
         \/ rollback = "aside" /\ files'["failed"] # Absent
         \/ stage = "aside" /\ files'["old"] # Absent,
         stage \in {"cleared", "aside"} =>
           /\ files'["new"] = files["new"] /\ presses[p].stage \in {"checked", "cleared", "aside"},
         UNCHANGED <<pendingVersion, running, started, feed, cached, installing, banner, rollback>>
  PROVE  UpdateInv'
<1>1. /\ presses' \in [Presses -> Press]
      /\ \A x \in Presses : x # p => presses'[x] = presses[x]
      /\ presses'[p].stage = stage /\ presses'[p].release = presses[p].release
      /\ presses[p].release \in Versions /\ presses'[p] # Idle
  BY StageStep DEF Stages, Holding
<1>2. \A x \in Presses : presses[x].stage \in Holding => x = p
  BY DEF UpdateInv, LockInv
<1>3. UpdateTypeOK'
  BY <1>1 DEF UpdateInv, UpdateLeavesAProgram, UpdateTypeOK, Press, Stages
<1>4. OnlyChecked' /\ NeverWithout' /\ NoWarningLeft'
  BY <1>1 DEF OnlyChecked, NeverWithout, NoWarningLeft, There, Kept
<1>5. LockInv'
  BY <1>1, <1>2 DEF UpdateInv, LockInv, Holding, Idle
<1>6. StagedInv'
  <2>1. stage \in {"cleared", "aside"} =>
          files'["new"] \in {Absent, Whole(presses[p].release)} /\ presses[p].release \notin Broken
    BY DEF UpdateInv, StagedInv
  <2> QED
    BY <1>1, <1>2, <2>1 DEF StagedInv, Holding
<1>7. MissingInv'
  BY <1>1 DEF MissingInv, There
<1> QED
  BY <1>3, <1>4, <1>5, <1>6, <1>7 DEF UpdateInv, UpdateLeavesAProgram

LEMMA DownloadInv ==
  ASSUME UpdateInv, NEW p \in Presses, Download(p)
  PROVE  UpdateInv'
<1> DEFINE part == [version |-> presses[p].release, whole |-> FALSE]
<1>1. presses[p].stage = "summed" /\ Sound(files) /\ presses[p].release \in Versions
  BY SoundAsTheyAre DEF Download, Holding, UpdateInv, LockInv
<1>2. part \in Binary /\ part.version \in Versions
  BY <1>1 DEF Binary, Versions
<1>3. files' = [files EXCEPT !["new"] = part]
  BY DEF Download
<1> HIDE DEF part
<1>4. /\ files' \in [Places -> Binary] /\ files'["new"] = part
      /\ \A f \in Kept : files'[f] = files[f]
  BY <1>1, <1>2, <1>3 DEF Sound, Places, Kept
<1>5. \A f \in Places : files'[f] = Absent \/ files'[f].version \in Versions
  BY <1>1, <1>2, <1>4 DEF Sound, Places
<1> QED
  BY <1>1, <1>4, <1>5, FilesStep DEF Download, Sound, Kept, Holding

LEMMA DownloadedInv ==
  ASSUME UpdateInv, NEW p \in Presses, Downloaded(p)
  PROVE  UpdateInv'
<1>1. presses[p].stage = "loading" /\ presses[p].stage \in Holding /\ Sound(files)
  BY SoundAsTheyAre DEF Downloaded, Holding
<1>2. CASE GiveUp(p, files, "failed")
  BY <1>1, <1>2, GiveUpStep
<1>3. CASE /\ files' = IF There("new") THEN [files EXCEPT !["new"].whole = TRUE] ELSE files
           /\ At(p, "loaded")
           /\ UNCHANGED <<pendingVersion, running, started, feed, cached, installing, banner, rollback>>
  <2>1. /\ files' \in [Places -> Binary]
        /\ \A f \in Kept : files'[f] = files[f]
        /\ files'["new"] = files["new"] \/ (There("new") /\ files'["new"].version = files["new"].version)
    BY <1>1, <1>3 DEF Sound, Places, Kept, Binary
  <2>2. \A f \in Places : files'[f] = Absent \/ files'[f].version \in Versions
    BY <1>1, <2>1 DEF Sound, Places, There
  <2> QED
    BY <1>1, <1>3, <2>1, <2>2, FilesStep DEF Sound, Kept
<1> QED
  BY <1>2, <1>3 DEF Downloaded

\* A file takes another's name.
LEMMA RenamedFiles ==
  ASSUME UpdateInv, NEW from \in Places, NEW to \in Places, from # to
  PROVE  /\ Renamed(from, to) \in [Places -> Binary]
         /\ Renamed(from, to)[to] = files[from] /\ Renamed(from, to)[from] = Absent
         /\ \A f \in Places \ {from, to} : Renamed(from, to)[f] = files[f]
         /\ \A f \in Places : Renamed(from, to)[f] = Absent \/ Renamed(from, to)[f].version \in Versions
<1>1. Absent \in Binary /\ files \in [Places -> Binary]
  BY UpdateAssumption DEF Absent, Binary, UpdateInv, UpdateLeavesAProgram, UpdateTypeOK
<1>2. /\ Renamed(from, to) \in [Places -> Binary]
      /\ Renamed(from, to)[to] = files[from] /\ Renamed(from, to)[from] = Absent
      /\ \A f \in Places \ {from, to} : Renamed(from, to)[f] = files[f]
  BY <1>1 DEF Renamed
<1>3. \A f \in Places : files[f] = Absent \/ files[f].version \in Versions
  BY DEF UpdateInv, StagedInv
<1>4. ASSUME NEW f \in Places
      PROVE  Renamed(from, to)[f] = Absent \/ Renamed(from, to)[f].version \in Versions
  BY <1>2, <1>3
<1> QED
  BY <1>2, <1>4

LEMMA RemovedFiles ==
  ASSUME UpdateInv, NEW place \in Places
  PROVE  /\ Removed(place) \in [Places -> Binary]
         /\ Removed(place)[place] = Absent
         /\ \A f \in Places \ {place} : Removed(place)[f] = files[f]
         /\ \A f \in Places : Removed(place)[f] = Absent \/ Removed(place)[f].version \in Versions
<1>1. Absent \in Binary /\ files \in [Places -> Binary]
  BY UpdateAssumption DEF Absent, Binary, UpdateInv, UpdateLeavesAProgram, UpdateTypeOK
<1>2. /\ Removed(place) \in [Places -> Binary] /\ Removed(place)[place] = Absent
      /\ \A f \in Places \ {place} : Removed(place)[f] = files[f]
  BY <1>1 DEF Removed
<1>3. \A f \in Places : files[f] = Absent \/ files[f].version \in Versions
  BY DEF UpdateInv, StagedInv
<1>4. ASSUME NEW f \in Places PROVE Removed(place)[f] = Absent \/ Removed(place)[f].version \in Versions
  BY <1>2, <1>3
<1> QED
  BY <1>2, <1>4

LEMMA RemoveOldInv ==
  ASSUME UpdateInv, NEW p \in Presses, RemoveOld(p)
  PROVE  UpdateInv'
<1>1. presses[p].stage = "checked" /\ presses[p].stage \in Holding /\ Sound(files)
  BY SoundAsTheyAre DEF RemoveOld, Holding
<1>2. /\ files' \in [Places -> Binary] /\ files'["old"] = Absent
      /\ \A f \in Places \ {"old"} : files'[f] = files[f]
      /\ \A f \in Places : files'[f] = Absent \/ files'[f].version \in Versions
  BY RemovedFiles DEF RemoveOld, Places, Kept
<1> QED
  BY <1>1, <1>2, FilesStep DEF RemoveOld, Sound, Kept, Places

LEMMA MoveAsideInv ==
  ASSUME UpdateInv, NEW p \in Presses, MoveAside(p)
  PROVE  UpdateInv'
<1>1. presses[p].stage = "cleared" /\ presses[p].stage \in Holding /\ Sound(files)
  BY SoundAsTheyAre DEF MoveAside, Holding
<1>2. CASE GiveUp(p, files, "failed")
  BY <1>1, <1>2, GiveUpStep
<1>3. CASE /\ There("self") /\ files' = Renamed("self", "old") /\ At(p, "aside")
           /\ UNCHANGED <<pendingVersion, running, started, feed, cached, installing, banner, rollback>>
  <2>1. /\ files' \in [Places -> Binary]
        /\ files'["old"] = files["self"] /\ files'["self"] = Absent
        /\ \A f \in Places \ {"self", "old"} : files'[f] = files[f]
        /\ \A f \in Places : files'[f] = Absent \/ files'[f].version \in Versions
    BY <1>3, RenamedFiles DEF Places, Kept
  <2>2. \A f \in Kept : files'[f] # Absent => files'[f].whole /\ files'[f].version \notin Broken
    BY <1>1, <2>1 DEF Sound, Kept, Places
  <2>3. files'["new"] = files["new"] /\ files'["old"] # Absent
    BY <1>3, <2>1 DEF Places, Kept, There
  <2> QED
    BY <1>1, <1>3, <2>1, <2>2, <2>3, FilesStep
<1> QED
  BY <1>2, <1>3 DEF MoveAside

LEMMA PutInPlaceInv ==
  ASSUME UpdateInv, NEW p \in Presses, PutInPlace(p)
  PROVE  UpdateInv'
<1>1. /\ presses[p].stage = "aside" /\ presses[p].stage \in Holding /\ running # 0
      /\ files \in [Places -> Binary]
      /\ \A f \in Places : files[f] = Absent \/ files[f].version \in Versions
      /\ \A f \in Kept : files[f] # Absent => files[f].whole /\ files[f].version \notin Broken
      /\ \/ files["self"] # Absent \/ files["old"] # Absent
         \/ rollback = "aside" /\ files["failed"] # Absent
  BY DEF PutInPlace, Holding, Idle, There, OnlyChecked, UpdateInv, LockInv, StagedInv, MissingInv,
         UpdateLeavesAProgram, UpdateTypeOK
<1>2. CASE GiveUp(p, IF There("old") THEN Renamed("old", "self") ELSE files, "failed")
  <2> DEFINE left == IF There("old") THEN Renamed("old", "self") ELSE files
  <2>1. CASE There("old")
    <3>1. /\ left \in [Places -> Binary]
          /\ left["self"] = files["old"] /\ left["old"] = Absent /\ left["failed"] = files["failed"]
          /\ \A f \in Places : left[f] = Absent \/ left[f].version \in Versions
      BY <2>1, RenamedFiles DEF Places, Kept
    <3> HIDE DEF left
    <3>2. Sound(left)
      BY <1>1, <2>1, <3>1 DEF Sound, There, Kept
    <3> QED
      BY <1>1, <1>2, <3>2, GiveUpStep DEF left
  <2>2. CASE ~There("old")
    <3>1. Sound(files)
      BY <1>1, <2>2 DEF Sound, There
    <3> QED
      BY <1>1, <1>2, <2>2, <3>1, GiveUpStep
  <2> QED
    BY <2>1, <2>2
<1>3. CASE /\ There("new") /\ files' = Renamed("new", "self") /\ At(p, "placed")
           /\ UNCHANGED <<pendingVersion, running, started, feed, cached, installing, banner, rollback>>
  <2>1. /\ files' \in [Places -> Binary]
        /\ files'["self"] = files["new"] /\ files'["new"] = Absent
        /\ \A f \in Places \ {"self", "new"} : files'[f] = files[f]
        /\ \A f \in Places : files'[f] = Absent \/ files'[f].version \in Versions
    BY <1>3, RenamedFiles DEF Places, Kept
  <2>2. files["new"] = Whole(presses[p].release) /\ presses[p].release \notin Broken
    BY <1>1, <1>3 DEF UpdateInv, StagedInv, There
  <2>3. files'["self"].whole /\ files'["self"].version \notin Broken /\ files'["self"] # Absent
    BY <1>3, <2>1, <2>2 DEF Whole, There
  <2>4. \A f \in Kept : files'[f] # Absent => files'[f].whole /\ files'[f].version \notin Broken
    BY <1>1, <2>1, <2>3 DEF Kept, Places
  <2> QED
    BY <1>1, <1>3, <2>1, <2>3, <2>4, FilesStep
<1> QED
  BY <1>2, <1>3 DEF PutInPlace

\* Whether the note can be written or not, the install has ended.
LEMMA MarkPendingInv ==
  ASSUME UpdateInv, NEW p \in Presses, MarkPending(p)
  PROVE  UpdateInv'
<1>1. /\ presses[p].stage = "placed" /\ presses[p].stage \in Holding /\ Sound(files) /\ running # 0
      /\ installing' = Nobody /\ Nobody \notin Presses
  BY SoundAsTheyAre, UpdateAssumption DEF MarkPending, Holding, Nobody, UpdateInv, LockInv, Idle
<1>2. /\ presses' \in [Presses -> Press]
      /\ \A x \in Presses : x # p => presses'[x] = presses[x]
      /\ presses'[p].stage = "installed" /\ presses'[p].release = presses[p].release
      /\ presses[p].release \in Versions /\ presses'[p] # Idle
  BY <1>1, StageStep DEF MarkPending, Stages
<1>3. /\ files' \in [Places -> Binary]
      /\ \A f \in Kept : files'[f] = files[f]
      /\ \A f \in Places : files'[f] = Absent \/ files'[f].version \in Versions
  BY RemovedFiles DEF MarkPending, Places, Kept
<1>4. \A x \in Presses : presses[x].stage \in Holding => x = p
  BY <1>1 DEF UpdateInv, LockInv
<1>5. pendingVersion' \in 0 .. LastVersion
  BY <1>2 DEF MarkPending, UpdateInv, UpdateLeavesAProgram, UpdateTypeOK, Versions
<1>6. UpdateTypeOK'
  BY <1>2, <1>3, <1>5 DEF MarkPending, UpdateInv, UpdateLeavesAProgram, UpdateTypeOK, Press, Stages
<1>7. OnlyChecked' /\ NeverWithout' /\ NoWarningLeft'
  BY <1>1, <1>2, <1>3 DEF Sound, OnlyChecked, NeverWithout, NoWarningLeft, There, Kept
<1>8. LockInv'
  BY <1>1, <1>2, <1>4 DEF MarkPending, UpdateInv, LockInv, Holding, Idle
<1>9. StagedInv'
  BY <1>2, <1>3, <1>4 DEF StagedInv, Holding
<1>10. MissingInv'
  BY <1>1, <1>3 DEF MarkPending, MissingInv, Sound, There, Kept
<1> QED
  BY <1>6, <1>7, <1>8, <1>9, <1>10 DEF UpdateInv, UpdateLeavesAProgram

\* A press starts, or is turned away while another holds the lock: a warning stands then
\* only while some press is still under way.
LEMMA ApplyInv ==
  ASSUME UpdateInv, NEW p \in Presses, Apply(p)
  PROVE  UpdateInv'
<1>1. PICK release \in LatestAnswers :
        /\ cached' = release /\ Newer(running, release)
        /\ presses' = [presses EXCEPT ![p] = [stage |-> "announced", release |-> release]]
  BY DEF Apply
<1>2. running \in 0 .. LastVersion /\ feed \in Versions /\ cached \in 0 .. LastVersion
      /\ presses \in [Presses -> Press]
  BY DEF UpdateInv, UpdateLeavesAProgram, UpdateTypeOK, Press, Stages
<1>3. release \in Versions
  BY <1>2, UpdateAssumption DEF LatestAnswers, Versions
<1>4. [stage |-> "announced", release |-> release] \in Press
  BY <1>3, UpdateAssumption DEF Press, Stages, Versions
<1>5. /\ presses' \in [Presses -> Press]
      /\ \A x \in Presses : x # p => presses'[x] = presses[x]
      /\ presses'[p].stage = "announced" /\ presses'[p].release = release /\ presses'[p] # Idle
  BY <1>1, <1>2, <1>4 DEF Idle
<1>6. presses[p].stage = "idle" /\ running # 0
  BY DEF Apply, Idle
<1>7. cached' \in 0 .. LastVersion
  BY <1>1, <1>3, UpdateAssumption DEF Versions
<1>8. UpdateTypeOK'
  BY <1>5, <1>7 DEF Apply, UpdateInv, UpdateLeavesAProgram, UpdateTypeOK, Press, Stages
<1>9. OnlyChecked' /\ NeverWithout' /\ NoWarningLeft'
  BY <1>5 DEF Apply, UpdateInv, UpdateLeavesAProgram, OnlyChecked, NeverWithout, NoWarningLeft, There
<1>10. LockInv'
  BY <1>3, <1>5, <1>6 DEF Apply, UpdateInv, LockInv, Holding, Idle
<1>11. StagedInv'
  BY <1>5 DEF Apply, UpdateInv, StagedInv
<1>12. MissingInv'
  <2>1. \A x \in Presses : presses[x].stage = "aside" => presses'[x].stage = "aside"
    BY <1>5, <1>6
  <2> QED
    BY <2>1 DEF Apply, UpdateInv, MissingInv, There
<1> QED
  BY <1>8, <1>9, <1>10, <1>11, <1>12 DEF UpdateInv, UpdateLeavesAProgram

LEMMA TakeLockInv ==
  ASSUME UpdateInv, NEW p \in Presses, TakeLock(p)
  PROVE  UpdateInv'
<1>1. CASE installing = Nobody /\ installing' = p /\ At(p, "locked")
  <2>1. /\ presses' \in [Presses -> Press]
        /\ \A x \in Presses : x # p => presses'[x] = presses[x]
        /\ presses'[p].stage = "locked" /\ presses'[p].release = presses[p].release
        /\ presses[p].release \in Versions /\ presses'[p] # Idle
    BY <1>1, StageStep DEF TakeLock, Stages
  <2>2. Nobody \notin Presses /\ presses[p].stage = "announced" /\ presses[p] # Idle
    BY UpdateAssumption DEF Nobody, TakeLock, Idle
  <2>3. UpdateTypeOK'
    BY <1>1, <2>1 DEF TakeLock, UpdateInv, UpdateLeavesAProgram, UpdateTypeOK, Press, Stages
  <2>4. OnlyChecked' /\ NeverWithout' /\ NoWarningLeft'
    BY <2>1 DEF TakeLock, UpdateInv, UpdateLeavesAProgram, OnlyChecked, NeverWithout, NoWarningLeft, There
  <2>5. LockInv'
    BY <1>1, <2>1, <2>2 DEF TakeLock, UpdateInv, LockInv, Holding, Idle
  <2>6. StagedInv'
    BY <2>1 DEF TakeLock, UpdateInv, StagedInv
  <2>7. MissingInv'
    <3>1. \A x \in Presses : presses[x].stage = "aside" => presses'[x].stage = "aside"
      BY <2>1, <2>2
    <3> QED
      BY <3>1 DEF TakeLock, UpdateInv, MissingInv, There
  <2> QED
    BY <2>3, <2>4, <2>5, <2>6, <2>7 DEF UpdateInv, UpdateLeavesAProgram
<1>2. CASE installing # Nobody /\ Done(p) /\ UNCHANGED installing
  <2>1. /\ presses' \in [Presses -> Press]
        /\ \A x \in Presses : x # p => presses'[x] = presses[x]
        /\ presses'[p] = Idle /\ presses'[p].stage = "idle"
    BY <1>2, DoneStep
  <2>2. presses[p].stage = "announced" /\ installing \in Presses /\ installing # p
        /\ presses[installing] # Idle
    BY <1>2 DEF TakeLock, UpdateInv, UpdateLeavesAProgram, UpdateTypeOK, LockInv, Holding, Idle
  <2>3. UpdateTypeOK'
    BY <1>2, <2>1 DEF TakeLock, UpdateInv, UpdateLeavesAProgram, UpdateTypeOK, Press, Stages
  <2>4. OnlyChecked' /\ NeverWithout' /\ NoWarningLeft'
    BY <2>1, <2>2 DEF TakeLock, UpdateInv, UpdateLeavesAProgram, OnlyChecked, NeverWithout, NoWarningLeft, There
  <2>5. LockInv'
    BY <1>2, <2>1, <2>2 DEF TakeLock, UpdateInv, LockInv, Holding
  <2>6. StagedInv'
    BY <2>1 DEF TakeLock, UpdateInv, StagedInv
  <2>7. MissingInv'
    <3>1. \A x \in Presses : presses[x].stage = "aside" => presses'[x].stage = "aside"
      BY <2>1, <2>2
    <3> QED
      BY <3>1 DEF TakeLock, UpdateInv, MissingInv, There
  <2> QED
    BY <2>3, <2>4, <2>5, <2>6, <2>7 DEF UpdateInv, UpdateLeavesAProgram
<1> QED
  BY <1>1, <1>2 DEF TakeLock

LEMMA ReportInv ==
  ASSUME UpdateInv, NEW p \in Presses, Report(p)
  PROVE  UpdateInv'
<1>1. /\ presses' \in [Presses -> Press]
      /\ \A x \in Presses : x # p => presses'[x] = presses[x]
      /\ presses'[p] = Idle /\ presses'[p].stage = "idle"
  BY DoneStep DEF Report
<1>2. presses[p].stage \in {"installed", "already", "failed"}
  BY DEF Report
<1>3. banner' \in {"none", "restarting", "pending"}
  BY <1>2 DEF Report
<1>4. UpdateTypeOK'
  BY <1>1, <1>3 DEF Report, UpdateInv, UpdateLeavesAProgram, UpdateTypeOK, Press, Stages
<1>5. OnlyChecked' /\ NeverWithout' /\ NoWarningLeft'
  BY <1>3 DEF Report, UpdateInv, UpdateLeavesAProgram, OnlyChecked, NeverWithout, NoWarningLeft, There
<1>6. LockInv'
  BY <1>1, <1>2 DEF Report, UpdateInv, LockInv, Holding, Idle
<1>7. StagedInv'
  BY <1>1 DEF Report, UpdateInv, StagedInv
<1>8. MissingInv'
  <2>1. \A x \in Presses : presses[x].stage = "aside" => presses'[x].stage = "aside"
    BY <1>1, <1>2
  <2> QED
    BY <2>1 DEF Report, UpdateInv, MissingInv, There
<1> QED
  BY <1>4, <1>5, <1>6, <1>7, <1>8 DEF UpdateInv, UpdateLeavesAProgram

-----------------------------------------------------------------------------
LEMMA FeedInv ==
  ASSUME UpdateInv, Publish \/ Check
  PROVE  UpdateInv'
<1>1. feed' \in Versions /\ cached' \in 0 .. LastVersion
  BY UpdateAssumption DEF Publish, Check, UpdateInv, UpdateLeavesAProgram, UpdateTypeOK, Versions
<1>2. UpdateTypeOK'
  BY <1>1 DEF Publish, Check, UpdateInv, UpdateLeavesAProgram, UpdateTypeOK
<1> QED
  BY <1>2 DEF Publish, Check, UpdateInv, UpdateLeavesAProgram, OnlyChecked, NeverWithout, NoWarningLeft,
              There, LockInv, StagedInv, MissingInv

\* The end of a process takes every press with it, and leaves the files.
LEMMA CrashInv ==
  ASSUME UpdateInv, Crash
  PROVE  UpdateInv'
<1>1. /\ presses' = [p \in Presses |-> Idle] /\ installing' = Nobody /\ running' = 0 /\ cached' = 0
      /\ banner' = "none" /\ files' = files /\ rollback' \in {rollback, "idle"}
  BY DEF Crash, ProcessGone
<1>2. Idle \in Press /\ 0 \in 0 .. LastVersion /\ Nobody \notin Presses
  BY UpdateAssumption DEF Idle, Press, Stages, Nobody
<1>3. presses' \in [Presses -> Press] /\ \A p \in Presses : presses'[p] = Idle /\ presses'[p].stage = "idle"
  BY <1>1, <1>2 DEF Idle
<1>4. UpdateTypeOK'
  BY <1>1, <1>2, <1>3 DEF Crash, UpdateInv, UpdateLeavesAProgram, UpdateTypeOK, Press, Stages
<1>5. OnlyChecked' /\ NeverWithout' /\ NoWarningLeft'
  BY <1>1 DEF UpdateInv, UpdateLeavesAProgram, OnlyChecked, NeverWithout, NoWarningLeft, There
<1>6. LockInv' /\ StagedInv'
  BY <1>1, <1>2, <1>3 DEF UpdateInv, LockInv, StagedInv, Holding
<1>7. MissingInv'
  BY <1>1 DEF UpdateInv, MissingInv, There
<1> QED
  BY <1>4, <1>5, <1>6, <1>7 DEF UpdateInv, UpdateLeavesAProgram

\* What a start removes is only what was staged, and it starts what is at its own path.
LEMMA CleanedFiles ==
  ASSUME UpdateInv, Cleanup
  PROVE  /\ files' \in [Places -> Binary] /\ files'["new"] = Absent
         /\ \A f \in Kept : files'[f] = files[f]
         /\ \A f \in Places : files'[f] = Absent \/ files'[f].version \in Versions
         /\ pendingVersion' \in 0 .. LastVersion
         /\ files["self"].whole => There("self") /\ files["self"].version \in Versions
<1>1. /\ files' \in [Places -> Binary] /\ files'["new"] = Absent
      /\ \A f \in Places \ {"new"} : files'[f] = files[f]
      /\ \A f \in Places : files'[f] = Absent \/ files'[f].version \in Versions
  BY RemovedFiles DEF Cleanup, Places, Kept
<1>2. files["self"].whole => There("self")
  BY DEF There, Absent
<1>3. files["self"].whole => files["self"].version \in Versions
  BY <1>2 DEF There, UpdateInv, StagedInv, Places, Kept
<1> QED
  BY <1>1, <1>2, <1>3, UpdateAssumption DEF Cleanup, Places, Kept

LEMMA StartInvKept ==
  ASSUME UpdateInv, Start \/ RestartUpdated
  PROVE  UpdateInv'
<1>1. /\ Cleanup /\ files["self"].whole /\ running' = files["self"].version /\ feed' = feed
      /\ started' = started \cup {files["self"].version} /\ rollback' = rollback
  BY DEF Start, RestartUpdated
<1>2. /\ files' \in [Places -> Binary] /\ files'["new"] = Absent
      /\ \A f \in Kept : files'[f] = files[f]
      /\ \A f \in Places : files'[f] = Absent \/ files'[f].version \in Versions
      /\ pendingVersion' \in 0 .. LastVersion
      /\ There("self") /\ files["self"].version \in Versions
  BY <1>1, CleanedFiles
<1>3. /\ \A p \in Presses : presses'[p] = Idle /\ presses'[p].stage = "idle"
      /\ presses' \in [Presses -> Press]
      /\ installing' = Nobody /\ Nobody \notin Presses
      /\ banner' # "installing"
      /\ banner' \in {"none", "installing", "restarting", "pending"} /\ cached' \in 0 .. LastVersion
  <2>1. CASE Start
    BY <2>1, UpdateAssumption
    DEF Start, UpdateInv, LockInv, Idle, Nobody, UpdateLeavesAProgram, NoWarningLeft, UpdateTypeOK, Press, Stages
  <2>2. CASE RestartUpdated
    BY <2>2, UpdateAssumption DEF RestartUpdated, ProcessGone, Idle, Nobody, Press, Stages
  <2> QED
    BY <2>1, <2>2
<1>4. running' \in Versions /\ running' \in 0 .. LastVersion /\ running' # 0 /\ started' \subseteq Versions
  <2>1. running' \in 1 .. LastVersion
    BY <1>1, <1>2 DEF Versions
  <2>2. started' \subseteq Versions
    BY <1>1, <1>2 DEF UpdateInv, UpdateLeavesAProgram, UpdateTypeOK
  <2> QED
    BY <2>1, <2>2, UpdateAssumption DEF Versions
<1>5. UpdateTypeOK'
  BY <1>1, <1>2, <1>3, <1>4 DEF UpdateInv, UpdateLeavesAProgram, UpdateTypeOK, Press, Stages
<1>6. OnlyChecked' /\ NeverWithout' /\ NoWarningLeft'
  BY <1>2, <1>3 DEF UpdateInv, UpdateLeavesAProgram, OnlyChecked, NeverWithout, NoWarningLeft, There, Kept
<1>7. LockInv' /\ StagedInv'
  BY <1>2, <1>3, <1>4 DEF LockInv, StagedInv, Holding
<1>8. MissingInv'
  BY <1>2 DEF MissingInv, There, Kept
<1> QED
  BY <1>5, <1>6, <1>7, <1>8 DEF UpdateInv, UpdateLeavesAProgram

LEMMA SecondCopyInv ==
  ASSUME UpdateInv, SecondCopy
  PROVE  UpdateInv'
<1>1. /\ files' \in [Places -> Binary] /\ files'["new"] = Absent
      /\ \A f \in Kept : files'[f] = files[f]
      /\ \A f \in Places : files'[f] = Absent \/ files'[f].version \in Versions
      /\ pendingVersion' \in 0 .. LastVersion
  BY CleanedFiles DEF SecondCopy
<1>2. UpdateTypeOK'
  BY <1>1 DEF SecondCopy, UpdateInv, UpdateLeavesAProgram, UpdateTypeOK
<1>3. OnlyChecked' /\ NeverWithout' /\ NoWarningLeft'
  BY <1>1 DEF SecondCopy, UpdateInv, UpdateLeavesAProgram, OnlyChecked, NeverWithout, NoWarningLeft, There
<1>4. LockInv' /\ StagedInv'
  BY <1>1 DEF SecondCopy, UpdateInv, LockInv, StagedInv
<1>5. MissingInv'
  BY <1>1 DEF SecondCopy, UpdateInv, MissingInv, There, Kept
<1> QED
  BY <1>2, <1>3, <1>4, <1>5 DEF UpdateInv, UpdateLeavesAProgram

\* A rollback moves whole, checked files and nothing else; the presses do not notice.
LEMMA RollbackStep ==
  ASSUME UpdateInv, rollback' \in {"idle", "looked", "aside", "back"},
         files' \in [Places -> Binary],
         \A f \in Places : files'[f] = Absent \/ files'[f].version \in Versions,
         files'["new"] = files["new"],
         \A f \in Kept : files'[f] # Absent => files'[f].whole /\ files'[f].version \notin Broken,
         \E f \in Kept : files'[f] # Absent,
         MissingInv', pendingVersion' \in {pendingVersion, 0},
         UNCHANGED <<running, started, feed, cached, installing, banner, presses>>
  PROVE  UpdateInv'
<1>1. UpdateTypeOK'
  BY UpdateAssumption DEF UpdateInv, UpdateLeavesAProgram, UpdateTypeOK
<1>2. OnlyChecked' /\ NeverWithout' /\ NoWarningLeft'
  BY DEF UpdateInv, UpdateLeavesAProgram, OnlyChecked, NeverWithout, NoWarningLeft, There
<1>3. LockInv' /\ StagedInv'
  BY DEF UpdateInv, LockInv, StagedInv
<1> QED
  BY <1>1, <1>2, <1>3 DEF UpdateInv, UpdateLeavesAProgram

\* The files as they are, by what the invariant says of them.
LEMMA FilesNow ==
  ASSUME UpdateInv
  PROVE  /\ files \in [Places -> Binary]
         /\ \A f \in Places : files[f] = Absent \/ files[f].version \in Versions
         /\ \A f \in Kept : files[f] # Absent => files[f].whole /\ files[f].version \notin Broken
         /\ \E f \in Kept : files[f] # Absent
BY DEF UpdateInv, UpdateLeavesAProgram, UpdateTypeOK, OnlyChecked, NeverWithout, StagedInv, There

LEMMA RollbackEndsInv ==
  ASSUME UpdateInv, RollbackLook \/ RollbackDone
  PROVE  UpdateInv'
<1>1. MissingInv'
  BY DEF UpdateInv, MissingInv, RollbackLook, RollbackDone, There
<1> QED
  BY <1>1, FilesNow, RollbackStep DEF RollbackLook, RollbackDone

LEMMA RollbackAsideInv ==
  ASSUME UpdateInv, RollbackAside
  PROVE  UpdateInv'
<1>1. CASE There("self") /\ files' = Renamed("self", "failed")
  <2>1. /\ files' \in [Places -> Binary]
        /\ files'["failed"] = files["self"] /\ files'["self"] = Absent
        /\ files'["new"] = files["new"] /\ files'["old"] = files["old"]
        /\ \A f \in Places : files'[f] = Absent \/ files'[f].version \in Versions
    BY <1>1, RenamedFiles DEF Places, Kept
  <2>2. \A f \in Kept : files'[f] # Absent => files'[f].whole /\ files'[f].version \notin Broken
    BY <2>1, FilesNow DEF Kept
  <2>3. files'["failed"] # Absent
    BY <1>1, <2>1 DEF There
  <2>4. MissingInv'
    BY <2>3 DEF RollbackAside, MissingInv, There
  <2> QED
    BY <2>1, <2>2, <2>3, <2>4, RollbackStep DEF RollbackAside, Kept
<1>2. CASE ~There("self") /\ files' = Removed("failed")
  <2>1. /\ files' \in [Places -> Binary] /\ files'["failed"] = Absent
        /\ files'["self"] = files["self"] /\ files'["new"] = files["new"] /\ files'["old"] = files["old"]
        /\ \A f \in Places : files'[f] = Absent \/ files'[f].version \in Versions
    BY <1>2, RemovedFiles DEF Places, Kept
  <2>2. \A f \in Kept : files'[f] # Absent => files'[f].whole /\ files'[f].version \notin Broken
    BY <2>1, FilesNow DEF Kept
  <2>3. files'["old"] # Absent
    BY <1>2, <2>1 DEF UpdateInv, MissingInv, RollbackAside, There
  <2>4. MissingInv'
    BY <1>2, <2>1, <2>3 DEF UpdateInv, MissingInv, RollbackAside, There
  <2> QED
    BY <2>1, <2>2, <2>3, <2>4, RollbackStep DEF RollbackAside, Kept
<1> QED
  BY <1>1, <1>2 DEF RollbackAside

LEMMA RollbackBackInv ==
  ASSUME UpdateInv, RollbackBack
  PROVE  UpdateInv'
<1>1. ASSUME NEW from \in {"old", "failed"}, There(from), files' = Renamed(from, "self") PROVE UpdateInv'
  <2>1. /\ files' \in [Places -> Binary]
        /\ files'["self"] = files[from] /\ files'[from] = Absent /\ files'["new"] = files["new"]
        /\ \A f \in Places \ {from, "self"} : files'[f] = files[f]
        /\ \A f \in Places : files'[f] = Absent \/ files'[f].version \in Versions
    BY <1>1, RenamedFiles DEF Places, Kept
  <2>2. \A f \in Kept : files'[f] # Absent => files'[f].whole /\ files'[f].version \notin Broken
    BY <1>1, <2>1, FilesNow DEF Kept, Places
  <2>3. files'["self"] # Absent
    BY <1>1, <2>1 DEF There
  <2>4. MissingInv'
    BY <2>3 DEF MissingInv, There
  <2> QED
    BY <2>1, <2>2, <2>3, <2>4, RollbackStep DEF RollbackBack, Kept
<1>2. CASE ~There("old") /\ ~There("failed") /\ files' = files
  <2>1. There("self")
    BY <1>2, FilesNow DEF Kept, There
  <2>2. MissingInv'
    BY <1>2, <2>1 DEF MissingInv, There
  <2> QED
    BY <1>2, <2>2, FilesNow, RollbackStep DEF RollbackBack
<1> QED
  BY <1>1, <1>2 DEF RollbackBack

LEMMA UpdateInvInvariant == UpdateSpec => []UpdateInv
<1>1. UpdateInv /\ [UpdateNext]_updateVars => UpdateInv'
  <2> SUFFICES ASSUME UpdateInv, [UpdateNext]_updateVars PROVE UpdateInv'
    OBVIOUS
  <2>1. ASSUME NEW p \in Presses, Install(p) PROVE UpdateInv'
    BY <2>1, ApplyInv, TakeLockInv, SumsInv, DownloadInv, DownloadedInv, RunnableInv, RemoveOldInv,
       MoveAsideInv, PutInPlaceInv, MarkPendingInv, ReportInv DEF Install
  <2>2. CASE UNCHANGED updateVars
    BY <2>2 DEF updateVars, UpdateInv, UpdateLeavesAProgram, UpdateTypeOK, OnlyChecked, NeverWithout,
                NoWarningLeft, There, LockInv, StagedInv, MissingInv
  <2> QED
    BY <2>1, <2>2, FeedInv, CrashInv, StartInvKept, SecondCopyInv, RollbackEndsInv, RollbackAsideInv,
       RollbackBackInv DEF UpdateNext
<1> QED
  BY <1>1, UpdateInitInv, PTL DEF UpdateSpec

\* However many administrators press the button at once, wherever the machine stops in an
\* install or a rollback, and whatever a second copy clears away: a program that runs here is
\* left, nothing unchecked is put in place, and nobody is told to wait for an install that ended.
THEOREM ProgramIsLeft == UpdateSpec => []UpdateLeavesAProgram
<1>1. UpdateInv => UpdateLeavesAProgram
  BY DEF UpdateInv
<1> QED
  BY <1>1, UpdateInvInvariant, PTL

-----------------------------------------------------------------------------
(* The image.                                                              *)

\* Whoever presses, or waits for an answer, has the flag that keeps the next press out.
OneWaits ==
  /\ press.stage # "idle" \/ watcher.stage # "off" => awaiting
  /\ press.stage = "idle" \/ watcher.stage = "off"
  /\ press.stage = "idle" => press = Unasked

\* Nothing in the directory, and nothing the updater works on, is of another request than the last.
OnlyTheLast ==
  /\ requestFile \in {0, requestsPlaced}
  /\ updater.stage \notin {"down", "poll"} => updater.for = requestsPlaced
  /\ result = NoResult \/ result.answers = requestsPlaced

\* A press that found nothing under way: nothing is under way until its request is placed,
\* and from there on everything is about that request.
OwnRequestOnly ==
  /\ press.stage \in {"announced", "cleared"} => requestFile = 0 /\ updater.stage \in {"down", "poll"}
  /\ press.stage = "cleared" => result = NoResult
  /\ press.stage = "placed" => press.for = requestsPlaced /\ OnlyTheLast
  /\ watcher.stage # "off" => watcher.for = requestsPlaced /\ OnlyTheLast

ImageInv == ImageTypeOK /\ OneWaits /\ (fresh => OwnRequestOnly)

Results == [outcome : {"", "ok", "none", "failed"}, answers : Nat]
Watches == [stage : {"off", "waiting", "answered"}, for : Nat]
Asking == [stage : {"idle", "announced", "cleared", "placed"}, for : Nat]
Rounds == [stage : {"down", "poll", "took", "work", "finish", "publish"},
           for : Nat, verdict : {"", "ok", "none", "failed"}]

LEMMA ImageTyped ==
  ImageTypeOK <=> /\ requestFile \in Nat /\ requestsPlaced \in Nat
                  /\ marker \in BOOLEAN /\ alive \in BOOLEAN /\ awaiting \in BOOLEAN /\ fresh \in BOOLEAN
                  /\ result \in Results /\ watcher \in Watches /\ press \in Asking /\ updater \in Rounds
                  /\ notice \in {"none", "installing", "restarting"}
BY DEF ImageTypeOK, Results, Watches, Asking, Rounds

LEMMA Blanks ==
  /\ NoResult \in Results /\ NoWatcher \in Watches /\ Unasked \in Asking /\ Polling \in Rounds
  /\ NoWatcher.stage = "off" /\ Unasked.stage = "idle" /\ Polling.stage = "poll"
BY DEF Results, Watches, Asking, Rounds, NoResult, NoWatcher, Unasked, Polling

\* What becomes of the records that an action changes.
LEMMA Pressed ==
  ASSUME press \in Asking, press' = [press EXCEPT !.stage = "cleared"]
  PROVE  press' \in Asking /\ press'.stage = "cleared" /\ press'.for = press.for
BY DEF Asking

LEMMA Placed ==
  ASSUME requestsPlaced \in Nat, press' = [stage |-> "placed", for |-> requestsPlaced + 1]
  PROVE  press' \in Asking /\ press'.stage = "placed" /\ press'.for = requestsPlaced + 1
BY DEF Asking

LEMMA Waited ==
  ASSUME press \in Asking, watcher' = [stage |-> "waiting", for |-> press.for]
  PROVE  watcher' \in Watches /\ watcher'.stage = "waiting" /\ watcher'.for = press.for
BY DEF Asking, Watches

LEMMA ApplicationAnswers ==
  ASSUME watcher \in Watches, watcher' = [watcher EXCEPT !.stage = "answered"]
  PROVE  watcher' \in Watches /\ watcher'.stage = "answered" /\ watcher'.for = watcher.for
BY DEF Watches

LEMMA Taken ==
  ASSUME requestFile \in Nat, updater' = [stage |-> "took", for |-> requestFile, verdict |-> ""]
  PROVE  updater' \in Rounds /\ updater'.stage = "took" /\ updater'.for = requestFile
BY DEF Rounds

LEMMA Worked ==
  ASSUME updater \in Rounds, NEW stage \in {"work", "publish"}, updater' = [updater EXCEPT !.stage = stage]
  PROVE  updater' \in Rounds /\ updater'.stage = stage /\ updater'.for = updater.for
BY DEF Rounds

LEMMA Judged ==
  ASSUME updater \in Rounds, NEW verdict \in {"none", "failed", "ok"},
         updater' = [updater EXCEPT !.stage = "finish", !.verdict = verdict]
  PROVE  updater' \in Rounds /\ updater'.stage = "finish" /\ updater'.for = updater.for
BY DEF Rounds

LEMMA Published ==
  ASSUME updater \in Rounds, result' = [outcome |-> updater.verdict, answers |-> updater.for]
  PROVE  result' \in Results /\ result'.answers = updater.for
BY DEF Rounds, Results

LEMMA Stopped ==
  ASSUME updater' = [stage |-> "down", for |-> 0, verdict |-> ""]
  PROVE  updater' \in Rounds /\ updater'.stage = "down"
BY DEF Rounds

LEMMA ImageInitInv == ImageInit => ImageInv
<1> SUFFICES ASSUME ImageInit PROVE ImageInv
  OBVIOUS
<1>1. ImageTypeOK
  BY Blanks, ImageTyped DEF ImageInit
<1>2. OneWaits /\ OwnRequestOnly
  BY Blanks DEF ImageInit, OneWaits, OwnRequestOnly
<1> QED
  BY <1>1, <1>2 DEF ImageInv

\* The types, step by step.
LEMMA ImageTypes == ImageTypeOK /\ [ImageNext]_imageVars => ImageTypeOK'
<1> SUFFICES ASSUME ImageTypeOK, [ImageNext]_imageVars PROVE ImageTypeOK'
  OBVIOUS
<1> DEFINE Typed ==
      /\ requestFile \in Nat /\ requestsPlaced \in Nat
      /\ marker \in BOOLEAN /\ alive \in BOOLEAN /\ awaiting \in BOOLEAN /\ fresh \in BOOLEAN
      /\ result \in Results /\ watcher \in Watches /\ press \in Asking /\ updater \in Rounds
      /\ notice \in {"none", "installing", "restarting"}
<1>0. Typed /\ (Typed' => ImageTypeOK')
  BY ImageTyped DEF ImageTypeOK, Results, Watches, Asking, Rounds
<1>1. CASE PressUpdate
  BY <1>0, <1>1 DEF PressUpdate, Asking
<1>2. CASE Ask
  <2>1. press' \in Asking /\ result' \in Results
    BY <1>0, <1>2, Pressed, Blanks DEF Ask
  <2>2. awaiting' \in BOOLEAN /\ notice' \in {"none", "installing", "restarting"}
    BY <1>0, <1>2 DEF Ask
  <2>3. UNCHANGED <<requestFile, marker, alive, watcher, updater, requestsPlaced, fresh>>
    BY <1>2 DEF Ask
  <2> QED
    BY <1>0, <2>1, <2>2, <2>3
<1>3. CASE PlaceRequest
  <2>1. press' \in Asking
    BY <1>0, <1>3, Placed, Blanks DEF PlaceRequest
  <2>2. requestsPlaced' \in Nat /\ requestFile' \in Nat
    BY <1>0, <1>3 DEF PlaceRequest
  <2> QED
    BY <1>0, <1>3, <2>1, <2>2 DEF PlaceRequest
<1>4. CASE TellRestart
  BY <1>0, <1>4, Waited, Blanks DEF TellRestart
<1>5. CASE SeeAnswer
  BY <1>0, <1>5, ApplicationAnswers DEF SeeAnswer
<1>6. CASE ReadOutcome
  BY <1>0, <1>6, Blanks DEF ReadOutcome
<1>7. CASE Deadline
  BY <1>0, <1>7, Blanks DEF Deadline
<1>8. CASE Round
  BY <1>0, <1>8 DEF Round
<1>9. CASE TakeRequest
  BY <1>0, <1>9, Taken, Blanks DEF TakeRequest
<1>10. CASE MarkRunning \/ ClearMarker
  <2>1. updater' \in Rounds
    BY <1>0, <1>10, Worked DEF MarkRunning, ClearMarker
  <2> QED
    BY <1>0, <1>10, <2>1 DEF MarkRunning, ClearMarker
<1>11. CASE Pull
  <2>1. PICK verdict \in {"none", "failed", "ok"} :
          /\ updater' = [updater EXCEPT !.stage = "finish", !.verdict = verdict]
          /\ IF verdict = "ok" THEN ApplicationGone ELSE UNCHANGED <<awaiting, watcher, notice, press>>
    BY <1>11 DEF Pull
  <2>2. awaiting' \in BOOLEAN /\ watcher' \in Watches /\ notice' \in {"none", "installing", "restarting"}
        /\ press' \in Asking
    BY <1>0, <2>1, Blanks DEF ApplicationGone
  <2>3. updater' \in Rounds
    BY <1>0, <2>1, Judged
  <2> QED
    BY <1>0, <1>11, <2>2, <2>3 DEF Pull
<1>12. CASE PublishResult
  BY <1>0, <1>12, Published, Blanks DEF PublishResult
<1>13. CASE Silence
  BY <1>0, <1>13 DEF Silence
<1>14. CASE ApplicationCrash
  BY <1>0, <1>14, Blanks DEF ApplicationCrash, ApplicationGone
<1>15. CASE UpdaterStops \/ UpdaterStarts
  BY <1>0, <1>15, Stopped, Blanks DEF UpdaterStops, UpdaterStarts
<1>16. CASE UNCHANGED imageVars
  BY <1>0, <1>16 DEF imageVars
<1> QED
  BY <1>1, <1>2, <1>3, <1>4, <1>5, <1>6, <1>7, <1>8, <1>9, <1>10, <1>11, <1>12, <1>13, <1>14, <1>15, <1>16
     DEF ImageNext, Application, Updater

\* The application's own steps.
LEMMA ApplicationInv ==
  ASSUME ImageInv, PressUpdate \/ Application
  PROVE  OneWaits' /\ (fresh' => OwnRequestOnly')
<1> USE Blanks DEF ImageInv, OneWaits, OwnRequestOnly, OnlyTheLast
<1>0. press \in Asking /\ watcher \in Watches /\ updater \in Rounds /\ requestsPlaced \in Nat
  BY ImageTyped
<1>1. CASE PressUpdate
  <2>1. press'.stage = "announced" /\ press = Unasked /\ watcher.stage = "off" /\ watcher' = watcher
    BY <1>1 DEF PressUpdate
  <2> QED
    BY <1>1, <2>1 DEF PressUpdate
<1>2. CASE Ask
  <2>1. CASE press' = Unasked
    BY <1>2, <2>1 DEF Ask
  <2>2. CASE press' # Unasked
    <3>1. press'.stage = "cleared" /\ press.stage = "announced" /\ result' = NoResult /\ UNCHANGED awaiting
      BY <1>0, <1>2, <2>2, Pressed DEF Ask
    <3> QED
      BY <1>2, <3>1 DEF Ask
  <2> QED
    BY <2>1, <2>2
<1>3. CASE PlaceRequest
  <2>1. CASE press' = Unasked
    <3>1. watcher.stage = "off" /\ watcher' = watcher
      BY <1>3 DEF PlaceRequest
    <3> QED
      BY <2>1, <3>1
  <2>2. CASE press' # Unasked
    <3>1. /\ press'.stage = "placed" /\ press'.for = requestsPlaced' /\ requestsPlaced' = requestsPlaced + 1
          /\ requestFile' = requestsPlaced' /\ UNCHANGED awaiting
      BY <1>0, <1>3, <2>2, Placed DEF PlaceRequest
    <3> QED
      BY <1>3, <3>1 DEF PlaceRequest
  <2> QED
    BY <2>1, <2>2
<1>4. CASE TellRestart
  <2>1. watcher'.stage = "waiting" /\ watcher'.for = press.for
    BY <1>0, <1>4, Waited DEF TellRestart
  <2> QED
    BY <1>4, <2>1 DEF TellRestart
<1>5. CASE SeeAnswer
  <2>1. watcher'.stage = "answered" /\ watcher'.for = watcher.for
    BY <1>0, <1>5, ApplicationAnswers DEF SeeAnswer
  <2> QED
    BY <1>5, <2>1 DEF SeeAnswer
<1>6. CASE ReadOutcome \/ Deadline
  <2>1. watcher.stage # "off" /\ watcher' = NoWatcher /\ press' = press
    BY <1>6 DEF ReadOutcome, Deadline
  <2> QED
    BY <2>1
<1> QED
  BY <1>1, <1>2, <1>3, <1>4, <1>5, <1>6 DEF Application

\* The application's container is stopped or replaced: nobody waits any longer.
LEMMA GoneInv == ApplicationGone => OneWaits' /\ OwnRequestOnly'
BY Blanks DEF ApplicationGone, OneWaits, OwnRequestOnly

\* The updater's steps, its stops and its starts among them.
LEMMA UpdaterInv ==
  ASSUME ImageInv, Updater \/ Silence \/ UpdaterStops \/ UpdaterStarts \/ ApplicationCrash
  PROVE  OneWaits' /\ (fresh' => OwnRequestOnly')
<1> USE Blanks DEF ImageInv, OneWaits, OwnRequestOnly, OnlyTheLast
<1>0. updater \in Rounds /\ requestFile \in Nat
  BY ImageTyped
<1>1. CASE Round \/ Silence
  <2>1. UNCHANGED <<requestFile, result, awaiting, watcher, press, updater, requestsPlaced, fresh>>
    BY <1>1 DEF Round, Silence
  <2> QED
    BY <2>1
<1>2. CASE TakeRequest
  <2>1. updater'.stage = "took" /\ updater'.for = requestFile
    BY <1>0, <1>2, Taken DEF TakeRequest
  <2>2. requestFile # 0 /\ requestFile' = 0 /\ result' = NoResult
        /\ UNCHANGED <<awaiting, watcher, press, requestsPlaced, fresh>>
    BY <1>2 DEF TakeRequest
  <2> QED
    BY <2>1, <2>2
<1>3. CASE MarkRunning \/ ClearMarker
  <2>1. updater'.stage \in {"work", "publish"} /\ updater'.for = updater.for
        /\ updater.stage \notin {"down", "poll"}
    BY <1>0, <1>3, Worked DEF MarkRunning, ClearMarker
  <2>2. UNCHANGED <<requestFile, result, awaiting, watcher, press, requestsPlaced, fresh>>
    BY <1>3 DEF MarkRunning, ClearMarker
  <2> QED
    BY <2>1, <2>2
<1>4. CASE Pull
  <2>1. PICK verdict \in {"none", "failed", "ok"} :
          /\ updater' = [updater EXCEPT !.stage = "finish", !.verdict = verdict]
          /\ IF verdict = "ok" THEN ApplicationGone ELSE UNCHANGED <<awaiting, watcher, notice, press>>
    BY <1>4 DEF Pull
  <2>2. CASE verdict = "ok"
    BY <2>1, <2>2, GoneInv
  <2>3. CASE verdict # "ok"
    <3>1. UNCHANGED <<awaiting, watcher, press, requestFile, result, requestsPlaced, fresh>>
      BY <1>4, <2>1, <2>3 DEF Pull
    <3>2. updater.stage = "work"
      BY <1>4 DEF Pull
    <3>3. updater'.stage = "finish" /\ updater'.for = updater.for
      BY <1>0, <2>1, Judged
    <3> QED
      BY <3>1, <3>2, <3>3
  <2> QED
    BY <2>2, <2>3
<1>5. CASE PublishResult
  <2>1. result'.answers = updater.for /\ updater.stage = "publish" /\ updater' = Polling
    BY <1>0, <1>5, Published DEF PublishResult
  <2>2. UNCHANGED <<requestFile, awaiting, watcher, press, requestsPlaced, fresh>>
    BY <1>5 DEF PublishResult
  <2> QED
    BY <2>1, <2>2
<1>6. CASE UpdaterStops
  <2>1. updater'.stage = "down"
    BY <1>6, Stopped DEF UpdaterStops
  <2> QED
    BY <1>6, <2>1 DEF UpdaterStops
<1>7. CASE UpdaterStarts
  BY <1>7 DEF UpdaterStarts
<1>8. CASE ApplicationCrash
  BY <1>8, GoneInv DEF ApplicationCrash
<1> QED
  BY <1>1, <1>2, <1>3, <1>4, <1>5, <1>6, <1>7, <1>8 DEF Updater

\* However many requests are placed and whatever strikes - the updater's container, the
\* application's, or the wait that ends too soon: a press that found nothing of an earlier
\* request under way is answered by the outcome of its own.
THEOREM AnswerIsItsOwn == ImageSpec => []OwnAnswer
<1>1. ImageInv => OwnAnswer
  <2> SUFFICES ASSUME ImageInv, fresh, watcher.stage = "answered", Outcome # ""
               PROVE  result.answers = watcher.for
    BY DEF ImageInv, OwnAnswer
  <2>1. result.outcome # ""
    BY DEF Outcome
  <2>2. NoResult.outcome = ""
    BY DEF NoResult
  <2>3. result # NoResult
    BY <2>1, <2>2
  <2> QED
    BY <2>3 DEF ImageInv, OwnRequestOnly, OnlyTheLast
<1>2. ImageInv /\ [ImageNext]_imageVars => ImageInv'
  <2> SUFFICES ASSUME ImageInv, [ImageNext]_imageVars PROVE ImageInv'
    OBVIOUS
  <2>1. ImageTypeOK'
    BY ImageTypes DEF ImageInv
  <2>2. CASE UNCHANGED imageVars
    BY <2>1, <2>2 DEF imageVars, ImageInv, OneWaits, OwnRequestOnly, OnlyTheLast
  <2> QED
    BY <2>1, <2>2, ApplicationInv, UpdaterInv DEF ImageNext, ImageInv
<1> QED
  BY <1>1, <1>2, ImageInitInv, PTL DEF ImageSpec
=============================================================================
