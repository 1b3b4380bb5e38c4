------------------------------ MODULE Notices ------------------------------
(***************************************************************************)
(* What every screen is told and what every request is held to: the hub    *)
(* of announcements with the event streams it feeds, and the maintenance   *)
(* switch with the short cache the middleware asks.                        *)
(***************************************************************************)
EXTENDS Naturals, Sequences, FiniteSets

CONSTANTS
  Screens,      \* the open pages
  Buffer,       \* how many announcements a stream holds (4 in announce.go)
  Readers,      \* the requests that may be filling the cache at once
  MaxSaid,      \* how many announcements are made in all
  MaxSwitchSaves,     \* how often the switch is saved
  CacheTTL      \* maintenanceCacheTTL, in ticks

\* A stream holds what stands of both subjects: Subscribe writes it under the hub's lock.
ASSUME NoticesAssumption == Buffer \in Nat /\ Buffer >= 2 /\ MaxSaid \in Nat /\ MaxSwitchSaves \in Nat /\ CacheTTL \in Nat

VARIABLES
  standing,     \* Hub.standing: what is handed to whoever connects next
  streams,      \* per screen: the channel, whether it is connected, what it shows
  closed,       \* Hub.closed
  said,         \* announcements made so far
  storedSwitch,       \* the maintenance switch in the settings table
  gate,         \* cachedMaintenance: the cached state and for how long it is good
  fills,        \* per reader: a fill of the cache under way
  saver,        \* how far a save of the switch has come
  switchSaves         \* saves so far

hubVars == <<standing, streams, closed, said>>
gateVars == <<storedSwitch, gate, fills, saver, switchSaves>>
noticeVars == <<standing, streams, closed, said, storedSwitch, gate, fills, saver, switchSaves>>

About == {"installing", "restarting", "pending", "cancelled"}
Kinds == About \cup {"maintenance"}
Switch == {"on", "off"}
NoStream == [open |-> FALSE, queue |-> <<>>, shows |-> "none", overrun |-> FALSE]

\* Those of a sequence that are of some kinds, in their order, and the last one about the update.
IndicesOf(seq, kinds) == {i \in 1..Len(seq) : seq[i] \in kinds}
AllOf(seq, kinds) ==
  LET at == IndicesOf(seq, kinds)
  IN  [n \in 1..Cardinality(at) |-> seq[CHOOSE i \in at : Cardinality({j \in at : j < i}) = n - 1]]
LastAbout(seq, otherwise) ==
  LET at == IndicesOf(seq, About)
  IN  IF at = {} THEN otherwise ELSE seq[CHOOSE i \in at : \A j \in at : j <= i]

NoticeTypeOK ==
  /\ standing \in Seq(Kinds \ {"cancelled"}) /\ Len(standing) <= 2
  /\ \A s \in Screens :
       /\ streams[s].open \in BOOLEAN /\ streams[s].overrun \in BOOLEAN
       /\ streams[s].queue \in Seq(Kinds) /\ Len(streams[s].queue) <= Buffer
       /\ streams[s].shows \in About \cup {"none"}
  /\ closed \in BOOLEAN /\ said \in 0 .. MaxSaid
  /\ storedSwitch \in Switch /\ saver \in {"idle", "saved", "dropped"} /\ switchSaves \in 0 .. MaxSwitchSaves
  /\ gate \in [state : Switch, left : 0 .. CacheTTL]
  /\ fills \in [Readers -> {"none", "reading"} \cup Switch]

NoticeInit ==
  /\ standing = <<>> /\ streams = [s \in Screens |-> NoStream] /\ closed = FALSE /\ said = 0
  /\ storedSwitch = "off" /\ gate = [state |-> "off", left |-> 0]
  /\ fills = [r \in Readers |-> "none"] /\ saver = "idle" /\ switchSaves = 0

-----------------------------------------------------------------------------
\* A slip: one memory for everything that is said.
KeepsOneMemory(kind) == IF kind = "cancelled" THEN <<>> ELSE <<kind>>

\* What Publish remembers: the last thing about each of the two subjects, and nothing
\* about an update that is taken back.
Keeps(kind) ==
  LET other == AllOf(standing, IF kind = "maintenance" THEN About ELSE {"maintenance"})
  IN  IF kind = "cancelled" THEN other ELSE Append(other, kind)

\* One stream's share of a Publish, which never waits: a full buffer misses it.
Hears(stream, kind) ==
  IF ~stream.open THEN stream
  ELSE IF Len(stream.queue) < Buffer THEN [stream EXCEPT !.queue = Append(@, kind)]
  ELSE [stream EXCEPT !.overrun = TRUE]

Say(kind) ==
  /\ said < MaxSaid /\ said' = said + 1
  /\ standing' = Keeps(kind)
  /\ streams' = [s \in Screens |-> Hears(streams[s], kind)]
  /\ UNCHANGED closed

\* The update handler, and nobody else, speaks of the update.
PublishUpdate == \E kind \in About : Say(kind) /\ UNCHANGED gateVars

\* A page connects, or comes back after its connection dropped: what it showed of the
\* update is taken down and what stands is replayed. A closed hub hands out an ended stream.
Subscribe(s) ==
  /\ ~streams[s].open /\ ~closed
  /\ streams' = [streams EXCEPT ![s] = [NoStream EXCEPT !.open = TRUE, !.queue = standing]]
  /\ UNCHANGED <<standing, closed, said>> /\ UNCHANGED gateVars

\* The event stream writes one announcement to the page. Maintenance is not the banner's.
Deliver(s) ==
  /\ streams[s].open /\ streams[s].queue # <<>>
  /\ LET kind == Head(streams[s].queue)
     IN  streams' = [streams EXCEPT ![s].queue = Tail(@),
                                    ![s].shows = IF kind = "maintenance" THEN @ ELSE kind]
  /\ UNCHANGED <<standing, closed, said>> /\ UNCHANGED gateVars

\* The connection drops; what the page shows stays until it is back.
Unsubscribe(s) ==
  /\ streams[s].open
  /\ streams' = [streams EXCEPT ![s].open = FALSE, ![s].queue = <<>>]
  /\ UNCHANGED <<standing, closed, said>> /\ UNCHANGED gateVars

\* Shutting down: every stream ends, so that no request is waited for.
Close ==
  /\ ~closed /\ closed' = TRUE
  /\ streams' = [s \in Screens |-> [streams[s] EXCEPT !.open = FALSE, !.queue = <<>>]]
  /\ UNCHANGED <<standing, said>> /\ UNCHANGED gateVars

-----------------------------------------------------------------------------
Fresh == gate.left > 0

\* A request finds the cache expired and asks the settings,
StartFill(r) ==
  /\ fills[r] = "none" /\ ~Fresh
  /\ fills' = [fills EXCEPT ![r] = "reading"]
  /\ UNCHANGED <<storedSwitch, gate, saver, switchSaves>> /\ UNCHANGED hubVars

\* which answer with what is stored now,
ReadSwitch(r) ==
  /\ fills[r] = "reading"
  /\ fills' = [fills EXCEPT ![r] = storedSwitch]
  /\ UNCHANGED <<storedSwitch, gate, saver, switchSaves>> /\ UNCHANGED hubVars

\* A slip: a failure makes the last answer do for another while.
ReadFailsServingStale(r) ==
  /\ fills[r] = "reading"
  /\ fills' = [fills EXCEPT ![r] = "none"]
  /\ gate' = [gate EXCEPT !.left = CacheTTL]
  /\ UNCHANGED <<storedSwitch, saver, switchSaves>> /\ UNCHANGED hubVars

\* or fail, in which case the request is let through and nothing is cached.
ReadFails(r) ==
  /\ fills[r] = "reading"
  /\ fills' = [fills EXCEPT ![r] = "none"]
  /\ UNCHANGED <<storedSwitch, gate, saver, switchSaves>> /\ UNCHANGED hubVars

\* The answer is cached from the moment it arrives.
Fill(r) ==
  /\ fills[r] \in Switch
  /\ gate' = [state |-> fills[r], left |-> CacheTTL]
  /\ fills' = [fills EXCEPT ![r] = "none"]
  /\ UNCHANGED <<storedSwitch, saver, switchSaves>> /\ UNCHANGED hubVars

\* SaveMaintenance: the row, then the cache, then everybody is told.
SaveSwitch ==
  /\ saver = "idle" /\ switchSaves < MaxSwitchSaves /\ switchSaves' = switchSaves + 1
  /\ storedSwitch' \in Switch
  /\ saver' = "saved"
  /\ UNCHANGED <<gate, fills>> /\ UNCHANGED hubVars

Invalidate ==
  /\ saver = "saved" /\ saver' = "dropped" /\ gate' = [gate EXCEPT !.left = 0]
  /\ UNCHANGED <<storedSwitch, fills, switchSaves>> /\ UNCHANGED hubVars

AnnounceSwitch ==
  /\ saver = "dropped" /\ saver' = "idle" /\ Say("maintenance")
  /\ UNCHANGED <<storedSwitch, gate, fills, switchSaves>>

\* Time passes for a cached answer.
Tick ==
  /\ Fresh /\ gate' = [gate EXCEPT !.left = @ - 1]
  /\ UNCHANGED <<storedSwitch, fills, saver, switchSaves>> /\ UNCHANGED hubVars

HubNext ==
  \/ PublishUpdate \/ Close
  \/ \E s \in Screens : Subscribe(s) \/ Deliver(s) \/ Unsubscribe(s)

GateNext ==
  \/ SaveSwitch \/ Invalidate \/ AnnounceSwitch \/ Tick
  \/ \E r \in Readers : StartFill(r) \/ ReadSwitch(r) \/ ReadFails(r) \/ Fill(r)

NoticeNext == HubNext \/ GateNext

\* A read that was begun ends and the clock goes on.
NoticeFairness ==
  /\ WF_noticeVars(Tick)
  /\ \A r \in Readers : WF_noticeVars(ReadSwitch(r) \/ ReadFails(r) \/ Fill(r))

NoticeSpec == NoticeInit /\ [][NoticeNext]_noticeVars /\ NoticeFairness

-----------------------------------------------------------------------------
\* What a page would show of the update once it has read its stream.
WillShow(s) == LastAbout(streams[s].queue, streams[s].shows)

\* What the hub still has to say of the update.
Stands == LastAbout(standing, "none")

\* Every connected page that kept up shows, once it has read what was sent, what stands
\* about the update: whenever it connected, whatever was said of maintenance in between,
\* and however often it was away (Publish's two memories, Subscribe's replay).
ScreensAgree ==
  /\ NoticeTypeOK
  /\ \A s \in Screens :
       streams[s].open /\ ~streams[s].overrun =>
         WillShow(s) = Stands \/ (WillShow(s) = "cancelled" /\ Stands = "none")

\* Once the switch is no longer touched, requests are held to it: an answer read before
\* the save and cached after it lasts no longer than the cache does (maintenanceCacheTTL).
GateSettles ==
  \A state \in Switch : <>[](storedSwitch = state) => <>[](Fresh => gate.state = state)
=============================================================================
