---------------------------- MODULE SessionClock ----------------------------
(***************************************************************************)
(* One session against the clock: it ends when it expires or when nobody   *)
(* has used it for the idle timeout, its last use is only written down now *)
(* and then, and the timeout itself is read through a cache while an       *)
(* administrator changes it. Requests run at the same time, each with      *)
(* separate statements, and a statement may fail.                          *)
(***************************************************************************)
EXTENDS Integers

CONSTANTS Callers,       \* the requests of a session
          ClockModes,         \* what a behaviour may do: [callers: which requests it has,
                         \* saves: changes of the timeout, fails: whether statements fail]
          MaxTime,       \* bound on the clock
          MaxDelay,      \* bound on how long a request takes
          Lifetime,      \* sessionLifetime
          MaxTouch,      \* maxTouchInterval
          LimitsTTL,     \* limitsTTL
          MinIdle,       \* MinSessionIdleMinutes
          Idles          \* the timeouts an administrator may save; 0 is none

ASSUME ClockAssumption ==
  /\ MaxTime \in Nat /\ MaxDelay \in Nat /\ Lifetime \in Nat /\ MaxTouch \in Nat /\ LimitsTTL \in Nat /\ MinIdle \in Nat
  /\ Idles \subseteq Nat
  /\ ClockModes \subseteq [callers : SUBSET Callers, saves : Nat, fails : BOOLEAN]

VARIABLES clockMode,       \* the member of ClockModes it is about
          now,
          row,        \* the stored session: [there, expires, seen]
          cookie,     \* whether the browser still has its cookie
          setting,    \* the stored timeout, since when, and how often it was changed
          cache,      \* the provider's copy: [idle, fetched]
          saving,     \* whether a save has yet to drop the cache
          calling,       \* request -> where it is and what it has read
          lastUse        \* ghost: when somebody last used the session

clockVars == <<clockMode, now, row, cookie, setting, cache, saving, calling, lastUse>>

Long == -LimitsTTL   \* the zero time: older than anything still fresh
Quiet == [at |-> "none"]
Waiting(c) == calling[c] # Quiet
Expired(session, t) == t >= session.expires
IdleOver(session, t, timeout) == timeout > 0 /\ t - session.seen > timeout
\* A slip: a use is written down only once a whole timeout has passed.
touchAtTheTimeout(timeout) == IF timeout <= 0 THEN MaxTouch ELSE timeout
touchInterval(timeout) == IF timeout <= 0 \/ timeout \div 2 > MaxTouch THEN MaxTouch ELSE timeout \div 2

Use(c) == lastUse' = IF calling[c].attended /\ calling[c].t > lastUse THEN calling[c].t ELSE lastUse
Answered(c) == calling' = [calling EXCEPT ![c] = Quiet]

(***************************************************************************)
(* A request. Requests the browser makes on its own are not a use of the   *)
(* session (unattended).                                                   *)
(***************************************************************************)
GetFails(c) ==   \* the caller stays unchecked, and the cookie stays
  /\ clockMode.fails /\ Answered(c)
  /\ UNCHANGED <<clockMode, now, row, cookie, setting, cache, saving, lastUse>>
Get(c, attended) ==
  /\ cookie /\ ~Waiting(c) /\ c \in clockMode.callers
  /\ IF row.there
     THEN /\ calling' = [calling EXCEPT ![c] = [at |-> "limits", attended |-> attended, session |-> row, idle |-> -1, t |-> now, used |-> lastUse]]
          /\ UNCHANGED cookie
     ELSE cookie' = FALSE /\ UNCHANGED calling      \* expiredCookie
  /\ UNCHANGED <<clockMode, now, row, setting, cache, saving, lastUse>>

\* What resolve decides, from the row and the time it read and the timeout it was given.
Ended(read, idle) == Expired(read.session, read.t) \/ IdleOver(read.session, read.t, idle)
Verdict(read, idle) ==
  IF Ended(read, idle) THEN "end"
  ELSE IF read.attended /\ read.t - read.session.seen >= touchInterval(idle) THEN "touch"
  ELSE "serve"
Decide(c, idle) == calling' = [calling EXCEPT ![c].at = Verdict(calling[c], idle), ![c].idle = idle]

\* Limits: the cached answer while it is fresh, a reading of the settings otherwise.
FreshLimits == now - cache.fetched < LimitsTTL
CachedLimits(c) ==
  /\ calling[c].at = "limits" /\ FreshLimits
  /\ Decide(c, cache.idle)
  /\ UNCHANGED <<clockMode, now, row, cookie, setting, cache, saving, lastUse>>
ReadLimits(c) ==
  /\ calling[c].at = "limits" /\ ~FreshLimits
  /\ calling' = [calling EXCEPT ![c].at = "fill", ![c].idle = setting.idle]
  /\ UNCHANGED <<clockMode, now, row, cookie, setting, cache, saving, lastUse>>
FillLimits(c) ==
  /\ calling[c].at = "fill"
  /\ cache' = [idle |-> calling[c].idle, fetched |-> now]
  /\ Decide(c, calling[c].idle)
  /\ UNCHANGED <<clockMode, now, row, cookie, setting, saving, lastUse>>
LimitsFail(c) ==
  /\ clockMode.fails /\ calling[c].at = "limits" /\ ~FreshLimits
  /\ cache' = [cache EXCEPT !.fetched = now]
  /\ Decide(c, cache.idle)
  /\ UNCHANGED <<clockMode, now, row, cookie, setting, saving, lastUse>>

\* A session that has ended is deleted and the cookie goes; a failed delete is ignored.
End(c) ==
  /\ calling[c].at = "end"
  /\ \/ row' = [row EXCEPT !.there = FALSE]
     \/ clockMode.fails /\ UNCHANGED row
  /\ cookie' = FALSE
  /\ Answered(c)
  /\ UNCHANGED <<clockMode, now, setting, cache, saving, lastUse>>
TouchSession(c) ==
  /\ calling[c].at = "touch"
  /\ \/ row' = [row EXCEPT !.seen = calling[c].t]
     \/ clockMode.fails /\ UNCHANGED row
  /\ Answered(c) /\ Use(c)
  /\ UNCHANGED <<clockMode, now, cookie, setting, cache, saving>>
ServeSession(c) ==
  /\ calling[c].at = "serve"
  /\ Answered(c) /\ Use(c)
  /\ UNCHANGED <<clockMode, now, row, cookie, setting, cache, saving>>

(***************************************************************************)
(* Everything else.                                                        *)
(***************************************************************************)
Logout ==
  /\ cookie /\ row.there
  /\ row' = [row EXCEPT !.there = FALSE] /\ cookie' = FALSE
  /\ UNCHANGED <<clockMode, now, setting, cache, saving, calling, lastUse>>
\* A slip: the sweep counts another lifetime from the end of a session.
PruneALifetimeLater ==
  /\ row.there /\ row.expires + Lifetime < now
  /\ row' = [row EXCEPT !.there = FALSE]
  /\ UNCHANGED <<clockMode, now, cookie, setting, cache, saving, calling, lastUse>>
Prune ==
  /\ row.there /\ row.expires < now
  /\ row' = [row EXCEPT !.there = FALSE]
  /\ UNCHANGED <<clockMode, now, cookie, setting, cache, saving, calling, lastUse>>

InvalidIdle(idle) == idle # 0 /\ idle < MinIdle
SaveOperational(idle) ==
  /\ ~saving /\ ~InvalidIdle(idle) /\ idle # setting.idle /\ setting.saves < clockMode.saves
  /\ setting' = [idle |-> idle, since |-> now, saves |-> setting.saves + 1]
  /\ saving' = TRUE
  /\ UNCHANGED <<clockMode, now, row, cookie, cache, calling, lastUse>>
InvalidateLimits ==
  /\ saving
  /\ saving' = FALSE /\ cache' = [cache EXCEPT !.fetched = Long]
  /\ UNCHANGED <<clockMode, now, row, cookie, setting, calling, lastUse>>

\* Time passes; a request is answered within MaxDelay.
ClockTick ==
  /\ now < MaxTime
  /\ \A c \in Callers : Waiting(c) => now + 1 - calling[c].t <= MaxDelay
  /\ saving => now < setting.since + MaxDelay
  /\ now' = now + 1
  /\ UNCHANGED <<clockMode, row, cookie, setting, cache, saving, calling, lastUse>>

ClockInit ==
  /\ clockMode \in ClockModes
  /\ now = 0 /\ cookie = TRUE /\ lastUse = 0
  /\ row = [there |-> TRUE, expires |-> Lifetime, seen |-> 0]   \* OpenSession
  /\ \E idle \in Idles : ~InvalidIdle(idle) /\ setting = [idle |-> idle, since |-> 0, saves |-> 0]
  /\ cache = [idle |-> setting.idle, fetched |-> 0]
  /\ saving = FALSE
  /\ calling = [c \in Callers |-> Quiet]

RequestStep(c) ==
  \/ (\E attended \in BOOLEAN : Get(c, attended))
  \/ Waiting(c) /\ (GetFails(c) \/ CachedLimits(c) \/ ReadLimits(c) \/ FillLimits(c) \/ LimitsFail(c) \/ End(c) \/ TouchSession(c) \/ ServeSession(c))
ClockNext ==
  \/ \E c \in Callers : RequestStep(c)
  \/ Logout \/ Prune \/ InvalidateLimits \/ ClockTick
  \/ \E idle \in Idles : SaveOperational(idle)
ClockSpec == ClockInit /\ [][ClockNext]_clockVars

(***************************************************************************)
(* Properties.                                                             *)
(***************************************************************************)
\* The session, the cache and the requests keep their types.
ClockTypeOK ==
  /\ clockMode \in ClockModes /\ now \in 0..MaxTime /\ lastUse \in 0..now /\ cookie \in BOOLEAN /\ saving \in BOOLEAN
  /\ row.there \in BOOLEAN /\ row.seen \in 0..now /\ row.expires = Lifetime
  /\ setting.idle \in {0} \union {i \in Idles : i >= MinIdle} /\ cache.fetched \in {Long} \union 0..now
  /\ \A c \in Callers : Waiting(c) => calling[c].at \in {"limits", "fill", "end", "touch", "serve"}

\* A session somebody is working in is not ended as idle: whoever used it within the
\* shortest timeout there is, less the minute its last use may be out of date by and the
\* time a request takes, keeps it, whatever happens to the setting meanwhile (touch,
\* touchInterval, IdleOver). A use that could not be written down is no use.
UsedStays ==
  ~clockMode.fails => \A c \in Callers : calling[c].at = "end" /\ ~Expired(calling[c].session, calling[c].t)
    => calling[c].t - calling[c].used > MinIdle - MaxTouch - MaxDelay

\* A session nobody used for longer than the timeout serves nothing any more, and the
\* browser's own requests are no use of it (ResolveUnattended).
IdleIsOver ==
  \A c \in Callers : calling[c].at \in {"touch", "serve"}
    => /\ calling[c].t < Lifetime
       /\ calling[c].idle > 0 => calling[c].t - calling[c].used <= calling[c].idle

\* A changed timeout is in force for every request that begins once the cache's time has
\* run out after the save (limitsTTL), whatever a reader that overlapped the save wrote;
\* while the settings cannot be read, the last good answer stands.
SettingTakesHold ==
  ~clockMode.fails => \A c \in Callers : calling[c].at \in {"end", "touch", "serve"} /\ calling[c].idle # setting.idle
    => calling[c].t - setting.since <= LimitsTTL + MaxDelay

\* A session lasts as long as it is used, by the timeout in force: neither shorter, when
\* its last use was written down late or the timeout was changed, nor longer.
LastsWhileUsed == ClockTypeOK /\ UsedStays /\ IdleIsOver /\ SettingTakesHold
=============================================================================
