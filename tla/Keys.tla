-------------------------------- MODULE Keys --------------------------------
(***************************************************************************)
(* The two kinds of key a person may hand out: API tokens, which act with  *)
(* their owner's role, and the address a calendar program reads their days *)
(* from. A request that presents one looks up the key, its owner and the   *)
(* owner's role with separate statements, while keys are taken back, the   *)
(* account changes, and statements fail.                                   *)
(***************************************************************************)
EXTENDS Integers, FiniteSets

CONSTANTS People,         \* the accounts
          KeyCalls,       \* requests that may be in flight together
          MaxArrivals,    \* bound on the requests of a behaviour
          MaxKeys,        \* bound on the keys ever made
          MaxTokens,      \* maxTokensPerUser
          MaxChanges,     \* bound on the changes made to an account
          MaxClock,       \* bound on the clock
          TouchEvery,     \* maxTouchInterval
          Expiries        \* how long a token may be asked to live; 0 is for ever

ASSUME KeysAssumption ==
  /\ IsFiniteSet(KeyCalls) /\ KeyCalls # {}
  /\ MaxKeys \in Nat \ {0} /\ MaxTokens \in Nat \ {0}
  /\ MaxArrivals \in Nat /\ MaxChanges \in Nat /\ MaxClock \in Nat
  /\ TouchEvery \in Nat /\ Expiries \subseteq Nat

VARIABLES clock,
          people,    \* account -> [state, mustChange, reads, changes]
          secrets,   \* the keys made so far, in order: whose, and with which prefix
          tokens,    \* key -> the row of api_tokens
          feeds,     \* account -> its row of calendar_feeds; key 0 is no row
          calls,     \* request -> where it is, what it presented, what it has read
          arrived,   \* requests so far
          watch      \* ghost: request -> what has held of its key since it arrived

keyVars == <<clock, people, secrets, tokens, feeds, calls, arrived, watch>>

Never == -1
AllKeys == 1..MaxKeys
Issued == {k \in AllKeys : secrets[k].kind # "none"}
nextKey == Cardinality(Issued) + 1
NoRow == [state |-> "none", expires |-> Never, used |-> Never]
NoFeed == [key |-> 0, read |-> Never]
Resting == [at |-> "idle", as |-> "", key |-> 0, seen |-> Never, answer |-> "", recorded |-> TRUE]

Present(u) == people[u].state = "there"
Busy(c) == calls[c].at \notin {"idle", "done"}
ownerOf(k) == secrets[k].owner
ListForUser(u) == {k \in Issued : tokens[k].state = "there" /\ ownerOf(k) = u}
Lapsed(r) == r.expires # Never /\ clock >= r.expires

(***************************************************************************)
(* What must hold of a key and its owner for it to open anything.          *)
(***************************************************************************)
Conditions == {"key", "time", "account", "settled", "right"}
Holds(as, k) ==
  {x \in Conditions :
     /\ x = "key" => IF as = "token" THEN tokens[k].state = "there" ELSE feeds[ownerOf(k)].key = k
     /\ x = "time" /\ as = "token" => ~Lapsed(tokens[k])
     /\ x = "account" => Present(ownerOf(k))
     /\ x = "settled" => ~people[ownerOf(k)].mustChange
     /\ x = "right" /\ as = "feed" => people[ownerOf(k)].reads}
Watching ==
  watch' = [c \in KeyCalls |->
    IF ~Busy(c) \/ calls[c].key = 0 THEN watch[c]
    ELSE [always |-> watch[c].always \intersect Holds(calls[c].as, calls[c].key)',
          never |-> watch[c].never \ Holds(calls[c].as, calls[c].key)']]

(***************************************************************************)
(* Making and taking back a token.                                         *)
(***************************************************************************)
Full(u) == Cardinality(ListForUser(u)) >= MaxTokens
Arriving(c) == ~Busy(c) /\ arrived < MaxArrivals /\ arrived' = arrived + 1

MayCreate(u) == Present(u) /\ ~people[u].mustChange
Create(c, u, days) ==     \* the handler, and the service up to the count
  /\ Arriving(c) /\ MayCreate(u) /\ nextKey \in AllKeys
  /\ calls' = [calls EXCEPT ![c] =
       IF Full(u) THEN [Resting EXCEPT !.at = "done", !.answer = "conflict"]
       ELSE [Resting EXCEPT !.at = "save", !.as = u, !.seen = IF days = 0 THEN Never ELSE clock + days]]
  /\ UNCHANGED <<clock, people, secrets, tokens, feeds, watch>>
Save(c) ==                \* the row names its owner, so a purged account takes none
  /\ calls[c].at = "save"
  /\ IF Present(calls[c].as) /\ nextKey \in AllKeys
     THEN /\ secrets' = [secrets EXCEPT ![nextKey] = [kind |-> "token", owner |-> calls[c].as]]
          /\ tokens' = [tokens EXCEPT ![nextKey] = [state |-> "there", expires |-> calls[c].seen, used |-> Never]]
          /\ calls' = [calls EXCEPT ![c] = [Resting EXCEPT !.at = "done", !.answer = "made"]]
     ELSE /\ calls' = [calls EXCEPT ![c] = [Resting EXCEPT !.at = "done", !.answer = "unknown"]]
          /\ UNCHANGED <<secrets, tokens>>
  /\ UNCHANGED <<clock, people, feeds, arrived, watch>>
DeleteToken(u, k) == k \in ListForUser(u) /\ tokens' = [tokens EXCEPT ![k].state = "gone"]
Revoke(u, k) ==
  /\ Present(u) /\ DeleteToken(u, k)
  /\ UNCHANGED <<clock, people, secrets, feeds, calls, arrived>>
  /\ Watching

(***************************************************************************)
(* The address of a calendar: one per person.                              *)
(***************************************************************************)
MayReplace(u) == Present(u) /\ ~people[u].mustChange /\ people[u].reads
IssuedCalendarFeed == [key |-> nextKey, read |-> Never]
Replace(u) ==
  /\ MayReplace(u) /\ nextKey \in AllKeys
  /\ secrets' = [secrets EXCEPT ![nextKey] = [kind |-> "feed", owner |-> u]]
  /\ feeds' = [feeds EXCEPT ![u] = IssuedCalendarFeed]
  /\ UNCHANGED <<clock, people, tokens, calls, arrived>>
  /\ Watching
DeleteFeed(u) == feeds[u].key # 0 /\ feeds' = [feeds EXCEPT ![u] = NoFeed]
Remove(u) ==
  /\ Present(u) /\ DeleteFeed(u)
  /\ UNCHANGED <<clock, people, secrets, tokens, calls, arrived>>
  /\ Watching

(***************************************************************************)
(* Presenting a key: as a token to APITokenMiddleware, or in the address   *)
(* of a feed. A key of the other kind has the wrong prefix.                *)
(***************************************************************************)
Arrive(c, k, as) ==
  /\ Arriving(c) /\ k \in Issued
  /\ calls' = [calls EXCEPT ![c] = [Resting EXCEPT !.at = "lookup", !.as = as, !.key = k]]
  /\ watch' = [watch EXCEPT ![c] = [always |-> Holds(as, k), never |-> Conditions \ Holds(as, k)]]
  /\ UNCHANGED <<clock, people, secrets, tokens, feeds>>

Step(c, from, to) == calls[c].at = from /\ calls' = [calls EXCEPT ![c].at = to]
Answer(c, answer) == calls' = [calls EXCEPT ![c].at = "done", ![c].answer = answer]
Unmoved == UNCHANGED <<clock, people, secrets, arrived, watch>>
Nothing == UNCHANGED <<tokens, feeds>> /\ Unmoved

HasPrefix(k, as) == secrets[k].kind = as
GetByHash(k) == HasPrefix(k, "token") /\ tokens[k].state = "there" /\ ~Lapsed(tokens[k])
ByHash(k) == HasPrefix(k, "feed") /\ feeds[ownerOf(k)].key = k
Found(as, k) == IF as = "token" THEN GetByHash(k) ELSE ByHash(k)
LastSeen(as, k) == IF as = "token" THEN tokens[k].used ELSE feeds[ownerOf(k)].read
Lookup(c) ==
  /\ calls[c].at = "lookup"
  /\ IF Found(calls[c].as, calls[c].key)
     THEN calls' = [calls EXCEPT ![c].at = "owner", ![c].seen = LastSeen(calls[c].as, calls[c].key)]
     ELSE Answer(c, "refused")
  /\ Nothing
\* A slip: the owner's state is not looked at.
OwnerUnasked(c) ==
  /\ calls[c].at = "owner"
  /\ IF Present(ownerOf(calls[c].key))
     THEN Step(c, "owner", IF calls[c].as = "token" THEN "touch" ELSE "role")
     ELSE Answer(c, "refused")
  /\ Nothing
Owner(c) ==               \* users.GetByID, and a password that waits to be chosen
  /\ calls[c].at = "owner"
  /\ IF Present(ownerOf(calls[c].key)) /\ ~people[ownerOf(calls[c].key)].mustChange
     THEN Step(c, "owner", IF calls[c].as = "token" THEN "touch" ELSE "role")
     ELSE Answer(c, "refused")
  /\ Nothing
Role(c) ==                \* principalFor; a token needs no right of its own
  /\ calls[c].at = "role"
  /\ IF calls[c].as = "token" THEN Answer(c, "served")
     ELSE IF people[ownerOf(calls[c].key)].reads THEN Step(c, "role", "touch") ELSE Answer(c, "refused")
  /\ Nothing

Stale(c) == calls[c].seen = Never \/ clock - calls[c].seen >= TouchEvery
TouchLastUsed(k) == tokens' = IF tokens[k].state = "there" THEN [tokens EXCEPT ![k].used = clock] ELSE tokens
TouchLastRead(u) == feeds' = IF feeds[u].key # 0 THEN [feeds EXCEPT ![u].read = clock] ELSE feeds
Proceed(c, recorded) ==
  calls' = [calls EXCEPT ![c].at = IF calls[c].as = "token" THEN "role" ELSE "done",
                         ![c].answer = IF calls[c].as = "token" THEN "" ELSE "served",
                         ![c].recorded = recorded]
TouchKey(c) ==
  /\ calls[c].at = "touch"
  /\ IF Stale(c)
     THEN IF calls[c].as = "token" THEN TouchLastUsed(calls[c].key) /\ UNCHANGED feeds
          ELSE TouchLastRead(ownerOf(calls[c].key)) /\ UNCHANGED tokens
     ELSE UNCHANGED <<tokens, feeds>>
  /\ Proceed(c, TRUE)
  /\ Unmoved
TouchFails(c) ==          \* best effort: the request goes on
  /\ calls[c].at = "touch" /\ Stale(c)
  /\ Proceed(c, FALSE)
  /\ UNCHANGED <<tokens, feeds>> /\ Unmoved
LookupFails(c) ==         \* the caller stays unchecked, and the answer says so
  /\ calls[c].at \in {"lookup", "owner", "role"}
  /\ Answer(c, "unknown")
  /\ Nothing

(***************************************************************************)
(* What else happens to the account, and to the time.                      *)
(***************************************************************************)
Change(u, change) ==      \* a reset, a password chosen, another role, a purge
  /\ Present(u) /\ people[u].changes < MaxChanges
  /\ people' = [people EXCEPT ![u] = [change EXCEPT !.changes = @ + 1]]
  /\ UNCHANGED <<clock, secrets, calls, arrived>>
ResetPassword(u) == ~people[u].mustChange /\ Change(u, [people[u] EXCEPT !.mustChange = TRUE]) /\ UNCHANGED <<tokens, feeds>> /\ Watching
ChoosePassword(u) == people[u].mustChange /\ Change(u, [people[u] EXCEPT !.mustChange = FALSE]) /\ UNCHANGED <<tokens, feeds>> /\ Watching
AssignReadingRole(u) == Change(u, [people[u] EXCEPT !.reads = ~@]) /\ UNCHANGED <<tokens, feeds>> /\ Watching
PurgeOwner(u) ==
  /\ Change(u, [people[u] EXCEPT !.state = "gone"])
  /\ tokens' = [k \in AllKeys |-> IF k \in ListForUser(u) THEN [tokens[k] EXCEPT !.state = "gone"] ELSE tokens[k]]
  /\ feeds' = [feeds EXCEPT ![u] = NoFeed]
  /\ Watching
KeyTick ==
  /\ clock < MaxClock
  /\ clock' = clock + 1
  /\ UNCHANGED <<people, secrets, tokens, feeds, calls, arrived>>
  /\ Watching

KeysInit ==
  /\ clock = 0 /\ arrived = 0
  /\ people = [u \in People |-> [state |-> "there", mustChange |-> FALSE, reads |-> TRUE, changes |-> 0]]
  /\ \E u \in People, kind \in {"token", "feed"} :     \* one key handed out before
       /\ secrets = [k \in AllKeys |-> IF k = 1 THEN [kind |-> kind, owner |-> u] ELSE [kind |-> "none", owner |-> ""]]
       /\ tokens = [k \in AllKeys |-> IF k = 1 /\ kind = "token" THEN [NoRow EXCEPT !.state = "there"] ELSE NoRow]
       /\ feeds = [v \in People |-> IF v = u /\ kind = "feed" THEN [NoFeed EXCEPT !.key = 1] ELSE NoFeed]
  /\ calls = [c \in KeyCalls |-> Resting]
  /\ watch = [c \in KeyCalls |-> [always |-> Conditions, never |-> {}]]
KeyCallStep(c) ==
  \/ \E u \in People, days \in Expiries : Create(c, u, days)
  \/ \E k \in AllKeys, as \in {"token", "feed"} : Arrive(c, k, as)
  \/ Save(c) \/ Lookup(c) \/ Owner(c) \/ Role(c) \/ TouchKey(c) \/ TouchFails(c) \/ LookupFails(c)
KeysNext ==
  \/ \E c \in KeyCalls : KeyCallStep(c)
  \/ \E u \in People, k \in AllKeys : Revoke(u, k)
  \/ \E u \in People : Replace(u) \/ Remove(u)
  \/ \E u \in People : ResetPassword(u) \/ ChoosePassword(u) \/ AssignReadingRole(u) \/ PurgeOwner(u)
  \/ KeyTick
KeysSpec == KeysInit /\ [][KeysNext]_keyVars

(***************************************************************************)
(* Properties.                                                             *)
(***************************************************************************)
\* The rows of both tables and the requests keep their types.
KeysTypeOK ==
  /\ clock \in 0..MaxClock
  /\ \A k \in AllKeys : tokens[k].state # "none" => secrets[k].kind = "token" /\ tokens[k].used <= clock
  /\ \A u \in People : feeds[u].key \in {0} \union Issued /\ feeds[u].read <= clock
  /\ \A c \in KeyCalls : calls[c].at = "done" => calls[c].answer \in {"made", "conflict", "served", "refused", "unknown"}

\* Nobody has more tokens than the limit, beyond the one each request that counted at the
\* same moment may add (Create counts and saves with two statements).
TokensBounded ==
  \A u \in People : Cardinality(ListForUser(u)) <= MaxTokens + Cardinality(KeyCalls) - 1

\* A key is answered for what it is: one that lacked something all the while opens
\* nothing, and one that was good all the while is refused only when it could not be
\* checked, which the answer then says (Resolve, owner, uncheckedCallerKey).
AnsweredTruly ==
  \A c \in KeyCalls : calls[c].at = "done" =>
    /\ calls[c].answer = "served" => watch[c].never = {}
    /\ calls[c].answer = "refused" => watch[c].always # Conditions

\* A token that was used shows that it was, to the interval its last use is recorded at.
UseShows ==
  \A c \in KeyCalls : calls[c].answer = "served" /\ calls[c].as = "token" /\ calls[c].recorded
    => tokens[calls[c].key].used # Never \/ tokens[calls[c].key].state = "gone"

\* Keys are what they say: answered for truly, no more of them than the limit leaves room
\* for, and seen to be used when they were.
KeysAreTrue == KeysTypeOK /\ AnsweredTruly /\ TokensBounded /\ UseShows
=============================================================================
