-------------------------------- MODULE Gate --------------------------------
(***************************************************************************)
(* What every request passes before anything looks at who is asking: the   *)
(* size of its body, the limiter that counts the requests a password or a  *)
(* token could be tried with, and the check that a page of this            *)
(* installation sent it.                                                   *)
(***************************************************************************)
EXTENDS Integers, FiniteSets, Sequences

CONSTANTS Clients,        \* the addresses people sit at
          Proxy,          \* the address of a reverse proxy that is trusted
          Budgets,        \* what an administrator may save: [limit, window]
          Fallback,       \* the budget the process was started with
          Collects,       \* after how many of its windows the buckets are looked through
          MaxMoment,      \* bound on the clock
          MaxSent         \* bound on the requests of a behaviour

\* A budget the administrator saved may be nonsense; the one from the environment is not
\* (intOr, durationOr). One is the largest and one the longest.
ASSUME GateAssumption ==
  /\ Clients # {} /\ Proxy \notin Clients
  /\ Budgets \subseteq [limit : Int, window : Int]
  /\ Fallback \in [limit : Nat \ {0}, window : Nat \ {0}]
  /\ \E b \in {Fallback} \union Budgets : \A c \in {Fallback} \union Budgets : c.limit <= b.limit
  /\ \E b \in {Fallback} \union Budgets : \A c \in {Fallback} \union Budgets : c.window <= b.window
  /\ Collects \in Nat

VARIABLES moment,
          budgetSaved,    \* the administered budget
          hits,           \* client key -> [count, reset]; count 0 is no bucket
          lastGC,
          sent,           \* requests so far
          jar,            \* the token in a browser's cookie, 0 for none
          passed,         \* ghost: guarded requests let through: [client, at, n]
          verdict         \* ghost: the last request and what became of it

gateKeptVars == <<moment, budgetSaved, hits, lastGC, sent, jar, passed, verdict>>

(***************************************************************************)
(* Requests. remote is who the connection is from, hops what               *)
(* X-Forwarded-For says: only the last is what the nearest proxy saw.      *)
(***************************************************************************)
Ways == {[remote |-> c, hops |-> <<>>] : c \in Clients}
        \union {[remote |-> c, hops |-> <<d>>] : c \in Clients, d \in Clients}
        \union {[remote |-> Proxy, hops |-> <<d, c>>] : c \in Clients, d \in Clients}
Direct == [remote |-> CHOOSE c \in Clients : TRUE, hops |-> <<>>]
Senders == {"page", "elsewhere", "program"}    \* a program sends no cookie and no Origin
Login == [path |-> "login", method |-> "POST", token |-> FALSE, body |-> 1]
Entry == [path |-> "entries", method |-> "POST", token |-> FALSE, body |-> 1]
Traffic ==
  {[kind |-> Login, way |-> way, sender |-> "page"] : way \in Ways}
  \union {[kind |-> [path |-> "import", method |-> "POST", token |-> TRUE, body |-> 20], way |-> Direct, sender |-> "program"],
          [kind |-> [path |-> "passkey", method |-> "GET", token |-> FALSE, body |-> 0], way |-> Direct, sender |-> "page"],
          [kind |-> [Entry EXCEPT !.body = 20], way |-> Direct, sender |-> "page"]}
  \union {[kind |-> Entry, way |-> Direct, sender |-> sender] : sender \in Senders}
client(way) == IF way.remote = Proxy THEN way.hops[2] ELSE way.remote

NoBucket == [count |-> 0, reset |-> 0]
believesForwarded(way) == way.remote = Proxy
clientKey(way) == IF believesForwarded(way) /\ way.hops # <<>> THEN way.hops[Len(way.hops)] ELSE way.remote
guards(kind) == kind.path = "login" \/ (kind.path = "passkey" /\ kind.method = "POST") \/ kind.token
allowedBody(kind) == IF kind.path = "import" THEN 32 ELSE 2
tooLarge(kind) == kind.body > allowedBody(kind)

budget == IF budgetSaved.limit <= 0 \/ budgetSaved.window <= 0 THEN Fallback ELSE budgetSaved
gcEvery == Fallback.window * Collects
\* A slip: buckets are collected before their time is over.
collectAll == IF moment - lastGC < gcEvery THEN hits ELSE [k \in Clients \union {Proxy} |-> NoBucket]
collect ==
  IF moment - lastGC < gcEvery THEN hits
  ELSE [k \in Clients \union {Proxy} |-> IF moment > hits[k].reset THEN NoBucket ELSE hits[k]]
opens(bucket) == bucket.count = 0 \/ moment > bucket.reset
exhausted(bucket) == ~opens(bucket) /\ bucket.count >= budget.limit
allow(k) ==
  LET b == collect[k]
  IN  /\ lastGC' = IF moment - lastGC < gcEvery THEN lastGC ELSE moment
      /\ hits' = [collect EXCEPT ![k] = IF opens(b) THEN [count |-> 1, reset |-> moment + budget.window]
                                        ELSE IF exhausted(b) THEN b ELSE [b EXCEPT !.count = @ + 1]]

(***************************************************************************)
(* The token a page of this installation proves itself with: it is in a    *)
(* cookie only such a page can read. Signing in replaces it.               *)
(***************************************************************************)
csrfApplies(kind) == kind.method \notin {"GET", "HEAD", "OPTIONS", "TRACE"} /\ ~kind.token
sameOrigin(sender) == sender = "page"
presented(sender) == IF sender = "page" THEN jar ELSE 0
issuedCSRFToken == IF jar = 0 THEN 1 ELSE jar
expected(sender) == IF sender = "program" THEN 3 ELSE issuedCSRFToken   \* one made for it
checkCSRF(sender) == sameOrigin(sender) /\ presented(sender) # 0 /\ presented(sender) = expected(sender)
RotateCSRFToken == 3 - jar

Outcome(kind, way, sender) ==
  IF tooLarge(kind) THEN "tooLarge"
  ELSE IF guards(kind) /\ exhausted(collect[clientKey(way)]) THEN "tooMany"
  ELSE IF csrfApplies(kind) /\ ~checkCSRF(sender) THEN "rejected"
  ELSE "served"

Send(kind, way, sender) ==
  /\ sent < MaxSent
  /\ sent' = sent + 1
  /\ LET outcome == Outcome(kind, way, sender)
     IN  /\ verdict' = [client |-> client(way), sender |-> sender, checked |-> csrfApplies(kind),
                        held |-> jar, outcome |-> outcome, limit |-> budget.limit, at |-> moment]
         /\ IF tooLarge(kind) \/ ~guards(kind) THEN UNCHANGED <<hits, lastGC>> ELSE allow(clientKey(way))
         /\ passed' = IF guards(kind) /\ outcome \notin {"tooLarge", "tooMany"}
                      THEN passed \union {[client |-> client(way), at |-> moment, n |-> sent]} ELSE passed
         /\ jar' = IF sender # "page" \/ outcome \in {"tooLarge", "tooMany"} THEN jar
                   ELSE IF kind.path = "login" /\ outcome = "served" THEN RotateCSRFToken ELSE issuedCSRFToken
  /\ UNCHANGED <<moment, budgetSaved>>
SaveBudget(b) ==
  /\ b # budgetSaved
  /\ budgetSaved' = b
  /\ UNCHANGED <<moment, hits, lastGC, sent, jar, passed, verdict>>
Pass ==
  /\ moment < MaxMoment
  /\ moment' = moment + 1
  /\ UNCHANGED <<budgetSaved, hits, lastGC, sent, jar, passed, verdict>>

RequestsInit ==
  /\ moment = 0 /\ lastGC = 0 /\ sent = 0 /\ passed = {}
  /\ budgetSaved \in Budgets
  /\ hits = [k \in Clients \union {Proxy} |-> NoBucket]
  /\ jar = 0
  /\ verdict = [client |-> "", sender |-> "page", checked |-> FALSE, held |-> 0, outcome |-> "none", limit |-> 0, at |-> 0]
RequestsNext ==
  \/ \E r \in Traffic : Send(r.kind, r.way, r.sender)
  \/ \E b \in Budgets : SaveBudget(b)
  \/ Pass
RequestsSpec == RequestsInit /\ [][RequestsNext]_gateKeptVars

(***************************************************************************)
(* Properties.                                                             *)
(***************************************************************************)
Largest == CHOOSE b \in {Fallback} \union Budgets : \A c \in {Fallback} \union Budgets : c.limit <= b.limit
Longest == CHOOSE b \in {Fallback} \union Budgets : \A c \in {Fallback} \union Budgets : c.window <= b.window
Shortest == CHOOSE b \in {Fallback} \union {d \in Budgets : d.limit > 0 /\ d.window > 0} :
              \A c \in {Fallback} \union {d \in Budgets : d.limit > 0 /\ d.window > 0} : b.window <= c.window

\* However a client's requests come in and whatever they claim about themselves, fewer
\* than two windows' worth of them get through in the time of one, while a budget is
\* changed, while a budget of nothing is saved, and while buckets are collected.
TriesBounded ==
  \A p \in passed : Cardinality({q \in passed : q.client = p.client /\ q.at >= p.at /\ q.at <= p.at + Shortest.window})
                      <= 2 * Largest.limit - 1

\* Nobody is turned away for what somebody else did: a client that is told to slow down
\* had its budget's worth of requests let through within the longest window.
NobodyElsesFault ==
  verdict.outcome = "tooMany" =>
    Cardinality({q \in passed : q.client = verdict.client /\ verdict.at - q.at <= Longest.window}) >= verdict.limit

\* A page of this installation that has its cookie may always act, before and after
\* signing in and whoever else writes to the cookie, and nobody but it may.
OnlyOurPages ==
  verdict.outcome \in {"served", "rejected"} /\ verdict.checked =>
    (verdict.outcome = "served" <=> verdict.sender = "page" /\ verdict.held # 0)

\* The door lets through whom it should: it holds back whoever tries too often and nobody
\* else, and admits this installation's own pages and no others.
DoorIsFair == TriesBounded /\ NobodyElsesFault /\ OnlyOurPages
=============================================================================
