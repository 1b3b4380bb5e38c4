-------------------------- MODULE Accounts_proofs --------------------------
(***************************************************************************)
(* What signing in through others promises, for any number of browsers,    *)
(* accounts, identities, passkeys and ceremonies; what the keys that       *)
(* people hand out do, for any number of people, keys and requests; and    *)
(* accounts from a directory, for any people, rows, runners and attributes *)
(* and any number of runs, sign-ins and faults: whoever was listed keeps   *)
(* their account, and a run does what was agreed and leaves it on record.  *)
(***************************************************************************)
EXTENDS Ceremonies, Keys, DirectorySync, FiniteSetTheorems, WellFoundedInduction,
        NaturalsInduction, TLAPS

-----------------------------------------------------------------------------
(* What waits.                                                             *)

Round == [kind : {"none", "signIn", "link", "register", "login"}, who : Persons \cup {""},
          issuer : Issuers \cup {""}, expires : Int]
Work == [at : {"none", "identify", "bySubject", "check", "link", "open"}, round : Round,
         subject : Subjects \cup {""}, who : Persons \cup {""}, barred : SUBSET (Persons \cup {BuiltIn})]

Identities == [issuer : Issuers \cup {""}, subject : Subjects \cup {""}]

\* The types of what is kept.
CeremonyTyped ==
  /\ hour \in Int /\ lastSweep \in Int /\ lastPut \in Int /\ begun \in Nat
  /\ waiting \in [Rounds -> Round] /\ taken \in [Rounds -> Nat]
  /\ external \in SUBSET Persons /\ issuer \in Issuers \cup {""}
  /\ seat \in [Browsers -> Persons \cup {""}] /\ passkeys \in [Credentials -> Persons \cup {""}]
  /\ work \in [Browsers -> Work] /\ identities \in [Persons -> Identities]

\* A token is given out once, so a ceremony that was finished does not wait again.
TakenInv ==
  \A t \in Rounds :
    /\ taken[t] \in {0, 1}
    /\ taken[t] = 1 => waiting[t] = NoRound
    /\ taken[t] = 1 \/ waiting[t] # NoRound => t <= begun

\* A sweep leaves nothing that was over when it ran, and what came since expires later still.
SweepInv ==
  /\ lastSweep <= hour
  /\ \A t \in Rounds : waiting[t] # NoRound => lastSweep <= waiting[t].expires

\* A finishing request goes on with what it found: whose ceremony it is, at which provider,
\* and an account that was not barred when it arrived - the directory only ever adopts more.
WorkInv ==
  \A b \in Browsers :
    /\ work[b].barred \subseteq Barred
    /\ work[b].at \in {"identify", "bySubject", "check", "link"} => work[b].round.issuer # ""
    /\ work[b].at = "identify" /\ work[b].round.kind = "link" => work[b].who = work[b].round.who
    /\ work[b].at \in {"check", "link"} => work[b].who = work[b].round.who
    /\ work[b].at = "link" => work[b].round.who \notin work[b].barred
    /\ work[b].at = "open" => work[b].who \notin work[b].barred

CeremonyInv ==
  /\ CeremonyTyped /\ TakenInv /\ SweepInv /\ WorkInv
  /\ LinkedByItsOwner /\ OneAccountPerIdentity /\ DirectoryDecides /\ AbandonedForgotten

LEMMA Blank ==
  /\ NoRound \in Round /\ NoWork \in Work /\ NoRound.kind = "none" /\ NoWork.at = "none"
  /\ NoWork.barred = {} /\ NoRound.expires \in Int
BY DEF NoRound, NoWork, Round, Work

LEMMA CeremonyInitInv == CeremonyInit => CeremonyInv
<1> SUFFICES ASSUME CeremonyInit PROVE CeremonyInv
  OBVIOUS
<1>0. /\ hour = 0 /\ lastSweep = -SweepEvery /\ lastPut = 0 /\ begun = 0
      /\ waiting = [t \in Rounds |-> NoRound] /\ taken = [t \in Rounds |-> 0]
  BY DEF CeremonyInit
<1>1. CeremonyTyped
  <2>1. hour \in Int /\ lastSweep \in Int /\ lastPut \in Int /\ begun \in Nat /\ taken \in [Rounds -> Nat]
    BY <1>0, CeremonyAssumption
  <2>2. waiting \in [Rounds -> Round] /\ work \in [Browsers -> Work]
    BY Blank DEF CeremonyInit
  <2>3. passkeys \in [Credentials -> Persons \cup {""}]
    BY DEF CeremonyInit
  <2>4. seat \in [Browsers -> Persons \cup {""}]
    <3>1. PICK p0 : p0 \in Persons /\ p0 # BuiltIn
      BY DEF CeremonyInit
    <3>2. (CHOOSE p \in Persons : p # BuiltIn) \in Persons
      BY <3>1
    <3> QED
      BY <3>2 DEF CeremonyInit
  <2>5. external \in SUBSET Persons /\ issuer \in Issuers \cup {""}
    BY DEF CeremonyInit
  <2>6. identities \in [Persons -> Identities]
    BY DEF CeremonyInit, NoIdentity, Identities
  <2> QED
    BY <2>1, <2>2, <2>3, <2>4, <2>5, <2>6 DEF CeremonyTyped
<1>2. TakenInv
  BY <1>0 DEF TakenInv
<1>3. SweepInv
  BY <1>0, CeremonyAssumption DEF SweepInv
<1>4. WorkInv
  BY Blank DEF CeremonyInit, WorkInv
<1>5. AbandonedForgotten
  BY DEF CeremonyInit, AbandonedForgotten
<1>6. LinkedByItsOwner /\ DirectoryDecides
  BY DEF CeremonyInit, LinkedByItsOwner, DirectoryDecides, NoEvent
<1>7. OneAccountPerIdentity
  BY DEF CeremonyInit, OneAccountPerIdentity
<1> QED
  BY <1>1, <1>2, <1>3, <1>4, <1>5, <1>6, <1>7 DEF CeremonyInv

-----------------------------------------------------------------------------
(* The store of ceremonies.                                                *)

Store == <<hour, lastSweep, lastPut, begun, waiting, taken>>
StoreTyped ==
  /\ hour \in Int /\ lastSweep \in Int /\ lastPut \in Int /\ begun \in Nat
  /\ waiting \in [Rounds -> Round] /\ taken \in [Rounds -> Nat]
StoreInv == StoreTyped /\ TakenInv /\ SweepInv /\ AbandonedForgotten

LEMMA StoreOf == CeremonyInv => StoreInv
BY DEF CeremonyInv, StoreInv, CeremonyTyped, StoreTyped

LEMMA RoundFields ==
  ASSUME NEW round \in Round
  PROVE  /\ round.expires \in Int
         /\ \A n \in Int : /\ [round EXCEPT !.expires = n] \in Round /\ [round EXCEPT !.expires = n].expires = n
                           /\ [round EXCEPT !.expires = n].kind = round.kind
BY DEF Round

\* A sweep leaves a ceremony as it was, or nothing of it.
LEMMA Sweeping ==
  ASSUME StoreInv
  PROVE  /\ swept \in [Rounds -> Round]
         /\ \A t \in Rounds : swept[t] = NoRound \/ swept[t] = waiting[t]
         /\ \A t \in Rounds : hour - lastSweep >= SweepEvery /\ swept[t] # NoRound => hour <= waiting[t].expires
<1>1. waiting \in [Rounds -> Round] /\ \A t \in Rounds : waiting[t].expires \in Int
  BY RoundFields DEF StoreInv, StoreTyped
<1>2. hour \in Int /\ lastSweep \in Int /\ SweepEvery \in Nat
  BY CeremonyAssumption DEF StoreInv, StoreTyped
<1> QED
  BY <1>1, <1>2, Blank DEF swept

LEMMA BeginStore ==
  ASSUME StoreInv, NEW b \in Browsers, NEW round \in Round, Begin(b, round)
  PROVE  StoreInv'
<1>1. begun < MaxRounds /\ begun' = begun + 1 /\ hour' = hour /\ taken' = taken
  BY DEF Begin
<1>2. begun + 1 \in Rounds /\ begun \in Nat /\ hour \in Int /\ lastSweep \in Int /\ SweepEvery \in Nat \ {0}
      /\ RoundLife \in Nat /\ Rounds \subseteq Nat
  BY <1>1, CeremonyAssumption DEF StoreInv, StoreTyped, Rounds
<1> DEFINE new == [round EXCEPT !.expires = hour + RoundLife]
<1>3. new \in Round /\ new.expires = hour + RoundLife
  BY <1>2, RoundFields
<1>4. waiting' = [swept EXCEPT ![begun + 1] = new] /\ lastPut' = hour
      /\ lastSweep' = IF hour - lastSweep < SweepEvery THEN lastSweep ELSE hour
  BY DEF Begin, put
<1> HIDE DEF new
<1>5. \A t \in Rounds : swept[t] # NoRound => swept[t] = waiting[t]
  BY Sweeping
<1>6. waiting' \in [Rounds -> Round] /\ waiting'[begun + 1] = new
      /\ \A t \in Rounds : t # begun + 1 => waiting'[t] = swept[t]
  BY <1>2, <1>3, <1>4, Sweeping
<1>7. StoreTyped'
  BY <1>1, <1>2, <1>4, <1>6 DEF StoreInv, StoreTyped
<1>8. TakenInv'
  BY <1>1, <1>2, <1>5, <1>6 DEF StoreInv, TakenInv
<1>9. ASSUME NEW t \in Rounds, waiting'[t] # NoRound
      PROVE  waiting'[t].expires \in Int /\ lastSweep' <= waiting'[t].expires
             /\ lastPut' - waiting'[t].expires < SweepEvery
  <2>1. CASE t = begun + 1
    BY <1>2, <1>3, <1>4, <1>6, <2>1 DEF StoreInv, SweepInv
  <2>2. CASE t # begun + 1
    <3>1. swept[t] # NoRound /\ waiting'[t] = waiting[t] /\ waiting[t] # NoRound
      BY <1>5, <1>6, <1>9, <2>2
    <3>2. waiting[t].expires \in Int
      BY RoundFields DEF StoreInv, StoreTyped
    <3>3. lastSweep <= waiting[t].expires
      BY <3>1 DEF StoreInv, SweepInv
    <3>4. hour - lastSweep >= SweepEvery => hour <= waiting[t].expires
      BY <3>1, Sweeping
    <3> QED
      BY <1>2, <1>4, <3>1, <3>2, <3>3, <3>4
  <2> QED
    BY <2>1, <2>2
<1>10. SweepInv' /\ AbandonedForgotten'
  BY <1>1, <1>2, <1>4, <1>9 DEF StoreInv, SweepInv, AbandonedForgotten
<1> QED
  BY <1>7, <1>8, <1>10 DEF StoreInv

\* A ceremony is taken out, and may be finished when it was there.
LEMMA TakeStore ==
  ASSUME StoreInv, NEW t \in Rounds, take(t), UNCHANGED <<hour, lastSweep, lastPut, begun>>,
         taken' = taken \/ (waiting[t].kind # "none" /\ taken' = [taken EXCEPT ![t] = @ + 1])
  PROVE  StoreInv'
<1>1. waiting' = [waiting EXCEPT ![t] = NoRound] /\ waiting \in [Rounds -> Round] /\ taken \in [Rounds -> Nat]
  BY DEF take, StoreInv, StoreTyped
<1>2. waiting' \in [Rounds -> Round] /\ waiting'[t] = NoRound /\ \A x \in Rounds : x # t => waiting'[x] = waiting[x]
  BY <1>1, Blank
<1>3. waiting[t].kind # "none" => waiting[t] # NoRound
  BY Blank
<1>4. taken' \in [Rounds -> Nat]
      /\ (taken'[t] = taken[t] \/ (waiting[t] # NoRound /\ taken'[t] = taken[t] + 1))
      /\ \A x \in Rounds : x # t => taken'[x] = taken[x]
  BY <1>1, <1>3
<1>5. StoreTyped'
  BY <1>2, <1>4 DEF StoreInv, StoreTyped
<1>6. TakenInv'
  <2>1. ASSUME NEW x \in Rounds
        PROVE  /\ taken'[x] \in {0, 1} /\ (taken'[x] = 1 => waiting'[x] = NoRound)
               /\ (taken'[x] = 1 \/ waiting'[x] # NoRound => x <= begun')
    BY <1>2, <1>4 DEF StoreInv, TakenInv
  <2> QED
    BY <2>1 DEF TakenInv
<1>7. SweepInv' /\ AbandonedForgotten'
  BY <1>2 DEF StoreInv, SweepInv, AbandonedForgotten
<1> QED
  BY <1>5, <1>6, <1>7 DEF StoreInv

LEMMA KeepStore == StoreInv /\ UNCHANGED Store => StoreInv'
BY DEF Store, StoreInv, StoreTyped, TakenInv, SweepInv, AbandonedForgotten

-----------------------------------------------------------------------------
(* The requests that finish one.                                           *)

\* What a step of the requests and accounts has to keep, beside the store.
RestTyped ==
  /\ external \in SUBSET Persons /\ issuer \in Issuers \cup {""}
  /\ seat \in [Browsers -> Persons \cup {""}] /\ passkeys \in [Credentials -> Persons \cup {""}]
  /\ work \in [Browsers -> Work] /\ identities \in [Persons -> Identities]
RestInv ==
  RestTyped /\ WorkInv /\ LinkedByItsOwner /\ OneAccountPerIdentity /\ DirectoryDecides
Rest == <<external, issuer, seat, passkeys, work, identities, event>>

LEMMA BothParts == CeremonyInv <=> StoreInv /\ RestInv
BY DEF CeremonyInv, StoreInv, RestInv, CeremonyTyped, StoreTyped, RestTyped

LEMMA BothPartsNext == CeremonyInv' <=> StoreInv' /\ RestInv'
BY DEF CeremonyInv, StoreInv, RestInv, CeremonyTyped, StoreTyped, RestTyped

LEMMA KeepRest == RestInv /\ UNCHANGED Rest => RestInv'
BY DEF Rest, RestInv, RestTyped, WorkInv, LinkedByItsOwner, OneAccountPerIdentity, DirectoryDecides, Barred

\* What is right about one finishing request.
Right(w) ==
  /\ w \in Work /\ w.barred \subseteq Barred
  /\ w.at \in {"identify", "bySubject", "check", "link"} => w.round.issuer # ""
  /\ w.at = "identify" /\ w.round.kind = "link" => w.who = w.round.who
  /\ w.at \in {"check", "link"} => w.who = w.round.who
  /\ w.at = "link" => w.round.who \notin w.barred
  /\ w.at = "open" => w.who \notin w.barred

LEMMA RightNow == RestInv <=>
  /\ external \in SUBSET Persons /\ issuer \in Issuers \cup {""}
  /\ seat \in [Browsers -> Persons \cup {""}] /\ passkeys \in [Credentials -> Persons \cup {""}]
  /\ work \in [Browsers -> Work] /\ \A b \in Browsers : Right(work[b])
  /\ identities \in [Persons -> Identities]
  /\ LinkedByItsOwner /\ OneAccountPerIdentity /\ DirectoryDecides
BY DEF RestInv, RestTyped, WorkInv, Right

LEMMA NothingIsRight == Right(NoWork)
BY Blank DEF Right

\* One request comes to something else, nobody's identity and nothing that came of it changes.
LEMMA WorkStep ==
  ASSUME RestInv, NEW b \in Browsers, NEW w, Right(w), work' = [work EXCEPT ![b] = w],
         UNCHANGED <<external, issuer, seat, passkeys, identities, event>>
  PROVE  RestInv'
<1>1. work' \in [Browsers -> Work] /\ \A x \in Browsers : work'[x] = IF x = b THEN w ELSE work[x]
  BY DEF Right, RestInv, RestTyped
<1>2. \A x \in Browsers : Right(work'[x])
  BY <1>1, RightNow
<1>3. WorkInv'
  BY <1>2 DEF WorkInv, Right, Barred
<1>4. RestTyped'
  BY <1>1 DEF RestInv, RestTyped
<1> QED
  BY <1>3, <1>4 DEF RestInv, LinkedByItsOwner, OneAccountPerIdentity, DirectoryDecides

LEMMA FinishRoundInv ==
  ASSUME CeremonyInv, NEW b \in Browsers, NEW t \in Rounds, FinishRound(b, t)
  PROVE  CeremonyInv'
<1>1. StoreInv /\ RestInv
  BY BothParts
<1>2. StoreInv'
  <2>1. CASE waiting[t].kind \in {"signIn", "link"}
    <3>1. take(t) /\ UNCHANGED <<hour, lastSweep, lastPut, begun>>
      BY <2>1 DEF FinishRound
    <3>2. taken' = taken \/ (waiting[t].kind # "none" /\ taken' = [taken EXCEPT ![t] = @ + 1])
      BY <2>1 DEF FinishRound
    <3> QED
      BY <1>1, <3>1, <3>2, TakeStore
  <2>2. CASE waiting[t].kind \notin {"signIn", "link"}
    <3>1. roundOver(t)
      BY <2>2 DEF roundOver, found
    <3> QED
      BY <1>1, <2>2, <3>1, KeepStore DEF FinishRound, Store
  <2> QED
    BY <2>1, <2>2
<1>3. RestInv'
  <2>1. UNCHANGED <<external, issuer, seat, passkeys, identities, event>>
    BY DEF FinishRound
  <2>2. CASE roundOver(t) \/ NotTheAskers(b, waiting[t])
    BY <1>1, <2>1, <2>2, KeepRest DEF FinishRound, Rest
  <2>3. CASE ~(roundOver(t) \/ NotTheAskers(b, waiting[t]))
    <3> DEFINE w == [NoWork EXCEPT !.at = "identify", !.round = waiting[t], !.who = seat[b], !.barred = Barred]
    <3>1. work' = [work EXCEPT ![b] = w]
      BY <2>3 DEF FinishRound
    <3>2. waiting[t] \in Round /\ seat[b] \in Persons \cup {""} /\ Barred \in SUBSET (Persons \cup {BuiltIn})
      BY <1>1 DEF StoreInv, StoreTyped, RestInv, RestTyped, Barred
    <3>3. w \in Work /\ w.at = "identify" /\ w.round = waiting[t] /\ w.who = seat[b] /\ w.barred = Barred
      BY <3>2 DEF NoWork, Work
    <3> HIDE DEF w
    <3>4. waiting[t].issuer # "" /\ (waiting[t].kind = "link" => seat[b] = waiting[t].who)
      BY <2>3 DEF roundOver, NotTheAskers
    <3>5. Right(w)
      BY <3>3, <3>4 DEF Right
    <3> QED
      BY <1>1, <2>1, <3>1, <3>5, WorkStep
  <2> QED
    BY <2>2, <2>3
<1> QED
  BY <1>2, <1>3, BothPartsNext

\* The steps of a finishing request leave the store alone.
LEMMA SameStore == Same => UNCHANGED Store
BY DEF Same, Store

LEMMA IdentifyInv ==
  ASSUME CeremonyInv, NEW b \in Browsers, NEW s \in Subjects, Identify(b, s)
  PROVE  CeremonyInv'
<1>1. StoreInv /\ RestInv
  BY BothParts
<1>2. StoreInv'
  BY <1>1, SameStore, KeepStore DEF Identify
<1> DEFINE to == IF work[b].round.kind = "link" THEN "check" ELSE "bySubject"
<1> DEFINE w == [work[b] EXCEPT !.at = to, !.subject = s]
<1>3. work[b].at = "identify" /\ Right(work[b]) /\ work \in [Browsers -> Work]
  BY <1>1, RightNow DEF Identify
<1>4. work' = [work EXCEPT ![b] = w]
  BY <1>3 DEF Identify
<1>5. w \in Work /\ w.at = to /\ w.round = work[b].round /\ w.who = work[b].who /\ w.barred = work[b].barred
  BY <1>3 DEF Work
<1> HIDE DEF w
<1>6. Right(w)
  BY <1>3, <1>5 DEF Right
<1>7. RestInv'
  BY <1>1, <1>4, <1>6, WorkStep DEF Identify, Same
<1> QED
  BY <1>2, <1>7, BothPartsNext

LEMMA IdentifyFailsInv ==
  ASSUME CeremonyInv, NEW b \in Browsers, IdentifyFails(b)
  PROVE  CeremonyInv'
<1>1. StoreInv /\ RestInv
  BY BothParts
<1>2. StoreInv'
  BY <1>1, SameStore, KeepStore DEF IdentifyFails
<1>3. RestInv'
  BY <1>1, NothingIsRight, WorkStep DEF IdentifyFails, Same
<1> QED
  BY <1>2, <1>3, BothPartsNext

\* An identity at a configured provider belongs to one account at most.
LEMMA OneIsLinked ==
  ASSUME RestInv, NEW b \in Browsers, work[b].round.issuer # "", NEW p \in Linked(b), NEW q \in Linked(b)
  PROVE  p = q /\ p \in Persons
<1>1. p \in Persons /\ q \in Persons /\ identities[p] = [issuer |-> work[b].round.issuer, subject |-> work[b].subject]
      /\ identities[q] = identities[p]
  BY DEF Linked, linkedTo
<1>2. identities[p] # NoIdentity
  <2>1. NoIdentity.issuer = ""
    BY DEF NoIdentity
  <2>2. [issuer |-> work[b].round.issuer, subject |-> work[b].subject].issuer = work[b].round.issuer
    OBVIOUS
  <2>3. identities[p].issuer = work[b].round.issuer
    BY <1>1, <2>2, Zenon
  <2> QED
    BY <2>1, <2>3
<1> QED
  BY <1>1, <1>2 DEF RestInv, OneAccountPerIdentity

LEMMA BySubjectInv ==
  ASSUME CeremonyInv, NEW b \in Browsers, BySubject(b)
  PROVE  CeremonyInv'
<1>1. StoreInv /\ RestInv
  BY BothParts
<1>2. StoreInv'
  BY <1>1, SameStore, KeepStore DEF BySubject
<1>3. work[b].at = "bySubject" /\ Right(work[b]) /\ work \in [Browsers -> Work]
  BY <1>1, RightNow DEF BySubject
<1>4. UNCHANGED <<external, issuer, seat, passkeys, identities, event>>
  BY DEF BySubject, Same
<1>5. CASE \E p \in Linked(b) : mayGoThroughAProvider(p)
  <2> DEFINE found1 == CHOOSE p \in Linked(b) : TRUE
  <2> DEFINE w == [work[b] EXCEPT !.at = "open", !.who = found1]
  <2>1. work' = [work EXCEPT ![b] = w]
    BY <1>3, <1>5 DEF BySubject
  <2>2. PICK p \in Linked(b) : mayGoThroughAProvider(p)
    BY <1>5
  <2>3. found1 \in Linked(b)
    BY <2>2
  <2>4. found1 = p /\ found1 \in Persons
    BY <1>1, <1>3, <2>2, <2>3, OneIsLinked DEF Right
  <2> HIDE DEF found1
  <2>5. w \in Work /\ w.at = "open" /\ w.who = found1 /\ w.barred = work[b].barred
    BY <1>3, <2>4 DEF Work
  <2>6. found1 \notin work[b].barred
    BY <1>3, <2>2, <2>4 DEF mayGoThroughAProvider, Right, Barred
  <2> HIDE DEF w
  <2>7. Right(w)
    BY <1>3, <2>5, <2>6 DEF Right
  <2>8. RestInv'
    BY <1>1, <1>4, <2>1, <2>7, WorkStep
  <2> QED
    BY <1>2, <2>8, BothPartsNext
<1>6. CASE ~ \E p \in Linked(b) : mayGoThroughAProvider(p)
  <2>1. work' = [work EXCEPT ![b] = NoWork]
    BY <1>6 DEF BySubject
  <2>2. RestInv'
    BY <1>1, <1>4, <2>1, NothingIsRight, WorkStep
  <2> QED
    BY <1>2, <2>2, BothPartsNext
<1> QED
  BY <1>5, <1>6

LEMMA CheckLinkInv ==
  ASSUME CeremonyInv, NEW b \in Browsers, CheckLink(b)
  PROVE  CeremonyInv'
<1>1. StoreInv /\ RestInv
  BY BothParts
<1>2. StoreInv'
  BY <1>1, SameStore, KeepStore DEF CheckLink
<1>3. work[b].at = "check" /\ Right(work[b]) /\ work \in [Browsers -> Work]
  BY <1>1, RightNow DEF CheckLink
<1>4. UNCHANGED <<external, issuer, seat, passkeys, identities, event>>
  BY DEF CheckLink, Same
<1>5. CASE mayGoThroughAProvider(work[b].round.who) /\ Linked(b) \subseteq {work[b].round.who}
  <2> DEFINE w == [work[b] EXCEPT !.at = "link"]
  <2>1. work' = [work EXCEPT ![b] = w]
    BY <1>3, <1>5 DEF CheckLink
  <2>2. w \in Work /\ w.at = "link" /\ w.round = work[b].round /\ w.who = work[b].who /\ w.barred = work[b].barred
    BY <1>3 DEF Work
  <2>3. work[b].round.who \notin work[b].barred
    BY <1>3, <1>5 DEF mayGoThroughAProvider, Right, Barred
  <2> HIDE DEF w
  <2>4. Right(w)
    BY <1>3, <2>2, <2>3 DEF Right
  <2>5. RestInv'
    BY <1>1, <1>4, <2>1, <2>4, WorkStep
  <2> QED
    BY <1>2, <2>5, BothPartsNext
<1>6. CASE ~(mayGoThroughAProvider(work[b].round.who) /\ Linked(b) \subseteq {work[b].round.who})
  <2>1. work' = [work EXCEPT ![b] = NoWork]
    BY <1>6 DEF CheckLink
  <2>2. RestInv'
    BY <1>1, <1>4, <2>1, NothingIsRight, WorkStep
  <2> QED
    BY <1>2, <2>2, BothPartsNext
<1> QED
  BY <1>5, <1>6


LEMMA StoreLinkInv ==
  ASSUME CeremonyInv, NEW b \in Browsers, StoreLink(b)
  PROVE  CeremonyInv'
<1>1. StoreInv /\ RestInv
  BY BothParts
<1>2. StoreInv'
  BY <1>1, SameStore, KeepStore DEF StoreLink
<1> DEFINE who == work[b].round.who
<1> DEFINE new == [issuer |-> work[b].round.issuer, subject |-> work[b].subject]
<1>3. work[b].at = "link" /\ Right(work[b]) /\ work \in [Browsers -> Work] /\ identities \in [Persons -> Identities]
  BY <1>1, RightNow DEF StoreLink
<1>4. UNCHANGED <<external, issuer, seat, passkeys>> /\ work' = [work EXCEPT ![b] = NoWork]
  BY DEF StoreLink, Same
<1>5. new \in Identities
  BY <1>3 DEF Work, Round, Identities
<1>6. Linked(b) = {p \in Persons : identities[p] = new}
  BY DEF Linked, linkedTo
<1>7. identities' = IF Linked(b) \subseteq {who} THEN [identities EXCEPT ![who] = new] ELSE identities
  BY DEF StoreLink, Link
<1> HIDE DEF new
<1>8. identities' \in [Persons -> Identities]
  BY <1>3, <1>5, <1>7
<1>9. OneAccountPerIdentity'
  <2>1. CASE ~(Linked(b) \subseteq {who})
    BY <1>1, <1>7, <2>1 DEF RestInv, OneAccountPerIdentity
  <2>2. ASSUME Linked(b) \subseteq {who}, NEW p \in Persons, NEW q \in Persons,
               identities'[p] = identities'[q], identities'[p] # NoIdentity
        PROVE  p = q
    <3>1. \A x \in Persons : identities'[x] = IF x = who THEN new ELSE identities[x]
      BY <1>3, <1>7, <2>2
    <3>2. \A x \in Persons : identities[x] = new => x = who
      BY <1>6, <2>2
    <3> QED
      BY <1>1, <2>2, <3>1, <3>2 DEF RestInv, OneAccountPerIdentity
  <2> QED
    BY <2>1, <2>2 DEF OneAccountPerIdentity
<1>10. LinkedByItsOwner' /\ DirectoryDecides'
  <2>1. event'.who = who /\ event'.barred = work[b].barred /\ event'.asker = work[b].who
    BY DEF StoreLink
  <2> QED
    BY <1>3, <2>1 DEF LinkedByItsOwner, DirectoryDecides, Right
<1>11. \A x \in Browsers : work'[x] \in Work /\ Right(work'[x])
  BY <1>1, <1>3, <1>4, RightNow, NothingIsRight, Blank
<1>12. WorkInv' /\ RestTyped'
  <2>1. work' \in [Browsers -> Work]
    BY <1>3, <1>4, Blank
  <2>2. RestTyped'
    BY <1>1, <1>4, <1>8, <2>1 DEF RestInv, RestTyped
  <2>3. WorkInv'
    BY <1>4, <1>11 DEF WorkInv, Right, Barred
  <2> QED
    BY <2>2, <2>3
<1> QED
  BY <1>2, <1>9, <1>10, <1>12, BothPartsNext DEF RestInv

-----------------------------------------------------------------------------
(* Beginning a ceremony, passkeys, and what goes on meanwhile.             *)

LEMMA RoundOf ==
  ASSUME NEW kind \in {"signIn", "link", "register", "login"}, NEW who \in Persons \cup {""},
         NEW provider \in Issuers \cup {""}, NEW n \in Int
  PROVE  [kind |-> kind, who |-> who, issuer |-> provider, expires |-> n] \in Round
BY DEF Round

LEMMA BeginInv ==
  ASSUME CeremonyInv, NEW b \in Browsers, BeginSignIn(b) \/ BeginLink(b) \/ BeginRegistration(b) \/ BeginLogin(b)
  PROVE  CeremonyInv'
<1>1. StoreInv /\ RestInv
  BY BothParts
<1>2. PICK round \in Round : Begin(b, round)
  <2>1. seat[b] \in Persons \cup {""} /\ issuer \in Issuers \cup {""}
    BY <1>1, RightNow
  <2>2. [kind |-> "signIn", who |-> "", issuer |-> issuer, expires |-> 0] \in Round
        /\ [kind |-> "link", who |-> seat[b], issuer |-> issuer, expires |-> 0] \in Round
        /\ [kind |-> "register", who |-> seat[b], issuer |-> "", expires |-> 0] \in Round
        /\ [kind |-> "login", who |-> "", issuer |-> "", expires |-> 0] \in Round
    <3>1. 0 \in Int
      OBVIOUS
    <3> QED
      BY <2>1, <3>1, RoundOf, Zenon
  <2> QED
    BY <2>2 DEF BeginSignIn, BeginLink, BeginRegistration, BeginLogin
<1>3. StoreInv'
  BY <1>1, <1>2, BeginStore
<1>4. RestInv'
  BY <1>1, <1>2, KeepRest DEF Begin, Rest
<1> QED
  BY <1>3, <1>4, BothPartsNext

LEMMA FinishRegistrationInv ==
  ASSUME CeremonyInv, NEW b \in Browsers, NEW t \in Rounds, NEW k \in Credentials, FinishRegistration(b, t, k)
  PROVE  CeremonyInv'
<1>1. StoreInv /\ RestInv
  BY BothParts
<1>2. StoreInv'
  <2>1. take(t) /\ UNCHANGED <<hour, lastSweep, lastPut, begun>>
    BY DEF FinishRegistration
  <2>2. taken' = taken \/ (waiting[t].kind # "none" /\ taken' = [taken EXCEPT ![t] = @ + 1])
    BY DEF FinishRegistration
  <2> QED
    BY <1>1, <2>1, <2>2, TakeStore
<1>3. RestInv'
  <2>1. UNCHANGED <<external, issuer, seat, identities, work>>
    BY DEF FinishRegistration
  <2>2. CASE passkeys' = passkeys /\ event' = event
    BY <1>1, <2>1, <2>2, KeepRest DEF Rest
  <2>3. CASE ~(passkeys' = passkeys /\ event' = event)
    <3>1. passkeys' = [passkeys EXCEPT ![k] = seat[b]] /\ waiting[t].who = seat[b]
          /\ event' = [NoEvent EXCEPT !.kind = "registered", !.who = seat[b], !.asker = waiting[t].who]
      BY <2>3 DEF FinishRegistration
    <3>2. event'.kind = "registered" /\ event'.asker = event'.who
      BY <3>1 DEF NoEvent
    <3>3. LinkedByItsOwner' /\ DirectoryDecides'
      BY <3>2 DEF LinkedByItsOwner, DirectoryDecides
    <3>4. RestTyped'
      BY <1>1, <2>1, <3>1 DEF RestInv, RestTyped
    <3> QED
      BY <1>1, <2>1, <3>3, <3>4 DEF RestInv, WorkInv, OneAccountPerIdentity, Barred
  <2> QED
    BY <2>2, <2>3
<1> QED
  BY <1>2, <1>3, BothPartsNext

LEMMA FinishLoginInv ==
  ASSUME CeremonyInv, NEW b \in Browsers, NEW t \in Rounds, NEW k \in Credentials, FinishLogin(b, t, k)
  PROVE  CeremonyInv'
<1>1. StoreInv /\ RestInv
  BY BothParts
<1>2. StoreInv'
  <2>1. take(t) /\ UNCHANGED <<hour, lastSweep, lastPut, begun>>
    BY DEF FinishLogin
  <2>2. taken' = taken \/ (waiting[t].kind # "none" /\ taken' = [taken EXCEPT ![t] = @ + 1])
    BY DEF FinishLogin
  <2> QED
    BY <1>1, <2>1, <2>2, TakeStore
<1>3. RestInv'
  <2>1. UNCHANGED <<external, issuer, seat, identities, passkeys, event>>
    BY DEF FinishLogin
  <2>2. CASE Accepted(t, k)
    <3> DEFINE w == [NoWork EXCEPT !.at = "open", !.who = passkeys[k], !.barred = Barred]
    <3>1. work' = [work EXCEPT ![b] = w]
      BY <2>2 DEF FinishLogin
    <3>2. passkeys[k] \in Persons \cup {""} /\ Barred \in SUBSET (Persons \cup {BuiltIn})
          /\ passkeys[k] \notin Barred
      BY <1>1, <2>2 DEF RestInv, RestTyped, Barred, Accepted, mayGoThroughAProvider
    <3>3. w \in Work /\ w.at = "open" /\ w.who = passkeys[k] /\ w.barred = Barred
      BY <3>2, Blank DEF NoWork, Work
    <3> HIDE DEF w
    <3>4. Right(w)
      BY <3>2, <3>3 DEF Right
    <3> QED
      BY <1>1, <2>1, <3>1, <3>4, WorkStep
  <2>3. CASE ~Accepted(t, k)
    BY <1>1, <2>1, <2>3, KeepRest DEF FinishLogin, Rest
  <2> QED
    BY <2>2, <2>3
<1> QED
  BY <1>2, <1>3, BothPartsNext

LEMMA CompleteInv ==
  ASSUME CeremonyInv, NEW b \in Browsers, completeSignIn(b)
  PROVE  CeremonyInv'
<1>1. StoreInv /\ RestInv
  BY BothParts
<1>2. StoreInv'
  BY <1>1, SameStore, KeepStore DEF completeSignIn
<1>3. work[b].at = "open" /\ Right(work[b]) /\ work \in [Browsers -> Work]
  BY <1>1, RightNow DEF completeSignIn
<1>4. UNCHANGED <<external, issuer, identities, passkeys>> /\ work' = [work EXCEPT ![b] = NoWork]
  BY DEF completeSignIn, Same
<1>5. seat' \in [Browsers -> Persons \cup {""}]
  <2>1. work[b].who \in Persons \cup {""} /\ seat \in [Browsers -> Persons \cup {""}]
    BY <1>1, <1>3, RightNow DEF Work
  <2> QED
    BY <2>1 DEF completeSignIn
<1>6. LinkedByItsOwner' /\ DirectoryDecides'
  <2>1. CASE event' = event
    BY <1>1, <2>1 DEF RestInv, LinkedByItsOwner, DirectoryDecides
  <2>2. CASE event' # event
    <3>1. event'.kind = "opened" /\ event'.who = work[b].who /\ event'.barred = work[b].barred
      BY <2>2 DEF completeSignIn, NoEvent
    <3> QED
      BY <1>3, <3>1 DEF LinkedByItsOwner, DirectoryDecides, Right
  <2> QED
    BY <2>1, <2>2
<1>7. work' \in [Browsers -> Work]
  BY <1>3, <1>4, Blank
<1>8. \A x \in Browsers : Right(work'[x])
  BY <1>1, <1>3, <1>4, RightNow, NothingIsRight
<1>9. WorkInv'
  BY <1>4, <1>8 DEF WorkInv, Right, Barred
<1>10. RestTyped' /\ OneAccountPerIdentity'
  BY <1>1, <1>4, <1>5, <1>7 DEF RestInv, RestTyped, OneAccountPerIdentity
<1> QED
  BY <1>2, <1>6, <1>9, <1>10, BothPartsNext DEF RestInv

\* Seats, passkeys and settings change: nothing that is under way is about them.
LEMMA MeanwhileInv ==
  ASSUME CeremonyInv, UNCHANGED <<external, identities, work, event>>,
         seat' \in [Browsers -> Persons \cup {""}], passkeys' \in [Credentials -> Persons \cup {""}],
         issuer' \in Issuers \cup {""}, UNCHANGED Store
  PROVE  CeremonyInv'
<1>1. StoreInv'
  BY BothParts, KeepStore
<1>2. RestInv
  BY BothParts
<1>3. RestInv'
  BY <1>2 DEF RestInv, RestTyped, WorkInv, LinkedByItsOwner, OneAccountPerIdentity, DirectoryDecides, Barred
<1> QED
  BY <1>1, <1>3, BothPartsNext

LEMMA UnlinkInv ==
  ASSUME CeremonyInv, NEW b \in Browsers, Unlink(b)
  PROVE  CeremonyInv'
<1>1. StoreInv /\ RestInv
  BY BothParts
<1>2. UNCHANGED <<external, issuer, seat, passkeys, work, event>>
      /\ identities' = [identities EXCEPT ![seat[b]] = NoIdentity] /\ UNCHANGED Store
  BY DEF Unlink, SameMoved, Store
<1>3. identities \in [Persons -> Identities] /\ NoIdentity \in Identities
  BY <1>1 DEF RestInv, RestTyped, NoIdentity, Identities
<1>4. identities' \in [Persons -> Identities]
      /\ \A p \in Persons : identities'[p] = NoIdentity \/ identities'[p] = identities[p]
  BY <1>2, <1>3
<1>5. OneAccountPerIdentity'
  BY <1>1, <1>4 DEF RestInv, OneAccountPerIdentity
<1>6. RestInv'
  BY <1>1, <1>2, <1>4, <1>5 DEF RestInv, RestTyped, WorkInv, LinkedByItsOwner, DirectoryDecides, Barred
<1> QED
  BY <1>1, <1>2, <1>6, KeepStore, BothPartsNext

LEMMA KerberosInv ==
  ASSUME CeremonyInv, NEW b \in Browsers, NEW p \in Persons, KerberosLogin(b, p)
  PROVE  CeremonyInv'
<1>1. StoreInv /\ RestInv
  BY BothParts
<1>2. external' = external \cup {p} /\ UNCHANGED <<issuer, identities, passkeys, work, event>> /\ UNCHANGED Store
  BY DEF KerberosLogin, Store
<1>3. seat' \in [Browsers -> Persons \cup {""}]
  BY <1>1 DEF KerberosLogin, RestInv, RestTyped
<1>4. Barred \subseteq Barred'
  BY <1>2 DEF Barred
<1>5. WorkInv'
  BY <1>1, <1>2, <1>4 DEF RestInv, WorkInv
<1>6. RestInv'
  BY <1>1, <1>2, <1>3, <1>5 DEF RestInv, RestTyped, LinkedByItsOwner, OneAccountPerIdentity, DirectoryDecides
<1> QED
  BY <1>1, <1>2, <1>6, KeepStore, BothPartsNext

LEMMA SeatsInv ==
  ASSUME CeremonyInv, NEW b \in Browsers,
         \/ \E k \in Credentials : DeletePasskey(b, k)
         \/ SignOut(b)
         \/ \E p \in Persons : PasswordLogin(b, p)
  PROVE  CeremonyInv'
<1>1. seat \in [Browsers -> Persons \cup {""}] /\ passkeys \in [Credentials -> Persons \cup {""}]
      /\ issuer \in Issuers \cup {""}
  BY DEF CeremonyInv, CeremonyTyped
<1>2. seat' \in [Browsers -> Persons \cup {""}] /\ passkeys' \in [Credentials -> Persons \cup {""}]
  BY <1>1 DEF DeletePasskey, SignOut, PasswordLogin
<1>3. UNCHANGED <<external, issuer, identities, work, event>> /\ UNCHANGED Store
  BY DEF DeletePasskey, SignOut, PasswordLogin, SameMoved, Store
<1> QED
  BY <1>1, <1>2, <1>3, MeanwhileInv

LEMMA SettingsInv ==
  ASSUME CeremonyInv, SetMaintenance \/ \E i \in Issuers : SaveOpenID(i)
  PROVE  CeremonyInv'
<1>1. seat \in [Browsers -> Persons \cup {""}] /\ passkeys \in [Credentials -> Persons \cup {""}]
      /\ issuer \in Issuers \cup {""}
  BY DEF CeremonyInv, CeremonyTyped
<1>2. UNCHANGED <<external, identities, work, event, seat, passkeys>> /\ UNCHANGED Store
      /\ issuer' \in Issuers \cup {""}
  BY <1>1 DEF SetMaintenance, SaveOpenID, Store
<1> QED
  BY <1>1, <1>2, MeanwhileInv

LEMMA HourInv ==
  ASSUME CeremonyInv, HourPasses
  PROVE  CeremonyInv'
<1>1. StoreInv /\ RestInv
  BY BothParts
<1>2. hour' = hour + 1 /\ UNCHANGED <<lastSweep, lastPut, begun, waiting, taken>> /\ UNCHANGED Rest
  BY DEF HourPasses, Rest
<1>3. StoreInv'
  BY <1>1, <1>2 DEF StoreInv, StoreTyped, TakenInv, SweepInv, AbandonedForgotten
<1>4. RestInv'
  BY <1>1, <1>2, KeepRest
<1> QED
  BY <1>3, <1>4, BothPartsNext

LEMMA CeremonyInvariant == CeremonySpec => []CeremonyInv
<1>1. CeremonyInv /\ [CeremonyNext]_ceremonyVars => CeremonyInv'
  <2> SUFFICES ASSUME CeremonyInv, [CeremonyNext]_ceremonyVars PROVE CeremonyInv'
    OBVIOUS
  <2>1. CASE UNCHANGED ceremonyVars
    BY <2>1, BothParts, BothPartsNext, KeepStore, KeepRest DEF ceremonyVars, Store, Rest
  <2> QED
    BY <2>1, BeginInv, FinishRoundInv, FinishRegistrationInv, FinishLoginInv, IdentifyInv, IdentifyFailsInv,
       BySubjectInv, CheckLinkInv, StoreLinkInv, UnlinkInv, CompleteInv, SeatsInv, KerberosInv, SettingsInv,
       HourInv DEF CeremonyNext
<1> QED
  BY <1>1, CeremonyInitInv, PTL DEF CeremonySpec

\* However the two requests of ceremonies are interleaved, whatever the directory, an
\* administrator or the person does in between and however long it takes: a ceremony is
\* finished at most once, for the one who began it; an identity signs in one account; nobody
\* who was the directory's when the request came is let in or linked; and what nobody came
\* back for is forgotten.
THEOREM CeremoniesEndWell == CeremonySpec => []EndsWithWhoBegan
<1>1. CeremonyInv => EndsWithWhoBegan
  <2> SUFFICES ASSUME CeremonyInv PROVE EndsWithWhoBegan
    OBVIOUS
  <2>1. OneFinish
    BY DEF CeremonyInv, TakenInv, OneFinish
  <2> QED
    BY <2>1 DEF CeremonyInv, EndsWithWhoBegan
<1> QED
  BY <1>1, CeremonyInvariant, PTL

-----------------------------------------------------------------------------
(* Keys: the tables, and what a request that presents one has read.        *)

KeyNames == {"token", "feed"}
CallPlaces == {"idle", "save", "lookup", "owner", "touch", "role", "done"}
KeyAnswers == {"", "made", "conflict", "served", "refused", "unknown"}

\* The types of the tables, of the requests and of what is watched for them.
KeyTyped ==
  /\ clock \in Nat /\ clock <= MaxClock
  /\ people \in [People -> [state : {"there", "gone"}, mustChange : BOOLEAN, reads : BOOLEAN,
                            changes : Int]]
  /\ secrets \in [AllKeys -> [kind : KeyNames \cup {"none"}, owner : People \cup {""}]]
  /\ tokens \in [AllKeys -> [state : {"none", "there", "gone"}, expires : Int, used : Int]]
  /\ feeds \in [People -> [key : 0 .. MaxKeys, read : Int]]
  /\ calls \in [KeyCalls -> [at : CallPlaces, as : People \cup KeyNames \cup {""},
                             key : 0 .. MaxKeys, seen : Int, answer : KeyAnswers,
                             recorded : BOOLEAN]]
  /\ watch \in [KeyCalls -> [always : SUBSET Conditions, never : SUBSET Conditions]]

\* Keys are made in their order, and a row is of a key of its kind and its owner's.
RowsInv ==
  /\ \E n \in 0 .. MaxKeys : Issued = 1 .. n
  /\ \A k \in Issued : ownerOf(k) \in People
  /\ \A k \in AllKeys : tokens[k].state # "none" <=> secrets[k].kind = "token"
  /\ \A k \in AllKeys : tokens[k].used <= clock
  /\ \A u \in People :
       /\ feeds[u].read <= clock
       /\ feeds[u].key # 0 => /\ feeds[u].key \in Issued
                              /\ secrets[feeds[u].key] = [kind |-> "feed", owner |-> u]

\* What has been asked of a key, and found, by the time its request is where it is.
Asked(q) ==
  CASE q.at = "lookup" -> {}
    [] q.at = "owner" -> {"key", "time"}
    [] q.at = "touch" /\ q.as = "feed" -> Conditions
    [] OTHER -> Conditions \ {"right"}

\* A token that is not taken back shows a use.
Shows(k) == tokens[k].used # Never \/ tokens[k].state = "gone"

Presented(q) == q.at \in {"lookup", "owner", "touch", "role"}

PresentedInv(q, w) ==
  /\ q.as \in KeyNames /\ q.key \in Issued /\ q.answer = ""
  /\ w.always \subseteq Holds(q.as, q.key) /\ w.never \cap Holds(q.as, q.key) = {}
  /\ w.never \cap Asked(q) = {}
  /\ q.at # "lookup" => secrets[q.key].kind = q.as
  /\ q.as = "token" /\ q.at \in {"owner", "touch"} /\ q.seen # Never => tokens[q.key].used # Never
  /\ q.as = "token" /\ q.at = "role" /\ q.recorded => Shows(q.key)

DoneInv(q, w) ==
  /\ q.answer # ""
  /\ q.answer = "served" => w.never = {}
  /\ q.answer = "refused" => w.always # Conditions
  /\ q.answer = "served" /\ q.as = "token" /\ q.recorded => q.key \in Issued /\ Shows(q.key)

CallInv(q, w) ==
  /\ q.at = "save" => q.as \in People
  /\ q.at \in {"idle", "save"} => q.key = 0 /\ q.answer = ""
  /\ Presented(q) => PresentedInv(q, w)
  /\ q.at = "done" => DoneInv(q, w)

\* The requests of u's that have counted the tokens and are to write one.
Saving(u) == {c \in KeyCalls : calls[c].at = "save" /\ calls[c].as = u}

RoomInv == \A u \in People :
  Cardinality(ListForUser(u)) + Cardinality(Saving(u)) <= MaxTokens - 1 + Cardinality(KeyCalls)

KeysInv ==
  /\ KeyTyped
  /\ RowsInv
  /\ \A c \in KeyCalls : CallInv(calls[c], watch[c])
  /\ RoomInv

LEMMA HoldsIs ==
  ASSUME NEW as, NEW k
  PROVE  /\ Holds(as, k) \subseteq Conditions
         /\ "key" \in Holds(as, k) <=> IF as = "token" THEN tokens[k].state = "there"
                                       ELSE feeds[ownerOf(k)].key = k
         /\ "time" \in Holds(as, k) <=> (as = "token" => ~Lapsed(tokens[k]))
         /\ "account" \in Holds(as, k) <=> Present(ownerOf(k))
         /\ "settled" \in Holds(as, k) <=> ~people[ownerOf(k)].mustChange
         /\ "right" \in Holds(as, k) <=> (as = "feed" => people[ownerOf(k)].reads)
BY DEF Holds, Conditions

\* Keys and their owners stay, and a token that was used, or taken back, stays so.
Grows ==
  /\ Issued \subseteq Issued'
  /\ \A k \in Issued :
       /\ secrets'[k] = secrets[k]
       /\ tokens[k].used # Never => tokens'[k].used # Never
       /\ tokens[k].state = "gone" => tokens'[k].state = "gone"

\* No condition of any key moves.
NothingMoves == \A k \in Issued, as \in KeyNames : Holds(as, k)' = Holds(as, k)

\* A request that does not move keeps what it knows, whatever happens to its key, as
\* long as that is watched.
LEMMA CallStays ==
  ASSUME KeyTyped, NEW c \in KeyCalls, CallInv(calls[c], watch[c]), calls'[c] = calls[c], Grows,
         Watching \/ (watch'[c] = watch[c] /\ NothingMoves)
  PROVE  CallInv(calls[c], watch[c])'
<1> DEFINE q == calls[c]
<1>1. q.at \in CallPlaces /\ watch[c].always \subseteq Conditions /\ watch[c].never \subseteq Conditions
  BY DEF KeyTyped
<1>2. CASE Presented(q)
  <2>1. PresentedInv(q, watch[c]) /\ q.key \in Issued /\ q.as \in KeyNames
    BY <1>2 DEF CallInv, PresentedInv
  <2>2. Busy(c) /\ q.key # 0
    BY <1>2, <2>1 DEF Busy, Presented, Issued, AllKeys
  <2>3. /\ watch'[c].always \subseteq Holds(q.as, q.key)'
        /\ watch'[c].never \cap Holds(q.as, q.key)' = {}
        /\ watch'[c].never \subseteq watch[c].never
    <3>1. CASE Watching
      <4>1. watch'[c] = [always |-> watch[c].always \intersect Holds(calls[c].as, calls[c].key)',
                         never |-> watch[c].never \ Holds(calls[c].as, calls[c].key)']
        BY <2>2, <3>1 DEF Watching
      <4> QED
        BY <4>1
    <3>2. CASE watch'[c] = watch[c] /\ NothingMoves
      BY <2>1, <3>2 DEF NothingMoves, PresentedInv
    <3> QED
      BY <3>1, <3>2
  <2>4. Shows(q.key) => Shows(q.key)'
    BY <2>1 DEF Shows, Grows
  <2>5. PresentedInv(q, watch[c])'
    BY <2>1, <2>3, <2>4 DEF PresentedInv, Grows, Asked
  <2> QED
    BY <1>2, <2>5 DEF CallInv, Presented
<1>3. CASE ~Presented(q)
  <2>1. watch'[c] = watch[c]
    <3>1. q.at = "save" => q.key = 0
      BY DEF CallInv
    <3>2. ~Busy(c) \/ q.key = 0
      BY <1>1, <1>3, <3>1 DEF Presented, CallPlaces, Busy
    <3> QED
      BY <3>2 DEF Watching
  <2>2. DoneInv(q, watch[c]) => DoneInv(q, watch[c])'
    BY <2>1 DEF DoneInv, Shows, Grows
  <2> QED
    BY <1>3, <2>1, <2>2 DEF CallInv, Presented
<1> QED
  BY <1>2, <1>3

LEMMA CallsStay ==
  ASSUME KeyTyped, \A c \in KeyCalls : CallInv(calls[c], watch[c]), calls' = calls, Grows, Watching
  PROVE  \A c \in KeyCalls : CallInv(calls[c], watch[c])'
BY CallStays

\* Whoever watches keeps the types.
LEMMA WatchTyped ==
  ASSUME KeyTyped, Watching
  PROVE  watch' \in [KeyCalls -> [always : SUBSET Conditions, never : SUBSET Conditions]]
BY DEF KeyTyped, Watching

LEMMA ListsFinite ==
  ASSUME RowsInv, NEW u
  PROVE  IsFiniteSet(ListForUser(u)) /\ Cardinality(ListForUser(u)) \in Nat
<1>1. PICK n \in 0 .. MaxKeys : Issued = 1 .. n
  BY DEF RowsInv
<1>2. IsFiniteSet(Issued) /\ ListForUser(u) \subseteq Issued
  <2>1. n \in Int /\ 1 \in Int
    BY <1>1, KeysAssumption
  <2>2. IsFiniteSet(1 .. n)
    BY <2>1, FS_Interval
  <2> QED
    BY <1>1, <2>2 DEF ListForUser
<1> QED
  BY <1>2, FS_Subset, FS_CardinalityType

LEMMA SavingFinite ==
  ASSUME NEW u
  PROVE  /\ IsFiniteSet(Saving(u)) /\ Cardinality(Saving(u)) \in Nat
         /\ Cardinality(Saving(u)) <= Cardinality(KeyCalls) /\ Cardinality(KeyCalls) \in Nat
<1>1. Saving(u) \subseteq KeyCalls
  BY DEF Saving
<1> QED
  BY <1>1, KeysAssumption, FS_Subset, FS_CardinalityType

\* With fewer tokens and fewer requests that are to write one, there is room as before.
LEMMA RoomStays ==
  ASSUME RowsInv, RoomInv,
         \A u \in People : ListForUser(u)' \subseteq ListForUser(u) /\ Saving(u)' \subseteq Saving(u)
  PROVE  RoomInv'
<1> SUFFICES ASSUME NEW u \in People
             PROVE  Cardinality(ListForUser(u)') + Cardinality(Saving(u)')
                      <= MaxTokens - 1 + Cardinality(KeyCalls)
  BY DEF RoomInv
<1> DEFINE L == ListForUser(u)
           M == ListForUser(u)'
           S == Saving(u)
           T == Saving(u)'
<1>1. IsFiniteSet(L) /\ Cardinality(L) \in Nat /\ IsFiniteSet(S) /\ Cardinality(S) \in Nat
      /\ Cardinality(KeyCalls) \in Nat
  BY ListsFinite, SavingFinite
<1>2. Cardinality(L) + Cardinality(S) <= MaxTokens - 1 + Cardinality(KeyCalls)
  BY DEF RoomInv
<1>3. M \subseteq L /\ T \subseteq S
  OBVIOUS
<1> HIDE DEF L, M, S, T
<1>4. /\ Cardinality(M) <= Cardinality(L) /\ Cardinality(M) \in Nat
      /\ Cardinality(T) <= Cardinality(S) /\ Cardinality(T) \in Nat
  BY <1>1, <1>3, FS_Subset, FS_CardinalityType
<1>5. Cardinality(M) + Cardinality(T) <= MaxTokens - 1 + Cardinality(KeyCalls)
  BY <1>1, <1>2, <1>4, KeysAssumption
<1> QED
  BY <1>5 DEF M, T

KeyTables == <<clock, people, secrets, tokens, feeds>>

\* A step that leaves the tables alone moves no condition.
LEMMA TablesStay ==
  ASSUME RowsInv, UNCHANGED KeyTables
  PROVE  /\ RowsInv' /\ Grows /\ NothingMoves
         /\ \A u \in People : ListForUser(u)' \subseteq ListForUser(u)
<1> USE DEF KeyTables
<1>1. Issued' = Issued
  BY DEF Issued
<1>2. RowsInv'
  BY <1>1 DEF RowsInv, ownerOf
<1>3. Grows
  BY <1>1 DEF Grows
<1>4. NothingMoves
  BY DEF NothingMoves, Holds, Lapsed, Present, ownerOf
<1> QED
  BY <1>1, <1>2, <1>3, <1>4 DEF ListForUser, ownerOf

\* One request moves, to no place where it waits to write a token.
LEMMA OneMoves ==
  ASSUME KeysInv, NEW c \in KeyCalls, KeyTyped', RowsInv', Grows, NothingMoves,
         \A d \in KeyCalls \ {c} : calls'[d] = calls[d] /\ watch'[d] = watch[d],
         CallInv(calls[c], watch[c])', calls'[c].at # "save",
         \A u \in People : ListForUser(u)' \subseteq ListForUser(u)
  PROVE  KeysInv'
<1>1. \A d \in KeyCalls : CallInv(calls[d], watch[d])'
  BY CallStays DEF KeysInv
<1>2. RoomInv'
  <2>1. \A u \in People : Saving(u)' \subseteq Saving(u)
    BY DEF Saving
  <2> QED
    BY <2>1, RoomStays DEF KeysInv
<1> QED
  BY <1>1, <1>2 DEF KeysInv

\* The record a request is given.
Call == [at : CallPlaces, as : People \cup KeyNames \cup {""}, key : 0 .. MaxKeys, seen : Int,
         answer : KeyAnswers, recorded : BOOLEAN]

\* One request moves on and nothing else does.
LEMMA OnlyOneMoves ==
  ASSUME KeysInv, NEW c \in KeyCalls, NEW q \in Call, calls' = [calls EXCEPT ![c] = q],
         UNCHANGED <<KeyTables, watch>>, CallInv(q, watch[c]), q.at # "save"
  PROVE  KeysInv'
<1>1. KeyTyped'
  BY DEF KeysInv, KeyTyped, KeyTables, Call
<1>2. calls'[c] = q /\ \A d \in KeyCalls \ {c} : calls'[d] = calls[d]
  BY DEF KeysInv, KeyTyped
<1>3. /\ RowsInv' /\ Grows /\ NothingMoves
      /\ \A u \in People : ListForUser(u)' \subseteq ListForUser(u)
  BY TablesStay DEF KeysInv
<1>4. CallInv(q, watch[c])'
  <2>1. PresentedInv(q, watch[c]) => PresentedInv(q, watch[c])'
    <3> SUFFICES ASSUME PresentedInv(q, watch[c]) PROVE PresentedInv(q, watch[c])'
      OBVIOUS
    <3>1. Holds(q.as, q.key)' = Holds(q.as, q.key)
      BY <1>3 DEF NothingMoves, PresentedInv
    <3>2. watch' = watch /\ tokens' = tokens /\ secrets' = secrets /\ Issued' = Issued
      BY DEF KeyTables, Issued
    <3> QED
      BY <3>1, <3>2 DEF PresentedInv, Shows, Asked
  <2>2. DoneInv(q, watch[c]) => DoneInv(q, watch[c])'
    BY DEF DoneInv, KeyTables, Issued, Shows
  <2> QED
    BY <2>1, <2>2 DEF CallInv, Presented
<1>5. CallInv(calls[c], watch[c])'
  BY <1>2, <1>4
<1> QED
  BY <1>1, <1>2, <1>3, <1>5, OneMoves

\* What is known of a request that has not been answered.
LEMMA PresentedNow ==
  ASSUME KeysInv, NEW c \in KeyCalls, Presented(calls[c])
  PROVE  /\ calls[c] \in Call /\ PresentedInv(calls[c], watch[c])
         /\ calls[c].key \in Issued /\ calls[c].as \in KeyNames
         /\ calls[c].key \in AllKeys /\ ownerOf(calls[c].key) \in People
BY DEF KeysInv, KeyTyped, Call, CallInv, PresentedInv, RowsInv, Issued

\* A request that is turned away when something is missing is turned away truly,
LEMMA Refused ==
  ASSUME KeysInv, NEW c \in KeyCalls, Presented(calls[c]), NEW x \in Conditions,
         x \notin Holds(calls[c].as, calls[c].key),
         Answer(c, "refused"), UNCHANGED <<KeyTables, watch>>
  PROVE  KeysInv'
<1> DEFINE q == [calls[c] EXCEPT !.at = "done", !.answer = "refused"]
<1>1. q \in Call /\ calls' = [calls EXCEPT ![c] = q]
  BY PresentedNow DEF Call, Answer, CallPlaces, KeyAnswers
<1>2. q.at = "done" /\ q.answer = "refused"
  BY PresentedNow DEF Call
<1>3. watch[c].always # Conditions
  BY PresentedNow DEF PresentedInv
<1> HIDE DEF q
<1>4. CallInv(q, watch[c])
  BY <1>2, <1>3 DEF CallInv, DoneInv, Presented
<1> QED
  BY <1>1, <1>2, <1>4, OnlyOneMoves

\* and one that could not be checked says so.
LEMMA Unchecked ==
  ASSUME KeysInv, NEW c \in KeyCalls, LookupFails(c)
  PROVE  KeysInv'
<1> DEFINE q == [calls[c] EXCEPT !.at = "done", !.answer = "unknown"]
<1>1. Presented(calls[c]) /\ calls' = [calls EXCEPT ![c] = q]
  BY DEF LookupFails, Presented, Answer
<1>2. q \in Call /\ q.at = "done" /\ q.answer = "unknown"
  BY <1>1, PresentedNow DEF Call, CallPlaces, KeyAnswers
<1>3. UNCHANGED <<KeyTables, watch>>
  BY DEF LookupFails, Nothing, Unmoved, KeyTables
<1> HIDE DEF q
<1>4. CallInv(q, watch[c])
  BY <1>2 DEF CallInv, DoneInv, Presented
<1> QED
  BY <1>1, <1>2, <1>3, <1>4, OnlyOneMoves

LEMMA LookupInv ==
  ASSUME KeysInv, NEW c \in KeyCalls, Lookup(c)
  PROVE  KeysInv'
<1> DEFINE k == calls[c].key
           as == calls[c].as
           q == [calls[c] EXCEPT !.at = "owner", !.seen = LastSeen(as, k)]
<1>1. /\ Presented(calls[c]) /\ calls[c].at = "lookup"
      /\ UNCHANGED <<KeyTables, watch>>
  BY DEF Lookup, Presented, Nothing, Unmoved, KeyTables
<1>2. calls[c] \in Call /\ k \in Issued /\ as \in KeyNames /\ k \in AllKeys /\ ownerOf(k) \in People
      /\ PresentedInv(calls[c], watch[c])
  BY <1>1, PresentedNow
<1>3. CASE Found(as, k)
  <2>1. LastSeen(as, k) \in Int
    BY <1>2 DEF LastSeen, KeysInv, KeyTyped
  <2>2. q \in Call /\ calls' = [calls EXCEPT ![c] = q]
    BY <1>2, <1>3, <2>1 DEF Lookup, Call, CallPlaces
  <2>3. /\ q.at = "owner" /\ q.as = as /\ q.key = k /\ q.seen = LastSeen(as, k)
        /\ q.answer = calls[c].answer
    BY <1>2 DEF Call
  <2>4. "key" \in Holds(as, k) /\ "time" \in Holds(as, k) /\ secrets[k].kind = as
    BY <1>2, <1>3, HoldsIs DEF Found, GetByHash, ByHash, HasPrefix, KeyNames
  <2> HIDE DEF q
  <2>5. watch[c].never \cap Asked(q) = {}
    BY <1>2, <2>3, <2>4 DEF Asked, PresentedInv
  <2>6. as = "token" => LastSeen(as, k) = tokens[k].used
    BY DEF LastSeen
  <2> HIDE DEF k, as
  <2>7. PresentedInv(q, watch[c])
    BY <1>2, <2>3, <2>4, <2>5, <2>6 DEF PresentedInv, k, as
  <2>8. CallInv(q, watch[c])
    BY <2>3, <2>7 DEF CallInv, Presented
  <2> QED
    BY <1>1, <2>2, <2>3, <2>8, OnlyOneMoves
<1>4. CASE ~Found(as, k)
  <2>1. "key" \notin Holds(as, k) \/ "time" \notin Holds(as, k)
    <3>1. CASE secrets[k].kind = as
      BY <1>2, <1>4, <3>1, HoldsIs DEF Found, GetByHash, ByHash, HasPrefix, KeyNames
    <3>2. CASE secrets[k].kind # as /\ as = "token"
      BY <1>2, <3>2, HoldsIs DEF KeysInv, RowsInv
    <3>3. CASE secrets[k].kind # as /\ as = "feed"
      <4>0. k # 0 /\ ownerOf(k) \in People
        BY <1>2 DEF AllKeys
      <4>1. feeds[ownerOf(k)].key # k
        <5> SUFFICES ASSUME feeds[ownerOf(k)].key = k PROVE FALSE
          OBVIOUS
        <5>1. secrets[k] = [kind |-> "feed", owner |-> ownerOf(k)]
          BY <4>0 DEF KeysInv, RowsInv
        <5> QED
          BY <3>3, <5>1
      <4> QED
        BY <3>3, <4>1, HoldsIs
    <3> QED
      BY <1>2, <3>1, <3>2, <3>3 DEF KeyNames
  <2>2. Answer(c, "refused")
    BY <1>4 DEF Lookup
  <2>3. "key" \in Conditions /\ "time" \in Conditions
    BY DEF Conditions
  <2> QED
    BY <1>1, <2>1, <2>2, <2>3, Refused
<1> QED
  BY <1>3, <1>4

LEMMA OwnerInv ==
  ASSUME KeysInv, NEW c \in KeyCalls, Owner(c)
  PROVE  KeysInv'
<1> DEFINE k == calls[c].key
           as == calls[c].as
           to == IF as = "token" THEN "touch" ELSE "role"
           q == [calls[c] EXCEPT !.at = to]
<1>1. /\ Presented(calls[c]) /\ calls[c].at = "owner"
      /\ UNCHANGED <<KeyTables, watch>>
  BY DEF Owner, Presented, Nothing, Unmoved, KeyTables
<1>2. calls[c] \in Call /\ k \in Issued /\ as \in KeyNames /\ PresentedInv(calls[c], watch[c])
  BY <1>1, PresentedNow
<1>3. CASE Present(ownerOf(k)) /\ ~people[ownerOf(k)].mustChange
  <2>1. q \in Call /\ calls' = [calls EXCEPT ![c] = q]
    BY <1>2, <1>3 DEF Owner, Step, Call, CallPlaces
  <2>2. /\ q.at = to /\ q.as = as /\ q.key = k /\ q.seen = calls[c].seen
        /\ q.answer = calls[c].answer
    BY <1>2 DEF Call
  <2>3. "account" \in Holds(as, k) /\ "settled" \in Holds(as, k)
    BY <1>3, HoldsIs
  <2> HIDE DEF q
  <2>4. watch[c].never \cap Asked(q) = {}
    BY <1>1, <1>2, <2>2, <2>3 DEF Asked, PresentedInv, Conditions, KeyNames
  <2>5. PresentedInv(q, watch[c])
    BY <1>1, <1>2, <2>2, <2>4 DEF PresentedInv
  <2>6. CallInv(q, watch[c]) /\ q.at # "save"
    BY <2>2, <2>5 DEF CallInv, Presented
  <2> QED
    BY <1>1, <2>1, <2>6, OnlyOneMoves
<1>4. CASE ~(Present(ownerOf(k)) /\ ~people[ownerOf(k)].mustChange)
  <2>1. "account" \notin Holds(as, k) \/ "settled" \notin Holds(as, k)
    BY <1>4, HoldsIs
  <2>2. Answer(c, "refused")
    BY <1>4 DEF Owner
  <2>3. "account" \in Conditions /\ "settled" \in Conditions
    BY DEF Conditions
  <2> QED
    BY <1>1, <2>1, <2>2, <2>3, Refused
<1> QED
  BY <1>3, <1>4

LEMMA RoleInv ==
  ASSUME KeysInv, NEW c \in KeyCalls, Role(c)
  PROVE  KeysInv'
<1> DEFINE k == calls[c].key
           as == calls[c].as
<1>1. /\ Presented(calls[c]) /\ calls[c].at = "role"
      /\ UNCHANGED <<KeyTables, watch>>
  BY DEF Role, Presented, Nothing, Unmoved, KeyTables
<1>2. calls[c] \in Call /\ k \in Issued /\ as \in KeyNames /\ PresentedInv(calls[c], watch[c])
  BY <1>1, PresentedNow
<1>3. CASE as = "token"
  <2> DEFINE q == [calls[c] EXCEPT !.at = "done", !.answer = "served"]
  <2>1. q \in Call /\ calls' = [calls EXCEPT ![c] = q]
    BY <1>2, <1>3 DEF Role, Answer, Call, CallPlaces, KeyAnswers
  <2>2. /\ q.at = "done" /\ q.answer = "served" /\ q.as = as /\ q.key = k
        /\ q.recorded = calls[c].recorded
    BY <1>2 DEF Call
  <2>3. watch[c].never = {}
    <3>1. "right" \in Holds(as, k)
      BY <1>3, HoldsIs
    <3>2. watch[c].never \subseteq Conditions
      BY DEF KeysInv, KeyTyped
    <3> QED
      BY <1>1, <1>2, <1>3, <3>1, <3>2 DEF PresentedInv, Asked
  <2> HIDE DEF q
  <2>4. CallInv(q, watch[c])
    BY <1>1, <1>2, <2>2, <2>3 DEF CallInv, DoneInv, Presented, PresentedInv
  <2> QED
    BY <1>1, <2>1, <2>2, <2>4, OnlyOneMoves
<1>4. CASE as = "feed" /\ people[ownerOf(k)].reads
  <2> DEFINE q == [calls[c] EXCEPT !.at = "touch"]
  <2>1. q \in Call /\ calls' = [calls EXCEPT ![c] = q]
    BY <1>2, <1>4 DEF Role, Step, Call, CallPlaces
  <2>2. q.at = "touch" /\ q.as = as /\ q.key = k /\ q.answer = calls[c].answer
    BY <1>2 DEF Call
  <2>3. "right" \in Holds(as, k)
    BY <1>4, HoldsIs
  <2> HIDE DEF q
  <2>4. watch[c].never \cap Asked(q) = {}
    BY <1>1, <1>2, <1>4, <2>2, <2>3 DEF Asked, PresentedInv
  <2>5. PresentedInv(q, watch[c])
    BY <1>1, <1>2, <1>4, <2>2, <2>4 DEF PresentedInv
  <2>6. CallInv(q, watch[c])
    BY <2>2, <2>5 DEF CallInv, Presented
  <2> QED
    BY <1>1, <2>1, <2>2, <2>6, OnlyOneMoves
<1>5. CASE as = "feed" /\ ~people[ownerOf(k)].reads
  <2>1. "right" \notin Holds(as, k) /\ "right" \in Conditions
    BY <1>5, HoldsIs DEF Conditions
  <2>2. Answer(c, "refused")
    BY <1>5 DEF Role
  <2> QED
    BY <1>1, <2>1, <2>2, Refused
<1> QED
  BY <1>2, <1>3, <1>4, <1>5 DEF KeyNames

\* Recording a use moves no condition, and the token shows it.
LEMMA TouchInv ==
  ASSUME KeysInv, NEW c \in KeyCalls, TouchKey(c) \/ TouchFails(c)
  PROVE  KeysInv'
<1>1. /\ Presented(calls[c]) /\ calls[c].at = "touch"
      /\ UNCHANGED <<clock, people, secrets, watch>>
  BY DEF TouchKey, TouchFails, Presented, Unmoved
<1>0. PICK k, as : k = calls[c].key /\ as = calls[c].as
  OBVIOUS
<1>2. calls[c] \in Call /\ k \in Issued /\ as \in KeyNames /\ PresentedInv(calls[c], watch[c])
      /\ k \in AllKeys /\ ownerOf(k) \in People
  BY <1>0, <1>1, PresentedNow
<1>3. /\ tokens' = tokens \/ tokens' = [tokens EXCEPT ![k].used = clock]
      /\ feeds' = feeds \/ feeds' = [feeds EXCEPT ![ownerOf(k)].read = clock]
  BY <1>0 DEF TouchKey, TouchFails, TouchLastUsed, TouchLastRead
<1>t. /\ clock \in Nat
      /\ tokens \in [AllKeys -> [state : {"none", "there", "gone"}, expires : Int, used : Int]]
      /\ feeds \in [People -> [key : 0 .. MaxKeys, read : Int]]
      /\ \A t \in AllKeys : tokens[t].used <= clock
      /\ \A u \in People : feeds[u].read <= clock
  BY DEF KeysInv, KeyTyped, RowsInv
<1>4. /\ tokens' \in [AllKeys -> [state : {"none", "there", "gone"}, expires : Int, used : Int]]
      /\ feeds' \in [People -> [key : 0 .. MaxKeys, read : Int]]
      /\ \A t \in AllKeys : tokens'[t].state = tokens[t].state /\ tokens'[t].expires = tokens[t].expires
      /\ \A t \in AllKeys : tokens'[t].used \in {tokens[t].used, clock}
      /\ \A u \in People : feeds'[u].key = feeds[u].key /\ feeds'[u].read \in {feeds[u].read, clock}
  <2>1. clock \in Int
    BY <1>t
  <2>2. /\ tokens' \in [AllKeys -> [state : {"none", "there", "gone"}, expires : Int, used : Int]]
        /\ \A t \in AllKeys : tokens'[t].state = tokens[t].state /\ tokens'[t].expires = tokens[t].expires
        /\ \A t \in AllKeys : tokens'[t].used \in {tokens[t].used, clock}
    <3>1. CASE tokens' = tokens
      BY <1>t, <3>1
    <3>2. CASE tokens' = [tokens EXCEPT ![k].used = clock]
      <4>1. ASSUME NEW t \in AllKeys
            PROVE  /\ tokens'[t] \in [state : {"none", "there", "gone"}, expires : Int, used : Int]
                   /\ tokens'[t].state = tokens[t].state /\ tokens'[t].expires = tokens[t].expires
                   /\ tokens'[t].used \in {tokens[t].used, clock}
        <5>1. tokens[t] \in [state : {"none", "there", "gone"}, expires : Int, used : Int]
          BY <1>t
        <5>2. tokens'[t] = IF t = k THEN [tokens[t] EXCEPT !.used = clock] ELSE tokens[t]
          BY <1>t, <3>2
        <5> QED
          BY <2>1, <5>1, <5>2
      <4>2. DOMAIN tokens' = AllKeys /\ tokens' = [t \in AllKeys |-> tokens'[t]]
        BY <1>t, <3>2
      <4> QED
        BY <4>1, <4>2
    <3> QED
      BY <1>3, <3>1, <3>2
  <2>3. /\ feeds' \in [People -> [key : 0 .. MaxKeys, read : Int]]
        /\ \A u \in People : feeds'[u].key = feeds[u].key /\ feeds'[u].read \in {feeds[u].read, clock}
    BY <1>3, <1>t, <2>1
  <2> QED
    BY <2>2, <2>3
<1>5. Issued' = Issued /\ clock # Never
  <2>1. Issued' = Issued
    BY <1>1 DEF Issued
  <2>2. clock # Never
    BY <1>t DEF Never
  <2> QED
    BY <2>1, <2>2
<1>6. RowsInv'
  <2>1. /\ \A t \in AllKeys : tokens'[t].used <= clock'
        /\ \A u \in People : feeds'[u].read <= clock'
    BY <1>1, <1>t, <1>4
  <2> QED
    BY <1>1, <1>4, <1>5, <2>1 DEF KeysInv, RowsInv, ownerOf
<1>7. Grows
  BY <1>1, <1>4, <1>5 DEF Grows, Issued
<1>8. NothingMoves
  <2> SUFFICES ASSUME NEW t \in Issued, NEW kind \in KeyNames
               PROVE  Holds(kind, t)' = Holds(kind, t)
    BY DEF NothingMoves
  <2>1. t \in AllKeys /\ ownerOf(t) \in People /\ ownerOf(t)' = ownerOf(t)
    BY <1>1 DEF KeysInv, RowsInv, Issued, ownerOf
  <2> QED
    BY <1>1, <1>4, <2>1 DEF Holds, Lapsed, Present
<1>9. \A u \in People : ListForUser(u)' \subseteq ListForUser(u)
  BY <1>1, <1>4, <1>5 DEF ListForUser, Issued, ownerOf
<1>10. PICK touched \in BOOLEAN : Proceed(c, touched) /\ (TouchKey(c) \/ ~touched)
  BY DEF TouchKey, TouchFails
<1>11. PICK q \in Call :
         /\ calls' = [calls EXCEPT ![c] = q]
         /\ q.key = k /\ q.as = as /\ q.recorded = touched
         /\ q.at = IF as = "token" THEN "role" ELSE "done"
         /\ q.answer = IF as = "token" THEN "" ELSE "served"
  <2> DEFINE q == [calls[c] EXCEPT !.at = IF as = "token" THEN "role" ELSE "done",
                                   !.answer = IF as = "token" THEN "" ELSE "served",
                                   !.recorded = touched]
  <2>1. calls' = [calls EXCEPT ![c] = q]
    BY <1>0, <1>10 DEF Proceed
  <2>2. /\ q \in Call /\ q.key = k /\ q.as = as /\ q.recorded = touched
        /\ q.at = IF as = "token" THEN "role" ELSE "done"
        /\ q.answer = IF as = "token" THEN "" ELSE "served"
    BY <1>0, <1>2, <1>10 DEF Call, CallPlaces, KeyAnswers
  <2> HIDE DEF q
  <2> QED
    BY <2>1, <2>2
<1>12. KeyTyped'
  BY <1>1, <1>4, <1>10, <1>11 DEF KeysInv, KeyTyped, Call
<1>13. calls'[c] = q /\ \A d \in KeyCalls \ {c} : calls'[d] = calls[d]
  BY <1>11 DEF KeysInv, KeyTyped
<1>14. watch[c].never \subseteq Conditions /\ Holds(as, k)' = Holds(as, k)
  BY <1>2, <1>8 DEF KeysInv, KeyTyped, NothingMoves
<1>15. ASSUME as = "token" PROVE CallInv(q, watch[c])'
  <2>1. touched => Shows(k)'
    <3> SUFFICES ASSUME touched PROVE Shows(k)'
      OBVIOUS
    <3>0. TouchKey(c)
      BY <1>10
    <3>1. CASE Stale(c)
      <4>1. TouchLastUsed(k)
        BY <1>0, <1>15, <3>0, <3>1 DEF TouchKey
      <4>2. tokens[k].state \in {"there", "gone"}
        <5>1. secrets[k].kind = "token"
          BY <1>0, <1>1, <1>2, <1>15 DEF PresentedInv
        <5>2. tokens[k].state # "none"
          BY <1>2, <5>1 DEF KeysInv, RowsInv
        <5> QED
          BY <1>2, <1>t, <5>2
      <4>3. CASE tokens[k].state = "there"
        BY <1>2, <1>5, <4>1, <4>3 DEF TouchLastUsed, Shows, KeysInv, KeyTyped
      <4>4. CASE tokens[k].state = "gone"
        BY <1>2, <1>4, <4>4 DEF Shows
      <4> QED
        BY <4>2, <4>3, <4>4
    <3>2. CASE ~Stale(c)
      <4>1. tokens[k].used # Never
        BY <1>0, <1>1, <1>2, <1>15, <3>2 DEF Stale, PresentedInv
      <4> QED
        BY <1>2, <1>7, <4>1 DEF Shows, Grows
    <3> QED
      BY <3>1, <3>2
  <2>2. PresentedInv(q, watch[c])'
    BY <1>0, <1>1, <1>2, <1>5, <1>11, <1>14, <1>15, <2>1 DEF PresentedInv, Asked, KeyNames
  <2> QED
    BY <1>11, <1>15, <2>2 DEF CallInv, Presented
<1>16. ASSUME as = "feed" PROVE CallInv(q, watch[c])'
  <2>1. watch[c].never = {}
    BY <1>0, <1>1, <1>2, <1>14, <1>16 DEF PresentedInv, Asked
  <2> QED
    BY <1>1, <1>11, <1>16, <2>1 DEF CallInv, Presented, DoneInv
<1>17. CallInv(calls[c], watch[c])'
  BY <1>2, <1>13, <1>15, <1>16 DEF KeyNames
<1>18. calls'[c].at # "save"
  BY <1>11, <1>13
<1> QED
  BY <1>1, <1>6, <1>7, <1>8, <1>9, <1>12, <1>13, <1>17, <1>18, OneMoves

LEMMA AtRest == Resting \in Call /\ Resting.key = 0 /\ Resting.answer = ""
<1>1. 0 \in 0 .. MaxKeys /\ Never \in Int
  BY KeysAssumption DEF Never
<1>2. "idle" \in CallPlaces /\ "" \in KeyAnswers /\ "" \in People \cup KeyNames \cup {""}
  BY DEF CallPlaces, KeyAnswers
<1> QED
  BY <1>1, <1>2 DEF Resting, Call

LEMMA ArriveInv ==
  ASSUME KeysInv, NEW c \in KeyCalls, NEW k \in AllKeys, NEW as \in KeyNames, Arrive(c, k, as)
  PROVE  KeysInv'
<1> DEFINE q == [Resting EXCEPT !.at = "lookup", !.as = as, !.key = k]
           w == [always |-> Holds(as, k), never |-> Conditions \ Holds(as, k)]
<1>1. /\ k \in Issued /\ calls' = [calls EXCEPT ![c] = q] /\ watch' = [watch EXCEPT ![c] = w]
      /\ UNCHANGED KeyTables
  BY DEF Arrive, KeyTables
<1>2. q \in Call /\ q.at = "lookup" /\ q.as = as /\ q.key = k /\ q.answer = ""
  <2>1. k \in 0 .. MaxKeys
    BY KeysAssumption DEF AllKeys
  <2> QED
    BY <2>1, AtRest DEF Call, CallPlaces
<1>3. w \in [always : SUBSET Conditions, never : SUBSET Conditions]
  BY HoldsIs
<1>4. KeyTyped'
  BY <1>1, <1>2, <1>3 DEF KeysInv, KeyTyped, KeyTables, Call
<1>5. /\ RowsInv' /\ Grows /\ NothingMoves
      /\ \A u \in People : ListForUser(u)' \subseteq ListForUser(u)
  BY <1>1, TablesStay DEF KeysInv
<1>6. /\ calls'[c] = q /\ watch'[c] = w
      /\ \A d \in KeyCalls \ {c} : calls'[d] = calls[d] /\ watch'[d] = watch[d]
  BY <1>1 DEF KeysInv, KeyTyped
<1>7. Holds(as, k)' = Holds(as, k) /\ k \in Issued'
  BY <1>1, <1>5 DEF NothingMoves, Grows
<1>8. w.always = Holds(as, k) /\ w.never \cap Holds(as, k) = {}
  OBVIOUS
<1> HIDE DEF q, w
<1>9. PresentedInv(calls[c], watch[c])'
  BY <1>2, <1>6, <1>7, <1>8 DEF PresentedInv, Asked
<1>10. CallInv(calls[c], watch[c])' /\ calls'[c].at # "save"
  BY <1>2, <1>6, <1>9 DEF CallInv, Presented
<1> QED
  BY <1>4, <1>5, <1>6, <1>10, OneMoves

LEMMA CreateInv ==
  ASSUME KeysInv, NEW c \in KeyCalls, NEW u \in People, NEW days \in Expiries, Create(c, u, days)
  PROVE  KeysInv'
<1>1. /\ calls[c].at # "save" /\ UNCHANGED <<KeyTables, watch>>
  BY DEF Create, Arriving, Busy, KeyTables
<1>2. CASE Full(u)
  <2> DEFINE q == [Resting EXCEPT !.at = "done", !.answer = "conflict"]
  <2>1. calls' = [calls EXCEPT ![c] = q]
    BY <1>2 DEF Create
  <2>2. q \in Call /\ q.at = "done" /\ q.answer = "conflict"
    BY AtRest DEF Call, CallPlaces, KeyAnswers
  <2> HIDE DEF q
  <2>3. CallInv(q, watch[c])
    BY <2>2 DEF CallInv, DoneInv, Presented
  <2> QED
    BY <1>1, <2>1, <2>2, <2>3, OnlyOneMoves
<1>3. CASE ~Full(u)
  <2> DEFINE until == IF days = 0 THEN Never ELSE clock + days
             q == [Resting EXCEPT !.at = "save", !.as = u, !.seen = until]
  <2>1. calls' = [calls EXCEPT ![c] = q]
    BY <1>3 DEF Create
  <2>2. until \in Int
    <3>1. clock \in Nat
      BY DEF KeysInv, KeyTyped
    <3>2. days \in Nat
      BY KeysAssumption, Zenon
    <3> QED
      BY <3>1, <3>2 DEF Never
  <2> HIDE DEF until
  <2>3. q \in Call /\ q.at = "save" /\ q.as = u /\ q.key = 0 /\ q.answer = ""
    BY <2>2, AtRest DEF Call, CallPlaces
  <2> HIDE DEF q
  <2>4. KeyTyped'
    BY <1>1, <2>1, <2>3 DEF KeysInv, KeyTyped, KeyTables, Call
  <2>5. calls'[c] = q /\ \A d \in KeyCalls \ {c} : calls'[d] = calls[d]
    BY <2>1 DEF KeysInv, KeyTyped
  <2>6. /\ RowsInv' /\ Grows /\ NothingMoves
        /\ \A v \in People : ListForUser(v)' = ListForUser(v)
    <3>1. \A v \in People : ListForUser(v)' = ListForUser(v)
      BY <1>1 DEF KeyTables, ListForUser, Issued, ownerOf
    <3> QED
      BY <1>1, <3>1, TablesStay DEF KeysInv
  <2>7. \A d \in KeyCalls : CallInv(calls[d], watch[d])'
    <3>1. CallInv(calls[c], watch[c])'
      BY <2>3, <2>5 DEF CallInv, Presented
    <3>2. ASSUME NEW d \in KeyCalls \ {c} PROVE CallInv(calls[d], watch[d])'
      BY <1>1, <2>5, <2>6, <3>2, CallStays DEF KeysInv
    <3> QED
      BY <3>1, <3>2
  <2>8. RoomInv'
    <3> SUFFICES ASSUME NEW v \in People
                 PROVE  Cardinality(ListForUser(v)') + Cardinality(Saving(v)')
                          <= MaxTokens - 1 + Cardinality(KeyCalls)
      BY DEF RoomInv
    <3>1. CASE v = u
      <4>1. Cardinality(ListForUser(u)) \in Nat /\ Cardinality(ListForUser(u)) < MaxTokens
        BY <1>3, ListsFinite, KeysAssumption DEF Full, KeysInv
      <4>2. Saving(u)' \subseteq KeyCalls
        BY DEF Saving
      <4>3. /\ Cardinality(Saving(u)') <= Cardinality(KeyCalls)
            /\ Cardinality(Saving(u)') \in Nat /\ Cardinality(KeyCalls) \in Nat
        BY <4>2, KeysAssumption, FS_Subset, FS_CardinalityType
      <4>4. ListForUser(u)' = ListForUser(u)
        BY <2>6
      <4> QED
        BY <3>1, <4>1, <4>3, <4>4, KeysAssumption
    <3>2. CASE v # u
      <4>1. Saving(v)' = Saving(v)
        BY <1>1, <2>3, <2>5, <3>2 DEF Saving
      <4> QED
        BY <2>6, <4>1 DEF KeysInv, RoomInv
    <3> QED
      BY <3>1, <3>2
  <2> QED
    BY <2>4, <2>6, <2>7, <2>8 DEF KeysInv
<1> QED
  BY <1>2, <1>3

\* The key that is made next is one that nobody has.
LEMMA NextKey ==
  ASSUME RowsInv, nextKey \in AllKeys
  PROVE  /\ nextKey \notin Issued /\ nextKey - 1 \in 0 .. MaxKeys /\ Issued = 1 .. (nextKey - 1)
         /\ nextKey \in Nat \ {0}
<1>1. PICK n \in 0 .. MaxKeys : Issued = 1 .. n
  BY DEF RowsInv
<1>2. n \in Nat /\ Cardinality(1 .. n) = n
  <2>1. n \in Int /\ 1 \in Int /\ n >= 0
    BY <1>1, KeysAssumption
  <2>2. Cardinality(1 .. n) = IF 1 > n THEN 0 ELSE n - 1 + 1
    BY <2>1, FS_Interval
  <2> QED
    BY <2>1, <2>2
<1>3. nextKey = n + 1
  BY <1>1, <1>2 DEF nextKey
<1> QED
  BY <1>1, <1>2, <1>3

\* Making a key: its row in secrets, and nothing of the others'.
LEMMA KeyMade ==
  ASSUME KeyTyped, RowsInv, nextKey \in AllKeys, NEW kind \in KeyNames, NEW u \in People,
         secrets' = [secrets EXCEPT ![nextKey] = [kind |-> kind, owner |-> u]]
  PROVE  /\ Issued' = Issued \cup {nextKey}
         /\ nextKey \notin Issued /\ secrets[nextKey].kind = "none"
         /\ \E n \in 0 .. MaxKeys : Issued' = 1 .. n
         /\ secrets' \in [AllKeys -> [kind : KeyNames \cup {"none"}, owner : People \cup {""}]]
         /\ secrets'[nextKey] = [kind |-> kind, owner |-> u]
         /\ \A k \in AllKeys \ {nextKey} : secrets'[k] = secrets[k]
<1>1. secrets'[nextKey] = [kind |-> kind, owner |-> u] /\ \A k \in AllKeys \ {nextKey} : secrets'[k] = secrets[k]
  BY DEF KeyTyped
<1>2. Issued' = Issued \cup {nextKey}
  BY <1>1 DEF Issued, KeyNames
<1>3. nextKey \in 0 .. MaxKeys /\ Issued' = 1 .. nextKey
  BY <1>2, NextKey, KeysAssumption DEF AllKeys
<1>4. secrets' \in [AllKeys -> [kind : KeyNames \cup {"none"}, owner : People \cup {""}]]
  BY DEF KeyTyped
<1> QED
  BY <1>1, <1>2, <1>3, <1>4, NextKey DEF Issued

LEMMA SaveInv ==
  ASSUME KeysInv, NEW c \in KeyCalls, Save(c)
  PROVE  KeysInv'
<1>0. PICK u \in People : u = calls[c].as
  BY DEF Save, KeysInv, CallInv
<1>1. calls[c].at = "save" /\ UNCHANGED <<clock, people, feeds, watch>>
  BY DEF Save
<1>2. CASE ~(Present(u) /\ nextKey \in AllKeys)
  <2> DEFINE q == [Resting EXCEPT !.at = "done", !.answer = "unknown"]
  <2>1. calls' = [calls EXCEPT ![c] = q] /\ UNCHANGED <<KeyTables, watch>>
    BY <1>0, <1>1, <1>2 DEF Save, KeyTables
  <2>2. q \in Call /\ q.at = "done" /\ q.answer = "unknown"
    BY AtRest DEF Call, CallPlaces, KeyAnswers
  <2> HIDE DEF q
  <2>3. CallInv(q, watch[c])
    BY <2>2 DEF CallInv, DoneInv, Presented
  <2> QED
    BY <2>1, <2>2, <2>3, OnlyOneMoves
<1>3. CASE Present(u) /\ nextKey \in AllKeys
  <2>0. PICK k \in AllKeys : k = nextKey
    BY <1>3
  <2> DEFINE q == [Resting EXCEPT !.at = "done", !.answer = "made"]
             row == [state |-> "there", expires |-> calls[c].seen, used |-> Never]
  <2>1. /\ calls' = [calls EXCEPT ![c] = q]
        /\ secrets' = [secrets EXCEPT ![nextKey] = [kind |-> "token", owner |-> u]]
        /\ tokens' = [tokens EXCEPT ![k] = row]
    BY <1>0, <1>3, <2>0 DEF Save
  <2>2. q \in Call /\ q.at = "done" /\ q.answer = "made"
    BY AtRest DEF Call, CallPlaces, KeyAnswers
  <2>k. /\ Issued' = Issued \cup {k} /\ k \notin Issued /\ secrets[k].kind = "none"
        /\ \E n \in 0 .. MaxKeys : Issued' = 1 .. n
        /\ secrets' \in [AllKeys -> [kind : KeyNames \cup {"none"}, owner : People \cup {""}]]
        /\ secrets'[k] = [kind |-> "token", owner |-> u]
        /\ \A t \in AllKeys \ {k} : secrets'[t] = secrets[t]
    BY <1>3, <2>0, <2>1, KeyMade DEF KeysInv, KeyNames
  <2>3. /\ Issued' = Issued \cup {k} /\ k \notin Issued /\ secrets[k].kind = "none"
        /\ secrets'[k].kind = "token" /\ secrets'[k].owner = u
        /\ \A t \in AllKeys \ {k} : secrets'[t] = secrets[t]
    <3>1. secrets'[k] = [kind |-> "token", owner |-> u]
      BY <2>k, Zenon
    <3>2. secrets'[k].kind = "token" /\ secrets'[k].owner = u
      BY <3>1
    <3> QED
      BY <2>k, <3>2, Zenon
  <2>4. /\ row \in [state : {"none", "there", "gone"}, expires : Int, used : Int]
        /\ row.state = "there" /\ row.used = Never
    <3>1. Never \in Int
      BY DEF Never
    <3>2. calls[c].seen \in Int
      BY DEF KeysInv, KeyTyped
    <3> QED
      BY <3>1, <3>2
  <2> HIDE DEF q, row
  <2>5. /\ tokens' \in [AllKeys -> [state : {"none", "there", "gone"}, expires : Int, used : Int]]
        /\ tokens'[k] = row /\ \A t \in AllKeys \ {k} : tokens'[t] = tokens[t]
    BY <2>1, <2>4 DEF KeysInv, KeyTyped
  <2>6. calls' \in [KeyCalls -> Call] /\ calls'[c] = q /\ \A d \in KeyCalls \ {c} : calls'[d] = calls[d]
    BY <2>1, <2>2 DEF KeysInv, KeyTyped, Call
  <2>7. KeyTyped'
    BY <1>1, <2>k, <2>5, <2>6 DEF KeysInv, KeyTyped, Call
  <2>8. RowsInv'
    <3>1. \A t \in Issued' : ownerOf(t)' \in People
      <4>1. \A t \in Issued : secrets[t].owner \in People /\ t \in AllKeys \ {k}
        BY <2>3 DEF KeysInv, RowsInv, ownerOf, Issued
      <4>2. \A t \in Issued' : secrets'[t].owner \in People
        BY <2>3, <4>1
      <4> QED
        BY <4>2 DEF ownerOf
    <3>2. \A t \in AllKeys : tokens'[t].state # "none" <=> secrets'[t].kind = "token"
      <4>1. \A t \in AllKeys : tokens[t].state # "none" <=> secrets[t].kind = "token"
        BY DEF KeysInv, RowsInv
      <4>2. tokens'[k].state = "there" /\ secrets'[k].kind = "token"
        BY <2>3, <2>4, <2>5
      <4> QED
        BY <2>3, <2>5, <4>1, <4>2
    <3>3. \A t \in AllKeys : tokens'[t].used <= clock'
      <4>0. clock \in Nat
        BY DEF KeysInv, KeyTyped
      <4>1. Never <= clock
        BY <4>0 DEF Never
      <4> QED
        BY <1>1, <2>4, <2>5, <4>1 DEF KeysInv, RowsInv
    <3>4. \A v \in People :
            /\ feeds'[v].read <= clock'
            /\ feeds'[v].key # 0 => /\ feeds'[v].key \in Issued'
                                    /\ secrets'[feeds'[v].key] = [kind |-> "feed", owner |-> v]
      BY <1>1, <2>3 DEF KeysInv, RowsInv, Issued
    <3> QED
      BY <2>k, <3>1, <3>2, <3>3, <3>4 DEF RowsInv
  <2>9. Grows
    BY <2>3, <2>5 DEF Grows, Issued
  <2>10. NothingMoves
    <3> SUFFICES ASSUME NEW t \in Issued, NEW kind \in KeyNames
                 PROVE  Holds(kind, t)' = Holds(kind, t)
      BY DEF NothingMoves
    <3>1. tokens'[t] = tokens[t] /\ secrets'[t] = secrets[t]
      BY <2>3, <2>5 DEF Issued
    <3> QED
      BY <1>1, <3>1 DEF Holds, Lapsed, Present, ownerOf
  <2>11. CallInv(calls[c], watch[c])'
    BY <2>2, <2>6 DEF CallInv, DoneInv, Presented
  <2>12. \A d \in KeyCalls : CallInv(calls[d], watch[d])'
    BY <1>1, <2>6, <2>9, <2>10, <2>11, CallStays DEF KeysInv
  <2>13. /\ ListForUser(u)' = ListForUser(u) \cup {k} /\ k \notin ListForUser(u)
         /\ \A v \in People \ {u} : ListForUser(v)' = ListForUser(v)
    <3>1. \A t \in Issued : t \in AllKeys \ {k}
      BY <2>3 DEF Issued
    <3>2. \A t \in Issued : tokens'[t] = tokens[t] /\ ownerOf(t)' = ownerOf(t)
      BY <2>3, <2>5, <3>1 DEF ownerOf
    <3>3. tokens'[k].state = "there" /\ ownerOf(k)' = u
      BY <2>3, <2>4, <2>5 DEF ownerOf
    <3> QED
      BY <2>3, <3>2, <3>3 DEF ListForUser
  <2>14. /\ Saving(u)' = Saving(u) \ {c} /\ c \in Saving(u)
         /\ \A v \in People \ {u} : Saving(v)' = Saving(v)
    BY <1>0, <1>1, <2>2, <2>6 DEF Saving
  <2>15. RoomInv'
    <3>1. /\ Cardinality(ListForUser(u)) \in Nat /\ IsFiniteSet(ListForUser(u))
          /\ Cardinality(Saving(u)) \in Nat /\ IsFiniteSet(Saving(u))
      BY ListsFinite, SavingFinite DEF KeysInv
    <3>2. Cardinality(ListForUser(u) \cup {k}) = Cardinality(ListForUser(u)) + 1
      BY <2>13, <3>1, FS_AddElement
    <3>3. Cardinality(Saving(u) \ {c}) = Cardinality(Saving(u)) - 1
      BY <2>14, <3>1, FS_RemoveElement
    <3>4. Cardinality(ListForUser(u)') + Cardinality(Saving(u)')
            = Cardinality(ListForUser(u)) + Cardinality(Saving(u))
      BY <2>13, <2>14, <3>1, <3>2, <3>3
    <3> QED
      BY <2>13, <2>14, <3>4 DEF KeysInv, RoomInv
  <2> QED
    BY <2>7, <2>8, <2>12, <2>15 DEF KeysInv
<1> QED
  BY <1>2, <1>3

\* A step that is not of a request is watched for all of them.
LEMMA WatchedStep ==
  ASSUME KeysInv, Watching, UNCHANGED calls, RowsInv', Grows,
         clock' \in Nat, clock' <= MaxClock,
         people' \in [People -> [state : {"there", "gone"}, mustChange : BOOLEAN, reads : BOOLEAN,
                                 changes : Int]],
         secrets' \in [AllKeys -> [kind : KeyNames \cup {"none"}, owner : People \cup {""}]],
         tokens' \in [AllKeys -> [state : {"none", "there", "gone"}, expires : Int, used : Int]],
         feeds' \in [People -> [key : 0 .. MaxKeys, read : Int]],
         \A u \in People : ListForUser(u)' \subseteq ListForUser(u)
  PROVE  KeysInv'
<1>1. KeyTyped'
  BY WatchTyped DEF KeysInv, KeyTyped
<1>2. \A c \in KeyCalls : CallInv(calls[c], watch[c])'
  BY CallsStay DEF KeysInv
<1>3. RoomInv'
  <2>1. \A u \in People : Saving(u)' \subseteq Saving(u)
    BY DEF Saving
  <2> QED
    BY <2>1, RoomStays DEF KeysInv
<1> QED
  BY <1>1, <1>2, <1>3 DEF KeysInv

\* Taking back keys of u's, and perhaps the account with them.
LEMMA TakenBack ==
  ASSUME KeysInv, Watching, UNCHANGED <<clock, secrets, calls>>, NEW u \in People,
         people' \in [People -> [state : {"there", "gone"}, mustChange : BOOLEAN, reads : BOOLEAN,
                                 changes : Int]],
         NEW K \in SUBSET ListForUser(u),
         tokens' = [k \in AllKeys |-> IF k \in K THEN [tokens[k] EXCEPT !.state = "gone"] ELSE tokens[k]],
         feeds' = feeds \/ feeds' = [feeds EXCEPT ![u] = NoFeed]
  PROVE  KeysInv'
<1>t. /\ clock \in Nat /\ clock <= MaxClock
      /\ secrets \in [AllKeys -> [kind : KeyNames \cup {"none"}, owner : People \cup {""}]]
      /\ tokens \in [AllKeys -> [state : {"none", "there", "gone"}, expires : Int, used : Int]]
      /\ feeds \in [People -> [key : 0 .. MaxKeys, read : Int]]
  BY DEF KeysInv, KeyTyped
<1>1. Issued' = Issued /\ \A k \in AllKeys : ownerOf(k)' = ownerOf(k)
  BY DEF Issued, ownerOf
<1>2. ASSUME NEW k \in AllKeys
      PROVE  /\ tokens'[k] \in [state : {"none", "there", "gone"}, expires : Int, used : Int]
             /\ tokens'[k].used = tokens[k].used
             /\ tokens'[k].state = IF k \in K THEN "gone" ELSE tokens[k].state
             /\ k \in K => tokens[k].state = "there"
  <2>1. tokens'[k] = IF k \in K THEN [tokens[k] EXCEPT !.state = "gone"] ELSE tokens[k]
    OBVIOUS
  <2>2. tokens[k] \in [state : {"none", "there", "gone"}, expires : Int, used : Int]
    BY <1>t
  <2>3. k \in K => tokens[k].state = "there"
    BY DEF ListForUser
  <2> QED
    BY <2>1, <2>2, <2>3
<1>3. tokens' \in [AllKeys -> [state : {"none", "there", "gone"}, expires : Int, used : Int]]
  BY <1>2
<1>4. NoFeed \in [key : 0 .. MaxKeys, read : Int] /\ NoFeed.key = 0 /\ NoFeed.read = Never
  <2>1. 0 \in 0 .. MaxKeys /\ Never \in Int
    BY KeysAssumption DEF Never
  <2> QED
    BY <2>1 DEF NoFeed
<1>5. /\ feeds' \in [People -> [key : 0 .. MaxKeys, read : Int]]
      /\ \A v \in People : feeds'[v] \in {feeds[v], NoFeed}
  <2>1. CASE feeds' = feeds
    BY <1>t, <2>1
  <2>2. CASE feeds' = [feeds EXCEPT ![u] = NoFeed]
    BY <1>t, <1>4, <2>2
  <2> QED
    BY <2>1, <2>2
<1>6. RowsInv'
  <2>1. \A k \in AllKeys : tokens'[k].state # "none" <=> secrets[k].kind = "token"
    BY <1>2 DEF KeysInv, RowsInv
  <2>2. \A k \in AllKeys : tokens'[k].used <= clock
    BY <1>2 DEF KeysInv, RowsInv
  <2>3. \A v \in People :
          /\ feeds'[v].read <= clock
          /\ feeds'[v].key # 0 => /\ feeds'[v].key \in Issued
                                  /\ secrets[feeds'[v].key] = [kind |-> "feed", owner |-> v]
    <3>0. clock \in Nat
      BY <1>t
    <3>1. Never <= clock
      BY <3>0 DEF Never
    <3> QED
      BY <1>4, <1>5, <3>1 DEF KeysInv, RowsInv
  <2> QED
    BY <1>1, <2>1, <2>2, <2>3 DEF KeysInv, RowsInv, ownerOf
<1>7. Grows
  BY <1>1, <1>2 DEF Grows, Issued
<1>8. \A v \in People : ListForUser(v)' \subseteq ListForUser(v)
  <2>1. \A k \in Issued : k \in AllKeys
    BY DEF Issued
  <2> QED
    BY <1>1, <1>2, <2>1 DEF ListForUser
<1> QED
  BY <1>t, <1>3, <1>5, <1>6, <1>7, <1>8, WatchedStep

LEMMA ReplaceInv ==
  ASSUME KeysInv, NEW u \in People, Replace(u)
  PROVE  KeysInv'
<1>0. PICK k \in AllKeys : k = nextKey
  BY DEF Replace
<1>1. /\ UNCHANGED <<clock, people, tokens, calls>> /\ Watching
      /\ secrets' = [secrets EXCEPT ![nextKey] = [kind |-> "feed", owner |-> u]]
      /\ feeds' = [feeds EXCEPT ![u] = [key |-> k, read |-> Never]]
  BY <1>0 DEF Replace, IssuedCalendarFeed
<1>t. /\ clock \in Nat /\ clock <= MaxClock
      /\ people \in [People -> [state : {"there", "gone"}, mustChange : BOOLEAN, reads : BOOLEAN,
                                changes : Int]]
      /\ tokens \in [AllKeys -> [state : {"none", "there", "gone"}, expires : Int, used : Int]]
      /\ feeds \in [People -> [key : 0 .. MaxKeys, read : Int]]
  BY DEF KeysInv, KeyTyped
<1>k. /\ Issued' = Issued \cup {k} /\ k \notin Issued /\ secrets[k].kind = "none"
      /\ \E n \in 0 .. MaxKeys : Issued' = 1 .. n
      /\ secrets' \in [AllKeys -> [kind : KeyNames \cup {"none"}, owner : People \cup {""}]]
      /\ secrets'[k] = [kind |-> "feed", owner |-> u]
      /\ \A t \in AllKeys \ {k} : secrets'[t] = secrets[t]
  BY <1>0, <1>1, KeyMade DEF KeysInv, KeyNames
<1>2. /\ secrets'[k].kind = "feed" /\ secrets'[k].owner = u
      /\ Issued' = Issued \cup {k} /\ k \notin Issued /\ secrets[k].kind = "none"
      /\ \A t \in AllKeys \ {k} : secrets'[t] = secrets[t]
  <2>1. secrets'[k] = [kind |-> "feed", owner |-> u]
    BY <1>k, Zenon
  <2>2. secrets'[k].kind = "feed" /\ secrets'[k].owner = u
    BY <2>1
  <2> QED
    BY <1>k, <2>2, Zenon
<1>3. /\ feeds' \in [People -> [key : 0 .. MaxKeys, read : Int]]
      /\ feeds'[u].key = k /\ feeds'[u].read = Never
      /\ \A v \in People \ {u} : feeds'[v] = feeds[v]
  <2>1. k \in 0 .. MaxKeys /\ Never \in Int
    BY KeysAssumption DEF AllKeys, Never
  <2> QED
    BY <1>1, <1>t, <2>1
<1>4. \A t \in Issued : t \in AllKeys \ {k}
  BY <1>2 DEF Issued
<1>5. RowsInv'
  <2>1. \A t \in Issued' : ownerOf(t)' \in People
    <3>1. \A t \in Issued : secrets[t].owner \in People
      BY DEF KeysInv, RowsInv, ownerOf
    <3>2. \A t \in Issued' : secrets'[t].owner \in People
      BY <1>2, <1>4, <3>1
    <3> QED
      BY <3>2 DEF ownerOf
  <2>2. \A t \in AllKeys : tokens'[t].state # "none" <=> secrets'[t].kind = "token"
    <3>1. \A t \in AllKeys : tokens[t].state # "none" <=> secrets[t].kind = "token"
      BY DEF KeysInv, RowsInv
    <3> QED
      BY <1>1, <1>2, <3>1
  <2>3. \A t \in AllKeys : tokens'[t].used <= clock'
    BY <1>1 DEF KeysInv, RowsInv
  <2>4. \A v \in People :
          /\ feeds'[v].read <= clock'
          /\ feeds'[v].key # 0 => /\ feeds'[v].key \in Issued'
                                  /\ secrets'[feeds'[v].key] = [kind |-> "feed", owner |-> v]
    <3>1. Never <= clock
      BY <1>t DEF Never
    <3>2. ASSUME NEW v \in People \ {u}
          PROVE  /\ feeds'[v].read <= clock'
                 /\ feeds'[v].key # 0 => /\ feeds'[v].key \in Issued'
                                         /\ secrets'[feeds'[v].key] = [kind |-> "feed", owner |-> v]
      <4>1. /\ feeds[v].read <= clock
            /\ feeds[v].key # 0 => /\ feeds[v].key \in Issued
                                   /\ secrets[feeds[v].key] = [kind |-> "feed", owner |-> v]
        BY DEF KeysInv, RowsInv
      <4> QED
        BY <1>1, <1>2, <1>3, <1>4, <4>1
    <3>3. feeds'[u].read <= clock' /\ feeds'[u].key \in Issued'
      BY <1>1, <1>2, <1>3, <3>1
    <3>4. secrets'[feeds'[u].key] = [kind |-> "feed", owner |-> u]
      BY <1>3, <1>k, Zenon
    <3> QED
      BY <3>2, <3>3, <3>4
  <2> QED
    BY <1>k, <2>1, <2>2, <2>3, <2>4 DEF RowsInv
<1>6. Grows
  BY <1>1, <1>2, <1>4 DEF Grows
<1>7. \A v \in People : ListForUser(v)' \subseteq ListForUser(v)
  <2>1. tokens[k].state = "none"
    BY <1>2 DEF KeysInv, RowsInv
  <2>2. \A t \in Issued : ownerOf(t)' = ownerOf(t)
    BY <1>2, <1>4 DEF ownerOf
  <2> QED
    BY <1>1, <1>2, <2>1, <2>2 DEF ListForUser
<1>8. secrets' \in [AllKeys -> [kind : KeyNames \cup {"none"}, owner : People \cup {""}]]
  BY <1>k, Zenon
<1> QED
  BY <1>1, <1>t, <1>3, <1>5, <1>6, <1>7, <1>8, WatchedStep

LEMMA RevokeInv ==
  ASSUME KeysInv, NEW u \in People, NEW k \in AllKeys, Revoke(u, k)
  PROVE  KeysInv'
<1>1. /\ Watching /\ UNCHANGED <<clock, people, secrets, feeds, calls>>
      /\ k \in ListForUser(u) /\ tokens' = [tokens EXCEPT ![k].state = "gone"]
  BY DEF Revoke, DeleteToken
<1>2. tokens' = [t \in AllKeys |-> IF t \in {k} THEN [tokens[t] EXCEPT !.state = "gone"] ELSE tokens[t]]
  BY <1>1 DEF KeysInv, KeyTyped
<1>3. people \in [People -> [state : {"there", "gone"}, mustChange : BOOLEAN, reads : BOOLEAN,
                             changes : Int]]
  BY DEF KeysInv, KeyTyped
<1>4. {k} \subseteq ListForUser(u)
  BY <1>1
<1> QED
  BY <1>1, <1>2, <1>3, <1>4, TakenBack

\* Nothing is taken back but perhaps the address, and perhaps the account changes.
LEMMA ChangedInv ==
  ASSUME KeysInv, NEW u \in People, Watching, UNCHANGED <<clock, secrets, calls, tokens>>,
         people' \in [People -> [state : {"there", "gone"}, mustChange : BOOLEAN, reads : BOOLEAN,
                                 changes : Int]],
         feeds' = feeds \/ feeds' = [feeds EXCEPT ![u] = NoFeed]
  PROVE  KeysInv'
<1>1. tokens' = [t \in AllKeys |-> IF t \in {} THEN [tokens[t] EXCEPT !.state = "gone"] ELSE tokens[t]]
  BY DEF KeysInv, KeyTyped
<1>2. {} \in SUBSET ListForUser(u)
  OBVIOUS
<1> QED
  BY <1>1, <1>2, TakenBack

\* What an account may become.
LEMMA ChangeTyped ==
  ASSUME KeyTyped, NEW u \in People,
         NEW change \in [state : {"there", "gone"}, mustChange : BOOLEAN, reads : BOOLEAN, changes : Int],
         Change(u, change)
  PROVE  /\ people' \in [People -> [state : {"there", "gone"}, mustChange : BOOLEAN, reads : BOOLEAN,
                                    changes : Int]]
         /\ UNCHANGED <<clock, secrets, calls>>
<1>1. people' = [people EXCEPT ![u] = [change EXCEPT !.changes = @ + 1]]
  BY DEF Change
<1>2. [change EXCEPT !.changes = @ + 1]
        \in [state : {"there", "gone"}, mustChange : BOOLEAN, reads : BOOLEAN, changes : Int]
  OBVIOUS
<1>3. people' \in [People -> [state : {"there", "gone"}, mustChange : BOOLEAN, reads : BOOLEAN,
                              changes : Int]]
  BY <1>1, <1>2 DEF KeyTyped
<1> QED
  BY <1>3 DEF Change

LEMMA PeopleInv ==
  ASSUME KeysInv, NEW u \in People,
         ResetPassword(u) \/ ChoosePassword(u) \/ AssignReadingRole(u) \/ PurgeOwner(u) \/ Remove(u)
  PROVE  KeysInv'
<1> DEFINE Person == [state : {"there", "gone"}, mustChange : BOOLEAN, reads : BOOLEAN, changes : Int]
<1>0. KeyTyped /\ people \in [People -> Person] /\ people[u] \in Person
  BY DEF KeysInv, KeyTyped
<1>1. CASE ResetPassword(u)
  <2>1. [people[u] EXCEPT !.mustChange = TRUE] \in Person
    BY <1>0
  <2> QED
    BY <1>0, <1>1, <2>1, ChangeTyped, ChangedInv DEF ResetPassword
<1>2. CASE ChoosePassword(u)
  <2>1. [people[u] EXCEPT !.mustChange = FALSE] \in Person
    BY <1>0
  <2> QED
    BY <1>0, <1>2, <2>1, ChangeTyped, ChangedInv DEF ChoosePassword
<1>3. CASE AssignReadingRole(u)
  <2>1. [people[u] EXCEPT !.reads = ~@] \in Person
    BY <1>0
  <2> QED
    BY <1>0, <1>3, <2>1, ChangeTyped, ChangedInv DEF AssignReadingRole
<1>4. CASE PurgeOwner(u)
  <2>1. [people[u] EXCEPT !.state = "gone"] \in Person
    BY <1>0
  <2>2. /\ people' \in [People -> Person] /\ UNCHANGED <<clock, secrets, calls>>
    BY <1>0, <1>4, <2>1, ChangeTyped DEF PurgeOwner
  <2> QED
    BY <1>4, <2>2, TakenBack DEF PurgeOwner
<1>5. CASE Remove(u)
  BY <1>0, <1>5, ChangedInv DEF Remove, DeleteFeed
<1> QED
  BY <1>1, <1>2, <1>3, <1>4, <1>5

LEMMA KeyTickInv ==
  ASSUME KeysInv, KeyTick
  PROVE  KeysInv'
<1>1. /\ UNCHANGED <<people, secrets, tokens, feeds, calls>> /\ Watching
      /\ clock' = clock + 1 /\ clock < MaxClock
  BY DEF KeyTick
<1>2. clock \in Nat /\ MaxClock \in Nat
  BY KeysAssumption DEF KeysInv, KeyTyped
<1>3. clock' \in Nat /\ clock' <= MaxClock /\ clock <= clock'
  BY <1>1, <1>2
<1>4. Issued' = Issued /\ \A u \in People : ListForUser(u)' = ListForUser(u)
  BY <1>1 DEF Issued, ListForUser, ownerOf
<1>5. RowsInv'
  <2>0. /\ \A k \in AllKeys : tokens[k].used \in Int /\ tokens[k].used <= clock
        /\ \A u \in People : feeds[u].read \in Int /\ feeds[u].read <= clock
    BY DEF KeysInv, RowsInv, KeyTyped
  <2>1. \A k \in AllKeys : tokens'[k].used <= clock'
    BY <1>1, <1>2, <2>0
  <2>2. \A u \in People : feeds'[u].read <= clock'
    BY <1>1, <1>2, <2>0
  <2> QED
    BY <1>1, <1>4, <2>1, <2>2 DEF KeysInv, RowsInv, ownerOf
<1>6. Grows
  BY <1>1, <1>4 DEF Grows
<1> QED
  BY <1>1, <1>3, <1>4, <1>5, <1>6, WatchedStep DEF KeysInv, KeyTyped

LEMMA KeysInitInv ==
  ASSUME KeysInit
  PROVE  KeysInv
<1>1. PICK o \in People, kind \in KeyNames :
        /\ secrets = [k \in AllKeys |-> IF k = 1 THEN [kind |-> kind, owner |-> o]
                                        ELSE [kind |-> "none", owner |-> ""]]
        /\ tokens = [k \in AllKeys |-> IF k = 1 /\ kind = "token" THEN [NoRow EXCEPT !.state = "there"]
                                       ELSE NoRow]
        /\ feeds = [v \in People |-> IF v = o /\ kind = "feed" THEN [NoFeed EXCEPT !.key = 1]
                                     ELSE NoFeed]
  BY DEF KeysInit, KeyNames
<1>2. /\ 0 \in Nat /\ 0 <= MaxClock /\ Never \in Int /\ 0 \in Int /\ Never <= 0
      /\ 0 \in 0 .. MaxKeys /\ 1 \in 0 .. MaxKeys /\ 1 \in AllKeys
  BY KeysAssumption DEF Never, AllKeys
<1>3. KeyTyped
  <2>1. clock \in Nat /\ clock <= MaxClock
    BY <1>2 DEF KeysInit
  <2>2. people \in [People -> [state : {"there", "gone"}, mustChange : BOOLEAN, reads : BOOLEAN,
                               changes : Int]]
    BY <1>2 DEF KeysInit
  <2>3. secrets \in [AllKeys -> [kind : KeyNames \cup {"none"}, owner : People \cup {""}]]
    BY <1>1
  <2>4. tokens \in [AllKeys -> [state : {"none", "there", "gone"}, expires : Int, used : Int]]
    BY <1>1, <1>2 DEF NoRow
  <2>5. feeds \in [People -> [key : 0 .. MaxKeys, read : Int]]
    <3>1. NoFeed \in [key : 0 .. MaxKeys, read : Int]
      BY <1>2 DEF NoFeed
    <3>2. [NoFeed EXCEPT !.key = 1] \in [key : 0 .. MaxKeys, read : Int]
      BY <1>2, <3>1
    <3> QED
      BY <1>1, <3>1, <3>2
  <2>6. calls \in [KeyCalls -> Call]
    BY AtRest DEF KeysInit
  <2>7. watch \in [KeyCalls -> [always : SUBSET Conditions, never : SUBSET Conditions]]
    BY DEF KeysInit
  <2> QED
    BY <2>1, <2>2, <2>3, <2>4, <2>5, <2>6, <2>7 DEF KeyTyped, Call
<1>4. Issued = 1 .. 1
  <2>1. secrets[1].kind = kind /\ \A k \in AllKeys \ {1} : secrets[k].kind = "none"
    BY <1>1, <1>2
  <2>2. Issued = {1}
    BY <1>2, <2>1 DEF Issued, KeyNames
  <2>3. 1 .. 1 = {1}
    OBVIOUS
  <2> QED
    BY <2>2, <2>3
<1>5. RowsInv
  <2>0. secrets[1] = [kind |-> kind, owner |-> o] /\ \A k \in AllKeys \ {1} : secrets[k].kind = "none"
    BY <1>1, <1>2
  <2>1. \A k \in Issued : ownerOf(k) \in People
    BY <1>4, <2>0 DEF ownerOf
  <2>2. \A k \in AllKeys : tokens[k].state # "none" <=> secrets[k].kind = "token"
    BY <1>1, <2>0 DEF NoRow, KeyNames
  <2>3. \A k \in AllKeys : tokens[k].used <= clock
    <3>1. \A k \in AllKeys : tokens[k].used = Never
      BY <1>1 DEF NoRow
    <3> QED
      BY <1>2, <3>1 DEF KeysInit
  <2>4. \A u \in People :
          /\ feeds[u].read <= clock
          /\ feeds[u].key # 0 => /\ feeds[u].key \in Issued
                                 /\ secrets[feeds[u].key] = [kind |-> "feed", owner |-> u]
    <3>1. NoFeed.key = 0 /\ [NoFeed EXCEPT !.key = 1].key = 1
          /\ NoFeed.read = Never /\ [NoFeed EXCEPT !.key = 1].read = Never
      BY DEF NoFeed
    <3>2. \A u \in People :
            /\ feeds[u].read = Never
            /\ feeds[u].key # 0 => feeds[u].key = 1 /\ u = o /\ kind = "feed"
      BY <1>1, <3>1
    <3> QED
      <4>0. 1 \in Issued
        BY <1>4
      <4>1. clock = 0 /\ 1 \in Issued
        BY <4>0 DEF KeysInit
      <4>2. \A u \in People : feeds[u].read <= clock
        BY <1>2, <3>2, <4>1
      <4>3. \A u \in People : feeds[u].key # 0 =>
              /\ feeds[u].key \in Issued
              /\ secrets[feeds[u].key] = [kind |-> "feed", owner |-> u]
        BY <2>0, <3>2, <4>1
      <4> QED
        BY <4>2, <4>3
  <2> QED
    BY <1>2, <1>4, <2>1, <2>2, <2>3, <2>4 DEF RowsInv
<1>6. \A c \in KeyCalls : CallInv(calls[c], watch[c])
  <2>1. Resting.at = "idle"
    BY DEF Resting
  <2> QED
    BY <2>1, AtRest DEF KeysInit, CallInv, Presented
<1>7. RoomInv
  <2> SUFFICES ASSUME NEW u \in People
               PROVE  Cardinality(ListForUser(u)) + Cardinality(Saving(u))
                        <= MaxTokens - 1 + Cardinality(KeyCalls)
    BY DEF RoomInv
  <2>1. Saving(u) = {}
    BY DEF Saving, KeysInit, Resting
  <2>2. Cardinality(Saving(u)) = 0
    BY <2>1, FS_EmptySet
  <2>3. Cardinality(ListForUser(u)) <= 1 /\ Cardinality(ListForUser(u)) \in Nat
    <3>1. ListForUser(u) \subseteq {1}
      BY <1>4 DEF ListForUser
    <3>2. IsFiniteSet({1}) /\ Cardinality({1}) = 1
      BY FS_Singleton
    <3> QED
      BY <3>1, <3>2, FS_Subset, FS_CardinalityType
  <2>4. Cardinality(KeyCalls) \in Nat /\ Cardinality(KeyCalls) # 0
    BY KeysAssumption, FS_EmptySet, FS_CardinalityType
  <2> QED
    BY <2>2, <2>3, <2>4, KeysAssumption
<1> QED
  BY <1>3, <1>5, <1>6, <1>7 DEF KeysInv

LEMMA KeysInvariant == KeysSpec => []KeysInv
<1>1. KeysInv /\ [KeysNext]_keyVars => KeysInv'
  <2> SUFFICES ASSUME KeysInv, [KeysNext]_keyVars PROVE KeysInv'
    OBVIOUS
  <2>1. ASSUME NEW c \in KeyCalls, KeyCallStep(c) PROVE KeysInv'
    <3>1. ASSUME NEW u \in People, NEW days \in Expiries, Create(c, u, days) PROVE KeysInv'
      BY <3>1, CreateInv
    <3>2. ASSUME NEW k \in AllKeys, NEW as \in KeyNames, Arrive(c, k, as) PROVE KeysInv'
      BY <3>2, ArriveInv
    <3> QED
      BY <2>1, <3>1, <3>2, SaveInv, LookupInv, OwnerInv, RoleInv, TouchInv, Unchecked
      DEF KeyCallStep, KeyNames
  <2>2. CASE UNCHANGED keyVars
    <3>1. KeyTyped' /\ UNCHANGED <<KeyTables, calls, watch>>
      BY <2>2 DEF keyVars, KeysInv, KeyTyped, KeyTables
    <3>2. /\ RowsInv' /\ Grows /\ NothingMoves
          /\ \A u \in People : ListForUser(u)' \subseteq ListForUser(u)
      BY <3>1, TablesStay DEF KeysInv
    <3>3. \A c \in KeyCalls : CallInv(calls[c], watch[c])'
      BY <3>1, <3>2, CallStays DEF KeysInv
    <3>4. \A u \in People : Saving(u)' \subseteq Saving(u)
      BY <3>1 DEF Saving
    <3> QED
      BY <3>1, <3>2, <3>3, <3>4, RoomStays DEF KeysInv
  <2> QED
    BY <2>1, <2>2, RevokeInv, ReplaceInv, PeopleInv, KeyTickInv DEF KeysNext
<1> QED
  BY <1>1, KeysInitInv, PTL DEF KeysSpec

\* Whatever is taken back, reset, replaced or purged while a key is looked up, its owner
\* read and its use recorded with separate statements, and whichever of them fails: a key
\* that lacked something all along opens nothing, one that was good all along is refused
\* by no check, nobody ends up with more tokens than the limit and the requests that
\* counted together leave room for, and a token that was used shows it.
THEOREM KeysStayTrue == KeysSpec => []KeysAreTrue
<1>1. KeysInv => KeysAreTrue
  <2> SUFFICES ASSUME KeysInv PROVE KeysAreTrue
    OBVIOUS
  <2>1. \A c \in KeyCalls :
          /\ calls[c].at \in CallPlaces /\ calls[c].answer \in KeyAnswers
          /\ calls[c].at = "done" => DoneInv(calls[c], watch[c])
          /\ calls[c].at # "done" => calls[c].answer = ""
    BY DEF KeysInv, KeyTyped, CallInv, Presented, PresentedInv, CallPlaces
  <2>2. KeysTypeOK
    <3>0. clock \in Nat /\ clock <= MaxClock
      BY DEF KeysInv, KeyTyped
    <3>1. clock \in 0 .. MaxClock
      BY <3>0, KeysAssumption
    <3>2. \A k \in AllKeys : tokens[k].state # "none" => secrets[k].kind = "token" /\ tokens[k].used <= clock
      BY DEF KeysInv, RowsInv
    <3>3. \A u \in People : feeds[u].key \in {0} \union Issued /\ feeds[u].read <= clock
      BY DEF KeysInv, RowsInv
    <3>4. \A c \in KeyCalls : calls[c].at = "done"
            => calls[c].answer \in {"made", "conflict", "served", "refused", "unknown"}
      BY <2>1 DEF KeyAnswers, DoneInv
    <3> QED
      BY <3>1, <3>2, <3>3, <3>4 DEF KeysTypeOK
  <2>3. AnsweredTruly
    BY <2>1 DEF AnsweredTruly, DoneInv
  <2>4. TokensBounded
    <3> SUFFICES ASSUME NEW u \in People
                 PROVE  Cardinality(ListForUser(u)) <= MaxTokens + Cardinality(KeyCalls) - 1
      BY DEF TokensBounded
    <3>1. Cardinality(ListForUser(u)) + Cardinality(Saving(u)) <= MaxTokens - 1 + Cardinality(KeyCalls)
      BY DEF KeysInv, RoomInv
    <3>2. Cardinality(ListForUser(u)) \in Nat /\ Cardinality(Saving(u)) \in Nat
          /\ Cardinality(KeyCalls) \in Nat
      BY ListsFinite, SavingFinite DEF KeysInv
    <3> QED
      BY <3>1, <3>2, KeysAssumption
  <2>5. UseShows
    BY <2>1 DEF UseShows, DoneInv, Shows
  <2> QED
    BY <2>2, <2>3, <2>4, <2>5 DEF KeysAreTrue
<1> QED
  BY <1>1, KeysInvariant, PTL

-----------------------------------------------------------------------------
(* Where runs and sign-ins stand.                                          *)

Entry == [who : Entrants, id : Nat, mail : Nat]
Answers == {"", "busy", "failed", "refused", "preview", "done", "stopped", "unrecorded"}
Run == [at : {"idle", "list", "read", "create", "record"}, kind : {"", "preview", "sync", "confirmed"},
        agreed : SUBSET Rows, listing : SUBSET Entry, candidates : SUBSET Rows, of : Nat, todo : SUBSET Entry,
        deleted : SUBSET Rows, created : SUBSET Rows, since : SUBSET Rows, answer : Answers, failed : BOOLEAN]
Arrival == [at : {"idle", "id", "mail", "save", "reconcile"}, who : Entrants \cup {0}, id : Nat, mail : Nat,
            row : Rows \cup {0}]
SyncTyped ==
  /\ directory \in [Entrants -> [in : BOOLEAN, mail : Nat]] /\ members \in [Rows -> MemberRow]
  /\ {stored, readBy, chosen} \subseteq Attributes \cup {0} /\ limit \in Nat
  /\ runs \in [Runners -> Run] /\ shown \subseteq Rows
  /\ arrival \in Arrival
  /\ arrival.at # "idle" => arrival.who \in Entrants
  /\ arrival.at = "reconcile" => arrival.row \in Rows

\* A run has the lock while it may change something. What it deletes it has decided on, by
\* what was agreed and within the share, and nobody else removes an account meanwhile.
RunRight(r) ==
  LET x == runs[r] IN
  /\ x.at \in {"list", "read", "create"} /\ x.kind # "preview" => running = r
  /\ x.at \in {"list", "read"} => x.candidates = {} /\ x.todo = {} /\ x.deleted = {} /\ x.created = {} /\ x.answer = ""
  /\ x.at = "create" => x.kind # "preview" /\ x.answer = "" /\ (\A a \in x.candidates \ x.deleted : Exists(a))
  /\ x.deleted \subseteq x.candidates /\ x.todo \subseteq x.listing
  /\ x.kind = "confirmed" => x.candidates \subseteq x.agreed
  /\ limit > 0 => Cardinality(x.candidates) * 100 <= limit * x.of
  /\ \A a \in x.created : members[a].state # "none"
  /\ x.answer = "stopped" => x.failed \/ "taken" \in excused
RunsRight == SyncTyped /\ \A r \in Runners : RunRight(r)

\* Identifiers are of the attribute in use, and there are none between the forgetting and
\* the storing.
IdentifiersOfTheAttribute ==
  "stale" \in excused \/
  \A a \in Rows : Exists(a) => /\ members[a].id \in {0, stableID(members[a].owner, stored)}
                               /\ saving = "store" => members[a].id = 0
\* Whom a run is about to delete the directory did not hold.
DoomedHaveLeft ==
  \A r \in Runners : runs[r].at = "create" =>
    \A a \in runs[r].candidates \ runs[r].deleted : \A e \in runs[r].listing :
      e.who = members[a].owner =>
        \/ members[a].id = 0 /\ members[a].mail # e.mail
        \/ a \in runs[r].since
        \/ "stale" \in excused
HeldInv == RunsRight /\ IdentifiersOfTheAttribute /\ DoomedHaveLeft

\* What was listed, or is signing in, is as the directory still has it.
FromDirectory(x) == x.who \in Entrants /\ \E attribute \in Attributes \cup {0} : x.id = stableID(x.who, attribute)
AsListed ==
  /\ \A r \in Runners : runs[r].at \in {"read", "create"} =>
       \A e \in runs[r].listing : FromDirectory(e) /\ e.mail = directory[e.who].mail
  /\ arrival.at # "idle" => FromDirectory(arrival) /\ arrival.mail = directory[arrival.who].mail
\* An identifier about to be written is at no account, or at one with the same address,
\* where the database refuses the second.
NotElsewhere ==
  /\ \A r \in Runners : runs[r].at = "create" =>
       \A e \in runs[r].todo, b \in Rows :
         Exists(b) /\ members[b].id = e.id /\ e.id # 0 => members[b].mail = e.mail
  /\ arrival.at \in {"mail", "save", "reconcile"} =>
       \A b \in Rows : /\ Exists(b) /\ members[b].id = arrival.id /\ arrival.id # 0
                       /\ arrival.at = "reconcile" => b # arrival.row
                       => members[b].mail = arrival.mail
OneEach ==
  \A a, b \in Rows : Exists(a) /\ Exists(b) /\ members[a].id = members[b].id /\ members[a].id # 0 => a = b
ArrivalAt ==
  arrival.at = "reconcile" =>
    /\ arrival.row \in Rows /\ members[arrival.row].state # "none"
    /\ arrival.id = 0 => members[arrival.row].mail = arrival.mail
OnceInv ==
  RunsRight /\ ArrivalAt /\ ("moved" \in excused \/ (AsListed /\ NotElsewhere /\ OneEach))

\* What runs changed and have not recorded.
Removed == {t \in Runners \X Rows : runs[t[1]].at # "idle" /\ t[2] \in runs[t[1]].deleted}
Added == {t \in Runners \X Rows : runs[t[1]].at # "idle" /\ t[2] \in runs[t[1]].created}
RecordInv ==
  /\ RunsRight /\ recorded \in Nat /\ changes \in Nat
  /\ "unrecorded" \in excused \/ changes = recorded + Cardinality(Removed) + Cardinality(Added)

-----------------------------------------------------------------------------
LEMMA Least == ASSUME NEW T \in SUBSET Nat, T # {} PROVE \E x \in T : \A y \in T : x <= y
<1> DEFINE Before == OpToRel(<, Nat)
<1>1. IsWellFoundedOn(Before, Nat)
  BY NatLessThanWellFounded
<1>2. \A x, y \in Nat : x < y => <<x, y>> \in Before
  BY DEF OpToRel
<1> HIDE DEF Before
<1>3. PICK x \in T : \A y \in T : ~ (<<y, x>> \in Before)
  BY <1>1, WFMin
<1>4. ASSUME NEW y \in T PROVE x <= y
  <2>1. x \in Nat /\ y \in Nat /\ ~(<<y, x>> \in Before)
    BY <1>3
  <2>2. ~(y < x)
    BY <1>2, <2>1
  <2> QED
    BY <2>1, <2>2
<1> QED
  BY <1>4

\* What is chosen by the least number of something is there.
LEMMA LeastBy ==
  ASSUME NEW S, S # {}, NEW f, \A x \in S : f[x] \in Nat
  PROVE  \E x \in S : \A y \in S : f[x] <= f[y]
<1> DEFINE numbers == {f[x] : x \in S}
<1>1. numbers \in SUBSET Nat /\ numbers # {}
  OBVIOUS
<1>2. PICK n \in numbers : \A m \in numbers : n <= m
  <2> HIDE DEF numbers
  <2> QED
    BY <1>1, Least
<1> QED
  BY <1>2

\* A row is made where none was.
LEMMA FreeRowIsFree == ASSUME SyncTyped, RoomLeft PROVE FreeRow \in Rows /\ members[FreeRow].state = "none"
<1> DEFINE free == {a \in Rows : members[a].state = "none"}
<1>1. free \in SUBSET Nat /\ free # {}
  BY SyncAssumption DEF RoomLeft
<1>2. PICK a \in free : \A b \in free : a <= b
  <2> HIDE DEF free
  <2> QED
    BY <1>1, Least
<1>3. a \in Rows /\ members[a].state = "none" /\ \A b \in Rows : b < a => members[b].state # "none"
  <2>1. \A b \in Rows : b \in Nat
    BY SyncAssumption
  <2>2. \A b \in Rows : b < a => b \notin free
    BY <1>1, <1>2, <2>1
  <2> QED
    BY <1>2, <2>2
<1> QED
  BY <1>3 DEF FreeRow

\* The next account to delete is one of those left, the next to create one of those missing.
LEMMA NextToDelete ==
  ASSUME SyncTyped, NEW left \in SUBSET Rows, left # {}
  PROVE  (CHOOSE x \in left : \A y \in left : members[x].mail <= members[y].mail) \in left
<1> DEFINE f == [a \in Rows |-> members[a].mail]
<1>1. \A x \in left : f[x] \in Nat
  BY DEF SyncTyped, MemberRow
<1>2. \E x \in left : \A y \in left : f[x] <= f[y]
  <2> HIDE DEF f
  <2> QED
    BY <1>1, LeastBy
<1>3. \E x \in left : \A y \in left : members[x].mail <= members[y].mail
  BY <1>2
<1> QED
  BY <1>3
LEMMA NextToCreate ==
  ASSUME NEW todo \in SUBSET Entry, todo # {}
  PROVE  (CHOOSE x \in todo : \A y \in todo : x.who <= y.who) \in todo
<1> DEFINE f == [e \in todo |-> e.who]
<1>1. \A e \in todo : e.who \in Nat
  <2>1. Entrants \subseteq Nat
    BY SyncAssumption
  <2>2. \A e \in todo : e.who \in Entrants
    BY DEF Entry
  <2> QED
    BY <2>1, <2>2
<1>2. \E x \in todo : \A y \in todo : f[x] <= f[y]
  <2>1. \A e \in todo : f[e] \in Nat
    BY <1>1
  <2> HIDE DEF f
  <2> QED
    BY <2>1, LeastBy
<1>3. \E x \in todo : \A y \in todo : x.who <= y.who
  BY <1>2
<1> QED
  BY <1>3

LEMMA IdentifiersDiffer ==
  ASSUME NEW x, NEW y, FromDirectory(x), FromDirectory(y), x.id = y.id, x.id # 0
  PROVE  x.who = y.who
<1>1. PICK b \in Attributes \ {0} : x.id = Identifier[<<b, x.who>>]
  BY DEF FromDirectory, stableID
<1>2. PICK c \in Attributes \ {0} : y.id = Identifier[<<c, y.who>>]
  BY DEF FromDirectory, stableID
<1>3. <<b, x.who>> \in (Attributes \ {0}) \X Entrants /\ <<c, y.who>> \in (Attributes \ {0}) \X Entrants
  BY <1>1, <1>2 DEF FromDirectory
<1>4. <<b, x.who>> = <<c, y.who>>
  BY <1>1, <1>2, <1>3, SyncAssumption
<1> QED
  BY <1>4
\* An identifier is a number, and 0 only where there is none.
LEMMA IdentifierTyped ==
  ASSUME NEW p \in Entrants, NEW attribute \in Attributes \cup {0}
  PROVE  stableID(p, attribute) \in Nat
<1>1. CASE attribute = 0
  BY <1>1 DEF stableID
<1>2. CASE attribute # 0
  <2>1. <<attribute, p>> \in (Attributes \ {0}) \X Entrants
    BY <1>2
  <2>2. Identifier[<<attribute, p>>] \in Nat
    BY <2>1, SyncAssumption
  <2> QED
    BY <1>2, <2>2 DEF stableID
<1> QED
  BY <1>1, <1>2

\* A run others go on beside is as right as it was.
SameRun(x, y) ==
  /\ x.at = y.at /\ x.kind = y.kind /\ x.agreed = y.agreed /\ x.listing = y.listing /\ x.candidates = y.candidates
  /\ x.of = y.of /\ x.todo = y.todo /\ x.deleted = y.deleted /\ x.created = y.created /\ x.answer = y.answer
  /\ x.failed = y.failed
LEMMA RunKept ==
  ASSUME SyncTyped, NEW q \in Runners, RunRight(q), SameRun(runs[q], runs'[q]), limit' = limit, excused \subseteq excused',
         running = q => running' = q,
         \A a \in Rows : members[a].state # "none" => members'[a].state # "none",
         running = q => \A a \in Rows : Exists(a) => Exists(a)'
  PROVE  RunRight(q)'
<1>1. runs[q].candidates \subseteq Rows /\ runs[q].created \subseteq Rows
  BY DEF SyncTyped, Run
<1> QED
  BY <1>1 DEF RunRight, SameRun
LEMMA StepOfOne ==
  ASSUME RunsRight, SyncTyped', NEW r \in Runners, NEW x \in Run, runs' = [runs EXCEPT ![r] = x],
         limit' = limit, excused \subseteq excused',
         \A q \in Runners : q # r /\ running = q => running' = q,
         \A a \in Rows : members[a].state # "none" => members'[a].state # "none",
         running = r \/ (\A a \in Rows : Exists(a) => Exists(a)'),
         RunRight(r)'
  PROVE  RunsRight'
<1>1. ASSUME NEW q \in Runners, q # r PROVE RunRight(q)'
  <2>1. runs'[q] = runs[q]
    BY <1>1 DEF RunsRight, SyncTyped
  <2> QED
    BY <1>1, <2>1, RunKept DEF SameRun, RunsRight
<1> QED
  BY <1>1 DEF RunsRight

\* Whatever leaves the runs alone leaves them right.
LEMMA RunsAlone ==
  ASSUME RunsRight, SyncTyped', UNCHANGED <<runs, running, limit>>, excused \subseteq excused',
         \A a \in Rows : members[a].state # "none" => members'[a].state # "none",
         \A a \in Rows : Exists(a) => Exists(a)'
  PROVE  RunsRight'
<1>1. ASSUME NEW q \in Runners PROVE RunRight(q)'
  BY RunKept DEF RunsRight, SameRun
<1> QED
  BY <1>1 DEF RunsRight

LEMMA NoRunIsRun == NoRun \in Run
<1>1. 0 \in Nat
  OBVIOUS
<1> QED
  BY <1>1, Zenon DEF NoRun, Run, Answers

LEMMA NoRunAtAll ==
  /\ NoRun.at = "idle" /\ NoRun.kind = "" /\ NoRun.agreed = {} /\ NoRun.listing = {} /\ NoRun.candidates = {}
  /\ NoRun.of = 0 /\ NoRun.todo = {} /\ NoRun.deleted = {} /\ NoRun.created = {} /\ NoRun.answer = ""
BY DEF NoRun

LEMMA RefusedTyped == NoArrival \in Arrival /\ NoArrival.at = "idle"
<1>1. 0 \in Nat
  OBVIOUS
<1> QED
  BY <1>1, Zenon DEF NoArrival, Arrival

LEMMA RunsInit == SyncInit => RunsRight
<1> SUFFICES ASSUME SyncInit PROVE RunsRight
  OBVIOUS
<1>1. PICK s \in Starts : directory = s.directory /\ members = s.accounts /\ stored = s.attribute
                          /\ readBy = s.attribute /\ limit = s.limit
  BY DEF SyncInit
<1>2. NoRun \in Run
  BY NoRunIsRun
<1>3. NoArrival \in Arrival /\ NoArrival.at = "idle"
  BY RefusedTyped
<1>4. SyncTyped
  BY <1>1, <1>2, <1>3, SyncAssumption DEF SyncInit, SyncTyped
<1>5. 0 <= limit * 0
  BY <1>4 DEF SyncTyped
<1>6. ASSUME NEW r \in Runners PROVE RunRight(r)
  <2>1. runs[r] = NoRun
    BY DEF SyncInit
  <2>2. runs[r].candidates = {} /\ runs[r].of = 0
    BY <2>1, NoRunAtAll
  <2>3. Cardinality(runs[r].candidates) * 100 <= limit * runs[r].of
    BY <1>5, <2>2, FS_EmptySet
  <2>4. runs[r].at = "idle" /\ runs[r].kind = "" /\ runs[r].deleted = {} /\ runs[r].created = {} /\ runs[r].todo = {}
        /\ runs[r].answer = ""
    BY <2>1, NoRunAtAll
  <2> QED
    BY <2>2, <2>3, <2>4 DEF RunRight
<1> QED
  BY <1>4, <1>6 DEF RunsRight

LEMMA StartRunRight ==
  ASSUME RunsRight, NEW r \in Runners, NEW kind \in {"preview", "sync", "confirmed"}, StartRun(r, kind)
  PROVE  RunsRight'
<1>1. PICK x : runs' = [runs EXCEPT ![r] = x] /\
        \/ /\ TryLock(r, kind) /\ running' = IF kind = "preview" THEN running ELSE r
           /\ x = [NoRun EXCEPT !.at = "list", !.kind = kind, !.agreed = IF kind = "confirmed" THEN shown ELSE {}]
        \/ x = [NoRun EXCEPT !.answer = "busy"] /\ UNCHANGED running
  BY DEF StartRun
<1>2. UNCHANGED <<directory, stored, readBy, saving, chosen, members, limit, shown, arrival, excused>>
  BY DEF StartRun
<1>3. x \in Run
  <2>1. [NoRun EXCEPT !.answer = "busy"] \in Run
    BY NoRunIsRun DEF Run, Answers
  <2>2. ASSUME NEW agreed \in SUBSET Rows PROVE [NoRun EXCEPT !.at = "list", !.kind = kind, !.agreed = agreed] \in Run
    BY NoRunIsRun DEF Run
  <2> QED
    <3>1. (IF kind = "confirmed" THEN shown ELSE {}) \in SUBSET Rows
      BY DEF RunsRight, SyncTyped
    <3> QED
      BY <1>1, <2>1, <2>2, <3>1
<1>4. SyncTyped'
  BY <1>1, <1>2, <1>3 DEF RunsRight, SyncTyped
<1>5. runs'[r] = x /\ x.candidates = {} /\ x.deleted = {} /\ x.created = {} /\ x.todo = {} /\ x.of = 0 /\ x.answer # "stopped"
      /\ (x.at = "list" => x.answer = "") /\ x.at # "create" /\ (x.at = "list" /\ x.kind # "preview" => running' = r) /\ x.at \notin {"read", "create"}
  BY <1>1 DEF RunsRight, SyncTyped, NoRun
<1>6. Cardinality(x.candidates) * 100 <= limit * x.of
  <2>1. 0 <= limit * 0
    BY DEF RunsRight, SyncTyped
  <2>2. x.candidates = {} /\ x.of = 0
    BY <1>5
  <2> QED
    BY <2>1, <2>2, FS_EmptySet
<1>7. RunRight(r)'
  BY <1>2, <1>5, <1>6 DEF RunRight
<1>8. \A q \in Runners : q # r /\ running = q => running' = q
  BY <1>1, SyncAssumption DEF TryLock
<1> QED
  BY <1>1, <1>2, <1>3, <1>4, <1>7, <1>8, StepOfOne DEF Exists

\* Whoever ends gives the lock back.
LEMMA GivenBack ==
  ASSUME NEW r, running' = (IF running = r THEN "nobody" ELSE running)
  PROVE  \A q \in Runners : q # r /\ running = q => running' = q
OBVIOUS

\* An end, whatever it says, but for a stop without a reason.
LEMMA EndRight ==
  ASSUME RunsRight, NEW r \in Runners, NEW said \in Answers, Ended(r, said), said # "stopped", runs[r].answer # "stopped",
         UNCHANGED <<directory, stored, readBy, chosen, members, limit, arrival>>, excused \subseteq excused', shown' \subseteq Rows
  PROVE  RunsRight'
<1> DEFINE x == [runs[r] EXCEPT !.at = "record", !.answer = said]
<1>1. runs' = [runs EXCEPT ![r] = x] /\ running' = IF running = r THEN "nobody" ELSE running
  BY DEF Ended
<1>2. x \in Run
  <2>1. runs[r] \in Run
    BY DEF RunsRight, SyncTyped
  <2> QED
    BY <2>1 DEF Run
<1>3. SyncTyped'
  BY <1>1, <1>2 DEF RunsRight, SyncTyped
<1>4. runs'[r] = x /\ x.at = "record" /\ x.answer = said /\ x.candidates = runs[r].candidates
      /\ x.deleted = runs[r].deleted /\ x.created = runs[r].created /\ x.todo = runs[r].todo /\ x.listing = runs[r].listing
      /\ x.kind = runs[r].kind /\ x.agreed = runs[r].agreed /\ x.of = runs[r].of
  BY <1>1 DEF RunsRight, SyncTyped, Run
<1> HIDE DEF x
<1>5. RunRight(r)'
  BY <1>4 DEF RunsRight, RunRight
<1> QED
  BY <1>1, <1>2, <1>3, <1>5, GivenBack, StepOfOne DEF Exists

\* A run that has not decided has not stopped either.
LEMMA ListUsersRight == ASSUME RunsRight, NEW r \in Runners, ListUsers(r) PROVE RunsRight'
<1>1. UNCHANGED <<directory, stored, readBy, saving, chosen, members, limit, shown, arrival, excused>> /\ runs[r].at = "list"
  BY DEF ListUsers
<1>2. CASE Ended(r, "failed")
  <2>1. runs[r].answer # "stopped"
    BY <1>1 DEF RunsRight, RunRight
  <2> QED
    BY <1>1, <1>2, <2>1, EndRight DEF Answers, RunsRight, SyncTyped
<1>3. CASE runs' = [runs EXCEPT ![r].at = "read", ![r].listing = listed] /\ UNCHANGED running
  <2> DEFINE x == [runs[r] EXCEPT !.at = "read", !.listing = listed]
  <2>1. runs' = [runs EXCEPT ![r] = x]
    BY <1>3 DEF RunsRight, SyncTyped
  <2>2. listed \subseteq Entry
    <3>1. ASSUME NEW p \in Entrants PROVE [who |-> p, id |-> stableID(p, readBy), mail |-> directory[p].mail] \in Entry
      <4>1. p \in Nat /\ readBy \in Attributes \cup {0}
        BY SyncAssumption DEF RunsRight, SyncTyped
      <4>2. stableID(p, readBy) \in Nat
        BY <4>1, IdentifierTyped
      <4>3. directory[p].mail \in Nat
        BY DEF RunsRight, SyncTyped
      <4> QED
        BY <4>2, <4>3 DEF Entry
    <3> QED
      BY <3>1 DEF listed
  <2>3. runs[r] \in Run
    BY DEF RunsRight, SyncTyped
  <2>4. x \in Run
    BY <2>2, <2>3 DEF Run
  <2>5. SyncTyped'
    BY <1>1, <2>1, <2>4 DEF RunsRight, SyncTyped
  <2>6. runs'[r] = x /\ x.at = "read" /\ x.answer = runs[r].answer /\ x.candidates = runs[r].candidates
        /\ x.deleted = runs[r].deleted /\ x.created = runs[r].created /\ x.todo = runs[r].todo
        /\ x.kind = runs[r].kind /\ x.agreed = runs[r].agreed /\ x.of = runs[r].of /\ x.failed = runs[r].failed
    BY <2>1, <2>3 DEF RunsRight, SyncTyped, Run
  <2> HIDE DEF x
  <2>7. runs[r].todo = {}
    BY <1>1 DEF RunsRight, RunRight
  <2>8. RunRight(r)'
    BY <1>1, <1>3, <2>6, <2>7 DEF RunsRight, RunRight
  <2> QED
    BY <1>1, <1>3, <2>1, <2>4, <2>5, <2>8, StepOfOne DEF Exists
<1> QED
  BY <1>2, <1>3 DEF ListUsers, FaultOr

\* The share that may be deleted, of whom there is to delete.
LEMMA Share ==
  ASSUME SyncTyped, NEW listing, ~exceedsRatio(Cardinality(candidates(listing)), Cardinality(External))
  PROVE  /\ candidates(listing) \subseteq External /\ External \subseteq Rows
         /\ Cardinality(External) \in Nat
         /\ limit > 0 => Cardinality(candidates(listing)) * 100 <= limit * Cardinality(External)
<1>1. candidates(listing) \subseteq External /\ External \subseteq Rows
  BY DEF candidates, External
<1>2. IsFiniteSet(External) /\ IsFiniteSet(candidates(listing))
  BY <1>1, SyncAssumption, FS_Subset
<1>3. Cardinality(External) \in Nat /\ Cardinality(candidates(listing)) \in Nat
      /\ Cardinality(candidates(listing)) <= Cardinality(External)
  BY <1>1, <1>2, FS_CardinalityType, FS_Subset
<1> DEFINE gone == Cardinality(candidates(listing))
           of == Cardinality(External)
<1>4. ASSUME limit > 0 PROVE gone * 100 <= limit * of
  <2>1. limit \in Nat /\ gone \in Nat /\ of \in Nat /\ gone <= of
    BY <1>3 DEF SyncTyped
  <2>2. ~(limit > 0 /\ of > 0 /\ gone > 0 /\ gone * 100 > limit * of)
    BY DEF exceedsRatio
  <2> HIDE DEF gone, of
  <2>3. \A m, n \in Nat : m * n \in Nat
    OBVIOUS
  <2>4. CASE gone = 0
    BY <2>1, <2>3, <2>4
  <2>5. CASE gone > 0
    <3>1. of > 0
      BY <2>1, <2>5
    <3>2. limit * of \in Nat
      BY <2>1, <2>3
    <3> QED
      BY <1>4, <2>1, <2>2, <2>5, <3>1, <3>2
  <2> QED
    BY <2>1, <2>4, <2>5
<1> QED
  BY <1>1, <1>3, <1>4

LEMMA ReadAccountsRight == ASSUME RunsRight, NEW r \in Runners, ReadAccounts(r) PROVE RunsRight'
<1> DEFINE listing == runs[r].listing
           gone == candidates(listing)
           x == [runs[r] EXCEPT !.at = "create", !.candidates = gone, !.of = Cardinality(External),
                                !.todo = missing(listing)]
<1>1. UNCHANGED <<directory, stored, readBy, saving, chosen, members, limit, arrival>> /\ runs[r].at = "read"
  BY DEF ReadAccounts
<1>2. runs[r] \in Run /\ runs[r].answer = "" /\ runs[r].deleted = {} /\ runs[r].created = {}
  BY <1>1 DEF RunsRight, SyncTyped, RunRight
<1>3. candidates(listing) \subseteq Rows
  BY DEF candidates, External
<1>4. CASE \E said \in {"failed", "refused", "preview"} : Ended(r, said) /\ UNCHANGED excused /\ shown' \in {shown, gone}
  <2>1. shown' \subseteq Rows
    BY <1>3, <1>4 DEF RunsRight, SyncTyped
  <2> QED
    BY <1>1, <1>2, <1>4, <2>1, EndRight DEF Answers
<1>5. CASE /\ ~exceedsRatio(Cardinality(gone), Cardinality(External)) /\ approve(r, gone)
           /\ runs[r].kind # "preview" /\ \E unlike : Excepting(unlike)
           /\ runs' = [runs EXCEPT ![r].at = "create", ![r].candidates = gone,
                                   ![r].of = Cardinality(External), ![r].todo = missing(listing)]
           /\ UNCHANGED <<running, shown>>
  <2>1. runs' = [runs EXCEPT ![r] = x]
    BY <1>5 DEF RunsRight, SyncTyped
  <2>2. /\ gone \subseteq External /\ External \subseteq Rows /\ Cardinality(External) \in Nat
        /\ limit > 0 => Cardinality(gone) * 100 <= limit * Cardinality(External)
    BY <1>5, Share DEF RunsRight
  <2>3. missing(listing) \subseteq listing
    BY DEF missing
  <2>4. x \in Run
    <3>1. listing \subseteq Entry
      BY <1>2 DEF Run
    <3>2. missing(listing) \in SUBSET Entry /\ gone \in SUBSET Rows
      BY <2>2, <2>3, <3>1
    <3>3. Cardinality(External) \in Nat
      BY <2>2
    <3> HIDE DEF gone
    <3> QED
      BY <1>2, <3>2, <3>3, Zenon DEF Run
  <2>5. excused \subseteq excused'
    BY <1>5 DEF Excepting
  <2>6. SyncTyped'
    BY <1>1, <1>5, <2>1, <2>4 DEF RunsRight, SyncTyped
  <2>7. runs'[r] = x /\ x.at = "create" /\ x.answer = "" /\ x.candidates = gone /\ x.of = Cardinality(External)
        /\ x.deleted = {} /\ x.created = {} /\ x.todo = missing(listing) /\ x.listing = listing
        /\ x.kind = runs[r].kind /\ x.agreed = runs[r].agreed
    BY <1>2, <2>1 DEF RunsRight, SyncTyped, Run
  <2>8. \A a \in gone : Exists(a)'
    BY <1>1, <2>2 DEF Exists, External
  <2>9. runs[r].kind = "confirmed" => gone = runs[r].agreed
    BY <1>5 DEF approve
  <2>10. runs[r].kind # "preview" => running = r
    BY <1>1 DEF RunsRight, RunRight
  <2> HIDE DEF x, gone, listing
  <2>11. limit' > 0 => Cardinality(runs'[r].candidates) * 100 <= limit' * runs'[r].of
    BY <1>1, <2>2, <2>7
  <2>12. RunRight(r)'
    BY <1>1, <1>5, <2>3, <2>7, <2>8, <2>9, <2>10, <2>11 DEF RunRight
  <2> QED
    BY <1>1, <1>5, <2>1, <2>4, <2>5, <2>6, <2>12, StepOfOne DEF Exists
<1>6. ReadAccounts(r) =>
        \/ \E said \in {"failed", "refused", "preview"} : Ended(r, said) /\ UNCHANGED excused /\ shown' \in {shown, gone}
        \/ /\ ~exceedsRatio(Cardinality(gone), Cardinality(External)) /\ approve(r, gone)
           /\ runs[r].kind # "preview" /\ \E unlike : Excepting(unlike)
           /\ runs' = [runs EXCEPT ![r].at = "create", ![r].candidates = gone,
                                   ![r].of = Cardinality(External), ![r].todo = missing(listing)]
           /\ UNCHANGED <<running, shown>>
  BY DEF ReadAccounts, FaultOr
<1> QED
  BY <1>4, <1>5, <1>6

\* A run that stops half way says why: a statement failed, or an address was taken.
LEMMA StopRight ==
  ASSUME RunsRight, NEW r \in Runners, NEW failed \in BOOLEAN, runs[r].at = "create", stoppedPartWay(r, failed),
         failed \/ "taken" \in excused', excused \subseteq excused',
         UNCHANGED <<directory, stored, readBy, chosen, limit, shown, arrival>>
  PROVE  RunsRight'
<1> DEFINE x == [runs[r] EXCEPT !.at = "record", !.answer = "stopped", !.failed = failed]
<1>1. runs' = [runs EXCEPT ![r] = x] /\ running' = (IF running = r THEN "nobody" ELSE running) /\ members' = members
  BY DEF stoppedPartWay
<1>2. runs[r] \in Run
  BY DEF RunsRight, SyncTyped
<1>3. x \in Run
  BY <1>2 DEF Run, Answers
<1>4. SyncTyped'
  BY <1>1, <1>3 DEF RunsRight, SyncTyped
<1>5. runs'[r] = x /\ x.at = "record" /\ x.failed = failed /\ x.candidates = runs[r].candidates
      /\ x.deleted = runs[r].deleted /\ x.created = runs[r].created /\ x.todo = runs[r].todo /\ x.listing = runs[r].listing
      /\ x.kind = runs[r].kind /\ x.agreed = runs[r].agreed /\ x.of = runs[r].of
  BY <1>1, <1>2 DEF RunsRight, SyncTyped, Run
<1> HIDE DEF x
<1>6. RunRight(r) /\ limit' = limit /\ (x.failed \/ "taken" \in excused')
  BY <1>5 DEF RunsRight
<1>7. RunRight(r)'
  BY <1>1, <1>5, <1>6 DEF RunRight
<1> QED
  BY <1>1, <1>3, <1>4, <1>7, GivenBack, StepOfOne DEF Exists

\* What a run makes of an entry of its list.
LEMMA CreatedRow ==
  ASSUME RunsRight, NEW e \in Entry, RoomLeft, members' = [members EXCEPT ![FreeRow] = Arrived(e)]
  PROVE  /\ members' \in [Rows -> MemberRow] /\ FreeRow \in Rows
         /\ members[FreeRow].state = "none" /\ members'[FreeRow] = Arrived(e) /\ members'[FreeRow].state = "there"
         /\ \A a \in Rows : a # FreeRow => members'[a] = members[a]
         /\ \A a \in Rows : Exists(a) => Exists(a)' /\ a # FreeRow
         /\ \A a \in Rows : members[a].state # "none" => members'[a].state # "none"
<1>1. SyncTyped
  BY DEF RunsRight
<1>2. FreeRow \in Rows /\ members[FreeRow].state = "none"
  BY <1>1, FreeRowIsFree
<1>3. Arrived(e) \in MemberRow /\ Arrived(e).state = "there"
  <2>1. e.id \in Nat /\ e.mail \in Nat /\ e.who \in Nat
    <3>1. Entrants \subseteq Nat
      BY SyncAssumption
    <3> QED
      BY <3>1 DEF Entry
  <2> QED
    BY <2>1 DEF Arrived, MemberRow
<1>4. members' \in [Rows -> MemberRow]
  BY <1>1, <1>2, <1>3 DEF SyncTyped
<1>5. members'[FreeRow] = Arrived(e) /\ \A a \in Rows : a # FreeRow => members'[a] = members[a]
  BY <1>1, <1>2 DEF SyncTyped
<1>6. "none" # "there"
  OBVIOUS
<1>7. \A a \in Rows : Exists(a) => a # FreeRow /\ members'[a] = members[a]
  BY <1>2, <1>5, <1>6 DEF Exists
<1>8. members'[FreeRow].state = "there" /\ \A a \in Rows : Exists(a) => Exists(a)'
  BY <1>3, <1>5, <1>7 DEF Exists
<1>9. \A a \in Rows : members[a].state # "none" => members'[a].state # "none"
  BY <1>2, <1>5
<1> QED
  BY <1>2, <1>4, <1>5, <1>7, <1>8, <1>9

\* What a run that creates or removes an account does.
LEMMA CreateWhole ==
  ASSUME RunsRight, NEW r \in Runners, createMissing(r)
  PROVE  \/ \E failed \in BOOLEAN : /\ stoppedPartWay(r, failed) /\ excused \subseteq excused'
                                    /\ failed \/ "taken" \in excused'
         \/ \E e \in runs[r].todo :
              /\ RoomLeft /\ ~Used(e.mail) /\ members' = [members EXCEPT ![FreeRow] = Arrived(e)]
              /\ runs' = [runs EXCEPT ![r] = [runs[r] EXCEPT !.todo = runs[r].todo \ {e},
                                                             !.created = runs[r].created \cup {FreeRow}]]
              /\ changes' = changes + 1 /\ Excepting(Unlike(Arrived(e))) /\ UNCHANGED running
<1> DEFINE e == CHOOSE x \in runs[r].todo : \A y \in runs[r].todo : x.who <= y.who
<1>1. e \in runs[r].todo
  <2>1. runs[r].todo \in SUBSET Entry
    BY DEF RunsRight, SyncTyped, Run
  <2> QED
    BY <2>1, NextToCreate DEF createMissing
<1>2. \/ stoppedPartWay(r, TRUE) /\ UNCHANGED excused
      \/ stoppedPartWay(r, FALSE) /\ excused' = excused \cup {"taken"}
      \/ /\ RoomLeft /\ ~Used(e.mail) /\ members' = [members EXCEPT ![FreeRow] = Arrived(e)]
         /\ runs' = [runs EXCEPT ![r].todo = @ \ {e}, ![r].created = @ \cup {FreeRow}]
         /\ changes' = changes + 1 /\ Excepting(Unlike(Arrived(e))) /\ UNCHANGED running
  BY DEF createMissing, FaultOr
<1> HIDE DEF e
<1>3. CASE runs' = [runs EXCEPT ![r].todo = @ \ {e}, ![r].created = @ \cup {FreeRow}]
  <2> DEFINE x == [runs[r] EXCEPT !.todo = runs[r].todo \ {e}, !.created = runs[r].created \cup {FreeRow}]
  <2>0. runs \in [Runners -> Run] /\ runs[r] \in Run
    BY DEF RunsRight, SyncTyped
  <2>1. runs' = [runs EXCEPT ![r] = x]
    BY <1>3, <2>0 DEF Run
  <2> QED
    BY <1>1, <1>2, <2>1
<1> QED
  BY <1>2, <1>3

LEMMA createMissingRight == ASSUME RunsRight, NEW r \in Runners, createMissing(r) PROVE RunsRight'
<1>1. UNCHANGED <<directory, stored, readBy, chosen, limit, shown, arrival>> /\ runs[r].at = "create"
  BY DEF createMissing
<1>2. CASE \E failed \in BOOLEAN : /\ stoppedPartWay(r, failed) /\ excused \subseteq excused'
                                   /\ failed \/ "taken" \in excused'
  BY <1>1, <1>2, StopRight
<1>3. ASSUME NEW e \in runs[r].todo,
             RoomLeft, members' = [members EXCEPT ![FreeRow] = Arrived(e)],
             runs' = [runs EXCEPT ![r] = [runs[r] EXCEPT !.todo = runs[r].todo \ {e}, !.created = runs[r].created \cup {FreeRow}]],
             Excepting(Unlike(Arrived(e))), UNCHANGED running
      PROVE  RunsRight'
  <2> DEFINE x == [runs[r] EXCEPT !.todo = runs[r].todo \ {e}, !.created = runs[r].created \cup {FreeRow}]
  <2>1. runs[r] \in Run /\ e \in Entry
    BY DEF RunsRight, SyncTyped, Run
  <2>2. /\ members' \in [Rows -> MemberRow] /\ FreeRow \in Rows /\ members'[FreeRow].state = "there"
        /\ \A a \in Rows : Exists(a) => Exists(a)'
        /\ \A a \in Rows : members[a].state # "none" => members'[a].state # "none"
    BY <1>3, <2>1, CreatedRow
  <2>3. x \in Run
    BY <2>1, <2>2 DEF Run
  <2>4. runs' = [runs EXCEPT ![r] = x]
    BY <1>3
  <2>5. SyncTyped'
    BY <1>1, <2>2, <2>3, <2>4 DEF RunsRight, SyncTyped
  <2>6. runs'[r] = x /\ x.at = runs[r].at /\ x.candidates = runs[r].candidates /\ x.answer = runs[r].answer
        /\ x.deleted = runs[r].deleted /\ x.created = runs[r].created \cup {FreeRow} /\ x.todo = runs[r].todo \ {e}
        /\ x.listing = runs[r].listing /\ x.kind = runs[r].kind /\ x.agreed = runs[r].agreed /\ x.of = runs[r].of
        /\ x.failed = runs[r].failed
    BY <2>1, <2>4 DEF RunsRight, SyncTyped, Run
  <2>7. excused \subseteq excused'
    BY <1>3 DEF Excepting
  <2>8. RunRight(r)
    BY DEF RunsRight
  <2>9. runs[r].candidates \subseteq Rows /\ runs[r].created \subseteq Rows
    BY <2>1 DEF Run
  <2> HIDE DEF x
  <2>11. \A a \in runs'[r].created : members'[a].state # "none"
    BY <2>2, <2>6, <2>8, <2>9 DEF RunRight, Exists
  <2>12. runs'[r].at = "create" => runs'[r].kind # "preview" /\ runs'[r].answer = "" /\ (\A a \in runs'[r].candidates \ runs'[r].deleted : Exists(a)')
    BY <2>2, <2>6, <2>8, <2>9 DEF RunRight
  <2>13. runs'[r].answer = "stopped" => runs'[r].failed \/ "taken" \in excused'
    BY <2>6, <2>7, <2>8 DEF RunRight
  <2>14. limit' > 0 => Cardinality(runs'[r].candidates) * 100 <= limit' * runs'[r].of
    BY <1>1, <2>6, <2>8 DEF RunRight
  <2>10. RunRight(r)'
    BY <1>1, <1>3, <2>6, <2>8, <2>11, <2>12, <2>13, <2>14 DEF RunRight
  <2> QED
    BY <1>1, <1>3, <2>2, <2>3, <2>4, <2>5, <2>7, <2>10, StepOfOne
<1> QED
  BY <1>2, <1>3, CreateWhole

\* What a run that deletes does; whom it has decided on is there.
LEMMA PurgeWhole ==
  ASSUME RunsRight, NEW r \in Runners, PurgeUser(r)
  PROVE  \/ stoppedPartWay(r, TRUE)
         \/ \E a \in runs[r].candidates \ runs[r].deleted :
              /\ Exists(a) /\ members' = [members EXCEPT ![a] = [members[a] EXCEPT !.state = "gone"]]
              /\ runs' = [runs EXCEPT ![r] = [runs[r] EXCEPT !.deleted = runs[r].deleted \cup {a}]]
              /\ changes' = changes + 1 /\ UNCHANGED running
<1> DEFINE left == runs[r].candidates \ runs[r].deleted
           a == CHOOSE x \in left : \A y \in left : members[x].mail <= members[y].mail
<1>1. runs[r] \in Run /\ runs \in [Runners -> Run] /\ members \in [Rows -> MemberRow] /\ SyncTyped
  BY DEF RunsRight, SyncTyped
<1>2. a \in left
  <2>1. left \in SUBSET Rows /\ left # {}
    BY <1>1 DEF Run, PurgeUser
  <2> HIDE DEF left
  <2> QED
    BY <1>1, <2>1, NextToDelete
<1>3. Exists(a)
  BY <1>2 DEF RunsRight, RunRight, PurgeUser
<1>4. \/ stoppedPartWay(r, TRUE)
      \/ /\ members' = [members EXCEPT ![a].state = "gone"]
         /\ runs' = [runs EXCEPT ![r].deleted = @ \cup {a}]
         /\ changes' = changes + 1 /\ UNCHANGED running
  BY <1>3 DEF PurgeUser, FaultOr
<1> HIDE DEF a
<1>5. [members EXCEPT ![a].state = "gone"] = [members EXCEPT ![a] = [members[a] EXCEPT !.state = "gone"]]
  BY <1>1
<1>6. [runs EXCEPT ![r].deleted = @ \cup {a}] = [runs EXCEPT ![r] = [runs[r] EXCEPT !.deleted = runs[r].deleted \cup {a}]]
  BY <1>1
<1> QED
  BY <1>2, <1>3, <1>4, <1>5, <1>6

LEMMA PurgedRow ==
  ASSUME RunsRight, NEW a \in Rows, Exists(a), members' = [members EXCEPT ![a] = [members[a] EXCEPT !.state = "gone"]]
  PROVE  /\ members' \in [Rows -> MemberRow] /\ members'[a].state = "gone"
         /\ \A b \in Rows : b # a => members'[b] = members[b]
         /\ \A b \in Rows : /\ members'[b].id = members[b].id /\ members'[b].mail = members[b].mail
                            /\ members'[b].owner = members[b].owner /\ members'[b].external = members[b].external
         /\ \A b \in Rows : members[b].state # "none" => members'[b].state # "none"
         /\ \A b \in Rows : Exists(b)' => Exists(b)
<1>1. members \in [Rows -> MemberRow] /\ members[a] \in MemberRow
  BY DEF RunsRight, SyncTyped
<1>2. [members[a] EXCEPT !.state = "gone"] \in MemberRow
  BY <1>1 DEF MemberRow
<1>3. members'[a] = [members[a] EXCEPT !.state = "gone"] /\ \A b \in Rows : b # a => members'[b] = members[b]
  BY <1>1
<1>4. members'[a].state = "gone" /\ members'[a].id = members[a].id /\ members'[a].mail = members[a].mail
      /\ members'[a].owner = members[a].owner /\ members'[a].external = members[a].external
  BY <1>1, <1>3 DEF MemberRow
<1> QED
  BY <1>1, <1>2, <1>3, <1>4 DEF Exists

LEMMA PurgeUserRight == ASSUME RunsRight, NEW r \in Runners, PurgeUser(r) PROVE RunsRight'
<1>1. UNCHANGED <<directory, stored, readBy, chosen, limit, shown, arrival, excused>> /\ runs[r].at = "create"
  BY DEF PurgeUser
<1>2. CASE stoppedPartWay(r, TRUE)
  BY <1>1, <1>2, StopRight
<1>3. ASSUME NEW a \in runs[r].candidates \ runs[r].deleted, Exists(a),
             members' = [members EXCEPT ![a] = [members[a] EXCEPT !.state = "gone"]],
             runs' = [runs EXCEPT ![r] = [runs[r] EXCEPT !.deleted = runs[r].deleted \cup {a}]], UNCHANGED running
      PROVE  RunsRight'
  <2> DEFINE x == [runs[r] EXCEPT !.deleted = runs[r].deleted \cup {a}]
  <2>1. runs[r] \in Run /\ RunRight(r)
    BY DEF RunsRight, SyncTyped
  <2>2. runs[r].candidates \subseteq Rows /\ runs[r].created \subseteq Rows /\ runs[r].deleted \subseteq Rows
    BY <2>1 DEF Run
  <2>3. /\ members' \in [Rows -> MemberRow] /\ \A b \in Rows : b # a => members'[b] = members[b]
        /\ \A b \in Rows : members[b].state # "none" => members'[b].state # "none"
    BY <1>3, <2>2, PurgedRow
  <2>4. x \in Run
    BY <1>3, <2>1, <2>2 DEF Run
  <2>5. runs' = [runs EXCEPT ![r] = x]
    BY <1>3
  <2>6. SyncTyped'
    BY <1>1, <2>3, <2>4, <2>5 DEF RunsRight, SyncTyped
  <2>7. runs'[r] = x /\ x.at = runs[r].at /\ x.candidates = runs[r].candidates /\ x.answer = runs[r].answer
        /\ x.deleted = runs[r].deleted \cup {a} /\ x.created = runs[r].created /\ x.todo = runs[r].todo
        /\ x.listing = runs[r].listing /\ x.kind = runs[r].kind /\ x.agreed = runs[r].agreed /\ x.of = runs[r].of
        /\ x.failed = runs[r].failed
    BY <2>1, <2>5 DEF RunsRight, SyncTyped, Run
  <2> HIDE DEF x
  <2>8. running = r
    BY <1>1, <2>1 DEF RunRight
  <2>9. \A b \in runs'[r].candidates \ runs'[r].deleted : members'[b].state = "there"
    <3>1. \A b \in runs[r].candidates \ runs[r].deleted : b \in Rows /\ members[b].state = "there"
      BY <1>1, <2>1, <2>2 DEF RunRight, Exists
    <3>2. \A b \in runs'[r].candidates \ runs'[r].deleted : b # a /\ b \in runs[r].candidates \ runs[r].deleted
      BY <2>7
    <3> QED
      BY <2>3, <3>1, <3>2
  <2>10. limit' > 0 => Cardinality(runs'[r].candidates) * 100 <= limit' * runs'[r].of
    BY <1>1, <2>1, <2>7 DEF RunRight
  <2>11. \A b \in runs'[r].created : members'[b].state # "none"
    BY <2>1, <2>2, <2>3, <2>7 DEF RunRight
  <2>12. RunRight(r)'
    BY <1>1, <1>3, <2>1, <2>7, <2>8, <2>9, <2>10, <2>11 DEF RunRight, Exists
  <2> QED
    BY <1>1, <1>3, <2>3, <2>4, <2>5, <2>6, <2>8, <2>12, StepOfOne
<1> QED
  BY <1>2, <1>3, PurgeWhole

LEMMA CompleteRight == ASSUME RunsRight, NEW r \in Runners, Complete(r) PROVE RunsRight'
<1>1. Ended(r, "done") /\ UNCHANGED <<directory, stored, readBy, chosen, members, limit, arrival, shown, excused>>
  BY DEF Complete
<1>2. shown' \subseteq Rows /\ runs[r].answer # "stopped"
  BY <1>1 DEF RunsRight, SyncTyped, RunRight, Complete
<1> QED
  BY <1>1, <1>2, EndRight DEF Answers

LEMMA recordRight == ASSUME RunsRight, NEW r \in Runners, record(r) PROVE RunsRight'
<1>1. UNCHANGED <<directory, stored, readBy, chosen, members, limit, running, shown, arrival>> /\ excused \subseteq excused'
  BY DEF record, FaultOr
<1>2. runs[r] \in Run /\ RunRight(r)
  BY DEF RunsRight, SyncTyped
<1>3. PICK said \in {runs[r].answer, "unrecorded"} : runs' = [runs EXCEPT ![r] = [runs[r] EXCEPT !.at = "idle", !.answer = said]]
  <2>1. \/ runs' = [runs EXCEPT ![r].at = "idle"]
        \/ runs' = [runs EXCEPT ![r].at = "idle", ![r].answer = "unrecorded"]
    BY DEF record, FaultOr
  <2>2. runs \in [Runners -> Run]
    BY DEF RunsRight, SyncTyped
  <2>3. [runs EXCEPT ![r].at = "idle", ![r].answer = "unrecorded"] = [runs EXCEPT ![r] = [runs[r] EXCEPT !.at = "idle", !.answer = "unrecorded"]]
    BY <2>2
  <2>4. [runs EXCEPT ![r].at = "idle"] = [runs EXCEPT ![r] = [runs[r] EXCEPT !.at = "idle", !.answer = runs[r].answer]]
    BY <1>2, <2>2 DEF Run
  <2> QED
    BY <2>1, <2>3, <2>4
<1> DEFINE x == [runs[r] EXCEPT !.at = "idle", !.answer = said]
<1>4. x \in Run
  BY <1>2 DEF Run, Answers
<1>5. runs' = [runs EXCEPT ![r] = x]
  BY <1>3
<1>6. SyncTyped'
  BY <1>1, <1>4, <1>5 DEF RunsRight, SyncTyped
<1>7. runs'[r] = x /\ x.at = "idle" /\ x.answer = said /\ x.candidates = runs[r].candidates
      /\ x.deleted = runs[r].deleted /\ x.created = runs[r].created /\ x.todo = runs[r].todo /\ x.listing = runs[r].listing
      /\ x.kind = runs[r].kind /\ x.agreed = runs[r].agreed /\ x.of = runs[r].of /\ x.failed = runs[r].failed
  BY <1>2, <1>5 DEF RunsRight, SyncTyped, Run
<1> HIDE DEF x
<1>8. x.answer = "stopped" => runs[r].answer = "stopped"
  BY <1>7
<1>9. RunRight(r)'
  BY <1>1, <1>2, <1>7, <1>8 DEF RunRight
<1> QED
  BY <1>1, <1>4, <1>5, <1>6, <1>9, StepOfOne DEF Exists

\* A sign-in that is let in makes an account, or finds the one that is there its own.
Reconciled ==
  [members[arrival.row] EXCEPT !.external = TRUE, !.mail = arrival.mail, !.owner = arrival.who,
                               !.id = IF arrival.id = 0 THEN @ ELSE arrival.id]
LEMMA ArrivalWhole ==
  ASSUME SyncTyped
  PROVE  arrival.at # "idle" => [who |-> arrival.who, id |-> arrival.id, mail |-> arrival.mail] \in Entry
                                /\ Arrived(arrival) = Arrived([who |-> arrival.who, id |-> arrival.id, mail |-> arrival.mail])
<1>1. arrival.id \in Nat /\ arrival.mail \in Nat
  BY DEF SyncTyped, Arrival
<1> QED
  BY <1>1 DEF SyncTyped, Entry, Arrived

LEMMA SignInRight == ASSUME RunsRight, NEW p \in Entrants, SignIn(p) PROVE RunsRight'
<1>1. stableID(p, readBy) \in Nat /\ directory[p].mail \in Nat
  <2>1. readBy \in Attributes \cup {0}
    BY DEF RunsRight, SyncTyped
  <2> QED
    BY <2>1, IdentifierTyped DEF RunsRight, SyncTyped
<1>2. ASSUME NEW i \in Nat, NEW m \in Nat
      PROVE  LET x == [NoArrival EXCEPT !.at = "id", !.who = p, !.id = i, !.mail = m]
             IN x \in Arrival /\ x.at = "id" /\ x.who = p
  BY RefusedTyped DEF Arrival
<1>3. arrival' = [NoArrival EXCEPT !.at = "id", !.who = p, !.id = stableID(p, readBy), !.mail = directory[p].mail]
      /\ UNCHANGED <<directory, stored, readBy, chosen, members, limit, running, runs, shown, excused>>
  BY DEF SignIn
<1>4. arrival' \in Arrival /\ arrival'.at = "id" /\ arrival'.who \in Entrants
  BY <1>1, <1>2, <1>3
<1>5. SyncTyped'
  BY <1>3, <1>4 DEF RunsRight, SyncTyped
<1> QED
  BY <1>3, <1>5, RunsAlone DEF Exists

\* Where a sign-in goes next.
LEMMA ArrivalMoves ==
  ASSUME SyncTyped, arrival.at # "idle", NEW at \in {"mail", "save"}
  PROVE  LET x == [arrival EXCEPT !.at = at]
         IN x \in Arrival /\ x.at = at /\ x.who = arrival.who /\ x.id = arrival.id /\ x.mail = arrival.mail /\ x.row = arrival.row
BY DEF SyncTyped, Arrival
LEMMA ArrivalFinds ==
  ASSUME SyncTyped, arrival.at # "idle", NEW a \in Rows
  PROVE  LET x == [arrival EXCEPT !.at = "reconcile", !.row = a]
         IN x \in Arrival /\ x.at = "reconcile" /\ x.who = arrival.who /\ x.id = arrival.id /\ x.mail = arrival.mail /\ x.row = a
BY DEF SyncTyped, Arrival
LEMMA ByIDWhole ==
  ASSUME ByID
  PROVE  \/ arrival' = NoArrival
         \/ \E a \in Rows : /\ Exists(a) /\ members[a].id = arrival.id /\ arrival.id # 0
                            /\ arrival' = [arrival EXCEPT !.at = "reconcile", !.row = a]
         \/ /\ ~\E a \in Rows : Exists(a) /\ arrival.id # 0 /\ members[a].id = arrival.id
            /\ arrival' = [arrival EXCEPT !.at = "mail"]
BY DEF ByID, FaultOr, Refuse
LEMMA ByMailWhole ==
  ASSUME ByMail
  PROVE  \/ arrival' = NoArrival
         \/ \E a \in Rows : /\ Exists(a) /\ members[a].mail = arrival.mail /\ ~AnotherEntry(members[a])
                            /\ arrival' = [arrival EXCEPT !.at = "reconcile", !.row = a]
         \/ arrival' = [arrival EXCEPT !.at = "save"]
<1>1. CASE Used(arrival.mail)
  <2> DEFINE a == CHOOSE b \in Rows : Exists(b) /\ members[b].mail = arrival.mail
  <2>1. a \in Rows /\ Exists(a) /\ members[a].mail = arrival.mail
    BY <1>1 DEF Used
  <2>2. arrival' = NoArrival \/ (~AnotherEntry(members[a]) /\ arrival' = [arrival EXCEPT !.at = "reconcile", !.row = a])
    BY <1>1 DEF ByMail, FaultOr, Refuse
  <2> HIDE DEF a
  <2> QED
    BY <2>1, <2>2
<1> QED
  BY <1>1 DEF ByMail, FaultOr, Refuse
LEMMA LookupRight == ASSUME RunsRight, ByID \/ ByMail PROVE RunsRight'
<1>1. UNCHANGED <<directory, stored, readBy, chosen, members, limit, running, runs, shown, excused>> /\ arrival.at # "idle"
  BY DEF ByID, ByMail
<1>2. SyncTyped
  BY DEF RunsRight
<1>3. \/ arrival' = NoArrival
      \/ \E a \in Rows : arrival' = [arrival EXCEPT !.at = "reconcile", !.row = a]
      \/ \E at \in {"mail", "save"} : arrival' = [arrival EXCEPT !.at = at]
  BY ByIDWhole, ByMailWhole
<1>4. /\ arrival' \in Arrival
      /\ arrival'.at # "idle" => arrival'.who \in Entrants
      /\ arrival'.at = "reconcile" => arrival'.row \in Rows
  <2>1. CASE arrival' = NoArrival
    BY <2>1, RefusedTyped
  <2>2. CASE \E a \in Rows : arrival' = [arrival EXCEPT !.at = "reconcile", !.row = a]
    <3>1. PICK a \in Rows : arrival' = [arrival EXCEPT !.at = "reconcile", !.row = a]
      BY <2>2
    <3>2. arrival' \in Arrival /\ arrival'.who = arrival.who /\ arrival'.row = a
      BY <1>1, <1>2, <3>1, ArrivalFinds
    <3> QED
      BY <1>1, <1>2, <3>2 DEF SyncTyped
  <2>3. CASE \E at \in {"mail", "save"} : arrival' = [arrival EXCEPT !.at = at]
    <3>1. PICK at \in {"mail", "save"} : arrival' = [arrival EXCEPT !.at = at]
      BY <2>3
    <3>2. arrival' \in Arrival /\ arrival'.at = at /\ arrival'.who = arrival.who
      BY <1>1, <1>2, <3>1, ArrivalMoves
    <3> QED
      BY <1>1, <1>2, <3>2 DEF SyncTyped
  <2> QED
    BY <1>3, <2>1, <2>2, <2>3
<1>5. SyncTyped'
  BY <1>1, <1>2, <1>4 DEF SyncTyped
<1> QED
  BY <1>1, <1>5, RunsAlone DEF Exists

LEMMA SaveArrivalRight == ASSUME RunsRight, SaveArrival PROVE RunsRight'
<1> DEFINE e == [who |-> arrival.who, id |-> arrival.id, mail |-> arrival.mail]
<1>1. UNCHANGED <<directory, stored, readBy, chosen, limit, running, runs, shown>> /\ arrival.at = "save"
      /\ arrival' = NoArrival /\ RoomLeft
  BY DEF SaveArrival, Refuse
<1>2. e \in Entry /\ Arrived(arrival) = Arrived(e)
  BY <1>1, ArrivalWhole DEF RunsRight
<1>3. \/ UNCHANGED <<members, excused>>
      \/ members' = [members EXCEPT ![FreeRow] = Arrived(e)] /\ excused \subseteq excused'
  BY <1>2 DEF SaveArrival, Excepting
<1> HIDE DEF e
<1>4. /\ members' \in [Rows -> MemberRow] /\ excused \subseteq excused'
      /\ \A a \in Rows : Exists(a) => Exists(a)'
      /\ \A a \in Rows : members[a].state # "none" => members'[a].state # "none"
  <2>1. CASE UNCHANGED <<members, excused>>
    BY <2>1 DEF RunsRight, SyncTyped, Exists
  <2>2. CASE members' = [members EXCEPT ![FreeRow] = Arrived(e)] /\ excused \subseteq excused'
    BY <1>1, <1>2, <2>2, CreatedRow
  <2> QED
    BY <1>3, <2>1, <2>2
<1>5. SyncTyped'
  BY <1>1, <1>4, RefusedTyped DEF RunsRight, SyncTyped
<1> QED
  BY <1>1, <1>4, <1>5, RunsAlone

\* What a sign-in makes of the account it found.
LEMMA ReconciledRow ==
  ASSUME SyncTyped, arrival.at = "reconcile"
  PROVE  /\ Reconciled \in MemberRow
         /\ Reconciled.state = members[arrival.row].state /\ Reconciled.mail = arrival.mail /\ Reconciled.owner = arrival.who
         /\ Reconciled.id = (IF arrival.id = 0 THEN members[arrival.row].id ELSE arrival.id)
         /\ Reconciled.admin = members[arrival.row].admin
<1>1. members[arrival.row] \in MemberRow /\ arrival.row \in Rows
  BY DEF SyncTyped
<1>2. arrival.mail \in Nat /\ arrival.id \in Nat /\ arrival.who \in Nat
  <2>1. Entrants \subseteq Nat
    BY SyncAssumption
  <2> QED
    BY <2>1 DEF SyncTyped, Arrival
<1>3. (IF arrival.id = 0 THEN members[arrival.row].id ELSE arrival.id) \in Nat
  BY <1>1, <1>2 DEF MemberRow
<1>4. ASSUME NEW i \in Nat
      PROVE  LET x == [members[arrival.row] EXCEPT !.external = TRUE, !.mail = arrival.mail, !.owner = arrival.who, !.id = i]
             IN  /\ x \in MemberRow /\ x.state = members[arrival.row].state /\ x.mail = arrival.mail
                 /\ x.owner = arrival.who /\ x.id = i /\ x.admin = members[arrival.row].admin
  BY <1>1, <1>2 DEF MemberRow
<1>5. Reconciled = [members[arrival.row] EXCEPT !.external = TRUE, !.mail = arrival.mail, !.owner = arrival.who,
                                                 !.id = IF arrival.id = 0 THEN members[arrival.row].id ELSE arrival.id]
  BY <1>1 DEF Reconciled, MemberRow
<1> QED
  BY <1>3, <1>4, <1>5

LEMMA ReconcileWhole ==
  ASSUME SyncTyped, reconcileExternal
  PROVE  /\ arrival.at = "reconcile" /\ arrival' = NoArrival
         /\ UNCHANGED <<directory, stored, readBy, saving, chosen, limit, running, shown, recorded, spent, changes>>
         /\ \/ UNCHANGED <<members, runs, excused>>
            \/ /\ ~refusedAdoption(arrival.row) /\ Exists(arrival.row)
               /\ ~\E b \in Rows \ {arrival.row} : Exists(b) /\ members[b].mail = arrival.mail
               /\ members' = [members EXCEPT ![arrival.row] = Reconciled] /\ Excepting(Unlike(Reconciled))
               /\ runs' = [r \in Runners |-> IF runs[r].at = "create" /\ arrival.row \in runs[r].candidates
                                              THEN [runs[r] EXCEPT !.since = @ \cup {arrival.row}] ELSE runs[r]]
BY DEF reconcileExternal, Refuse, Reconciled

\* A run that is told of a sign-in is otherwise the run it was.
LEMMA Told ==
  ASSUME SyncTyped, NEW a \in Rows,
         runs' = [r \in Runners |-> IF runs[r].at = "create" /\ a \in runs[r].candidates
                                     THEN [runs[r] EXCEPT !.since = @ \cup {a}] ELSE runs[r]]
  PROVE  /\ runs' \in [Runners -> Run]
         /\ \A r \in Runners : /\ SameRun(runs[r], runs'[r]) /\ runs[r].since \subseteq runs'[r].since
                               /\ runs[r].at = "create" /\ a \in runs[r].candidates => a \in runs'[r].since
<1>1. ASSUME NEW r \in Runners
      PROVE  /\ runs'[r] \in Run /\ SameRun(runs[r], runs'[r]) /\ runs[r].since \subseteq runs'[r].since
             /\ runs[r].at = "create" /\ a \in runs[r].candidates => a \in runs'[r].since
  <2>1. runs[r] \in Run
    BY DEF SyncTyped
  <2>2. runs'[r] = runs[r] \/ runs'[r] = [runs[r] EXCEPT !.since = runs[r].since \cup {a}]
    BY <2>1 DEF Run
  <2>3. runs[r].at = "create" /\ a \in runs[r].candidates => runs'[r] = [runs[r] EXCEPT !.since = runs[r].since \cup {a}]
    BY <2>1 DEF Run
  <2>4. LET x == [runs[r] EXCEPT !.since = runs[r].since \cup {a}]
        IN  x \in Run /\ SameRun(runs[r], x) /\ x.since = runs[r].since \cup {a}
    BY <2>1 DEF Run, SameRun
  <2>5. SameRun(runs[r], runs[r])
    BY DEF SameRun
  <2> QED
    BY <2>1, <2>2, <2>3, <2>4, <2>5
<1> QED
  BY <1>1

LEMMA reconcileExternalRight == ASSUME RunsRight, reconcileExternal PROVE RunsRight'
<1>1. SyncTyped
  BY DEF RunsRight
<1>2. arrival.at = "reconcile" /\ arrival' = NoArrival /\ arrival.row \in Rows
      /\ UNCHANGED <<directory, stored, readBy, saving, chosen, limit, running, shown>>
  BY <1>1, ReconcileWhole DEF SyncTyped
<1>3. CASE UNCHANGED <<members, runs, excused>>
  <2>1. SyncTyped'
    BY <1>1, <1>2, <1>3, RefusedTyped DEF SyncTyped
  <2> QED
    BY <1>2, <1>3, <2>1, RunsAlone DEF Exists
<1>4. CASE /\ members' = [members EXCEPT ![arrival.row] = Reconciled] /\ Excepting(Unlike(Reconciled))
           /\ runs' = [r \in Runners |-> IF runs[r].at = "create" /\ arrival.row \in runs[r].candidates
                                          THEN [runs[r] EXCEPT !.since = @ \cup {arrival.row}] ELSE runs[r]]
  <2>1. runs' \in [Runners -> Run] /\ \A r \in Runners : SameRun(runs[r], runs'[r])
    BY <1>1, <1>2, <1>4, Told
  <2>2. Reconciled \in MemberRow /\ Reconciled.state = members[arrival.row].state
    BY <1>1, <1>2, ReconciledRow
  <2>3. members' \in [Rows -> MemberRow] /\ \A b \in Rows : members'[b].state = members[b].state
    BY <1>1, <1>2, <1>4, <2>2 DEF SyncTyped
  <2>4. SyncTyped'
    BY <1>1, <1>2, <2>1, <2>3, RefusedTyped DEF SyncTyped
  <2>5. excused \subseteq excused'
    BY <1>4 DEF Excepting
  <2>6. ASSUME NEW q \in Runners PROVE RunRight(q)'
    BY <1>1, <1>2, <2>1, <2>3, <2>5, RunKept DEF RunsRight, Exists
  <2> QED
    BY <2>4, <2>6 DEF RunsRight
<1> QED
  BY <1>1, <1>3, <1>4, ReconcileWhole

\* No account has an identifier any more.
LEMMA ForgottenRows ==
  ASSUME SyncTyped, members' = [a \in Rows |-> [members[a] EXCEPT !.id = 0]]
  PROVE  /\ members' \in [Rows -> MemberRow]
         /\ \A a \in Rows : /\ members'[a].id = 0 /\ members'[a].state = members[a].state /\ members'[a].mail = members[a].mail
                            /\ members'[a].owner = members[a].owner /\ members'[a].external = members[a].external
<1>1. 0 \in Nat
  OBVIOUS
<1>2. ASSUME NEW a \in Rows, NEW i \in Nat
      PROVE  LET x == [members[a] EXCEPT !.id = i]
             IN  /\ x \in MemberRow /\ x.id = i /\ x.state = members[a].state /\ x.mail = members[a].mail
                 /\ x.owner = members[a].owner /\ x.external = members[a].external
  BY DEF SyncTyped, MemberRow
<1>3. \A a \in Rows : members'[a] = [members[a] EXCEPT !.id = 0]
  OBVIOUS
<1> QED
  BY <1>1, <1>2, <1>3

\* Saving the attribute, and the directory's own changes.
LEMMA SettingsRight ==
  ASSUME RunsRight,
         (\E attribute \in Attributes : SaveLDAP(attribute)) \/ ForgetExternalIDs \/ StoreLDAP \/ Configure
           \/ (\E p \in Entrants : DirectoryMoves(p))
  PROVE  RunsRight'
<1>1. SyncTyped /\ Attributes \subseteq Nat /\ Addresses \subseteq Nat
  BY SyncAssumption DEF RunsRight
<1>2. UNCHANGED <<limit, running, runs, shown, arrival>> /\ excused \subseteq excused'
  BY DEF SaveLDAP, ForgetExternalIDs, StoreLDAP, Configure, DirectoryMoves, FaultOr
<1>3. stored' \in {stored, chosen} /\ readBy' \in {readBy, chosen} /\ (chosen' = chosen \/ chosen' \in Attributes)
  BY DEF SaveLDAP, ForgetExternalIDs, StoreLDAP, Configure, DirectoryMoves, FaultOr
<1>4. members' = members \/ members' = [a \in Rows |-> [members[a] EXCEPT !.id = 0]]
  BY DEF SaveLDAP, ForgetExternalIDs, StoreLDAP, Configure, DirectoryMoves, FaultOr
<1>5. members' \in [Rows -> MemberRow] /\ \A a \in Rows : members'[a].state = members[a].state
  BY <1>1, <1>4, ForgottenRows DEF SyncTyped
<1>6. directory' \in [Entrants -> [in : BOOLEAN, mail : Nat]]
  <2>1. \/ directory' = directory
        \/ \E p \in Entrants : directory' = [directory EXCEPT ![p].in = ~@]
        \/ \E p \in Entrants, mail \in Addresses : directory' = [directory EXCEPT ![p].mail = mail]
    BY DEF SaveLDAP, ForgetExternalIDs, StoreLDAP, Configure, DirectoryMoves, FaultOr
  <2>2. directory \in [Entrants -> [in : BOOLEAN, mail : Nat]]
    BY <1>1 DEF SyncTyped
  <2> QED
    BY <1>1, <2>1, <2>2
<1>7. SyncTyped'
  BY <1>1, <1>2, <1>3, <1>5, <1>6 DEF SyncTyped
<1> QED
  BY <1>2, <1>5, <1>7, RunsAlone DEF Exists

LEMMA RunsStep == ASSUME RunsRight, [SyncNext]_syncVars PROVE RunsRight'
<1>1. CASE UNCHANGED syncVars
  <2>1. SyncTyped'
    BY <1>1 DEF RunsRight, SyncTyped, syncVars
  <2> QED
    BY <1>1, <2>1, RunsAlone DEF syncVars, Exists
<1> QED
  BY <1>1, StartRunRight, ListUsersRight, ReadAccountsRight, createMissingRight, PurgeUserRight, CompleteRight, recordRight,
     SignInRight, LookupRight, SaveArrivalRight, reconcileExternalRight, SettingsRight DEF SyncNext
LEMMA RunsInvariant == SyncSpec => []RunsRight
BY RunsInit, RunsStep, PTL DEF SyncSpec

-----------------------------------------------------------------------------
(* Whoever was listed keeps their account.                                 *)

LEMMA WrittenRow ==
  ASSUME SyncTyped, IdentifiersOfTheAttribute, UNCHANGED <<stored, saving>>, NEW a \in Rows,
         \A b \in Rows : b # a => members'[b] = members[b], Excepting(Unlike(members'[a]))
  PROVE  IdentifiersOfTheAttribute'
<1>1. CASE "stale" \in excused
  BY <1>1 DEF IdentifiersOfTheAttribute, Excepting
<1>2. CASE Unlike(members'[a])
  BY <1>2 DEF IdentifiersOfTheAttribute, Excepting
<1>3. CASE "stale" \notin excused /\ ~Unlike(members'[a])
  <2>1. ASSUME NEW b \in Rows, Exists(b)'
        PROVE  members'[b].id \in {0, stableID(members'[b].owner, stored)} /\ (saving = "store" => members'[b].id = 0)
    BY <1>3, <2>1 DEF IdentifiersOfTheAttribute, Unlike, Exists
  <2> QED
    BY <2>1 DEF IdentifiersOfTheAttribute
<1> QED
  BY <1>1, <1>2, <1>3
\* Where no account is written, or only put away.
LEMMA NothingWritten ==
  ASSUME IdentifiersOfTheAttribute, UNCHANGED <<stored, saving>>, excused \subseteq excused',
         \A b \in Rows : Exists(b)' => Exists(b) /\ members'[b].id = members[b].id /\ members'[b].owner = members[b].owner
  PROVE  IdentifiersOfTheAttribute'
BY DEF IdentifiersOfTheAttribute

\* A run that goes on with what it has decided.
GoesOn(r) ==
  runs'[r].at = "create" =>
    /\ runs[r].at = "create" /\ runs'[r].listing = runs[r].listing /\ runs[r].since \subseteq runs'[r].since
    /\ runs'[r].candidates \ runs'[r].deleted \subseteq runs[r].candidates \ runs[r].deleted
LEMMA DoomedKept ==
  ASSUME RunsRight, DoomedHaveLeft, \A r \in Runners : GoesOn(r), excused \subseteq excused',
         \A r \in Runners : runs'[r].at = "create" =>
           \A a \in Rows : \/ /\ members'[a].owner = members[a].owner /\ members'[a].mail = members[a].mail
                              /\ members'[a].id \in {0, members[a].id}
                           \/ a \in runs'[r].candidates => a \in runs'[r].since
                           \/ ~Exists(a)
  PROVE  DoomedHaveLeft'
<1> SUFFICES ASSUME NEW r \in Runners, runs'[r].at = "create", NEW a \in runs'[r].candidates \ runs'[r].deleted,
                    NEW e \in runs'[r].listing, e.who = members'[a].owner
             PROVE  \/ members'[a].id = 0 /\ members'[a].mail # e.mail
                    \/ a \in runs'[r].since
                    \/ "stale" \in excused'
  BY DEF DoomedHaveLeft
<1>1. a \in runs[r].candidates \ runs[r].deleted /\ e \in runs[r].listing /\ runs[r].at = "create"
      /\ runs[r].since \subseteq runs'[r].since
  BY DEF GoesOn
<1>2. a \in Rows /\ Exists(a) /\ a \in runs'[r].candidates
  BY <1>1 DEF RunsRight, SyncTyped, Run, RunRight
<1>3. CASE /\ members'[a].owner = members[a].owner /\ members'[a].mail = members[a].mail
           /\ members'[a].id \in {0, members[a].id}
  BY <1>1, <1>3 DEF DoomedHaveLeft
<1> QED
  BY <1>2, <1>3

LEMMA AllGoOn ==
  ASSUME SyncTyped, NEW r \in Runners, NEW x, runs' = [runs EXCEPT ![r] = x],
         x.at = "create" => /\ runs[r].at = "create" /\ x.listing = runs[r].listing /\ runs[r].since \subseteq x.since
                            /\ x.candidates \ x.deleted \subseteq runs[r].candidates \ runs[r].deleted
  PROVE  \A q \in Runners : GoesOn(q)
<1>1. runs'[r] = x /\ \A q \in Runners : q # r => runs'[q] = runs[q]
  BY DEF SyncTyped
<1> QED
  BY <1>1 DEF GoesOn

\* A run decides on whom to delete once, and then goes on with it.
Decides(r) ==
  /\ runs[r].at = "read" /\ UNCHANGED <<members, stored, saving>>
  /\ Excepting(\E e \in runs[r].listing : e.id # stableID(e.who, stored))
  /\ runs' = [runs EXCEPT ![r].at = "create", ![r].candidates = candidates(runs[r].listing),
                          ![r].of = Cardinality(External), ![r].todo = missing(runs[r].listing)]
LEMMA RunsGoOn ==
  ASSUME RunsRight, [SyncNext]_syncVars
  PROVE  (\E r \in Runners : Decides(r)) \/ (\A r \in Runners : GoesOn(r))
<1>1. SyncTyped
  BY DEF RunsRight
<1>2. CASE UNCHANGED runs
  BY <1>2 DEF GoesOn
<1>3. ASSUME NEW r \in Runners, NEW said, Ended(r, said) PROVE \A q \in Runners : GoesOn(q)
  <2> DEFINE x == [runs[r] EXCEPT !.at = "record", !.answer = said]
  <2>1. x.at = "record"
    BY <1>1 DEF SyncTyped, Run
  <2>2. runs' = [runs EXCEPT ![r] = x]
    BY <1>3 DEF Ended
  <2> HIDE DEF x
  <2> QED
    BY <1>1, <2>1, <2>2, AllGoOn
<1>4. ASSUME NEW r \in Runners, NEW failed, stoppedPartWay(r, failed) PROVE \A q \in Runners : GoesOn(q)
  <2> DEFINE x == [runs[r] EXCEPT !.at = "record", !.answer = "stopped", !.failed = failed]
  <2>1. x.at = "record"
    BY <1>1 DEF SyncTyped, Run
  <2>2. runs' = [runs EXCEPT ![r] = x]
    BY <1>4 DEF stoppedPartWay
  <2> HIDE DEF x
  <2> QED
    BY <1>1, <2>1, <2>2, AllGoOn
<1>5. ASSUME NEW r \in Runners, NEW kind, StartRun(r, kind) PROVE \A q \in Runners : GoesOn(q)
  <2>1. PICK x : runs' = [runs EXCEPT ![r] = x] /\
          \/ x = [NoRun EXCEPT !.at = "list", !.kind = kind, !.agreed = IF kind = "confirmed" THEN shown ELSE {}]
          \/ x = [NoRun EXCEPT !.answer = "busy"]
    BY <1>5 DEF StartRun
  <2>2. x.at # "create"
    BY <2>1 DEF NoRun
  <2> QED
    BY <1>1, <2>1, <2>2, AllGoOn
<1>6. ASSUME NEW r \in Runners, ListUsers(r) PROVE \A q \in Runners : GoesOn(q)
  <2>1. CASE runs' = [runs EXCEPT ![r].at = "read", ![r].listing = listed]
    <3> DEFINE x == [runs[r] EXCEPT !.at = "read", !.listing = listed]
    <3>1. x.at = "read"
      BY <1>1 DEF SyncTyped, Run
    <3>2. runs' = [runs EXCEPT ![r] = x]
      BY <1>1, <2>1 DEF SyncTyped
    <3> HIDE DEF x
    <3> QED
      BY <1>1, <3>1, <3>2, AllGoOn
  <2> QED
    BY <1>3, <1>6, <2>1 DEF ListUsers, FaultOr
<1>7. ASSUME NEW r \in Runners, ReadAccounts(r) PROVE Decides(r) \/ \A q \in Runners : GoesOn(q)
  <2>1. (\E said : Ended(r, said)) \/ Decides(r)
    BY <1>7 DEF ReadAccounts, FaultOr, Decides
  <2> QED
    BY <1>3, <2>1
<1>8. ASSUME NEW r \in Runners, createMissing(r) PROVE \A q \in Runners : GoesOn(q)
  <2>1. ASSUME NEW e, runs' = [runs EXCEPT ![r] = [runs[r] EXCEPT !.todo = runs[r].todo \ {e}, !.created = runs[r].created \cup {FreeRow}]]
        PROVE  \A q \in Runners : GoesOn(q)
    <3> DEFINE x == [runs[r] EXCEPT !.todo = runs[r].todo \ {e}, !.created = runs[r].created \cup {FreeRow}]
    <3>1. x.at = runs[r].at /\ x.listing = runs[r].listing /\ x.since = runs[r].since /\ x.candidates = runs[r].candidates
          /\ x.deleted = runs[r].deleted
      BY <1>1 DEF SyncTyped, Run
    <3>2. runs' = [runs EXCEPT ![r] = x]
      BY <2>1
    <3> HIDE DEF x
    <3> QED
      BY <1>1, <3>1, <3>2, AllGoOn
  <2> QED
    BY <1>4, <1>8, <2>1, CreateWhole
<1>9. ASSUME NEW r \in Runners, PurgeUser(r) PROVE \A q \in Runners : GoesOn(q)
  <2>1. ASSUME NEW a, runs' = [runs EXCEPT ![r] = [runs[r] EXCEPT !.deleted = runs[r].deleted \cup {a}]]
        PROVE  \A q \in Runners : GoesOn(q)
    <3> DEFINE x == [runs[r] EXCEPT !.deleted = runs[r].deleted \cup {a}]
    <3>1. x.at = runs[r].at /\ x.listing = runs[r].listing /\ x.since = runs[r].since /\ x.candidates = runs[r].candidates
          /\ x.deleted = runs[r].deleted \cup {a}
      BY <1>1 DEF SyncTyped, Run
    <3>2. runs' = [runs EXCEPT ![r] = x]
      BY <2>1
    <3> HIDE DEF x
    <3> QED
      BY <1>1, <3>1, <3>2, AllGoOn
  <2> QED
    BY <1>4, <1>9, <2>1, PurgeWhole
<1>10. ASSUME NEW r \in Runners, record(r) PROVE \A q \in Runners : GoesOn(q)
  <2>1. runs' = [runs EXCEPT ![r].at = "idle"] \/ runs' = [runs EXCEPT ![r].at = "idle", ![r].answer = "unrecorded"]
    BY <1>10 DEF record, FaultOr
  <2>2. runs'[r].at = "idle" /\ \A q \in Runners : q # r => runs'[q] = runs[q]
    <3>1. runs \in [Runners -> Run] /\ runs[r] \in Run
      BY <1>1 DEF SyncTyped
    <3>2. CASE runs' = [runs EXCEPT ![r].at = "idle"]
      BY <3>1, <3>2 DEF Run
    <3>3. CASE runs' = [runs EXCEPT ![r].at = "idle", ![r].answer = "unrecorded"]
      BY <3>1, <3>3 DEF Run
    <3> QED
      BY <2>1, <3>2, <3>3
  <2> QED
    BY <2>2 DEF GoesOn
<1>11. ASSUME reconcileExternal PROVE \A q \in Runners : GoesOn(q)
  <2>1. arrival.row \in Rows
    BY <1>1, <1>11, ReconcileWhole DEF SyncTyped
  <2>2. UNCHANGED runs \/ runs' = [r \in Runners |-> IF runs[r].at = "create" /\ arrival.row \in runs[r].candidates
                                          THEN [runs[r] EXCEPT !.since = @ \cup {arrival.row}] ELSE runs[r]]
    BY <1>1, <1>11, ReconcileWhole
  <2>3. CASE runs' = [r \in Runners |-> IF runs[r].at = "create" /\ arrival.row \in runs[r].candidates
                                          THEN [runs[r] EXCEPT !.since = @ \cup {arrival.row}] ELSE runs[r]]
    BY <1>1, <2>1, <2>3, Told DEF SameRun, GoesOn
  <2> QED
    BY <2>2, <2>3 DEF GoesOn
<1>13. ASSUME \/ UNCHANGED syncVars \/ ByID \/ ByMail \/ SaveArrival
              \/ (\E p \in Entrants : SignIn(p) \/ DirectoryMoves(p))
              \/ (\E attribute \in Attributes : SaveLDAP(attribute)) \/ ForgetExternalIDs \/ StoreLDAP \/ Configure
       PROVE  UNCHANGED runs
  BY <1>13
     DEF syncVars, ByID, ByMail, SaveArrival, SignIn, DirectoryMoves, SaveLDAP, ForgetExternalIDs, StoreLDAP, Configure
<1>14. ASSUME NEW r \in Runners, Complete(r) PROVE \A q \in Runners : GoesOn(q)
  BY <1>3, <1>14 DEF Complete
<1> QED
  BY <1>2, <1>5, <1>6, <1>7, <1>8, <1>9, <1>10, <1>11, <1>13, <1>14 DEF SyncNext

\* What becomes of the accounts in a step.
LEMMA AccountsStep ==
  ASSUME RunsRight, [SyncNext]_syncVars
  PROVE  \/ UNCHANGED members
         \/ /\ UNCHANGED <<stored, saving, directory>>
            /\ \E e : /\ RoomLeft /\ ~Used(e.mail) /\ members' = [members EXCEPT ![FreeRow] = Arrived(e)]
                      /\ [who |-> e.who, id |-> e.id, mail |-> e.mail] \in Entry /\ Excepting(Unlike(Arrived(e)))
                      /\ \/ \E r \in Runners : createMissing(r) /\ e \in runs[r].todo
                         \/ SaveArrival /\ arrival.at = "save" /\ e = arrival
         \/ /\ UNCHANGED <<stored, saving, directory>> /\ reconcileExternal /\ arrival.row \in Rows /\ Exists(arrival.row)
            /\ members' = [members EXCEPT ![arrival.row] = Reconciled] /\ Excepting(Unlike(Reconciled))
         \/ /\ UNCHANGED <<stored, saving, directory, excused>>
            /\ \E a \in Rows : Exists(a) /\ members' = [members EXCEPT ![a] = [members[a] EXCEPT !.state = "gone"]]
         \/ ForgetExternalIDs /\ members' = [a \in Rows |-> [members[a] EXCEPT !.id = 0]]
<1>1. SyncTyped
  BY DEF RunsRight
<1>2. ASSUME NEW r \in Runners, createMissing(r)
      PROVE  \/ UNCHANGED members
             \/ /\ UNCHANGED <<stored, saving, directory>>
                /\ \E e : /\ RoomLeft /\ ~Used(e.mail) /\ members' = [members EXCEPT ![FreeRow] = Arrived(e)]
                          /\ [who |-> e.who, id |-> e.id, mail |-> e.mail] \in Entry /\ Excepting(Unlike(Arrived(e)))
                          /\ createMissing(r) /\ e \in runs[r].todo
  <2>1. UNCHANGED <<stored, saving, directory>>
    BY <1>2 DEF createMissing
  <2>2. CASE \E failed : stoppedPartWay(r, failed)
    BY <2>2 DEF stoppedPartWay
  <2>3. ASSUME NEW e \in runs[r].todo PROVE [who |-> e.who, id |-> e.id, mail |-> e.mail] \in Entry
    BY <1>1 DEF SyncTyped, Run, Entry
  <2> QED
    BY <1>2, <2>1, <2>2, <2>3, CreateWhole
<1>3. ASSUME SaveArrival
      PROVE  \/ UNCHANGED members
             \/ /\ UNCHANGED <<stored, saving, directory>>
                /\ RoomLeft /\ ~Used(arrival.mail) /\ members' = [members EXCEPT ![FreeRow] = Arrived(arrival)]
                /\ [who |-> arrival.who, id |-> arrival.id, mail |-> arrival.mail] \in Entry
                /\ Excepting(Unlike(Arrived(arrival))) /\ arrival.at = "save"
  BY <1>1, <1>3, ArrivalWhole DEF SaveArrival
<1>4. ASSUME reconcileExternal
      PROVE  \/ UNCHANGED members
             \/ /\ UNCHANGED <<stored, saving, directory>> /\ arrival.row \in Rows /\ Exists(arrival.row)
                /\ members' = [members EXCEPT ![arrival.row] = Reconciled] /\ Excepting(Unlike(Reconciled))
  BY <1>1, <1>4, ReconcileWhole DEF SyncTyped
<1>5. ASSUME NEW r \in Runners, PurgeUser(r)
      PROVE  \/ UNCHANGED members
             \/ /\ UNCHANGED <<stored, saving, directory, excused>>
                /\ \E a \in Rows : Exists(a) /\ members' = [members EXCEPT ![a] = [members[a] EXCEPT !.state = "gone"]]
  <2>1. runs[r].candidates \subseteq Rows
    BY <1>1 DEF SyncTyped, Run
  <2>2. CASE stoppedPartWay(r, TRUE)
    BY <2>2 DEF stoppedPartWay
  <2>3. UNCHANGED <<stored, saving, directory, excused>>
    BY <1>5 DEF PurgeUser
  <2> QED
    BY <1>5, <2>1, <2>2, <2>3, PurgeWhole
<1>6. ForgetExternalIDs => members' = [a \in Rows |-> [members[a] EXCEPT !.id = 0]]
  BY DEF ForgetExternalIDs
<1>7. ASSUME \/ UNCHANGED syncVars \/ ByID \/ ByMail \/ (\E p \in Entrants : SignIn(p) \/ DirectoryMoves(p))
             \/ (\E attribute \in Attributes : SaveLDAP(attribute)) \/ StoreLDAP \/ Configure
             \/ (\E r \in Runners : \/ \E kind \in {"preview", "sync", "confirmed"} : StartRun(r, kind)
                                    \/ ListUsers(r) \/ ReadAccounts(r) \/ Complete(r) \/ record(r))
       PROVE  UNCHANGED members
  BY <1>7
     DEF syncVars, ByID, ByMail, SignIn, DirectoryMoves, SaveLDAP, StoreLDAP, Configure, StartRun, ListUsers, ReadAccounts,
     Complete, record
<1>8. CASE \E r \in Runners : createMissing(r)
  BY <1>2, <1>8
<1>9. CASE SaveArrival
  BY <1>3, <1>9
<1>10. CASE reconcileExternal
  BY <1>4, <1>10
<1>11. CASE \E r \in Runners : PurgeUser(r)
  BY <1>5, <1>11
<1>12. CASE ForgetExternalIDs
  BY <1>6, <1>12
<1> QED
  BY <1>7, <1>8, <1>9, <1>10, <1>11, <1>12 DEF SyncNext

LEMMA ExcusedGrow == ASSUME [SyncNext]_syncVars PROVE excused \subseteq excused'
<1>1. CASE UNCHANGED excused
  BY <1>1
<1>2. ASSUME NEW r \in Runners, ReadAccounts(r) PROVE excused \subseteq excused'
  BY <1>2 DEF ReadAccounts, FaultOr, Excepting
<1>3. ASSUME NEW r \in Runners, createMissing(r) PROVE excused \subseteq excused'
  BY <1>3 DEF createMissing, FaultOr, Excepting
<1>4. ASSUME NEW r \in Runners, record(r) PROVE excused \subseteq excused'
  BY <1>4 DEF record, FaultOr
<1>5. ASSUME SaveArrival \/ reconcileExternal PROVE excused \subseteq excused'
  BY <1>5 DEF SaveArrival, reconcileExternal, Excepting
<1>6. ASSUME NEW p \in Entrants, DirectoryMoves(p) PROVE excused \subseteq excused'
  BY <1>6 DEF DirectoryMoves
<1>7. ASSUME \/ UNCHANGED syncVars \/ ByID \/ ByMail \/ (\E p \in Entrants : SignIn(p))
             \/ (\E attribute \in Attributes : SaveLDAP(attribute)) \/ ForgetExternalIDs \/ StoreLDAP \/ Configure
             \/ (\E r \in Runners : \/ \E kind \in {"preview", "sync", "confirmed"} : StartRun(r, kind)
                                    \/ ListUsers(r) \/ PurgeUser(r) \/ Complete(r))
      PROVE  UNCHANGED excused
  BY <1>7
     DEF syncVars, ByID, ByMail, SignIn, SaveLDAP, ForgetExternalIDs, StoreLDAP, Configure, StartRun, ListUsers, PurgeUser,
     Complete
<1> QED
  BY <1>1, <1>2, <1>3, <1>4, <1>5, <1>6, <1>7 DEF SyncNext

\* How far the saving of the attribute is.
LEMMA SavingStep ==
  ASSUME [SyncNext]_syncVars
  PROVE  \/ UNCHANGED <<stored, saving>>
         \/ UNCHANGED <<stored, members>> /\ saving' # "store"
         \/ saving = "store" /\ saving' # "store" /\ UNCHANGED members
         \/ ForgetExternalIDs
<1>1. ASSUME \/ UNCHANGED syncVars \/ ByID \/ ByMail \/ SaveArrival \/ reconcileExternal
             \/ (\E p \in Entrants : SignIn(p) \/ DirectoryMoves(p))
             \/ (\E r \in Runners : \/ \E kind \in {"preview", "sync", "confirmed"} : StartRun(r, kind)
                                    \/ ListUsers(r) \/ ReadAccounts(r) \/ createMissing(r) \/ PurgeUser(r)
                                    \/ Complete(r) \/ record(r))
      PROVE  UNCHANGED <<stored, saving>>
  BY <1>1
     DEF syncVars, ByID, ByMail, SaveArrival, reconcileExternal, SignIn, DirectoryMoves, StartRun, ListUsers, ReadAccounts,
     createMissing, PurgeUser, Complete, record
<1>2. ASSUME NEW attribute \in Attributes, SaveLDAP(attribute) PROVE UNCHANGED <<stored, members>> /\ saving' # "store"
  BY <1>2 DEF SaveLDAP
<1>3. ASSUME StoreLDAP PROVE saving = "store" /\ saving' # "store" /\ UNCHANGED members
  BY <1>3 DEF StoreLDAP, FaultOr
<1>4. ASSUME Configure PROVE UNCHANGED <<stored, members>> /\ saving' # "store"
  BY <1>4 DEF Configure
<1> QED
  BY <1>1, <1>2, <1>3, <1>4 DEF SyncNext

LEMMA NewRow ==
  ASSUME RunsRight, RoomLeft, NEW e, [who |-> e.who, id |-> e.id, mail |-> e.mail] \in Entry,
         members' = [members EXCEPT ![FreeRow] = Arrived(e)]
  PROVE  \E a \in Rows : /\ ~Exists(a) /\ a = FreeRow /\ members'[a] = Arrived(e) /\ Arrived(e).id = e.id
                         /\ Arrived(e).mail = e.mail /\ Arrived(e).owner = e.who
                         /\ \A b \in Rows : b # a => members'[b] = members[b]
<1> DEFINE f == [who |-> e.who, id |-> e.id, mail |-> e.mail]
<1>1. Arrived(e) = Arrived(f) /\ f \in Entry
  BY DEF Arrived
<1>2. Arrived(e).id = e.id /\ Arrived(e).mail = e.mail /\ Arrived(e).owner = e.who
  BY DEF Arrived
<1> HIDE DEF f
<1>3. FreeRow \in Rows /\ members[FreeRow].state = "none" /\ members'[FreeRow] = Arrived(f)
      /\ \A b \in Rows : b # FreeRow => members'[b] = members[b]
  BY <1>1, CreatedRow
<1>4. ~Exists(FreeRow)
  BY <1>3 DEF Exists
<1> QED
  BY <1>1, <1>2, <1>3, <1>4

LEMMA IdentifiersStep ==
  ASSUME RunsRight, IdentifiersOfTheAttribute, [SyncNext]_syncVars
  PROVE  IdentifiersOfTheAttribute'
<1>1. SyncTyped /\ excused \subseteq excused'
  BY ExcusedGrow DEF RunsRight
<1>2. CASE ForgetExternalIDs
  <2>1. \A a \in Rows : members'[a].id = 0
    BY <1>1, <1>2, ForgottenRows DEF ForgetExternalIDs
  <2> QED
    BY <2>1 DEF IdentifiersOfTheAttribute
<1>3. CASE UNCHANGED <<stored, members>> /\ saving' # "store"
  BY <1>1, <1>3 DEF IdentifiersOfTheAttribute, Exists
<1>4. CASE saving = "store" /\ saving' # "store" /\ UNCHANGED members
  BY <1>1, <1>4 DEF IdentifiersOfTheAttribute, Exists
<1>5. CASE UNCHANGED <<stored, saving>> /\ UNCHANGED members
  BY <1>1, <1>5 DEF IdentifiersOfTheAttribute, Exists
<1>6. ASSUME NEW e, RoomLeft, members' = [members EXCEPT ![FreeRow] = Arrived(e)], UNCHANGED <<stored, saving>>,
             [who |-> e.who, id |-> e.id, mail |-> e.mail] \in Entry, Excepting(Unlike(Arrived(e)))
      PROVE  IdentifiersOfTheAttribute'
  <2>1. PICK a \in Rows : members'[a] = Arrived(e) /\ \A b \in Rows : b # a => members'[b] = members[b]
    BY <1>6, NewRow
  <2>2. Excepting(Unlike(members'[a]))
    BY <1>6, <2>1
  <2> QED
    BY <1>1, <1>6, <2>1, <2>2, WrittenRow
<1>7. CASE /\ UNCHANGED <<stored, saving>> /\ arrival.row \in Rows
           /\ members' = [members EXCEPT ![arrival.row] = Reconciled] /\ Excepting(Unlike(Reconciled))
  <2>1. members'[arrival.row] = Reconciled /\ \A b \in Rows : b # arrival.row => members'[b] = members[b]
    BY <1>1, <1>7 DEF SyncTyped
  <2>2. Excepting(Unlike(members'[arrival.row]))
    BY <1>7, <2>1
  <2> QED
    BY <1>1, <1>7, <2>1, <2>2, WrittenRow
<1>8. ASSUME NEW a \in Rows, Exists(a), members' = [members EXCEPT ![a] = [members[a] EXCEPT !.state = "gone"]],
             UNCHANGED <<stored, saving>>
      PROVE  IdentifiersOfTheAttribute'
  BY <1>1, <1>8, PurgedRow, NothingWritten
<1> QED
  BY <1>2, <1>3, <1>4, <1>5, <1>6, <1>7, <1>8, AccountsStep, SavingStep

LEMMA DoomedStep ==
  ASSUME RunsRight, IdentifiersOfTheAttribute, DoomedHaveLeft, [SyncNext]_syncVars
  PROVE  DoomedHaveLeft'
<1>1. SyncTyped /\ excused \subseteq excused'
  BY ExcusedGrow DEF RunsRight
<1>2. ASSUME NEW r \in Runners, Decides(r) PROVE DoomedHaveLeft'
  <2> DEFINE listing == runs[r].listing
  <2>1. runs[r] \in Run /\ runs[r].deleted = {}
    BY <1>1, <1>2 DEF SyncTyped, RunsRight, RunRight, Decides
  <2>2. /\ runs'[r].candidates = candidates(listing) /\ runs'[r].listing = listing /\ runs'[r].deleted = {}
        /\ \A q \in Runners : q # r => runs'[q] = runs[q]
    <3> DEFINE x == [runs[r] EXCEPT !.at = "create", !.candidates = candidates(listing),
                                    !.of = Cardinality(External), !.todo = missing(listing)]
    <3>1. runs' = [runs EXCEPT ![r] = x]
      BY <1>1, <1>2 DEF Decides, SyncTyped
    <3>2. x.candidates = candidates(listing) /\ x.listing = listing /\ x.deleted = {}
      BY <2>1 DEF Run
    <3> HIDE DEF x
    <3> QED
      BY <1>1, <3>1, <3>2 DEF SyncTyped
  <2>3. UNCHANGED members
    BY <1>2 DEF Decides
  <2>4. ASSUME NEW a \in candidates(listing), NEW e \in listing, e.who = members[a].owner, "stale" \notin excused'
        PROVE  members[a].id = 0 /\ members[a].mail # e.mail
    <3>1. a \in Rows /\ Exists(a) /\ ~stillInDirectory(members[a], listing)
      BY <2>4 DEF candidates, External
    <3>2. "stale" \notin excused /\ e.id = stableID(e.who, stored)
      BY <1>1, <1>2, <2>4 DEF Decides, Excepting
    <3>3. members[a].id \in {0, e.id}
      BY <2>4, <3>1, <3>2 DEF IdentifiersOfTheAttribute
    <3> QED
      BY <2>4, <3>1, <3>3 DEF stillInDirectory
  <2> HIDE DEF listing
  <2>5. ASSUME NEW q \in Runners, runs'[q].at = "create", NEW a \in runs'[q].candidates \ runs'[q].deleted,
               NEW e \in runs'[q].listing, e.who = members'[a].owner
        PROVE  \/ members'[a].id = 0 /\ members'[a].mail # e.mail
               \/ a \in runs'[q].since \/ "stale" \in excused'
    <3>1. CASE q = r
      BY <2>2, <2>3, <2>4, <2>5, <3>1
    <3>2. CASE q # r
      BY <1>1, <2>2, <2>3, <2>5, <3>2 DEF DoomedHaveLeft
    <3> QED
      BY <3>1, <3>2
  <2> QED
    BY <2>5 DEF DoomedHaveLeft
<1>3. ASSUME \A r \in Runners : GoesOn(r) PROVE DoomedHaveLeft'
  <2>1. ASSUME NEW r \in Runners, runs'[r].at = "create", NEW a \in Rows
        PROVE  \/ /\ members'[a].owner = members[a].owner /\ members'[a].mail = members[a].mail
                  /\ members'[a].id \in {0, members[a].id}
               \/ a \in runs'[r].candidates => a \in runs'[r].since
               \/ ~Exists(a)
    <3>1. CASE UNCHANGED members
      BY <3>1
    <3>2. ASSUME NEW e, RoomLeft, members' = [members EXCEPT ![FreeRow] = Arrived(e)],
                 [who |-> e.who, id |-> e.id, mail |-> e.mail] \in Entry
          PROVE  members'[a] = members[a] \/ ~Exists(a)
      BY <3>2, NewRow
    <3>3. CASE reconcileExternal
      <4>1. arrival.row \in Rows
        BY <1>1, <3>3, ReconcileWhole DEF SyncTyped
      <4>2. CASE /\ members' = [members EXCEPT ![arrival.row] = Reconciled]
                 /\ runs' = [q \in Runners |-> IF runs[q].at = "create" /\ arrival.row \in runs[q].candidates
                                                THEN [runs[q] EXCEPT !.since = @ \cup {arrival.row}] ELSE runs[q]]
        <5>1. SameRun(runs[r], runs'[r]) /\ (runs[r].at = "create" /\ arrival.row \in runs[r].candidates
                                              => arrival.row \in runs'[r].since)
          BY <1>1, <4>1, <4>2, Told
        <5>2. a # arrival.row => members'[a] = members[a]
          BY <1>1, <4>1, <4>2 DEF SyncTyped
        <5> QED
          BY <2>1, <5>1, <5>2 DEF SameRun
      <4> QED
        BY <1>1, <3>1, <3>3, <4>2, ReconcileWhole
    <3>4. ASSUME NEW b \in Rows, Exists(b), members' = [members EXCEPT ![b] = [members[b] EXCEPT !.state = "gone"]]
          PROVE  /\ members'[a].owner = members[a].owner /\ members'[a].mail = members[a].mail
                 /\ members'[a].id = members[a].id
      BY <3>4, PurgedRow
    <3>5. CASE members' = [b \in Rows |-> [members[b] EXCEPT !.id = 0]]
      BY <1>1, <3>5, ForgottenRows
    <3> QED
      BY <3>1, <3>2, <3>3, <3>4, <3>5, AccountsStep
  <2> QED
    BY <1>1, <1>3, <2>1, DoomedKept
<1> QED
  BY <1>2, <1>3, RunsGoOn

-----------------------------------------------------------------------------
(* What becomes of the runs in a step.                                     *)

Before(r) ==
  /\ \A q \in Runners : q # r => runs'[q] = runs[q]
  /\ runs[r].at # "idle"
\* What a run has changed, and the record with it, stays as it was.
Rests(r) ==
  /\ UNCHANGED <<changes, recorded>>
  /\ runs'[r].deleted = runs[r].deleted /\ runs'[r].created = runs[r].created
StartsAt(r) ==
  /\ \A q \in Runners : q # r => runs'[q] = runs[q]
  /\ runs[r].at = "idle" /\ runs'[r].deleted = {} /\ runs'[r].created = {} /\ UNCHANGED <<changes, recorded>>
CreatesAt(r) ==
  /\ Before(r) /\ runs'[r].at # "idle" /\ runs'[r].deleted = runs[r].deleted /\ changes' = changes + 1 /\ UNCHANGED recorded
  /\ \E a \in Rows \ runs[r].created : runs'[r].created = runs[r].created \cup {a}
DeletesAt(r) ==
  /\ Before(r) /\ runs'[r].at # "idle" /\ runs'[r].created = runs[r].created /\ changes' = changes + 1 /\ UNCHANGED recorded
  /\ runs[r].at = "create"
  /\ \E a \in runs[r].candidates \ runs[r].deleted : runs'[r].deleted = runs[r].deleted \cup {a}
RecordsAt(r) ==
  /\ Before(r) /\ runs'[r].at = "idle" /\ runs'[r].deleted = runs[r].deleted /\ runs'[r].created = runs[r].created
  /\ UNCHANGED changes
  /\ recorded' = recorded + Changed(r) \/ (recorded' = recorded /\ "unrecorded" \in excused')
SameRuns == (\A r \in Runners : SameRun(runs[r], runs'[r])) /\ UNCHANGED <<changes, recorded>>

LEMMA RestsAt ==
  ASSUME SyncTyped, NEW r \in Runners, NEW x, runs' = [runs EXCEPT ![r] = x], runs[r].at # "idle", x.at # "idle",
         x.deleted = runs[r].deleted, x.created = runs[r].created, UNCHANGED <<changes, recorded>>
  PROVE  Before(r) /\ runs'[r].at # "idle" /\ Rests(r)
<1>1. runs'[r] = x /\ \A q \in Runners : q # r => runs'[q] = runs[q]
  BY DEF SyncTyped
<1> QED
  BY <1>1 DEF Before, Rests

LEMMA EndsAt ==
  ASSUME SyncTyped, NEW r \in Runners, NEW said, Ended(r, said) \/ \E failed : stoppedPartWay(r, failed),
         runs[r].at # "idle", UNCHANGED <<changes, recorded>>
  PROVE  Before(r) /\ runs'[r].at # "idle" /\ Rests(r)
<1>1. runs[r] \in Run /\ runs \in [Runners -> Run]
  BY DEF SyncTyped
<1>2. ASSUME Ended(r, said) PROVE Before(r) /\ runs'[r].at # "idle" /\ Rests(r)
  <2> DEFINE x == [runs[r] EXCEPT !.at = "record", !.answer = said]
  <2>1. x.at = "record" /\ x.deleted = runs[r].deleted /\ x.created = runs[r].created
    BY <1>1 DEF Run
  <2>2. runs' = [runs EXCEPT ![r] = x]
    BY <1>2 DEF Ended
  <2> HIDE DEF x
  <2> QED
    BY <2>1, <2>2, RestsAt
<1>3. ASSUME NEW failed, stoppedPartWay(r, failed) PROVE Before(r) /\ runs'[r].at # "idle" /\ Rests(r)
  <2> DEFINE x == [runs[r] EXCEPT !.at = "record", !.answer = "stopped", !.failed = failed]
  <2>1. x.at = "record" /\ x.deleted = runs[r].deleted /\ x.created = runs[r].created
    BY <1>1 DEF Run
  <2>2. runs' = [runs EXCEPT ![r] = x]
    BY <1>3 DEF stoppedPartWay
  <2> HIDE DEF x
  <2> QED
    BY <2>1, <2>2, RestsAt
<1> QED
  BY <1>2, <1>3

LEMMA RunsMove ==
  ASSUME RunsRight, [SyncNext]_syncVars
  PROVE  \/ SameRuns
         \/ \E r \in Runners : \/ StartsAt(r) \/ CreatesAt(r) \/ DeletesAt(r) \/ RecordsAt(r)
                               \/ Before(r) /\ runs'[r].at # "idle" /\ Rests(r)
<1>1. SyncTyped /\ runs \in [Runners -> Run]
  BY DEF RunsRight, SyncTyped
<1>2. CASE UNCHANGED <<runs, changes, recorded>>
  BY <1>2 DEF SameRuns, SameRun
<1>3. ASSUME NEW r \in Runners, NEW kind, StartRun(r, kind) PROVE StartsAt(r)
  <2>1. PICK x : runs' = [runs EXCEPT ![r] = x] /\
          \/ x = [NoRun EXCEPT !.at = "list", !.kind = kind, !.agreed = IF kind = "confirmed" THEN shown ELSE {}]
          \/ x = [NoRun EXCEPT !.answer = "busy"]
    BY <1>3 DEF StartRun
  <2>2. x.deleted = {} /\ x.created = {}
    BY <2>1 DEF NoRun
  <2>3. runs'[r] = x /\ \A q \in Runners : q # r => runs'[q] = runs[q]
    BY <1>1, <2>1
  <2> QED
    BY <1>3, <2>2, <2>3 DEF StartsAt, StartRun
<1>4. ASSUME NEW r \in Runners, ListUsers(r) PROVE Before(r) /\ runs'[r].at # "idle" /\ Rests(r)
  <2>1. runs[r].at # "idle" /\ UNCHANGED <<changes, recorded>>
    BY <1>4 DEF ListUsers
  <2>2. CASE runs' = [runs EXCEPT ![r].at = "read", ![r].listing = listed]
    <3> DEFINE x == [runs[r] EXCEPT !.at = "read", !.listing = listed]
    <3>1. x.at = "read" /\ x.deleted = runs[r].deleted /\ x.created = runs[r].created
      BY <1>1 DEF Run
    <3>2. runs' = [runs EXCEPT ![r] = x]
      BY <1>1, <2>2
    <3> HIDE DEF x
    <3> QED
      BY <1>1, <2>1, <3>1, <3>2, RestsAt
  <2> QED
    BY <1>1, <1>4, <2>1, <2>2, EndsAt DEF ListUsers, FaultOr
<1>5. ASSUME NEW r \in Runners, ReadAccounts(r) PROVE Before(r) /\ runs'[r].at # "idle" /\ Rests(r)
  <2>1. runs[r].at # "idle" /\ UNCHANGED <<changes, recorded>>
    BY <1>5 DEF ReadAccounts
  <2>2. ASSUME NEW gone, NEW todo, NEW of,
               runs' = [runs EXCEPT ![r].at = "create", ![r].candidates = gone, ![r].of = of, ![r].todo = todo]
        PROVE  Before(r) /\ runs'[r].at # "idle" /\ Rests(r)
    <3> DEFINE x == [runs[r] EXCEPT !.at = "create", !.candidates = gone, !.of = of, !.todo = todo]
    <3>1. x.at = "create" /\ x.deleted = runs[r].deleted /\ x.created = runs[r].created
      BY <1>1 DEF Run
    <3>2. runs' = [runs EXCEPT ![r] = x]
      BY <1>1, <2>2
    <3> HIDE DEF x
    <3> QED
      BY <1>1, <2>1, <3>1, <3>2, RestsAt
  <2>3. \/ \E said : Ended(r, said)
        \/ runs' = [runs EXCEPT ![r].at = "create", ![r].candidates = candidates(runs[r].listing),
                                ![r].of = Cardinality(External), ![r].todo = missing(runs[r].listing)]
    BY <1>5 DEF ReadAccounts, FaultOr
  <2> QED
    BY <1>1, <2>1, <2>2, <2>3, EndsAt
<1>6. ASSUME NEW r \in Runners, createMissing(r)
      PROVE  CreatesAt(r) \/ (Before(r) /\ runs'[r].at # "idle" /\ Rests(r))
  <2>1. runs[r].at = "create" /\ UNCHANGED recorded
    BY <1>6 DEF createMissing
  <2>2. CASE \E failed : stoppedPartWay(r, failed)
    BY <1>1, <2>1, <2>2, EndsAt DEF stoppedPartWay
  <2>3. ASSUME NEW e \in runs[r].todo, RoomLeft,
               runs' = [runs EXCEPT ![r] = [runs[r] EXCEPT !.todo = runs[r].todo \ {e}, !.created = runs[r].created \cup {FreeRow}]],
               changes' = changes + 1
        PROVE  CreatesAt(r)
    <3>1. FreeRow \in Rows /\ members[FreeRow].state = "none"
      BY <1>1, <2>3, FreeRowIsFree
    <3>2. FreeRow \notin runs[r].created
      BY <3>1 DEF RunsRight, RunRight
    <3>3. /\ runs'[r].at = runs[r].at /\ runs'[r].deleted = runs[r].deleted /\ runs'[r].created = runs[r].created \cup {FreeRow}
          /\ \A q \in Runners : q # r => runs'[q] = runs[q]
      BY <1>1, <2>3 DEF Run
    <3> QED
      BY <2>1, <2>3, <3>1, <3>2, <3>3 DEF CreatesAt, Before
  <2> QED
    BY <1>6, <2>2, <2>3, CreateWhole
<1>7. ASSUME NEW r \in Runners, PurgeUser(r)
      PROVE  DeletesAt(r) \/ (Before(r) /\ runs'[r].at # "idle" /\ Rests(r))
  <2>1. runs[r].at = "create" /\ UNCHANGED recorded
    BY <1>7 DEF PurgeUser
  <2>2. CASE \E failed : stoppedPartWay(r, failed)
    BY <1>1, <2>1, <2>2, EndsAt DEF stoppedPartWay
  <2>3. ASSUME NEW a \in runs[r].candidates \ runs[r].deleted,
               runs' = [runs EXCEPT ![r] = [runs[r] EXCEPT !.deleted = runs[r].deleted \cup {a}]],
               changes' = changes + 1
        PROVE  DeletesAt(r)
    <3>1. /\ runs'[r].at = runs[r].at /\ runs'[r].created = runs[r].created /\ runs'[r].deleted = runs[r].deleted \cup {a}
          /\ \A q \in Runners : q # r => runs'[q] = runs[q]
      BY <1>1, <2>3 DEF Run
    <3> QED
      BY <2>1, <2>3, <3>1 DEF DeletesAt, Before
  <2> QED
    BY <1>7, <2>2, <2>3, PurgeWhole
<1>8. ASSUME NEW r \in Runners, Complete(r) PROVE Before(r) /\ runs'[r].at # "idle" /\ Rests(r)
  BY <1>1, <1>8, EndsAt DEF Complete
<1>9. ASSUME NEW r \in Runners, record(r) PROVE RecordsAt(r)
  <2>1. runs' = [runs EXCEPT ![r].at = "idle"] \/ runs' = [runs EXCEPT ![r].at = "idle", ![r].answer = "unrecorded"]
    BY <1>9 DEF record, FaultOr
  <2>2. /\ runs'[r].at = "idle" /\ runs'[r].deleted = runs[r].deleted /\ runs'[r].created = runs[r].created
        /\ \A q \in Runners : q # r => runs'[q] = runs[q]
    <3>1. CASE runs' = [runs EXCEPT ![r].at = "idle"]
      BY <1>1, <3>1 DEF Run
    <3>2. CASE runs' = [runs EXCEPT ![r].at = "idle", ![r].answer = "unrecorded"]
      BY <1>1, <3>2 DEF Run
    <3> QED
      BY <2>1, <3>1, <3>2
  <2>3. /\ runs[r].at # "idle" /\ UNCHANGED changes
        /\ recorded' = recorded + Changed(r) \/ (recorded' = recorded /\ "unrecorded" \in excused')
    BY <1>9 DEF record, FaultOr
  <2> QED
    BY <2>2, <2>3 DEF RecordsAt, Before
<1>10. ASSUME reconcileExternal PROVE SameRuns
  <2>1. arrival.row \in Rows /\ UNCHANGED <<changes, recorded>>
    BY <1>1, <1>10, ReconcileWhole DEF SyncTyped
  <2>2. CASE runs' = [r \in Runners |-> IF runs[r].at = "create" /\ arrival.row \in runs[r].candidates
                                          THEN [runs[r] EXCEPT !.since = @ \cup {arrival.row}] ELSE runs[r]]
    BY <1>1, <2>1, <2>2, Told DEF SameRuns
  <2>3. UNCHANGED runs \/ runs' = [r \in Runners |-> IF runs[r].at = "create" /\ arrival.row \in runs[r].candidates
                                          THEN [runs[r] EXCEPT !.since = @ \cup {arrival.row}] ELSE runs[r]]
    BY <1>1, <1>10, ReconcileWhole
  <2>4. CASE UNCHANGED runs
    BY <2>1, <2>4 DEF SameRuns, SameRun
  <2> QED
    BY <2>2, <2>3, <2>4
<1>11. ASSUME \/ UNCHANGED syncVars \/ ByID \/ ByMail \/ SaveArrival
              \/ (\E p \in Entrants : SignIn(p) \/ DirectoryMoves(p))
              \/ (\E attribute \in Attributes : SaveLDAP(attribute)) \/ ForgetExternalIDs \/ StoreLDAP \/ Configure
       PROVE  UNCHANGED <<runs, changes, recorded>>
  BY <1>11
     DEF syncVars, ByID, ByMail, SaveArrival, SignIn, DirectoryMoves, SaveLDAP, ForgetExternalIDs, StoreLDAP, Configure
<1> QED
  BY <1>2, <1>3, <1>4, <1>5, <1>6, <1>7, <1>8, <1>9, <1>10, <1>11 DEF SyncNext

-----------------------------------------------------------------------------
(* The accounts stay with those they belong to.                            *)

LEMMA HeldInit == SyncInit => HeldInv
<1> SUFFICES ASSUME SyncInit PROVE HeldInv
  OBVIOUS
<1>1. PICK s \in Starts : members = s.accounts /\ stored = s.attribute
  BY DEF SyncInit
<1>2. \A a \in Rows : s.accounts[a].state = "there" => s.accounts[a].id \in {0, stableID(s.accounts[a].owner, s.attribute)}
  BY SyncAssumption
<1>3. IdentifiersOfTheAttribute
  BY <1>1, <1>2 DEF IdentifiersOfTheAttribute, Exists, SyncInit
<1>4. DoomedHaveLeft
  <2>1. \A r \in Runners : runs[r].at = "idle"
    BY NoRunAtAll DEF SyncInit
  <2> QED
    BY <2>1 DEF DoomedHaveLeft
<1> QED
  BY <1>3, <1>4, RunsInit DEF HeldInv

LEMMA HeldStep == ASSUME HeldInv, [SyncNext]_syncVars PROVE HeldInv'
BY RunsStep, IdentifiersStep, DoomedStep DEF HeldInv
LEMMA HeldInvariant == SyncSpec => []HeldInv
BY HeldInit, HeldStep, PTL DEF SyncSpec

\* Whom a run deletes it had decided on.
LEMMA DeletedWasDecided ==
  ASSUME RunsRight, [SyncNext]_syncVars, NEW r \in Runners, NEW a \in runs'[r].deleted \ runs[r].deleted
  PROVE  runs[r].at = "create" /\ a \in runs[r].candidates \ runs[r].deleted
<1>1. CASE SameRuns
  BY <1>1 DEF SameRuns, SameRun
<1>2. ASSUME NEW q \in Runners,
             StartsAt(q) \/ CreatesAt(q) \/ DeletesAt(q) \/ RecordsAt(q) \/ (Before(q) /\ runs'[q].at # "idle" /\ Rests(q))
      PROVE  runs[r].at = "create" /\ a \in runs[r].candidates \ runs[r].deleted
  <2>1. q = r
    BY <1>2 DEF StartsAt, CreatesAt, DeletesAt, RecordsAt, Before
  <2> QED
    BY <1>2, <2>1 DEF StartsAt, CreatesAt, DeletesAt, RecordsAt, Rests
<1> QED
  BY <1>1, <1>2, RunsMove

LEMMA LocalStep ==
  ASSUME RunsRight, [SyncNext]_syncVars, NEW a \in Rows, Exists(a), members[a].admin, ~members[a].external
  PROVE  ~members'[a].external
<1>1. SyncTyped
  BY DEF RunsRight
<1>2. ASSUME NEW e, RoomLeft, members' = [members EXCEPT ![FreeRow] = Arrived(e)],
             [who |-> e.who, id |-> e.id, mail |-> e.mail] \in Entry
      PROVE  members'[a] = members[a]
  BY <1>2, NewRow
<1>3. ASSUME reconcileExternal, members' = [members EXCEPT ![arrival.row] = Reconciled] PROVE ~members'[a].external
  <2>1. CASE a = arrival.row
    <3>1. refusedAdoption(arrival.row)
      BY <2>1 DEF refusedAdoption
    <3>2. UNCHANGED members
      BY <1>1, <1>3, <3>1, ReconcileWhole
    <3> QED
      BY <3>2
  <2>2. CASE a # arrival.row
    BY <1>1, <1>3, <2>2 DEF SyncTyped
  <2> QED
    BY <2>1, <2>2
<1>4. ASSUME NEW b \in Rows, Exists(b), members' = [members EXCEPT ![b] = [members[b] EXCEPT !.state = "gone"]]
      PROVE  members'[a].external = members[a].external
  BY <1>4, PurgedRow
<1>5. CASE members' = [b \in Rows |-> [members[b] EXCEPT !.id = 0]]
  BY <1>1, <1>5, ForgottenRows
<1> QED
  BY <1>2, <1>3, <1>4, <1>5, AccountsStep

LEMMA KeptStep ==
  ASSUME HeldInv, [SyncNext]_syncVars
  PROVE  /\ \A r \in Runners : \A a \in runs'[r].deleted \ runs[r].deleted : \A e \in runs[r].listing :
              e.who = members[a].owner =>
                \/ members[a].id = 0 /\ members[a].mail # e.mail
                \/ a \in runs[r].since
                \/ "stale" \in excused
         /\ \A a \in Rows : Exists(a) /\ members[a].admin /\ ~members[a].external => ~members'[a].external
BY DeletedWasDecided, LocalStep DEF HeldInv, DoomedHaveLeft

\* Neither a run nor a sign-in takes an account away from the one it belongs to, but for
\* the exceptions HeldStays names (stillInDirectory, PurgeUser, reconcileExternal).
THEOREM AccountsKept == SyncSpec => AccountsStayPut
<1> DEFINE Held == \A r \in Runners : \A a \in runs'[r].deleted \ runs[r].deleted : \A e \in runs[r].listing :
                     e.who = members[a].owner =>
                       \/ members[a].id = 0 /\ members[a].mail # e.mail
                       \/ a \in runs[r].since
                       \/ "stale" \in excused
           Local == \A a \in Rows : Exists(a) /\ members[a].admin /\ ~members[a].external => ~members'[a].external
<1>1. ASSUME HeldInv, [SyncNext]_syncVars PROVE Held /\ Local
  BY <1>1, KeptStep
<1> HIDE DEF Held, Local
<1>2. SyncSpec => [][Held]_syncVars /\ [][Local]_syncVars
  BY <1>1, HeldInvariant, PTL DEF SyncSpec
<1> QED
  BY <1>2 DEF AccountsStayPut, HeldStays, AdministratorsStayLocal, Held, Local

-----------------------------------------------------------------------------
(* What runs have changed is on record.                                    *)

\* What the runs in flight have of something.
HeldBy(live, own) == {t \in Runners \X Rows : t[1] \in live /\ t[2] \in own[t[1]]}
Live == {r \in Runners : runs[r].at # "idle"}
LEMMA HeldAreFinite == ASSUME NEW live, NEW own PROVE IsFiniteSet(HeldBy(live, own)) /\ Cardinality(HeldBy(live, own)) \in Nat
<1>1. IsFiniteSet(Runners \X Rows) /\ HeldBy(live, own) \subseteq Runners \X Rows
  BY SyncAssumption, FS_Product DEF HeldBy
<1>2. IsFiniteSet(HeldBy(live, own))
  BY <1>1, FS_Subset
<1> QED
  BY <1>2, FS_CardinalityType
LEMMA HeldAre ==
  /\ Removed = HeldBy(Live, [r \in Runners |-> runs[r].deleted])
  /\ Added = HeldBy(Live, [r \in Runners |-> runs[r].created])
<1>1. \A t \in Runners \X Rows : t[1] \in Runners
  OBVIOUS
<1> QED
  BY <1>1 DEF Removed, Added, HeldBy, Live

\* Runs that keep what they have have the same together.
LEMMA HeldAgain ==
  ASSUME NEW live, NEW own, NEW alive, NEW has, \A r \in Runners : r \in live <=> r \in alive,
         \A r \in Runners : r \in live => has[r] = own[r]
  PROVE  HeldBy(alive, has) = HeldBy(live, own)
BY DEF HeldBy
LEMMA OneMoreHeld ==
  ASSUME NEW live, NEW own, NEW alive, NEW has, NEW r \in Runners, r \in live, \A q \in Runners : q \in live <=> q \in alive,
         \A q \in Runners : q # r => has[q] = own[q], NEW a \in Rows \ own[r], has[r] = own[r] \cup {a}
  PROVE  Cardinality(HeldBy(alive, has)) = Cardinality(HeldBy(live, own)) + 1
<1>1. HeldBy(alive, has) = HeldBy(live, own) \cup {<<r, a>>} /\ <<r, a>> \notin HeldBy(live, own)
  BY DEF HeldBy
<1>2. IsFiniteSet(HeldBy(live, own))
  BY HeldAreFinite
<1> QED
  BY <1>1, <1>2, FS_AddElement
LEMMA OneLessLive ==
  ASSUME NEW live, NEW own, NEW alive, NEW has, NEW r \in Runners, r \in live, r \notin alive,
         \A q \in Runners : q # r => has[q] = own[q] /\ (q \in live <=> q \in alive), own[r] \subseteq Rows
  PROVE  Cardinality(HeldBy(live, own)) = Cardinality(HeldBy(alive, has)) + Cardinality(own[r])
<1> DEFINE S == HeldBy(alive, has)
           T == {r} \X own[r]
<1>1. HeldBy(live, own) = S \cup T
  <2>1. ASSUME NEW t \in HeldBy(live, own) PROVE t \in S \cup T
    <3>1. t \in Runners \X Rows /\ t[1] \in live /\ t[2] \in own[t[1]] /\ t = <<t[1], t[2]>>
      BY DEF HeldBy
    <3>2. CASE t[1] = r
      BY <3>1, <3>2
    <3>3. CASE t[1] # r
      BY <3>1, <3>3 DEF HeldBy
    <3> QED
      BY <3>2, <3>3
  <2>2. ASSUME NEW t \in S PROVE t \in HeldBy(live, own)
    BY <2>2 DEF HeldBy
  <2>3. ASSUME NEW t \in T PROVE t \in HeldBy(live, own)
    BY <2>3 DEF HeldBy
  <2> QED
    BY <2>1, <2>2, <2>3
<1>2. S \cap T = {}
  BY DEF HeldBy
<1>3. IsFiniteSet(own[r]) /\ Cardinality(own[r]) \in Nat
  <2>1. IsFiniteSet(own[r])
    BY SyncAssumption, FS_Subset
  <2> QED
    BY <2>1, FS_CardinalityType
<1>4. IsFiniteSet({r}) /\ Cardinality({r}) = 1
  BY FS_Singleton
<1>5. IsFiniteSet(T) /\ Cardinality(T) = Cardinality(own[r])
  BY <1>3, <1>4, FS_Product
<1>6. IsFiniteSet(S) /\ Cardinality(S) \in Nat
  BY HeldAreFinite
<1> HIDE DEF S, T
<1>7. Cardinality(S \cup T) = Cardinality(S) + Cardinality(T) - Cardinality(S \cap T) /\ Cardinality(S \cap T) = 0
  BY <1>2, <1>5, <1>6, FS_Union, FS_EmptySet
<1>8. Cardinality(S \cup T) = Cardinality(S) + Cardinality(own[r])
  BY <1>3, <1>5, <1>6, <1>7
<1> QED
  BY <1>1, <1>8 DEF S

LEMMA RecordInit == SyncInit => RecordInv
<1> SUFFICES ASSUME SyncInit PROVE RecordInv
  OBVIOUS
<1>1. \A r \in Runners : runs[r].at = "idle"
  BY NoRunAtAll DEF SyncInit
<1>2. Removed = {} /\ Added = {}
  <2>1. \A t \in Runners \X Rows : t[1] \in Runners
    OBVIOUS
  <2> QED
    BY <1>1, <2>1 DEF Removed, Added
<1>3. Cardinality(Removed) = 0 /\ Cardinality(Added) = 0
  BY <1>2, FS_EmptySet
<1>4. recorded = 0 /\ changes = 0
  BY DEF SyncInit
<1> QED
  BY <1>3, <1>4, RunsInit DEF RecordInv

LEMMA RecordStep == ASSUME RecordInv, [SyncNext]_syncVars PROVE RecordInv'
<1> DEFINE live == Live
           alive == Live'
           gone == [r \in Runners |-> runs[r].deleted]
           goneAfter == [r \in Runners |-> runs'[r].deleted]
           come == [r \in Runners |-> runs[r].created]
           comeAfter == [r \in Runners |-> runs'[r].created]
           R == Cardinality(HeldBy(live, gone))
           RAfter == Cardinality(HeldBy(alive, goneAfter))
           A == Cardinality(HeldBy(live, come))
           AAfter == Cardinality(HeldBy(alive, comeAfter))
<1>1. RunsRight /\ RunsRight' /\ excused \subseteq excused' /\ recorded \in Nat /\ changes \in Nat
  BY RunsStep, ExcusedGrow DEF RecordInv
<1>2. "unrecorded" \in excused \/ changes = recorded + R + A
  BY HeldAre DEF RecordInv
<1>3. Cardinality(Removed') = RAfter /\ Cardinality(Added') = AAfter
  <2>1. \A t \in Runners \X Rows : t[1] \in Runners
    OBVIOUS
  <2>2. Removed' = HeldBy(alive, goneAfter) /\ Added' = HeldBy(alive, comeAfter)
    BY <2>1 DEF Removed, Added, HeldBy, Live
  <2> QED
    BY <2>2
<1>4. R \in Nat /\ RAfter \in Nat /\ A \in Nat /\ AAfter \in Nat
  BY HeldAreFinite
<1>5. \A r \in Runners : /\ r \in live <=> runs[r].at # "idle"
                         /\ r \in alive <=> runs'[r].at # "idle"
                         /\ gone[r] = runs[r].deleted /\ goneAfter[r] = runs'[r].deleted
                         /\ come[r] = runs[r].created /\ comeAfter[r] = runs'[r].created
  BY DEF Live
<1>6. \A r \in Runners : runs[r].deleted \subseteq Rows /\ runs[r].created \subseteq Rows /\ runs[r].candidates \subseteq Rows
  BY <1>1 DEF RunsRight, SyncTyped, Run
<1>7. ASSUME recorded' \in Nat, changes' \in Nat, "unrecorded" \in excused \/ changes' = recorded' + RAfter + AAfter
                                                     \/ "unrecorded" \in excused'
      PROVE  RecordInv'
  BY <1>1, <1>3, <1>7 DEF RecordInv
<1> HIDE DEF live, alive, gone, goneAfter, come, comeAfter
<1>8. CASE SameRuns
  <2>1. R = RAfter /\ A = AAfter
    BY <1>5, <1>8, HeldAgain DEF SameRuns, SameRun
  <2>2. UNCHANGED <<changes, recorded>>
    BY <1>8 DEF SameRuns
  <2> HIDE DEF R, RAfter, A, AAfter
  <2> QED
    BY <1>1, <1>2, <1>7, <2>1, <2>2
<1>9. ASSUME NEW r \in Runners, StartsAt(r) PROVE RecordInv'
  <2>1. R = RAfter /\ A = AAfter
    <3>1. HeldBy(live, gone) = HeldBy(alive, goneAfter) /\ HeldBy(live, come) = HeldBy(alive, comeAfter)
      BY <1>5, <1>9 DEF StartsAt, HeldBy
    <3> QED
      BY <3>1
  <2>2. UNCHANGED <<changes, recorded>>
    BY <1>9 DEF StartsAt
  <2> HIDE DEF R, RAfter, A, AAfter
  <2> QED
    BY <1>1, <1>2, <1>7, <2>1, <2>2
<1>10. ASSUME NEW r \in Runners, Before(r), runs'[r].at # "idle", Rests(r) PROVE RecordInv'
  <2>1. R = RAfter /\ A = AAfter
    BY <1>5, <1>10, HeldAgain DEF Before, Rests
  <2>2. UNCHANGED <<changes, recorded>>
    BY <1>10 DEF Rests
  <2> HIDE DEF R, RAfter, A, AAfter
  <2> QED
    BY <1>1, <1>2, <1>7, <2>1, <2>2
<1>11. ASSUME NEW r \in Runners, CreatesAt(r) PROVE RecordInv'
  <2>1. R = RAfter
    BY <1>5, <1>11, HeldAgain DEF Before, CreatesAt
  <2>2. PICK a \in Rows \ runs[r].created : runs'[r].created = runs[r].created \cup {a}
    BY <1>11 DEF CreatesAt
  <2>3. AAfter = A + 1
    <3>1. r \in live /\ (\A q \in Runners : q \in live <=> q \in alive) /\ (\A q \in Runners : q # r => comeAfter[q] = come[q])
          /\ a \in Rows \ come[r] /\ comeAfter[r] = come[r] \cup {a}
      BY <1>5, <1>11, <2>2 DEF CreatesAt, Before
    <3> QED
      BY <3>1, OneMoreHeld
  <2>4. changes' = changes + 1 /\ UNCHANGED recorded
    BY <1>11 DEF CreatesAt
  <2> HIDE DEF R, RAfter, A, AAfter
  <2> QED
    BY <1>1, <1>2, <1>4, <1>7, <2>1, <2>3, <2>4
<1>12. ASSUME NEW r \in Runners, DeletesAt(r) PROVE RecordInv'
  <2>1. A = AAfter
    BY <1>5, <1>12, HeldAgain DEF Before, DeletesAt
  <2>2. PICK a \in runs[r].candidates \ runs[r].deleted : runs'[r].deleted = runs[r].deleted \cup {a}
    BY <1>12 DEF DeletesAt
  <2>3. RAfter = R + 1
    <3>1. r \in live /\ (\A q \in Runners : q \in live <=> q \in alive) /\ (\A q \in Runners : q # r => goneAfter[q] = gone[q])
          /\ a \in Rows \ gone[r] /\ goneAfter[r] = gone[r] \cup {a}
      BY <1>5, <1>6, <1>12, <2>2 DEF DeletesAt, Before
    <3> QED
      BY <3>1, OneMoreHeld
  <2>4. changes' = changes + 1 /\ UNCHANGED recorded
    BY <1>12 DEF DeletesAt
  <2> HIDE DEF R, RAfter, A, AAfter
  <2> QED
    BY <1>1, <1>2, <1>4, <1>7, <2>1, <2>3, <2>4
<1>13. ASSUME NEW r \in Runners, RecordsAt(r) PROVE RecordInv'
  <2> DEFINE d == Cardinality(runs[r].deleted)
             c == Cardinality(runs[r].created)
  <2>1. r \in live /\ r \notin alive /\ \A q \in Runners : q # r => /\ goneAfter[q] = gone[q] /\ comeAfter[q] = come[q]
                                                                  /\ (q \in live <=> q \in alive)
    BY <1>5, <1>13 DEF RecordsAt, Before
  <2>2. gone[r] = runs[r].deleted /\ come[r] = runs[r].created
    BY <1>5
  <2>3. R = RAfter + d
    BY <1>6, <2>1, <2>2, OneLessLive
  <2>4. A = AAfter + c
    BY <1>6, <2>1, <2>2, OneLessLive
  <2>5. d \in Nat /\ c \in Nat
    <3>1. IsFiniteSet(runs[r].deleted) /\ IsFiniteSet(runs[r].created)
      BY <1>6, SyncAssumption, FS_Subset
    <3> QED
      BY <3>1, FS_CardinalityType
  <2>6. changes' = changes /\ (recorded' = recorded + (d + c) \/ (recorded' = recorded /\ "unrecorded" \in excused'))
    BY <1>13 DEF RecordsAt, Changed
  <2> HIDE DEF R, RAfter, A, AAfter, d, c
  <2> QED
    BY <1>1, <1>2, <1>4, <1>7, <2>3, <2>4, <2>5, <2>6
<1> QED
  BY <1>1, <1>8, <1>9, <1>10, <1>11, <1>12, <1>13, RunsMove
LEMMA RecordInvariant == SyncSpec => []RecordInv
BY RecordInit, RecordStep, PTL DEF SyncSpec

-----------------------------------------------------------------------------
(* Nobody gets a second account.                                           *)

\* A run reads the list once, decides once, and then only works off what is missing.
ListsOn(r) ==
  runs'[r].at \in {"read", "create"} =>
    \/ runs[r].at \in {"read", "create"} /\ runs'[r].listing = runs[r].listing
    \/ runs'[r].listing = listed
WorksOff(r) ==
  runs'[r].at = "create" =>
    \/ runs[r].at = "create" /\ runs'[r].todo \subseteq runs[r].todo
    \/ runs'[r].todo = missing(runs[r].listing) /\ runs'[r].listing = runs[r].listing /\ UNCHANGED members
OnlyOne(r, x) == runs' = [runs EXCEPT ![r] = x]
LEMMA AllListOn ==
  ASSUME SyncTyped, NEW r \in Runners, NEW x, OnlyOne(r, x),
         x.at \in {"read", "create"} => \/ runs[r].at \in {"read", "create"} /\ x.listing = runs[r].listing
                                        \/ x.listing = listed,
         x.at = "create" => \/ runs[r].at = "create" /\ x.todo \subseteq runs[r].todo
                            \/ x.todo = missing(runs[r].listing) /\ x.listing = runs[r].listing /\ UNCHANGED members
  PROVE  \A q \in Runners : ListsOn(q) /\ WorksOff(q)
<1>1. runs'[r] = x /\ \A q \in Runners : q # r => runs'[q] = runs[q]
  BY DEF SyncTyped, OnlyOne
<1> QED
  BY <1>1 DEF ListsOn, WorksOff

LEMMA RunsListOn ==
  ASSUME RunsRight, [SyncNext]_syncVars
  PROVE  \A r \in Runners : ListsOn(r) /\ WorksOff(r)
<1>1. SyncTyped /\ runs \in [Runners -> Run]
  BY DEF RunsRight, SyncTyped
<1>2. CASE UNCHANGED runs
  BY <1>2 DEF ListsOn, WorksOff
<1>3. ASSUME NEW r \in Runners, NEW said, Ended(r, said) PROVE \A q \in Runners : ListsOn(q) /\ WorksOff(q)
  <2> DEFINE x == [runs[r] EXCEPT !.at = "record", !.answer = said]
  <2>1. x.at = "record"
    BY <1>1 DEF Run
  <2>2. OnlyOne(r, x)
    BY <1>3 DEF Ended, OnlyOne
  <2> HIDE DEF x
  <2> QED
    BY <1>1, <2>1, <2>2, AllListOn
<1>4. ASSUME NEW r \in Runners, NEW failed, stoppedPartWay(r, failed) PROVE \A q \in Runners : ListsOn(q) /\ WorksOff(q)
  <2> DEFINE x == [runs[r] EXCEPT !.at = "record", !.answer = "stopped", !.failed = failed]
  <2>1. x.at = "record"
    BY <1>1 DEF Run
  <2>2. OnlyOne(r, x)
    BY <1>4 DEF stoppedPartWay, OnlyOne
  <2> HIDE DEF x
  <2> QED
    BY <1>1, <2>1, <2>2, AllListOn
<1>5. ASSUME NEW r \in Runners, NEW kind, StartRun(r, kind) PROVE \A q \in Runners : ListsOn(q) /\ WorksOff(q)
  <2>1. PICK x : OnlyOne(r, x) /\
          \/ x = [NoRun EXCEPT !.at = "list", !.kind = kind, !.agreed = IF kind = "confirmed" THEN shown ELSE {}]
          \/ x = [NoRun EXCEPT !.answer = "busy"]
    BY <1>5 DEF StartRun, OnlyOne
  <2>2. x.at \notin {"read", "create"}
    BY <2>1 DEF NoRun
  <2> QED
    BY <1>1, <2>1, <2>2, AllListOn
<1>6. ASSUME NEW r \in Runners, ListUsers(r) PROVE \A q \in Runners : ListsOn(q) /\ WorksOff(q)
  <2>1. CASE runs' = [runs EXCEPT ![r].at = "read", ![r].listing = listed]
    <3> DEFINE x == [runs[r] EXCEPT !.at = "read", !.listing = listed]
    <3>1. x.at = "read" /\ x.listing = listed
      BY <1>1 DEF Run
    <3>2. OnlyOne(r, x)
      BY <1>1, <2>1 DEF OnlyOne
    <3> HIDE DEF x
    <3> QED
      BY <1>1, <3>1, <3>2, AllListOn
  <2> QED
    BY <1>3, <1>6, <2>1 DEF ListUsers, FaultOr
<1>7. ASSUME NEW r \in Runners, ReadAccounts(r) PROVE \A q \in Runners : ListsOn(q) /\ WorksOff(q)
  <2>1. UNCHANGED members /\ runs[r].at = "read"
    BY <1>7 DEF ReadAccounts
  <2>2. ASSUME NEW gone, NEW of,
               runs' = [runs EXCEPT ![r].at = "create", ![r].candidates = gone, ![r].of = of,
                                    ![r].todo = missing(runs[r].listing)]
        PROVE  \A q \in Runners : ListsOn(q) /\ WorksOff(q)
    <3> DEFINE x == [runs[r] EXCEPT !.at = "create", !.candidates = gone, !.of = of, !.todo = missing(runs[r].listing)]
    <3>1. x.at = "create" /\ x.listing = runs[r].listing /\ x.todo = missing(runs[r].listing)
      BY <1>1 DEF Run
    <3>2. OnlyOne(r, x)
      BY <1>1, <2>2 DEF OnlyOne
    <3> HIDE DEF x
    <3> QED
      BY <1>1, <2>1, <3>1, <3>2, AllListOn
  <2>3. \/ \E said : Ended(r, said)
        \/ runs' = [runs EXCEPT ![r].at = "create", ![r].candidates = candidates(runs[r].listing),
                                ![r].of = Cardinality(External), ![r].todo = missing(runs[r].listing)]
    BY <1>7 DEF ReadAccounts, FaultOr
  <2> QED
    BY <1>3, <2>2, <2>3
<1>8. ASSUME NEW r \in Runners, createMissing(r) PROVE \A q \in Runners : ListsOn(q) /\ WorksOff(q)
  <2>1. ASSUME NEW e, runs' = [runs EXCEPT ![r] = [runs[r] EXCEPT !.todo = runs[r].todo \ {e}, !.created = runs[r].created \cup {FreeRow}]]
        PROVE  \A q \in Runners : ListsOn(q) /\ WorksOff(q)
    <3> DEFINE x == [runs[r] EXCEPT !.todo = runs[r].todo \ {e}, !.created = runs[r].created \cup {FreeRow}]
    <3>1. x.at = runs[r].at /\ x.listing = runs[r].listing /\ x.todo = runs[r].todo \ {e}
      BY <1>1 DEF Run
    <3>2. OnlyOne(r, x)
      BY <2>1 DEF OnlyOne
    <3> HIDE DEF x
    <3> QED
      BY <1>1, <3>1, <3>2, AllListOn
  <2> QED
    BY <1>4, <1>8, <2>1, CreateWhole
<1>9. ASSUME NEW r \in Runners, PurgeUser(r) PROVE \A q \in Runners : ListsOn(q) /\ WorksOff(q)
  <2>1. ASSUME NEW a, runs' = [runs EXCEPT ![r] = [runs[r] EXCEPT !.deleted = runs[r].deleted \cup {a}]]
        PROVE  \A q \in Runners : ListsOn(q) /\ WorksOff(q)
    <3> DEFINE x == [runs[r] EXCEPT !.deleted = runs[r].deleted \cup {a}]
    <3>1. x.at = runs[r].at /\ x.listing = runs[r].listing /\ x.todo = runs[r].todo
      BY <1>1 DEF Run
    <3>2. OnlyOne(r, x)
      BY <2>1 DEF OnlyOne
    <3> HIDE DEF x
    <3> QED
      BY <1>1, <3>1, <3>2, AllListOn
  <2> QED
    BY <1>4, <1>9, <2>1, PurgeWhole
<1>10. ASSUME NEW r \in Runners, record(r) PROVE \A q \in Runners : ListsOn(q) /\ WorksOff(q)
  <2>1. runs'[r].at = "idle" /\ \A q \in Runners : q # r => runs'[q] = runs[q]
    <3>1. runs' = [runs EXCEPT ![r].at = "idle"] \/ runs' = [runs EXCEPT ![r].at = "idle", ![r].answer = "unrecorded"]
      BY <1>10 DEF record, FaultOr
    <3>2. CASE runs' = [runs EXCEPT ![r].at = "idle"]
      BY <1>1, <3>2 DEF Run
    <3>3. CASE runs' = [runs EXCEPT ![r].at = "idle", ![r].answer = "unrecorded"]
      BY <1>1, <3>3 DEF Run
    <3> QED
      BY <3>1, <3>2, <3>3
  <2> QED
    BY <2>1 DEF ListsOn, WorksOff
<1>11. ASSUME reconcileExternal PROVE \A q \in Runners : ListsOn(q) /\ WorksOff(q)
  <2>1. arrival.row \in Rows
    BY <1>1, <1>11, ReconcileWhole DEF SyncTyped
  <2>2. UNCHANGED runs \/ runs' = [r \in Runners |-> IF runs[r].at = "create" /\ arrival.row \in runs[r].candidates
                                          THEN [runs[r] EXCEPT !.since = @ \cup {arrival.row}] ELSE runs[r]]
    BY <1>1, <1>11, ReconcileWhole
  <2>3. CASE runs' = [r \in Runners |-> IF runs[r].at = "create" /\ arrival.row \in runs[r].candidates
                                          THEN [runs[r] EXCEPT !.since = @ \cup {arrival.row}] ELSE runs[r]]
    <3>1. \A q \in Runners : SameRun(runs[q], runs'[q])
      BY <1>1, <2>1, <2>3, Told
    <3> QED
      BY <3>1 DEF SameRun, ListsOn, WorksOff
  <2> QED
    BY <1>2, <2>2, <2>3
<1>12. ASSUME \/ UNCHANGED syncVars \/ ByID \/ ByMail \/ SaveArrival
              \/ (\E p \in Entrants : SignIn(p) \/ DirectoryMoves(p))
              \/ (\E attribute \in Attributes : SaveLDAP(attribute)) \/ ForgetExternalIDs \/ StoreLDAP \/ Configure
       PROVE  UNCHANGED runs
  BY <1>12
     DEF syncVars, ByID, ByMail, SaveArrival, SignIn, DirectoryMoves, SaveLDAP, ForgetExternalIDs, StoreLDAP, Configure
<1>13. ASSUME NEW r \in Runners, Complete(r) PROVE \A q \in Runners : ListsOn(q) /\ WorksOff(q)
  BY <1>3, <1>13 DEF Complete
<1> QED
  BY <1>2, <1>5, <1>6, <1>7, <1>8, <1>9, <1>10, <1>11, <1>12, <1>13 DEF SyncNext

\* Where a sign-in stands after a step.
SamePerson == arrival'.who = arrival.who /\ arrival'.id = arrival.id /\ arrival'.mail = arrival.mail
ArrivesAnew ==
  \E p \in Entrants : arrival'.at = "id" /\ arrival'.who = p /\ arrival'.id = stableID(p, readBy) /\ arrival'.mail = directory[p].mail
LEMMA ArrivalStep ==
  ASSUME RunsRight, [SyncNext]_syncVars
  PROVE  \/ UNCHANGED arrival \/ arrival'.at = "idle"
         \/ ArrivesAnew /\ UNCHANGED <<members, directory>>
         \/ /\ SamePerson /\ arrival.at # "idle" /\ UNCHANGED <<members, directory>>
            /\ \/ arrival'.at = "mail" /\ ~\E a \in Rows : Exists(a) /\ arrival.id # 0 /\ members[a].id = arrival.id
               \/ /\ arrival'.at = "reconcile" /\ arrival'.row \in Rows /\ Exists(arrival'.row)
                  /\ members[arrival'.row].id = arrival.id /\ arrival.id # 0
               \/ /\ arrival.at = "mail" /\ arrival'.at = "reconcile" /\ arrival'.row \in Rows /\ Exists(arrival'.row)
                  /\ members[arrival'.row].mail = arrival.mail
               \/ arrival.at = "mail" /\ arrival'.at = "save"
<1>1. SyncTyped
  BY DEF RunsRight
<1>2. ASSUME NEW p \in Entrants, SignIn(p) PROVE ArrivesAnew /\ UNCHANGED <<members, directory>>
  <2>1. arrival' = [NoArrival EXCEPT !.at = "id", !.who = p, !.id = stableID(p, readBy), !.mail = directory[p].mail]
    BY <1>2 DEF SignIn
  <2>2. arrival'.at = "id" /\ arrival'.who = p /\ arrival'.id = stableID(p, readBy) /\ arrival'.mail = directory[p].mail
    BY <2>1 DEF NoArrival
  <2> QED
    BY <1>2, <2>2 DEF SignIn, ArrivesAnew
<1>3. ASSUME ByID
      PROVE  \/ arrival'.at = "idle"
             \/ /\ SamePerson /\ arrival.at # "idle" /\ UNCHANGED <<members, directory>>
                /\ \/ arrival'.at = "mail" /\ ~\E a \in Rows : Exists(a) /\ arrival.id # 0 /\ members[a].id = arrival.id
                   \/ /\ arrival'.at = "reconcile" /\ arrival'.row \in Rows /\ Exists(arrival'.row)
                      /\ members[arrival'.row].id = arrival.id /\ arrival.id # 0
  <2>1. arrival.at # "idle" /\ UNCHANGED <<members, directory>>
    BY <1>3 DEF ByID
  <2>2. CASE arrival' = NoArrival
    BY <2>2, RefusedTyped
  <2>3. ASSUME NEW a \in Rows, Exists(a), members[a].id = arrival.id, arrival.id # 0,
               arrival' = [arrival EXCEPT !.at = "reconcile", !.row = a]
        PROVE  /\ SamePerson /\ arrival'.at = "reconcile" /\ arrival'.row \in Rows /\ Exists(arrival'.row)
               /\ members[arrival'.row].id = arrival.id /\ arrival.id # 0
    BY <1>1, <2>1, <2>3, ArrivalFinds DEF SamePerson
  <2>4. ASSUME arrival' = [arrival EXCEPT !.at = "mail"] PROVE SamePerson /\ arrival'.at = "mail"
    BY <1>1, <2>1, <2>4, ArrivalMoves DEF SamePerson
  <2> QED
    BY <1>3, <2>1, <2>2, <2>3, <2>4, ByIDWhole
<1>4. ASSUME ByMail
      PROVE  \/ arrival'.at = "idle"
             \/ /\ SamePerson /\ arrival.at # "idle" /\ UNCHANGED <<members, directory>>
                /\ \/ /\ arrival.at = "mail" /\ arrival'.at = "reconcile" /\ arrival'.row \in Rows /\ Exists(arrival'.row)
                      /\ members[arrival'.row].mail = arrival.mail
                   \/ arrival.at = "mail" /\ arrival'.at = "save"
  <2>1. arrival.at = "mail" /\ UNCHANGED <<members, directory>>
    BY <1>4 DEF ByMail
  <2>2. CASE arrival' = NoArrival
    BY <2>2, RefusedTyped
  <2>3. ASSUME NEW a \in Rows, Exists(a), members[a].mail = arrival.mail,
               arrival' = [arrival EXCEPT !.at = "reconcile", !.row = a]
        PROVE  /\ SamePerson /\ arrival'.at = "reconcile" /\ arrival'.row \in Rows /\ Exists(arrival'.row)
               /\ members[arrival'.row].mail = arrival.mail
    BY <1>1, <2>1, <2>3, ArrivalFinds DEF SamePerson
  <2>4. ASSUME arrival' = [arrival EXCEPT !.at = "save"] PROVE SamePerson /\ arrival'.at = "save"
    BY <1>1, <2>1, <2>4, ArrivalMoves DEF SamePerson
  <2> QED
    BY <1>4, <2>1, <2>2, <2>3, <2>4, ByMailWhole
<1>5. ASSUME SaveArrival \/ reconcileExternal PROVE arrival'.at = "idle"
  BY <1>5, RefusedTyped DEF SaveArrival, reconcileExternal, Refuse
<1>6. ASSUME \/ UNCHANGED syncVars \/ (\E p \in Entrants : DirectoryMoves(p))
             \/ (\E attribute \in Attributes : SaveLDAP(attribute)) \/ ForgetExternalIDs \/ StoreLDAP \/ Configure
             \/ (\E r \in Runners : \/ \E kind \in {"preview", "sync", "confirmed"} : StartRun(r, kind)
                                    \/ ListUsers(r) \/ ReadAccounts(r) \/ createMissing(r) \/ PurgeUser(r)
                                    \/ Complete(r) \/ record(r))
      PROVE  UNCHANGED arrival
  BY <1>6
     DEF syncVars, DirectoryMoves, SaveLDAP, ForgetExternalIDs, StoreLDAP, Configure, StartRun, ListUsers, ReadAccounts,
     createMissing, PurgeUser, Complete, record
<1> QED
  BY <1>2, <1>3, <1>4, <1>5, <1>6 DEF SyncNext

LEMMA DirectoryStep ==
  ASSUME RunsRight, [SyncNext]_syncVars
  PROVE  UNCHANGED directory \/ (UNCHANGED <<members, runs, arrival>> /\ ("moved" \in excused' \/ ~InFlight))
<1>1. ASSUME NEW p \in Entrants, DirectoryMoves(p)
      PROVE  UNCHANGED <<members, runs, arrival>> /\ ("moved" \in excused' \/ ~InFlight)
  BY <1>1 DEF DirectoryMoves
<1>2. ASSUME \/ UNCHANGED syncVars \/ ByID \/ ByMail \/ SaveArrival \/ reconcileExternal
             \/ (\E p \in Entrants : SignIn(p))
             \/ (\E attribute \in Attributes : SaveLDAP(attribute)) \/ ForgetExternalIDs \/ StoreLDAP \/ Configure
             \/ (\E r \in Runners : \/ \E kind \in {"preview", "sync", "confirmed"} : StartRun(r, kind)
                                    \/ ListUsers(r) \/ ReadAccounts(r) \/ createMissing(r) \/ PurgeUser(r)
                                    \/ Complete(r) \/ record(r))
      PROVE  UNCHANGED directory
  BY <1>2
     DEF syncVars, ByID, ByMail, SaveArrival, reconcileExternal, SignIn, SaveLDAP, ForgetExternalIDs, StoreLDAP, Configure,
     StartRun, ListUsers, ReadAccounts, createMissing, PurgeUser, Complete, record
<1> QED
  BY <1>1, <1>2 DEF SyncNext

LEMMA ArrivalAtStep ==
  ASSUME RunsRight, ArrivalAt, [SyncNext]_syncVars
  PROVE  ArrivalAt'
<1>1. SyncTyped
  BY DEF RunsRight
<1>2. CASE ArrivesAnew \/ arrival'.at = "idle"
  BY <1>2 DEF ArrivalAt, ArrivesAnew
<1>3. CASE /\ SamePerson /\ UNCHANGED members
           /\ \/ arrival'.at = "mail"
              \/ /\ arrival'.at = "reconcile" /\ arrival'.row \in Rows /\ Exists(arrival'.row) /\ arrival.id # 0
              \/ /\ arrival'.at = "reconcile" /\ arrival'.row \in Rows /\ Exists(arrival'.row)
                 /\ members[arrival'.row].mail = arrival.mail
              \/ arrival'.at = "save"
  BY <1>3 DEF ArrivalAt, SamePerson, Exists
<1>4. ASSUME UNCHANGED arrival, arrival.at = "reconcile" PROVE ArrivalAt'
  <2>1. arrival.row \in Rows /\ members[arrival.row].state # "none"
    BY <1>4 DEF ArrivalAt
  <2>2. members'[arrival.row].state # "none" /\ members'[arrival.row].mail = members[arrival.row].mail
    <3>1. ASSUME NEW e, RoomLeft, members' = [members EXCEPT ![FreeRow] = Arrived(e)],
                 [who |-> e.who, id |-> e.id, mail |-> e.mail] \in Entry
          PROVE  members'[arrival.row] = members[arrival.row]
      <4>1. FreeRow # arrival.row
        BY <1>1, <2>1, <3>1, FreeRowIsFree
      <4> QED
        BY <1>1, <2>1, <3>1, <4>1 DEF SyncTyped
    <3>2. ~reconcileExternal
      BY <1>4, RefusedTyped DEF reconcileExternal, Refuse
    <3>3. ASSUME NEW b \in Rows, Exists(b), members' = [members EXCEPT ![b] = [members[b] EXCEPT !.state = "gone"]]
          PROVE  members'[arrival.row].state # "none" /\ members'[arrival.row].mail = members[arrival.row].mail
      BY <2>1, <3>3, PurgedRow
    <3>4. ASSUME members' = [b \in Rows |-> [members[b] EXCEPT !.id = 0]]
          PROVE  members'[arrival.row].state # "none" /\ members'[arrival.row].mail = members[arrival.row].mail
      BY <1>1, <2>1, <3>4, ForgottenRows
    <3> QED
      BY <2>1, <3>1, <3>2, <3>3, <3>4, AccountsStep
  <2> QED
    BY <1>4, <2>1, <2>2 DEF ArrivalAt
<1>5. ASSUME UNCHANGED arrival, arrival.at # "reconcile" PROVE ArrivalAt'
  BY <1>5 DEF ArrivalAt
<1> QED
  BY <1>2, <1>3, <1>4, <1>5, ArrivalStep

\* Whose identifier an entry of the directory has.
Current(y) == FromDirectory(y) /\ y.mail = directory[y.who].mail
LEMMA ListedAreCurrent == ASSUME RunsRight, NEW e \in listed PROVE Current(e)
<1>1. PICK p \in Entrants : e = [who |-> p, id |-> stableID(p, readBy), mail |-> directory[p].mail]
  BY DEF listed
<1>2. e.who = p /\ e.id = stableID(p, readBy) /\ e.mail = directory[p].mail
  BY <1>1
<1>3. readBy \in Attributes \cup {0}
  BY DEF RunsRight, SyncTyped
<1> QED
  BY <1>2, <1>3 DEF Current, FromDirectory

LEMMA AsListedStep ==
  ASSUME RunsRight, AsListed, [SyncNext]_syncVars, UNCHANGED directory
  PROVE  AsListed'
<1>1. ASSUME NEW r \in Runners, runs'[r].at \in {"read", "create"}, NEW e \in runs'[r].listing
      PROVE  FromDirectory(e) /\ e.mail = directory[e.who].mail
  <2>1. CASE runs[r].at \in {"read", "create"} /\ runs'[r].listing = runs[r].listing
    BY <1>1, <2>1 DEF AsListed
  <2>2. CASE runs'[r].listing = listed
    BY <1>1, <2>2, ListedAreCurrent DEF Current
  <2> QED
    BY <1>1, <2>1, <2>2, RunsListOn DEF ListsOn
<1>2. ASSUME arrival'.at # "idle" PROVE FromDirectory(arrival') /\ arrival'.mail = directory[arrival'.who].mail
  <2>1. CASE UNCHANGED arrival
    BY <1>2, <2>1 DEF AsListed
  <2>2. CASE SamePerson /\ arrival.at # "idle"
    BY <2>2 DEF AsListed, SamePerson, FromDirectory
  <2>3. CASE ArrivesAnew
    <3>1. PICK p \in Entrants : arrival'.who = p /\ arrival'.id = stableID(p, readBy) /\ arrival'.mail = directory[p].mail
      BY <2>3 DEF ArrivesAnew
    <3>2. readBy \in Attributes \cup {0}
      BY DEF RunsRight, SyncTyped
    <3> QED
      BY <3>1, <3>2 DEF FromDirectory
  <2> QED
    BY <1>2, <2>1, <2>2, <2>3, ArrivalStep
<1>3. (\A r \in Runners : runs[r].at \in {"read", "create"} =>
         \A e \in runs[r].listing : FromDirectory(e) /\ e.mail = directory[e.who].mail)'
  BY <1>1
<1>4. (arrival.at # "idle" => FromDirectory(arrival) /\ arrival.mail = directory[arrival.who].mail)'
  BY <1>2
<1> QED
  BY <1>3, <1>4 DEF AsListed

\* Writing one account under the identifier and the address of somebody the directory holds.
Writes(c, x) ==
  /\ c \in Rows /\ \A b \in Rows : b # c => members'[b] = members[b]
  /\ Current(x) /\ members'[c].id = x.id /\ members'[c].mail = x.mail
  /\ ~\E b \in Rows \ {c} : Exists(b) /\ members[b].mail = x.mail
LEMMA WrittenOnce ==
  ASSUME OneEach, NEW c, NEW x, Writes(c, x),
         \A b \in Rows : Exists(b) /\ b # c /\ members[b].id = x.id /\ x.id # 0 => members[b].mail = x.mail
  PROVE  OneEach'
<1>1. ASSUME NEW a \in Rows, NEW b \in Rows, Exists(a)', Exists(b)', members'[a].id = members'[b].id, members'[a].id # 0, a # b
      PROVE  FALSE
  <2>1. CASE a # c /\ b # c
    BY <1>1, <2>1 DEF OneEach, Exists, Writes
  <2>2. CASE a = c
    BY <1>1, <2>2 DEF Exists, Writes
  <2>3. CASE b = c
    BY <1>1, <2>3 DEF Exists, Writes
  <2> QED
    BY <2>1, <2>2, <2>3
<1> QED
  BY <1>1 DEF OneEach
LEMMA WrittenAgrees ==
  ASSUME NEW c, NEW x, Writes(c, x), NEW y, Current(y), y.id # 0, NEW b \in Rows, Exists(b)', members'[b].id = y.id,
         b # c => (Exists(b) /\ members[b].id = y.id => members[b].mail = y.mail)
  PROVE  members'[b].mail = y.mail
<1>1. CASE b = c
  <2>1. x.who = y.who
    <3>1. FromDirectory(x) /\ FromDirectory(y) /\ x.id = y.id
      BY <1>1 DEF Current, Writes
    <3> QED
      BY <3>1, IdentifiersDiffer
  <2> QED
    BY <1>1, <2>1 DEF Current, Writes
<1>2. CASE b # c
  BY <1>2 DEF Exists, Writes
<1> QED
  BY <1>1, <1>2

\* Either no identifier is written, or one is for somebody the directory holds.
NoneWritten ==
  \A b \in Rows : Exists(b)' /\ members'[b].id # 0 =>
    Exists(b) /\ members'[b].id = members[b].id /\ members'[b].mail = members[b].mail
Agreed(x, c) == \A b \in Rows : Exists(b) /\ b # c /\ members[b].id = x.id /\ x.id # 0 => members[b].mail = x.mail
LEMMA HowWritten ==
  ASSUME RunsRight, ArrivalAt, AsListed, NotElsewhere, [SyncNext]_syncVars
  PROVE  NoneWritten \/ \E c, x : Writes(c, x) /\ Agreed(x, c)
<1>1. SyncTyped
  BY DEF RunsRight
<1>2. CASE UNCHANGED members
  BY <1>2 DEF NoneWritten, Exists
<1>3. ASSUME NEW e, RoomLeft, ~Used(e.mail), members' = [members EXCEPT ![FreeRow] = Arrived(e)],
             [who |-> e.who, id |-> e.id, mail |-> e.mail] \in Entry,
             \/ \E r \in Runners : createMissing(r) /\ e \in runs[r].todo
             \/ SaveArrival /\ arrival.at = "save" /\ e = arrival
      PROVE  \E c, x : Writes(c, x) /\ Agreed(x, c)
  <2>1. Current(e) /\ \A b \in Rows : Exists(b) /\ members[b].id = e.id /\ e.id # 0 => members[b].mail = e.mail
    <3>1. ASSUME NEW r \in Runners, createMissing(r), e \in runs[r].todo
          PROVE  Current(e) /\ \A b \in Rows : Exists(b) /\ members[b].id = e.id /\ e.id # 0 => members[b].mail = e.mail
      <4>1. runs[r].at = "create" /\ e \in runs[r].listing
        BY <3>1 DEF createMissing, RunsRight, RunRight
      <4> QED
        BY <3>1, <4>1 DEF AsListed, Current, NotElsewhere
    <3>2. CASE arrival.at = "save" /\ e = arrival
      BY <3>2 DEF AsListed, Current, NotElsewhere
    <3> QED
      BY <1>3, <3>1, <3>2
  <2>2. PICK a \in Rows : /\ members'[a] = Arrived(e) /\ Arrived(e).id = e.id /\ Arrived(e).mail = e.mail
                          /\ \A b \in Rows : b # a => members'[b] = members[b]
    BY <1>3, NewRow
  <2>3. Writes(a, e)
    BY <1>3, <2>1, <2>2 DEF Writes, Used
  <2> QED
    BY <2>1, <2>3 DEF Agreed
<1>4. ASSUME reconcileExternal, arrival.row \in Rows, Exists(arrival.row), members' = [members EXCEPT ![arrival.row] = Reconciled]
      PROVE  NoneWritten \/ \E c, x : Writes(c, x) /\ Agreed(x, c)
  <2>1. arrival.at = "reconcile" /\ (UNCHANGED members \/ ~\E b \in Rows \ {arrival.row} : Exists(b) /\ members[b].mail = arrival.mail)
    BY <1>1, <1>4, ReconcileWhole
  <2>2. /\ members'[arrival.row] = Reconciled /\ \A b \in Rows : b # arrival.row => members'[b] = members[b]
        /\ Reconciled.mail = arrival.mail /\ Reconciled.id = (IF arrival.id = 0 THEN members[arrival.row].id ELSE arrival.id)
    BY <1>1, <1>4, <2>1, ReconciledRow DEF SyncTyped
  <2>3. CASE arrival.id = 0
    <3>1. members[arrival.row].mail = arrival.mail
      BY <2>1, <2>3 DEF ArrivalAt
    <3> QED
      BY <1>4, <2>2, <2>3, <3>1 DEF NoneWritten, Exists
  <2>4. CASE arrival.id # 0 /\ ~UNCHANGED members
    <3>1. Current(arrival) /\ Agreed(arrival, arrival.row)
      BY <2>1 DEF AsListed, Current, NotElsewhere, Agreed
    <3>2. Writes(arrival.row, arrival)
      BY <1>4, <2>1, <2>2, <2>4, <3>1 DEF Writes
    <3> QED
      BY <3>1, <3>2
  <2> QED
    BY <1>2, <2>3, <2>4
<1>5. ASSUME NEW a \in Rows, Exists(a), members' = [members EXCEPT ![a] = [members[a] EXCEPT !.state = "gone"]]
      PROVE  NoneWritten
  BY <1>5, PurgedRow DEF NoneWritten
<1>6. CASE members' = [a \in Rows |-> [members[a] EXCEPT !.id = 0]]
  BY <1>1, <1>6, ForgottenRows DEF NoneWritten
<1> QED
  BY <1>2, <1>3, <1>4, <1>5, <1>6, AccountsStep

\* An identifier that was at no account with another address still is not.
LEMMA StillAgrees ==
  ASSUME NoneWritten \/ \E c, x : Writes(c, x), NEW y, Current(y), y.id # 0, NEW b \in Rows, Exists(b)', members'[b].id = y.id,
         Exists(b) /\ members[b].id = y.id => members[b].mail = y.mail
  PROVE  members'[b].mail = y.mail
<1>1. CASE NoneWritten
  BY <1>1 DEF NoneWritten
<1>2. ASSUME NEW c, NEW x, Writes(c, x) PROVE members'[b].mail = y.mail
  BY <1>2, WrittenAgrees
<1> QED
  BY <1>1, <1>2

LEMMA OneEachStep ==
  ASSUME RunsRight, ArrivalAt, AsListed, NotElsewhere, OneEach, [SyncNext]_syncVars
  PROVE  OneEach'
<1>1. CASE NoneWritten
  BY <1>1 DEF NoneWritten, OneEach
<1>2. ASSUME NEW c, NEW x, Writes(c, x), Agreed(x, c) PROVE OneEach'
  BY <1>2, WrittenOnce DEF Agreed
<1> QED
  BY <1>1, <1>2, HowWritten

LEMMA NotElsewhereStep ==
  ASSUME RunsRight, ArrivalAt, AsListed, NotElsewhere, OneEach, [SyncNext]_syncVars, UNCHANGED directory
  PROVE  NotElsewhere'
<1>1. NoneWritten \/ \E c, x : Writes(c, x)
  BY HowWritten
<1>2. ASSUME NEW r \in Runners, runs'[r].at = "create", NEW e \in runs'[r].todo, NEW b \in Rows, Exists(b)',
             members'[b].id = e.id, e.id # 0
      PROVE  members'[b].mail = e.mail
  <2>1. CASE runs[r].at = "create" /\ runs'[r].todo \subseteq runs[r].todo
    <3>1. e \in runs[r].todo /\ e \in runs[r].listing
      BY <1>2, <2>1 DEF RunsRight, RunRight
    <3>2. Current(e) /\ (Exists(b) /\ members[b].id = e.id => members[b].mail = e.mail)
      BY <1>2, <2>1, <3>1 DEF AsListed, NotElsewhere, Current
    <3> QED
      BY <1>1, <1>2, <3>2, StillAgrees
  <2>2. CASE runs'[r].todo = missing(runs[r].listing) /\ UNCHANGED members
    <3>1. ~known(e)
      BY <1>2, <2>2 DEF missing
    <3> QED
      BY <1>2, <2>2, <3>1 DEF known, Exists
  <2> QED
    BY <1>2, <2>1, <2>2, RunsListOn DEF WorksOff
<1>3. ASSUME arrival'.at \in {"mail", "save", "reconcile"}, NEW b \in Rows, Exists(b)', members'[b].id = arrival'.id, arrival'.id # 0,
             arrival'.at = "reconcile" => b # arrival'.row
      PROVE  members'[b].mail = arrival'.mail
  <2>1. CASE UNCHANGED arrival
    <3>1. Current(arrival) /\ (Exists(b) /\ members[b].id = arrival.id => members[b].mail = arrival.mail)
      BY <1>3, <2>1 DEF AsListed, NotElsewhere, Current
    <3> QED
      BY <1>1, <1>3, <2>1, <3>1, StillAgrees
  <2>2. CASE SamePerson /\ UNCHANGED members /\ ~\E a \in Rows : Exists(a) /\ arrival.id # 0 /\ members[a].id = arrival.id
    BY <1>3, <2>2 DEF SamePerson, Exists
  <2>3. CASE /\ SamePerson /\ UNCHANGED members /\ arrival'.at = "reconcile" /\ arrival'.row \in Rows /\ Exists(arrival'.row)
             /\ members[arrival'.row].id = arrival.id
    BY <1>3, <2>3 DEF SamePerson, Exists, OneEach
  <2>4. CASE SamePerson /\ UNCHANGED members /\ arrival.at = "mail"
    BY <1>3, <2>4 DEF SamePerson, Exists, NotElsewhere
  <2>5. CASE ArrivesAnew
    BY <1>3, <2>5 DEF ArrivesAnew
  <2> QED
    BY <1>3, <2>1, <2>2, <2>3, <2>4, <2>5, ArrivalStep
<1>4. (\A r \in Runners : runs[r].at = "create" =>
         \A e \in runs[r].todo, b \in Rows :
           Exists(b) /\ members[b].id = e.id /\ e.id # 0 => members[b].mail = e.mail)'
  BY <1>2
<1>5. (arrival.at \in {"mail", "save", "reconcile"} =>
         \A b \in Rows : /\ Exists(b) /\ members[b].id = arrival.id /\ arrival.id # 0
                         /\ arrival.at = "reconcile" => b # arrival.row
                         => members[b].mail = arrival.mail)'
  BY <1>3
<1> QED
  BY <1>4, <1>5 DEF NotElsewhere

LEMMA OnceInit == SyncInit => OnceInv
<1> SUFFICES ASSUME SyncInit PROVE OnceInv
  OBVIOUS
<1>1. PICK s \in Starts : members = s.accounts
  BY DEF SyncInit
<1>2. \A a, b \in Rows : s.accounts[a].state = "there" /\ s.accounts[b].state = "there" /\ s.accounts[a].id = s.accounts[b].id
                           => a = b \/ s.accounts[a].id = 0
  BY SyncAssumption
<1>3. OneEach
  BY <1>1, <1>2 DEF OneEach, Exists
<1>4. (\A r \in Runners : runs[r].at = "idle") /\ arrival.at = "idle"
  BY NoRunAtAll, RefusedTyped DEF SyncInit
<1>5. ArrivalAt /\ AsListed /\ NotElsewhere
  BY <1>4 DEF ArrivalAt, AsListed, NotElsewhere
<1> QED
  BY <1>3, <1>5, RunsInit DEF OnceInv

LEMMA OnceStep == ASSUME OnceInv, [SyncNext]_syncVars PROVE OnceInv'
<1>1. RunsRight /\ ArrivalAt /\ RunsRight' /\ ArrivalAt' /\ excused \subseteq excused'
  BY RunsStep, ArrivalAtStep, ExcusedGrow DEF OnceInv
<1>2. ASSUME "moved" \notin excused' PROVE AsListed' /\ NotElsewhere' /\ OneEach'
  <2>1. AsListed /\ NotElsewhere /\ OneEach
    BY <1>1, <1>2 DEF OnceInv
  <2>2. CASE UNCHANGED directory
    BY <1>1, <2>1, <2>2, AsListedStep, NotElsewhereStep, OneEachStep
  <2>3. CASE UNCHANGED <<members, runs, arrival>> /\ ~InFlight
    <3>1. arrival'.at = "idle" /\ \A r \in Runners : runs'[r].at \notin {"read", "create"}
      BY <2>3 DEF InFlight
    <3> QED
      BY <2>1, <2>3, <3>1 DEF AsListed, NotElsewhere, OneEach, Exists
  <2> QED
    BY <1>1, <1>2, <2>2, <2>3, DirectoryStep
<1> QED
  BY <1>1, <1>2 DEF OnceInv
LEMMA OnceInvariant == SyncSpec => []OnceInv
BY OnceInit, OnceStep, PTL DEF SyncSpec

-----------------------------------------------------------------------------
(* A run keeps its word.                                                   *)

\* What a run has deleted is within what was agreed and within the share.
LEMMA WithinAgreed == RunsRight => WithinWhatWasAgreed
<1> SUFFICES ASSUME RunsRight, NEW r \in Runners
             PROVE  /\ runs[r].kind = "confirmed" => runs[r].deleted \subseteq runs[r].agreed
                    /\ limit > 0 => Cardinality(runs[r].deleted) * 100 <= limit * runs[r].of
  BY DEF WithinWhatWasAgreed
<1>1. runs[r] \in Run /\ RunRight(r) /\ limit \in Nat
  BY DEF RunsRight, SyncTyped
<1>2. runs[r].deleted \subseteq runs[r].candidates /\ runs[r].candidates \subseteq Rows /\ runs[r].of \in Nat
  BY <1>1 DEF RunRight, Run
<1>3. IsFiniteSet(runs[r].candidates) /\ IsFiniteSet(runs[r].deleted)
  BY <1>2, SyncAssumption, FS_Subset
<1>4. /\ Cardinality(runs[r].deleted) \in Nat /\ Cardinality(runs[r].candidates) \in Nat
      /\ Cardinality(runs[r].deleted) <= Cardinality(runs[r].candidates)
  BY <1>2, <1>3, FS_Subset, FS_CardinalityType
<1>5. ASSUME limit > 0 PROVE Cardinality(runs[r].deleted) * 100 <= limit * runs[r].of
  <2> DEFINE d == Cardinality(runs[r].deleted)
             c == Cardinality(runs[r].candidates)
  <2>1. d \in Nat /\ c \in Nat /\ d <= c
    BY <1>4
  <2>2. c * 100 <= limit * runs[r].of
    BY <1>1, <1>5 DEF RunRight
  <2>3. limit * runs[r].of \in Nat
    <3>1. \A m, n \in Nat : m * n \in Nat
      OBVIOUS
    <3> QED
      BY <1>1, <1>2, <3>1
  <2> HIDE DEF d, c
  <2>4. d * 100 <= c * 100 /\ d * 100 \in Nat /\ c * 100 \in Nat
    BY <2>1
  <2>5. d * 100 <= limit * runs[r].of
    BY <2>2, <2>3, <2>4
  <2> QED
    BY <2>5 DEF d
<1> QED
  BY <1>1, <1>2, <1>5 DEF RunRight

LEMMA AllOnRecord == RecordInv => RemovalsOnRecord
<1> SUFFICES ASSUME RecordInv, \A r \in Runners : runs[r].at = "idle" PROVE recorded = changes \/ "unrecorded" \in excused
  BY DEF RemovalsOnRecord
<1>1. Removed = {} /\ Added = {}
  <2>1. \A t \in Runners \X Rows : t[1] \in Runners
    OBVIOUS
  <2> QED
    BY <2>1 DEF Removed, Added
<1>2. Cardinality(Removed) = 0 /\ Cardinality(Added) = 0
  BY <1>1, FS_EmptySet
<1> QED
  BY <1>2 DEF RecordInv

\* A run deletes what was agreed, leaves it on record, stops only for a reason, and gives
\* nobody a second account (syncUsers, record, provisionExternal).
THEOREM RunsAreTrue == SyncSpec => []RunsKeepTheirWord
<1>1. RunsRight => StopsForAReason
  BY DEF RunsRight, RunRight, StopsForAReason
<1>2. OnceInv => OneAccountEach
  BY DEF OnceInv, OneEach, OneAccountEach
<1>3. RunsRight /\ RecordInv /\ OnceInv => RunsKeepTheirWord
  BY <1>1, <1>2, WithinAgreed, AllOnRecord DEF RunsKeepTheirWord
<1> QED
  BY <1>3, RunsInvariant, RecordInvariant, OnceInvariant, PTL
=============================================================================
