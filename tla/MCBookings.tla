---------------------------- MODULE MCBookings ----------------------------
(***************************************************************************)
(* Bookings for TLC, three times: every operation, one at a time; two that *)
(* overlap on one entry and two projects, for another as well; and two     *)
(* that overlap on the rows others refer to, where the database enforces   *)
(* its references.                                                         *)
(***************************************************************************)
EXTENDS Bookings, TLC

CONSTANTS u1, u2

VARIABLE part

\* Somebody manages nobody, or u1 manages u2.
NobodyManages == {}
FirstManagesSecond == {<<u1, u2>>}

EntryOps == {"create", "update", "transfer", "delete", "project"}
ReferenceOps == {"create", "update", "project", "drop", "clock", "clear", "purge"}

OnEntries == INSTANCE Bookings WITH Hours <- {1}, Limits <- {0}, Manages <- FirstManagesSecond, Ops <- EntryOps
OnReferences == INSTANCE Bookings WITH Hours <- {1}, Limits <- {0}, Manages <- FirstManagesSecond,
                                       EnforceFK <- TRUE, Ops <- ReferenceOps

\* Accounts that stand in no relation may be exchanged, and so may ids.
IdSymmetry == Permutations(Projects) \cup Permutations(Entries) \cup Permutations(Reqs)

\* Bounds on what a behaviour uses of the ids; one account with a limit and a clock of
\* its own, and the clock before there is a second entry; one project for each account,
\* the second's never archived, and one edit of a project at a time.
InFlight == {r \in Reqs : reqs[r] # Idle}
Born == {p \in Projects : projects[p].status # "unborn"}
UsesAtMost(requests, born, entered, versions) ==
  /\ Cardinality(InFlight) <= requests /\ Cardinality(Born) <= born
  /\ Cardinality(issued) <= entered /\ lastRevision <= versions

OneOfThem ==
  /\ limits.personal[u2] = 0 /\ clocks[u2] = Off
  /\ clocks[u1] # Off => Cardinality(issued) <= 1
OneProjectEach ==
  /\ \A p, q \in Born : projects[p].owner = projects[q].owner => p = q
  /\ \A p \in Born : projects[p].owner = u2 => projects[p].status # "archived"
OneProjectEdit == Cardinality({r \in Reqs : reqs[r].op = "project"}) <= 1

PartsInit ==
  \/ part = "one" /\ Init
  \/ part = "entries" /\ OnEntries!Init
  \/ part = "references" /\ OnReferences!Init
PartsNext ==
  /\ UNCHANGED part
  /\ \/ part = "one" /\ InTurn /\ UsesAtMost(1, 1, 2, 1)' /\ OneOfThem'
     \/ part = "entries" /\ OnEntries!Next /\ UsesAtMost(2, 2, 1, 2)' /\ OneProjectEach' /\ OneProjectEdit'
     \/ part = "references" /\ OnReferences!Next /\ UsesAtMost(2, 1, 1, 1)' /\ OneProjectEdit'
PartsSpec == PartsInit /\ [][PartsNext]_<<vars, part>>
ReferencesSpec == part = "references" /\ PartsInit /\ [][PartsNext]_<<vars, part>>

=============================================================================
