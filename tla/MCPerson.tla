------------------------------ MODULE MCPerson ------------------------------
(***************************************************************************)
(* What one person does for TLC: the account's sessions and passwords, its *)
(* second factor with statements that fail and a server that restarts, and *)
(* the stopwatch. They share no variable, so a behaviour follows one of    *)
(* them and leaves the others where they start.                            *)
(***************************************************************************)
EXTENDS SignIn, MCStopwatch, TLC

VARIABLE part

personVars == <<vars, stopwatchVars, part>>

Factor == INSTANCE SignIn WITH Ops <- {"edit", "begin", "confirm", "disable", "delete"},
                               LastStep <- FirstStep, MayFail <- TRUE

\* Tokens and clocks are told apart by their identity alone, and requests by their slot.
IdSymmetry == Permutations(Tokens) \cup Permutations(Reqs)
                \cup Permutations(Clocks) \cup Permutations(Calls)

\* What a part that rests could start with is not told apart.
PersonInit ==
  /\ part \in {"sessions", "factor", "stopwatch"}
  /\ Init /\ StopwatchInit
  /\ IF part = "stopwatch" THEN account.secret = NoSecret ELSE mode = OneClient

OfTheAccount ==
  /\ (part = "sessions" /\ Next) \/ (part = "factor" /\ Factor!Next)
  /\ UNCHANGED <<stopwatchVars, part>>
OfTheStopwatch == part = "stopwatch" /\ BoundedNext /\ UNCHANGED <<vars, part>>

PersonSpec == PersonInit /\ [][OfTheAccount \/ OfTheStopwatch]_personVars
=============================================================================
