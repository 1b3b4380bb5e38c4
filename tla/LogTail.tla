------------------------------ MODULE LogTail ------------------------------
(***************************************************************************)
(* What the log promises somebody who follows it: however fast the lines   *)
(* come and however short the memory for them, each line between two       *)
(* answers is either shown or counted as missing, and a process that has   *)
(* been replaced is followed from its first line.                          *)
(***************************************************************************)
EXTENDS Naturals

VARIABLES process,   \* which process writes the log
          written,   \* how many lines it has kept so far
          place,     \* the follower's place: a process, and a line of it
          told       \* lines shown to the follower, or counted as missing

tailVars == <<process, written, place, told>>

TailInit == process = 0 /\ written = 0 /\ place = [process |-> 0, line |-> 0] /\ told = 0

Keep == written' = written + 1 /\ UNCHANGED <<process, place, told>>
Replace == process' = process + 1 /\ written' = 0 /\ UNCHANGED <<place, told>>

\* Somebody without a place yet is shown the end of the log, and follows on from there.
Begin ==
  /\ place.line = 0
  /\ \E n \in 0..written : place' = [process |-> process, line |-> n]
  /\ UNCHANGED <<process, written, told>>
Follow ==
  /\ place.line > 0
  /\ \E n \in 0..written :
       LET from == IF place.process = process THEN place.line ELSE 0
       IN n >= from /\ place' = [process |-> process, line |-> n] /\ told' = told + (n - from)
  /\ UNCHANGED <<process, written>>

TailNext == Keep \/ Replace \/ Begin \/ Follow
TailSpec == TailInit /\ [][TailNext]_tailVars
=============================================================================
