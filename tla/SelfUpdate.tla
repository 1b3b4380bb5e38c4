----------------------------- MODULE SelfUpdate -----------------------------
(***************************************************************************)
(* How the server replaces its own binary: selfupdate.Source, the update   *)
(* handler that drives it, the start that clears up after it and the       *)
(* rollback from a shell. Every file operation is a step, so that the      *)
(* machine can stop between any two of them, a second administrator can    *)
(* press the button, and a second copy of the program can be started.      *)
(***************************************************************************)
EXTENDS Naturals

CONSTANTS
  Presses,       \* requests that may apply an update at once
  LastVersion,   \* the newest version that is ever published
  Broken,        \* the published versions that do not run on this machine
  Restartable    \* whether the platform restarts the process from inside

\* The version that is installed, the first, runs.
ASSUME UpdateAssumption == LastVersion \in Nat \ {0} /\ 1 \notin Broken /\ "nobody" \notin Presses

VARIABLES
  files,         \* what is beside the binary: self, .old, .new, .failed
  pendingVersion,       \* the .pending note: a version, or 0
  running,       \* the version of the process, or 0 while nothing runs
  started,       \* every version that has run here
  feed,          \* the newest version the release feed names
  cached,        \* the release the handler remembers, or 0
  installing,    \* the press that holds Source.installing, or Nobody
  banner,        \* what the hub has standing about the update
  presses,       \* the presses in flight
  rollback       \* how far a rollback from a shell has come

updateVars == <<files, pendingVersion, running, started, feed, cached, installing,
                banner, presses, rollback>>

Nobody == "nobody"
Versions == 1 .. LastVersion
Absent == [version |-> 0, whole |-> FALSE]
Binary == [version : 0 .. LastVersion, whole : BOOLEAN]
Kept == {"self", "old", "failed"}
Places == Kept \cup {"new"}
Idle == [stage |-> "idle", release |-> 0]

UpdateTypeOK ==
  /\ files \in [Places -> Binary]
  /\ pendingVersion \in 0 .. LastVersion /\ running \in 0 .. LastVersion
  /\ feed \in Versions /\ cached \in 0 .. LastVersion
  /\ started \subseteq Versions
  /\ installing \in Presses \cup {Nobody}
  /\ banner \in {"none", "installing", "restarting", "pending"}
  /\ presses \in [Presses -> [stage : {"idle", "announced", "locked", "summed", "loading",
                                       "loaded", "checked", "cleared", "aside", "placed",
                                       "installed", "already", "failed"},
                              release : 0 .. LastVersion]]
  /\ rollback \in {"idle", "looked", "aside", "back"}

UpdateInit ==
  /\ files = [f \in Places |-> IF f = "self" THEN [version |-> 1, whole |-> TRUE] ELSE Absent]
  /\ pendingVersion = 0 /\ running = 1 /\ started = {1} /\ feed = 1 /\ cached = 0
  /\ installing = Nobody /\ banner = "none" /\ rollback = "idle"
  /\ presses = [p \in Presses |-> Idle]

-----------------------------------------------------------------------------
There(place) == files[place] # Absent

Whole(version) == [version |-> version, whole |-> TRUE]

\* os.Rename(from, to), where from is there.
Renamed(from, to) == [files EXCEPT ![to] = files[from], ![from] = Absent]

Removed(place) == [files EXCEPT ![place] = Absent]

Newer(have, want) == want > have

\* What the handler takes for the newest release: the remembered answer while it
\* is fresh, and the feed's otherwise. Freshness is a matter of hours.
LatestAnswers == {feed} \cup ({cached} \ {0})

\* The stage a press has come to, all else about it as it was.
At(p, stage) == presses' = [presses EXCEPT ![p].stage = stage]

Done(p) == presses' = [presses EXCEPT ![p] = Idle]

-----------------------------------------------------------------------------
\* The publisher puts a newer release on the feed.
Publish ==
  /\ feed < LastVersion /\ feed' = feed + 1
  /\ UNCHANGED <<files, pendingVersion, running, started, cached, installing, banner, presses, rollback>>

\* An administrator asks the feed by hand: the answer replaces the remembered one.
Check ==
  /\ running # 0 /\ cached # feed /\ cached' = feed
  /\ UNCHANGED <<files, pendingVersion, running, started, feed, installing, banner, presses, rollback>>

\* The checks an update starts with, and the warning to everybody before the download.
Apply(p) ==
  /\ running # 0 /\ presses[p] = Idle
  /\ \E release \in LatestAnswers :
       /\ cached' = release
       /\ Newer(running, release)
       /\ presses' = [presses EXCEPT ![p] = [stage |-> "announced", release |-> release]]
  /\ banner' = "installing"
  /\ UNCHANGED <<files, pendingVersion, running, started, feed, installing, rollback>>

\* installing.TryLock: one at a time, and the second is turned away, its warning left to
\* the install that is under way.
TakeLock(p) ==
  /\ presses[p].stage = "announced"
  /\ \/ installing = Nobody /\ installing' = p /\ At(p, "locked")
     \/ installing # Nobody /\ Done(p) /\ UNCHANGED installing
  /\ UNCHANGED <<files, pendingVersion, running, started, feed, cached, banner, rollback>>

\* Every way out of an install that did not put anything in place: the download goes,
\* the lock is released.
GiveUp(p, left, stage) ==
  /\ files' = [left EXCEPT !["new"] = Absent]
  /\ installing' = Nobody /\ At(p, stage)
  /\ UNCHANGED <<pendingVersion, running, started, feed, cached, banner, rollback>>

\* The published checksum, and whether the file at the program's own path has it already.
Sums(p) ==
  /\ presses[p].stage = "locked"
  /\ \/ GiveUp(p, files, "failed")
     \/ files["self"] = Whole(presses[p].release) /\ GiveUp(p, files, "already")
     \/ /\ files["self"] # Whole(presses[p].release)
        /\ At(p, "summed")
        /\ UNCHANGED <<files, pendingVersion, running, started, feed, cached, installing, banner,
                       rollback>>

\* The download opens the staged file, truncating what was there.
Download(p) ==
  /\ presses[p].stage = "summed"
  /\ files' = [files EXCEPT !["new"] = [version |-> presses[p].release, whole |-> FALSE]]
  /\ At(p, "loading")
  /\ UNCHANGED <<pendingVersion, running, started, feed, cached, installing, banner, rollback>>

\* It arrives whole and matches, unless its name has gone meanwhile; or it breaks off,
\* stalls, outgrows the limit or does not match.
Downloaded(p) ==
  /\ presses[p].stage = "loading"
  /\ \/ GiveUp(p, files, "failed")
     \/ /\ files' = IF There("new") THEN [files EXCEPT !["new"].whole = TRUE] ELSE files
        /\ At(p, "loaded")
        /\ UNCHANGED <<pendingVersion, running, started, feed, cached, installing, banner, rollback>>

\* The staged file is asked what version it is, and must say this release.
Runnable(p) ==
  /\ presses[p].stage = "loaded"
  /\ \/ GiveUp(p, files, "failed")
     \/ /\ files["new"] = Whole(presses[p].release) /\ presses[p].release \notin Broken
        /\ At(p, "checked")
        /\ UNCHANGED <<files, pendingVersion, running, started, feed, cached, installing, banner,
                       rollback>>

\* swap: what the previous update left is removed.
RemoveOld(p) ==
  /\ presses[p].stage = "checked"
  /\ files' = Removed("old") /\ At(p, "cleared")
  /\ UNCHANGED <<pendingVersion, running, started, feed, cached, installing, banner, rollback>>

\* swap: the running binary is moved aside.
MoveAside(p) ==
  /\ presses[p].stage = "cleared"
  /\ \/ GiveUp(p, files, "failed")
     \/ /\ There("self") /\ files' = Renamed("self", "old") /\ At(p, "aside")
        /\ UNCHANGED <<pendingVersion, running, started, feed, cached, installing, banner, rollback>>

\* A slip: a staged binary that cannot be moved leaves the old one aside.
PutInPlaceOrLeave(p) ==
  /\ presses[p].stage = "aside"
  /\ \/ GiveUp(p, Removed("old"), "failed")
     \/ /\ There("new") /\ files' = Renamed("new", "self") /\ At(p, "placed")
        /\ UNCHANGED <<pendingVersion, running, started, feed, cached, installing, banner, rollback>>

\* swap: the staged one takes its name, or the old one is put back.
PutInPlace(p) ==
  /\ presses[p].stage = "aside"
  /\ \/ GiveUp(p, IF There("old") THEN Renamed("old", "self") ELSE files, "failed")
     \/ /\ There("new") /\ files' = Renamed("new", "self") /\ At(p, "placed")
        /\ UNCHANGED <<pendingVersion, running, started, feed, cached, installing, banner, rollback>>

\* markPending, best effort, and the return that releases the lock.
MarkPending(p) ==
  /\ presses[p].stage = "placed"
  /\ pendingVersion' \in {pendingVersion, presses[p].release}
  /\ files' = Removed("new")
  /\ installing' = Nobody /\ At(p, "installed")
  /\ UNCHANGED <<running, started, feed, cached, banner, rollback>>

\* What everybody is told at the end: a restart now or later, that the version waits
\* already, or that nothing comes.
Report(p) ==
  /\ presses[p].stage \in {"installed", "already", "failed"}
  /\ banner' = CASE presses[p].stage = "installed" -> IF Restartable THEN "restarting" ELSE "pending"
                 [] presses[p].stage = "already" -> "pending"
                 [] OTHER -> "none"
  /\ Done(p)
  /\ UNCHANGED <<files, pendingVersion, running, started, feed, cached, installing, rollback>>

-----------------------------------------------------------------------------
\* What lives in the process goes with it.
ProcessGone ==
  /\ cached' = 0 /\ installing' = Nobody /\ banner' = "none"
  /\ presses' = [p \in Presses |-> Idle]

\* The machine or the process stops; a rollback in a shell may or may not survive.
Crash ==
  /\ running # 0 /\ running' = 0 /\ ProcessGone
  /\ rollback' \in {rollback, "idle"}
  /\ UNCHANGED <<files, pendingVersion, started, feed>>

\* removeLeftovers: the note and an unfinished download.
Cleanup ==
  /\ files' = Removed("new") /\ pendingVersion' = 0

\* A start of whatever is at the program's own path.
Start ==
  /\ running = 0 /\ files["self"].whole
  /\ running' = files["self"].version /\ started' = started \cup {files["self"].version}
  /\ Cleanup
  /\ UNCHANGED <<feed, cached, installing, banner, presses, rollback>>

\* The restart an administrator asks for replaces the process in place; without a binary
\* the process goes on with what it has.
RestartUpdated ==
  /\ running # 0 /\ Restartable /\ files["self"].whole
  /\ running' = files["self"].version /\ started' = started \cup {files["self"].version}
  /\ Cleanup /\ ProcessGone
  /\ UNCHANGED <<feed, rollback>>

\* A second copy started by mistake clears up before it finds the port taken.
SecondCopy ==
  /\ running # 0 /\ files["self"].whole /\ (pendingVersion # 0 \/ There("new"))
  /\ Cleanup
  /\ UNCHANGED <<running, started, feed, cached, installing, banner, presses, rollback>>

\* RollbackOver, run by hand: is there a version to go back to?
RollbackLook ==
  /\ rollback = "idle" /\ files["self"].whole /\ There("old")
  /\ rollback' = "looked"
  /\ UNCHANGED <<files, pendingVersion, running, started, feed, cached, installing, banner, presses>>

\* The one being replaced is kept as .failed.
RollbackAside ==
  /\ rollback = "looked" /\ rollback' = "aside"
  /\ files' = IF There("self") THEN Renamed("self", "failed") ELSE Removed("failed")
  /\ UNCHANGED <<pendingVersion, running, started, feed, cached, installing, banner, presses>>

\* The previous one takes its name, or, when it has gone, the failed one again.
RollbackBack ==
  /\ rollback = "aside"
  /\ IF There("old")
     THEN files' = Renamed("old", "self") /\ rollback' = "back"
     ELSE /\ files' = IF There("failed") THEN Renamed("failed", "self") ELSE files
          /\ rollback' = "idle"
  /\ UNCHANGED <<pendingVersion, running, started, feed, cached, installing, banner, presses>>

RollbackDone ==
  /\ rollback = "back" /\ rollback' = "idle" /\ pendingVersion' = 0
  /\ UNCHANGED <<files, running, started, feed, cached, installing, banner, presses>>

Install(p) ==
  \/ Apply(p) \/ TakeLock(p) \/ Sums(p) \/ Download(p) \/ Downloaded(p) \/ Runnable(p)
  \/ RemoveOld(p) \/ MoveAside(p) \/ PutInPlace(p) \/ MarkPending(p) \/ Report(p)

UpdateNext ==
  \/ \E p \in Presses : Install(p)
  \/ Publish \/ Check \/ Crash \/ Start \/ RestartUpdated \/ SecondCopy
  \/ RollbackLook \/ RollbackAside \/ RollbackBack \/ RollbackDone

UpdateSpec == UpdateInit /\ [][UpdateNext]_updateVars

-----------------------------------------------------------------------------
\* What is, or was, at the program's own path is whole and runs here: two presses never
\* share a download, and an interrupted one is never put in place (the lock of
\* InstallOver, the check of runnable, the clearing up at a start).
OnlyChecked ==
  \A place \in Kept : There(place) => files[place].whole /\ files[place].version \notin Broken

\* Wherever the machine stops, a binary is left: at its own path, aside or as the one
\* rolled back from (the order of the renames in swap and RollbackOver).
NeverWithout == \E place \in Kept : There(place)

\* Once no install is under way nobody is shown that one is: every way out of Apply says
\* what is true, the one that is turned away because another holds the lock included.
NoWarningLeft == (\A p \in Presses : presses[p] = Idle) => banner # "installing"

\* However an update or a rollback ends, and wherever the machine stops in it, a program
\* that runs here is left and nobody is still told to wait for one.
UpdateLeavesAProgram == UpdateTypeOK /\ OnlyChecked /\ NeverWithout /\ NoWarningLeft
=============================================================================
