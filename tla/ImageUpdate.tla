---------------------------- MODULE ImageUpdate ----------------------------
(***************************************************************************)
(* An update of the container image. The application and the updater       *)
(* beside it (deploy/update/updater.sh) share a directory: the application *)
(* leaves a request, the updater marks that it is at work and publishes    *)
(* what came of it. The update handler tells every screen that a restart   *)
(* is coming, and a goroutine takes that back when it is not.              *)
(***************************************************************************)
EXTENDS Naturals

CONSTANTS
  MaxRequests,   \* how many requests are placed in all
  Faults         \* which of "updater", "application" and "deadline" may strike

VARIABLES
  requestFile,       \* the request file: the number of the request in it, or 0
  marker,        \* the running file
  result,        \* the result file: an outcome and the request it answers
  alive,         \* whether the alive file is recent
  awaiting,      \* UpdateHandler.awaitingImage
  watcher,       \* awaitTheImage: which request it waits for, and how far it is
  notice,        \* what the hub has standing about the update
  press,         \* the press of the button in flight
  updater,       \* the updater: its stage, the request it works on, its verdict
  requestsPlaced, \* how many requests have been placed
  fresh          \* ghost: the last press found nothing of an earlier request under way

imageVars == <<requestFile, marker, result, alive, awaiting, watcher, notice, press, updater, requestsPlaced, fresh>>

NoResult == [outcome |-> "", answers |-> 0]
NoWatcher == [stage |-> "off", for |-> 0]
Unasked == [stage |-> "idle", for |-> 0]
Polling == [stage |-> "poll", for |-> 0, verdict |-> ""]

ImageTypeOK ==
  /\ requestFile \in Nat /\ requestsPlaced \in Nat
  /\ marker \in BOOLEAN /\ alive \in BOOLEAN /\ awaiting \in BOOLEAN /\ fresh \in BOOLEAN
  /\ result \in [outcome : {"", "ok", "none", "failed"}, answers : Nat]
  /\ watcher \in [stage : {"off", "waiting", "answered"}, for : Nat]
  /\ notice \in {"none", "installing", "restarting"}
  /\ press \in [stage : {"idle", "announced", "cleared", "placed"}, for : Nat]
  /\ updater \in [stage : {"down", "poll", "took", "work", "finish", "publish"},
                  for : Nat, verdict : {"", "ok", "none", "failed"}]

ImageInit ==
  /\ requestFile = 0 /\ marker = FALSE /\ result = NoResult /\ alive = TRUE
  /\ awaiting = FALSE /\ watcher = NoWatcher /\ notice = "none" /\ press = Unasked
  /\ updater = Polling /\ requestsPlaced = 0 /\ fresh = TRUE

-----------------------------------------------------------------------------
\* heard: the updater has been there lately, or is at work.
Available == marker \/ alive

\* askForTheImage: nobody is at work and nobody waits for an answer; everybody is told.
PressUpdate ==
  /\ press = Unasked /\ Available
  /\ ~marker /\ ~awaiting
  /\ awaiting' = TRUE /\ notice' = "installing"
  /\ press' = [stage |-> "announced", for |-> 0]
  /\ fresh' = (requestFile = 0 /\ updater.stage \in {"poll", "down"})
  /\ UNCHANGED <<requestFile, marker, result, alive, watcher, updater, requestsPlaced>>

\* A slip: the last outcome is left for the updater to clear.
AskWithoutClearing ==
  /\ press.stage = "announced"
  /\ \/ /\ Available /\ ~marker
        /\ press' = [press EXCEPT !.stage = "cleared"]
        /\ UNCHANGED <<result, awaiting, notice>>
     \/ /\ ~Available \/ marker
        /\ awaiting' = FALSE /\ press' = Unasked
        /\ notice' = IF Available THEN notice ELSE "none"
        /\ UNCHANGED result
  /\ UNCHANGED <<requestFile, marker, alive, watcher, updater, requestsPlaced, fresh>>

\* Ask looks again - an updater that has gone takes the notice with it, one that is at
\* work keeps it - and clears the last outcome.
Ask ==
  /\ press.stage = "announced"
  /\ \/ /\ Available /\ ~marker
        /\ result' = NoResult /\ press' = [press EXCEPT !.stage = "cleared"]
        /\ UNCHANGED <<awaiting, notice>>
     \/ /\ ~Available \/ marker
        /\ awaiting' = FALSE /\ press' = Unasked
        /\ notice' = IF Available THEN notice ELSE "none"
        /\ UNCHANGED result
  /\ UNCHANGED <<requestFile, marker, alive, watcher, updater, requestsPlaced, fresh>>

\* The request is moved into place, over one nobody took; or it cannot be written.
PlaceRequest ==
  /\ press.stage = "cleared"
  /\ \/ /\ requestsPlaced < MaxRequests
        /\ requestFile' = requestsPlaced + 1 /\ requestsPlaced' = requestsPlaced + 1
        /\ press' = [stage |-> "placed", for |-> requestsPlaced + 1]
        /\ UNCHANGED <<awaiting, notice>>
     \/ /\ awaiting' = FALSE /\ notice' = "none" /\ press' = Unasked
        /\ UNCHANGED <<requestFile, requestsPlaced>>
  /\ UNCHANGED <<marker, result, alive, watcher, updater, fresh>>

\* Everybody is told of the restart, and somebody waits for the answer.
TellRestart ==
  /\ press.stage = "placed" /\ press' = Unasked
  /\ notice' = "restarting" /\ watcher' = [stage |-> "waiting", for |-> press.for]
  /\ UNCHANGED <<requestFile, marker, result, alive, awaiting, updater, requestsPlaced, fresh>>

\* One tick of awaitTheImage finds an answer.
SeeAnswer ==
  /\ watcher.stage = "waiting" /\ result # NoResult
  /\ watcher' = [watcher EXCEPT !.stage = "answered"]
  /\ UNCHANGED <<requestFile, marker, result, alive, awaiting, notice, press, updater, requestsPlaced, fresh>>

\* lastImageOutcome: nothing while one is running, nothing when it worked.
Outcome == IF marker \/ result.outcome = "ok" THEN "" ELSE result.outcome

\* A slip: only a failure is taken back.
ReadOutcomeOfFailures ==
  /\ watcher.stage = "answered" /\ watcher' = NoWatcher /\ awaiting' = FALSE
  /\ notice' = IF Outcome = "failed" THEN "none" ELSE notice
  /\ UNCHANGED <<requestFile, marker, result, alive, press, updater, requestsPlaced, fresh>>

\* The announced restart is taken back when nothing was replaced.
ReadOutcome ==
  /\ watcher.stage = "answered" /\ watcher' = NoWatcher /\ awaiting' = FALSE
  /\ notice' = IF Outcome = "" THEN notice ELSE "none"
  /\ UNCHANGED <<requestFile, marker, result, alive, press, updater, requestsPlaced, fresh>>

\* No answer within imageAnswerWithin. Twice what a slow pull takes: it strikes while the
\* updater is at work only where "deadline" is among the faults.
Deadline ==
  /\ watcher.stage = "waiting"
  /\ "deadline" \in Faults \/ (updater.stage = "down" /\ result = NoResult)
  /\ watcher' = NoWatcher /\ awaiting' = FALSE /\ notice' = "none"
  /\ UNCHANGED <<requestFile, marker, result, alive, press, updater, requestsPlaced, fresh>>

\* What lives in the application's process goes with it.
ApplicationGone ==
  awaiting' = FALSE /\ watcher' = NoWatcher /\ notice' = "none" /\ press' = Unasked

ApplicationCrash ==
  /\ "application" \in Faults /\ ApplicationGone
  /\ UNCHANGED <<requestFile, marker, result, alive, updater, requestsPlaced, fresh>>

-----------------------------------------------------------------------------
\* A round of the updater that finds nothing to do.
Round ==
  /\ updater.stage = "poll" /\ requestFile = 0 /\ ~alive /\ alive' = TRUE
  /\ UNCHANGED <<requestFile, marker, result, awaiting, watcher, notice, press, updater, requestsPlaced, fresh>>

\* One that finds a request takes it, and any outcome with it.
TakeRequest ==
  /\ updater.stage = "poll" /\ requestFile # 0
  /\ alive' = TRUE /\ requestFile' = 0 /\ result' = NoResult
  /\ updater' = [stage |-> "took", for |-> requestFile, verdict |-> ""]
  /\ UNCHANGED <<marker, awaiting, watcher, notice, press, requestsPlaced, fresh>>

MarkRunning ==
  /\ updater.stage = "took" /\ marker' = TRUE
  /\ updater' = [updater EXCEPT !.stage = "work"]
  /\ UNCHANGED <<requestFile, result, alive, awaiting, watcher, notice, press, requestsPlaced, fresh>>

\* The pull finds nothing newer or fails, the recreate fails, or the application's
\* container is replaced.
Pull ==
  /\ updater.stage = "work"
  /\ \E verdict \in {"none", "failed", "ok"} :
       /\ updater' = [updater EXCEPT !.stage = "finish", !.verdict = verdict]
       /\ IF verdict = "ok" THEN ApplicationGone
          ELSE UNCHANGED <<awaiting, watcher, notice, press>>
  /\ UNCHANGED <<requestFile, marker, result, alive, requestsPlaced, fresh>>

\* finish: the marker goes first,
ClearMarker ==
  /\ updater.stage = "finish" /\ marker' = FALSE
  /\ updater' = [updater EXCEPT !.stage = "publish"]
  /\ UNCHANGED <<requestFile, result, alive, awaiting, watcher, notice, press, requestsPlaced, fresh>>

\* and then the outcome is published.
PublishResult ==
  /\ updater.stage = "publish"
  /\ result' = [outcome |-> updater.verdict, answers |-> updater.for]
  /\ updater' = Polling
  /\ UNCHANGED <<requestFile, marker, alive, awaiting, watcher, notice, press, requestsPlaced, fresh>>

\* The updater's container stops, wherever it is; a while later it counts as gone.
UpdaterStops ==
  /\ "updater" \in Faults /\ updater.stage # "down"
  /\ updater' = [stage |-> "down", for |-> 0, verdict |-> ""]
  /\ UNCHANGED <<requestFile, marker, result, alive, awaiting, watcher, notice, press, requestsPlaced, fresh>>

Silence ==
  /\ updater.stage = "down" /\ alive /\ alive' = FALSE
  /\ UNCHANGED <<requestFile, marker, result, awaiting, watcher, notice, press, updater, requestsPlaced, fresh>>

UpdaterStarts ==
  /\ updater.stage = "down" /\ marker' = FALSE /\ updater' = Polling
  /\ UNCHANGED <<requestFile, result, alive, awaiting, watcher, notice, press, requestsPlaced, fresh>>

Application == Ask \/ PlaceRequest \/ TellRestart \/ SeeAnswer \/ ReadOutcome \/ Deadline
Updater == Round \/ TakeRequest \/ MarkRunning \/ Pull \/ ClearMarker \/ PublishResult

ImageNext ==
  \/ PressUpdate \/ Application \/ Updater \/ Silence
  \/ ApplicationCrash \/ UpdaterStops \/ UpdaterStarts

\* A handler and its goroutine run to their end, the updater's loop goes round and its
\* container is restarted (restart: unless-stopped): nobody has to press.
ImageFairness == WF_imageVars(Application) /\ WF_imageVars(Updater) /\ WF_imageVars(UpdaterStarts)

ImageSpec == ImageInit /\ [][ImageNext]_imageVars /\ ImageFairness

-----------------------------------------------------------------------------
\* A restart is taken back only on an answer to its own request, whatever strikes in
\* between, as long as the press found nothing of an earlier request under way: its outcome
\* is gone before the request is placed (Ask). A press that comes while finish is between
\* its two steps, in an application that was just replaced, may be told the earlier outcome.
OwnAnswer ==
  /\ ImageTypeOK
  /\ fresh /\ watcher.stage = "answered" /\ Outcome # "" => result.answers = watcher.for
=============================================================================
