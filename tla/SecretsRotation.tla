--------------------------- MODULE SecretsRotation ---------------------------
(***************************************************************************)
(* The restart on a rotation of secrets (registerSecretsRotationRestart):  *)
(* the startup command of the container sources the secrets file, the      *)
(* process reads it once more, polls its stat and ends itself, gracefully  *)
(* or by force, when the content is another one; the container is then     *)
(* started again.                                                          *)
(*                                                                         *)
(* The sidecar replaces the file by rename, or deletes and creates it.     *)
(* Every replacement has a stat of its own, its content may be the same.   *)
(***************************************************************************)
EXTENDS Integers

CONSTANTS MaxChanges,  \* bound: changes of the file
          MaxFaults    \* bound: failed reads of a file that is there

ASSUME SecretsConstants == MaxChanges \in Nat /\ MaxFaults \in Nat

Missing == -1
NoStat  == -1

VARIABLES
  content,      \* of the file: the number of its rotations, or Missing
  stat,         \* of the file: the number of its changes
  newest,       \* the newest secrets
  phase,        \* of the process: sourced, watching, unwatched, failed, closing
  sourced,      \* the secrets the process runs with
  lastContent,
  seen,         \* the stat the watcher has seen last
  listeners,    \* calls of the listener that are due: watcher, retries
  closes,       \* calls of app.close()
  closeHangs,   \* this process never finishes closing
  explicit,     \* SECRETS_FILE is set
  faults,
  early         \* history: changes until the last one before the watcher's first stat

file    == <<content, stat, newest>>
process == <<phase, sourced, lastContent, seen, listeners, closes, closeHangs>>
vars    == <<file, process, explicit, faults, early>>

Init ==
  /\ content = 0 /\ stat = 0 /\ newest = 0
  /\ phase = "sourced" /\ sourced = 0 /\ lastContent = 0
  /\ seen = NoStat /\ listeners = 0 /\ closes = 0
  /\ closeHangs \in BOOLEAN /\ explicit \in BOOLEAN
  /\ faults = 0 /\ early = 0

-----------------------------------------------------------------------------
(* The sidecar.                                                            *)

Change ==
  /\ stat < MaxChanges /\ stat' = stat + 1
  /\ early' = IF seen = NoStat THEN stat' ELSE early

Replace(secrets) ==
  /\ Change
  /\ content' = secrets /\ newest' = secrets
  /\ UNCHANGED <<process, explicit, faults>>

Rotate   == Replace(newest + 1)
Rewrite  == Replace(newest)
Recreate == content = Missing /\ (Rotate \/ Rewrite)

Delete ==
  /\ Change /\ content # Missing /\ stat + 1 < MaxChanges
  /\ content' = Missing
  /\ UNCHANGED <<newest, process, explicit, faults>>

-----------------------------------------------------------------------------
(* Start and end of the process.                                           *)

\* The startup command sources the file once it is there.
StartAgain ==
  /\ content # Missing
  /\ phase' = "sourced" /\ sourced' = content /\ lastContent' = content
  /\ seen' = NoStat /\ listeners' = 0 /\ closes' = 0
  /\ closeHangs' \in BOOLEAN /\ early' = 0
  /\ UNCHANGED <<file, explicit, faults>>

\* registerSecretsRotationRestart reads the file and watchFile begins; without a
\* file there is nothing to watch, or the process fails to start.
Register ==
  /\ phase = "sourced"
  /\ \/ content # Missing /\ phase' = "watching" /\ lastContent' = content
     \/ content = Missing /\ ~explicit /\ phase' = "unwatched" /\ UNCHANGED lastContent
  /\ UNCHANGED <<file, sourced, seen, listeners, closes, closeHangs, explicit, faults, early>>

FailToRegister ==
  /\ phase = "sourced" /\ content = Missing /\ explicit
  /\ phase' = "failed"
  /\ UNCHANGED <<file, sourced, lastContent, seen, listeners, closes, closeHangs, explicit, faults, early>>

\* A failed start ends; exit(0) is called at the end of close(), however it
\* ended, and by the timer that began with it, whether it ends or not.
Exit ==
  \/ phase = "failed" /\ StartAgain
  \/ phase = "closing" /\ ~closeHangs /\ StartAgain
  \/ phase = "closing" /\ StartAgain

-----------------------------------------------------------------------------
(* The watcher.                                                            *)

\* watchFile: the first stat is the one the next is compared with; the listener
\* is called for every change, and for a file that is missing at the first.
Poll ==
  /\ phase \in {"watching", "closing"} /\ seen # stat /\ seen' = stat
  /\ listeners' = listeners + (IF seen = NoStat /\ content # Missing THEN 0 ELSE 1)
  /\ UNCHANGED <<file, phase, sourced, lastContent, closes, closeHangs, explicit, faults, early>>

\* restart(), once.
Restart ==
  IF phase = "closing" THEN UNCHANGED <<phase, closes>>
  ELSE phase' = "closing" /\ closes' = closes + 1

\* Slip: a change of the stat is taken for a change of the content.
ReadAny ==
  /\ content # Missing /\ listeners' = listeners - 1
  /\ lastContent' = content /\ Restart
  /\ UNCHANGED faults

\* The listener reads the file.
Read ==
  /\ content # Missing /\ listeners' = listeners - 1
  /\ IF content = lastContent THEN UNCHANGED <<lastContent, phase, closes>>
     ELSE lastContent' = content /\ Restart
  /\ UNCHANGED faults

ReadFails == \/ content = Missing /\ UNCHANGED faults
             \/ content # Missing /\ faults < MaxFaults /\ faults' = faults + 1

\* Slip: a failed read is left to the next call of the watcher.
LeaveUnread ==
  /\ ReadFails /\ listeners' = listeners - 1
  /\ UNCHANGED <<lastContent, phase, closes>>

\* The listener cannot read the file and sets a timer for itself.
Retry ==
  /\ ReadFails
  /\ UNCHANGED <<listeners, lastContent, phase, closes>>

Listen ==
  /\ listeners > 0
  /\ Read \/ Retry
  /\ UNCHANGED <<file, sourced, seen, closeHangs, explicit, early>>

Next == \/ Rotate \/ Rewrite \/ Delete
        \/ Register \/ FailToRegister \/ Poll \/ Listen \/ Exit

(* The timers of the process and of its polling fire, the container is     *)
(* started again and a deleted file is created again.                      *)
Spec == Init /\ [][Next]_vars
FairSpec == /\ Spec /\ WF_vars(Register \/ FailToRegister) /\ WF_vars(Poll) /\ WF_vars(Listen)
            /\ WF_vars(Exit) /\ WF_vars(Recreate)

-----------------------------------------------------------------------------
(* Properties.                                                             *)

TypeOK ==
  /\ stat \in 0..MaxChanges /\ newest \in 0..stat /\ content \in {Missing, newest}
  /\ phase \in {"sourced", "watching", "unwatched", "failed", "closing"}
  /\ sourced \in 0..newest /\ lastContent \in sourced..newest
  /\ seen \in {NoStat} \cup 0..stat
  /\ listeners \in 0..MaxChanges + 1
  /\ closes \in Nat /\ closeHangs \in BOOLEAN /\ explicit \in BOOLEAN
  /\ faults \in 0..MaxFaults /\ early \in 0..stat

\* The process ends itself only when there are newer secrets than its own: not
\* for a file written anew, nor for one that was deleted and came back.
RestartsForNewSecrets == phase = "closing" => sourced < newest

\* Rotations and retries during the shutdown do not close the app again.
ClosesOnce == closes <= 1

\* "The app must detect rotation itself": however often reads fail, the file is
\* missing and close() hangs, the process ends up with the newest secrets, unless
\* the file has changed between the startup command and the watcher's first stat.
EventuallyFresh == <>[](sourced = newest \/ early > 0)
=============================================================================
