---------------------------- MODULE AgentUpgrade ----------------------------
(***************************************************************************)
(* The upgrade of one agent: the transaction on its disk                   *)
(* (agent/src/upgrade/transaction.rs), the task that installs a candidate  *)
(* and the process that watches it (agent/src/reporter), and the job the   *)
(* Server keeps of it (service/upgrade_tracker.rs).                        *)
(*                                                                         *)
(* Two binaries are around, "old" and the candidate "new"; the disk has    *)
(* the one at the agent's path, its .bak and the state file.  Any process  *)
(* may die between two writes.  A supervised agent is restarted by systemd *)
(* or OpenRC and bites itself when the trial lasts too long; an agent      *)
(* started by hand starts the candidate and watches it.  Timers are not    *)
(* timed: 90 s, 5 s and 120 s may be over at any moment they run.          *)
(***************************************************************************)
EXTENDS Naturals, Sequences

CONSTANTS
    Jobs,         \* upgrades that operators ask for, each of the same version
    None,
    MaxFaults     \* crashes, lost connections, failed writes, Server restarts

ASSUME FaultAssumption == MaxFaults \in Nat

VARIABLES
    supervised,   \* is_supervised: a supervisor restarts the agent
    exe,          \* the binary at the agent's path, None between two renames
    bak,          \* the .bak file
    txn,          \* the state file
    agent,        \* the process of the agent: "down", or the version it runs
    dog,          \* its trial watchdog waits
    stable,       \* its stability window runs
    task,         \* perform_upgrade, up to the end of the installation
    roll,         \* rollback_files under way
    parent,       \* the process that watches the candidate it started
    link,         \* how far the connection is set up; "parent" if it is the parent's
    wire,         \* messages of the current connection, to the Server
    orders,       \* Upgrade commands on their way to the agent
    op,           \* the operators' requests
    tracker,      \* the Server's job for this agent
    last,         \* history: the job of the last installation
    lost,         \* history: jobs whose report nobody will get any more
    faults

disk == <<exe, bak, txn>>
process == <<agent, dog, stable, task>>
channel == <<link, wire, orders>>
server == <<op, tracker>>
history == <<last, lost>>
vars == <<supervised, exe, bak, txn, agent, dog, stable, task, roll, parent, link,
          wire, orders, op, tracker, last, lost, faults>>

Transaction == [phase : {"pending", "booting", "healthy", "rolledback"}, job : Jobs]

\* "tx" says that the connection the command came on still takes the result.
Task == [job : Jobs, at : {"fetching", "pending", "backed", "swapped"}, tx : BOOLEAN]

\* "fresh" until the candidate it spawned reads the state file, "seen" once it
\* found the trial active and has not acted on that yet.
Parent == [job : Jobs, fresh : BOOLEAN, seen : BOOLEAN]

Message == [kind : {"info"}, ver : {"old", "new"}] \cup [kind : {"result"}, job : Jobs]
             \cup [kind : {"denied"}]

Rollback == [who : {"boot", "watchdog", "install", "parent"}, step : {"moved", "restored"}]

Job == [job : Jobs, status : {"running", "succeeded", "failed", "timeout"}]

ASSUME NoneAssumption ==
    /\ None \notin Jobs /\ None \notin {"old", "new"}
    /\ None \notin Transaction /\ None \notin Task /\ None \notin Parent
    /\ None \notin Rollback /\ None \notin Job

TypeOK ==
    /\ supervised \in BOOLEAN
    /\ exe \in {"old", "new", None} /\ bak \in {"old", "new", None}
    /\ txn \in Transaction \cup {None}
    /\ agent \in {"down", "old", "new"}
    /\ dog \in BOOLEAN /\ stable \in BOOLEAN
    /\ task \in Task \cup {None}
    /\ roll \in Rollback \cup {None}
    /\ parent \in Parent \cup {None}
    /\ link \in {"none", "greeted", "committed", "reported", "ready", "parent"}
    /\ wire \in Seq(Message)
    /\ orders \in Seq(Jobs)
    /\ op \in [Jobs -> {"idle", "checked", "stale", "done"}]
    /\ tracker \in Job \cup {None}
    /\ last \in Jobs \cup {None} /\ lost \subseteq Jobs
    /\ faults \in 0..MaxFaults

Init ==
    /\ supervised \in BOOLEAN
    /\ exe = "old" /\ bak = None /\ txn = None
    /\ agent = "old" /\ dog = FALSE /\ stable = FALSE
    /\ task = None /\ roll = None /\ parent = None
    /\ link = "none" /\ wire = <<>> /\ orders = <<>>
    /\ op = [j \in Jobs |-> "idle"] /\ tracker = None
    /\ last = None /\ lost = {} /\ faults = 0

Fault == faults < MaxFaults /\ faults' = faults + 1

\* UPGRADE_STATE_LOCK of the agent's process is held.  The parent has its own,
\* and takes it when the candidate is gone.
Locked == roll # None \/ (task # None /\ task.at \in {"pending", "backed", "swapped"})

\* The connection is gone: commands and the way back for results with it.
Unplugged ==
    /\ link' = "none"
    /\ orders' = <<>>
    /\ op' = [j \in Jobs |-> IF op[j] = "checked" THEN "stale" ELSE op[j]]

\* The task of a command keeps no way back when the connection is gone.
Muted == IF task = None THEN None ELSE [task EXCEPT !.tx = FALSE]

\* The process is gone, with its threads.
Gone == agent' = "down" /\ dog' = FALSE /\ stable' = FALSE /\ task' = None

\* And with its connection, unless it is not its own.
Ended ==
    /\ Gone
    /\ IF link = "parent" THEN UNCHANGED <<link, orders, op>> ELSE Unplugged

-----------------------------------------------------------------------------
(* The Server: trigger_upgrade, the tracker, what the agent tells it.      *)

Running == tracker # None /\ tracker.status = "running"

\* trigger_upgrade finds the connection and start_job no running job.
Request(j) ==
    /\ op[j] = "idle"
    /\ link # "none"
    /\ ~Running
    /\ op' = [op EXCEPT ![j] = "checked"]
    /\ UNCHANGED <<supervised, disk, process, roll, parent, channel, tracker, history, faults>>

\* start_job inserts its job over whatever is there by now; then the command is
\* sent.  To a connection gone meanwhile it fails, or goes unnoticed.
Insert(j) ==
    /\ op[j] \in {"checked", "stale"}
    /\ op' = [op EXCEPT ![j] = "done"]
    /\ \/ /\ op[j] = "checked"
          /\ tracker' = [job |-> j, status |-> "running"]
          /\ orders' = Append(orders, j)
       \/ /\ op[j] = "stale"
          /\ \E status \in {"running", "failed"} : tracker' = [job |-> j, status |-> status]
          /\ UNCHANGED orders
    /\ UNCHANGED <<supervised, disk, process, roll, parent, link, wire, history, faults>>

\* sweep_timeouts, cleanup_old
Sweep ==
    /\ \/ Running /\ tracker' = [tracker EXCEPT !.status = "timeout"]
       \/ tracker # None /\ ~Running /\ tracker' = None
    /\ UNCHANGED <<supervised, disk, process, roll, parent, channel, op, history, faults>>

\* Mutant of Overrules: a job that succeeded is settled.
OverrulesRunning(j) == tracker # None /\ tracker.job = j /\ tracker.status = "running"

\* mark_agent_reported_failed: the report of a rollback overrides a success.
Overrules(j) ==
    tracker # None /\ tracker.job = j /\ tracker.status \in {"running", "succeeded"}

\* on_system_info marks the running job by its version; mark_failed_by_capability_denied
\* whichever job there is.
Verdict(m) ==
    CASE m.kind = "info" /\ m.ver = "new" /\ Running -> [tracker EXCEPT !.status = "succeeded"]
      [] m.kind = "result" /\ Overrules(m.job) -> [tracker EXCEPT !.status = "failed"]
      [] m.kind = "denied" /\ Running -> [tracker EXCEPT !.status = "failed"]
      [] OTHER -> tracker

Handle ==
    /\ wire # <<>>
    /\ wire' = Tail(wire)
    /\ tracker' = Verdict(Head(wire))
    /\ UNCHANGED <<supervised, disk, process, roll, parent, link, orders, op, history, faults>>

\* The jobs of the reports that are on the wire.
OnWire == {wire[i] : i \in 1..Len(wire)}
Told == {j \in Jobs : [kind |-> "result", job |-> j] \in OnWire}

\* The SystemInfo cannot be stored: the Server closes the connection.
HandleFails ==
    /\ Fault
    /\ wire # <<>> /\ Head(wire).kind = "info"
    /\ wire' = <<>>
    /\ lost' = lost \cup Told
    /\ Unplugged
    /\ task' = Muted
    /\ UNCHANGED <<supervised, disk, agent, dog, stable, roll, parent, tracker, last>>

\* The tracker is in memory only; requests in progress go with it.
ServerRestarts ==
    /\ Fault
    /\ tracker' = None
    /\ link' = "none" /\ orders' = <<>> /\ wire' = <<>>
    /\ op' = [j \in Jobs |-> IF op[j] \in {"checked", "stale"} THEN "done" ELSE op[j]]
    /\ lost' = lost \cup Told
    /\ task' = Muted
    /\ UNCHANGED <<supervised, disk, agent, dog, stable, roll, parent, last>>

-----------------------------------------------------------------------------
(* The connection of the agent.                                            *)

\* The Server admits the connection, and hears no frame of an older one any
\* more; the agent sends SystemInfo.
Admits(state, ver) ==
    /\ link' = state
    /\ wire' = <<[kind |-> "info", ver |-> ver]>>
    /\ lost' = lost \cup Told
    /\ orders' = <<>>
    /\ op' = [j \in Jobs |-> IF op[j] = "checked" THEN "stale" ELSE op[j]]
    /\ UNCHANGED <<supervised, disk, process, roll, parent, tracker, last, faults>>

Connect ==
    /\ agent # "down" /\ link \in {"none", "parent"}
    /\ ~(roll # None /\ roll.who = "boot")
    /\ Admits("greeted", agent)

\* The parent goes on as an agent while it watches: when the candidate's
\* connection replaces its own it connects again, and takes the candidate's away.
ParentConnects ==
    /\ parent # None /\ link # "parent"
    /\ Admits("parent", "old")

\* commit_startup_trial; a state file that cannot be written is logged.
Commit ==
    /\ link = "greeted" /\ ~Locked
    /\ link' = "committed"
    /\ \/ /\ txn # None /\ txn.phase = "booting" /\ agent = "new"
          /\ txn' = [txn EXCEPT !.phase = "healthy"]
          /\ stable' = TRUE
          /\ UNCHANGED faults
       \/ /\ txn # None /\ txn.phase = "booting" /\ agent = "new"
          /\ Fault
          /\ UNCHANGED <<txn, stable>>
       \/ /\ ~(txn # None /\ txn.phase = "booting" /\ agent = "new")
          /\ UNCHANGED <<txn, stable, faults>>
    /\ UNCHANGED <<supervised, exe, bak, agent, dog, task, roll, parent, wire, orders, server,
                   history>>

\* Mutant of Recovered: the report goes without the job it is about.
RecoveredNameless == [kind |-> "result", job |-> None]

Recovered == [kind |-> "result", job |-> txn.job]

\* read_recovery_report, and the report if there is one to make
Report ==
    /\ link = "committed" /\ ~Locked
    /\ \/ /\ txn # None /\ txn.phase = "rolledback" /\ agent = "old"
          /\ wire' = Append(wire, Recovered)
          /\ link' = "reported"
       \/ /\ ~(txn # None /\ txn.phase = "rolledback" /\ agent = "old")
          /\ link' = "ready"
          /\ UNCHANGED wire
    /\ UNCHANGED <<supervised, disk, process, roll, parent, orders, server, history, faults>>

\* acknowledge_recovery_report: no answer of the Server is waited for.
Acknowledge ==
    /\ link = "reported" /\ ~Locked
    /\ txn' = None
    /\ link' = "ready"
    /\ UNCHANGED <<supervised, exe, bak, process, roll, parent, wire, orders, server, history,
                   faults>>

\* The connection breaks; the Server may still handle what it got.
Drop ==
    /\ Fault
    /\ link # "none"
    /\ Unplugged
    /\ task' = Muted
    /\ UNCHANGED <<supervised, disk, agent, dog, stable, roll, parent, wire, tracker, history>>

-----------------------------------------------------------------------------
(* The upgrade task.                                                       *)

\* ServerMessage::Upgrade without the capability
Deny ==
    /\ link = "ready" /\ orders # <<>>
    /\ orders' = Tail(orders)
    /\ wire' = Append(wire, [kind |-> "denied"])
    /\ UNCHANGED <<supervised, disk, process, roll, parent, link, server, history, faults>>

\* ServerMessage::Upgrade: one at a time (UPGRADE_IN_PROGRESS), and only to a
\* newer version (ensure_upgrade).
Receive ==
    /\ link = "ready" /\ orders # <<>>
    /\ orders' = Tail(orders)
    /\ \/ /\ task = None /\ parent = None /\ agent = "old"
          /\ task' = [job |-> Head(orders), at |-> "fetching", tx |-> TRUE]
          /\ UNCHANGED wire
       \/ /\ task # None \/ parent # None \/ agent = "new"
          /\ wire' = Append(wire, [kind |-> "result", job |-> Head(orders)])
          /\ UNCHANGED task
    /\ UNCHANGED <<supervised, disk, agent, dog, stable, roll, parent, link, server, history,
                   faults>>

\* UPGRADE_IN_PROGRESS is still set in the parent.
ParentRefuses ==
    /\ link = "parent" /\ orders # <<>>
    /\ orders' = Tail(orders)
    /\ wire' = Append(wire, [kind |-> "result", job |-> Head(orders)])
    /\ UNCHANGED <<supervised, disk, process, roll, parent, link, server, history, faults>>

\* emit_upgrade_failure, into the channel of the connection of the command
Fails ==
    /\ task' = None
    /\ IF task.tx THEN wire' = Append(wire, [kind |-> "result", job |-> task.job])
                  ELSE UNCHANGED wire

\* Downloading, verifying or probing fails, or the state file cannot be written.
FetchFails ==
    /\ task # None /\ task.at = "fetching"
    /\ Fails
    /\ UNCHANGED <<supervised, disk, agent, dog, stable, roll, parent, link, orders, server,
                   history, faults>>

\* install_candidate_at writes the transaction before it touches a binary.
Prepare ==
    /\ task # None /\ task.at = "fetching"
    /\ ~Locked
    /\ exe = agent
    /\ txn' = [phase |-> "pending", job |-> task.job]
    /\ task' = [task EXCEPT !.at = "pending"]
    /\ last' = task.job
    /\ UNCHANGED <<supervised, exe, bak, agent, dog, stable, roll, parent, channel, server, lost,
                   faults>>

\* copy_and_replace: the backup is a copy, complete before it has the name.
BackUp ==
    /\ task # None /\ task.at = "pending"
    /\ bak' = exe
    /\ task' = [task EXCEPT !.at = "backed"]
    /\ UNCHANGED <<supervised, exe, txn, agent, dog, stable, roll, parent, channel, server,
                   history, faults>>

\* The copy or the rename fails: the transaction is withdrawn.
InstallFails ==
    /\ Fault
    /\ task # None /\ task.at \in {"pending", "backed"}
    /\ txn' = None
    /\ Fails
    /\ UNCHANGED <<supervised, exe, bak, agent, dog, stable, roll, parent, link, orders, server,
                   history>>

\* Mutant of Swap: the candidate is moved in place before the backup exists.
SwapEarly ==
    /\ task # None /\ task.at \in {"pending", "backed"}
    /\ exe' = "new"
    /\ task' = [task EXCEPT !.at = "swapped"]
    /\ UNCHANGED <<supervised, bak, txn, agent, dog, stable, roll, parent, channel, server,
                   history, faults>>

Swap ==
    /\ task # None /\ task.at = "backed"
    /\ exe' = "new"
    /\ task' = [task EXCEPT !.at = "swapped"]
    /\ UNCHANGED <<supervised, bak, txn, agent, dog, stable, roll, parent, channel, server,
                   history, faults>>

\* The directory cannot be synced after the rename: roll back at once.
SyncFails ==
    /\ Fault
    /\ task # None /\ task.at = "swapped" /\ roll = None
    /\ exe' = None /\ roll' = [who |-> "install", step |-> "moved"]
    /\ UNCHANGED <<supervised, bak, txn, process, parent, channel, server, history>>

\* Supervised: exit, and be restarted.  By hand: start the candidate, and keep
\* the connection.
Restart ==
    /\ task # None /\ task.at = "swapped" /\ roll = None
    /\ Gone
    /\ IF supervised
         THEN Unplugged /\ parent' = None
         ELSE /\ parent' = [job |-> task.job, fresh |-> TRUE, seen |-> FALSE]
              /\ link' = IF link = "none" THEN "none" ELSE "parent"
              /\ UNCHANGED <<orders, op>>
    /\ UNCHANGED <<supervised, disk, roll, wire, tracker, history, faults>>

-----------------------------------------------------------------------------
(* The start of a process: prepare_startup.                                *)

\* Something starts the binary: the supervisor, the parent, the process that
\* restored the old one, or a person.
Started == agent = "down" /\ exe # None /\ roll = None /\ (parent # None => parent.fresh)

\* A candidate in its first start is on trial, by its own watchdog unless its
\* parent watches it.
Trial ==
    /\ exe = "new" /\ txn # None /\ txn.phase = "pending"
    /\ txn' = [txn EXCEPT !.phase = "booting"]
    /\ dog' = (parent = None)
    /\ UNCHANGED <<exe, roll>>

\* The old binary finds a transaction that did not come to its end.
Interrupted ==
    /\ exe = "old" /\ txn # None
    /\ txn' = [txn EXCEPT !.phase = "rolledback"]
    /\ UNCHANGED <<exe, dog, roll>>

\* Mutant of Again: a candidate found healthy is taken for an impossible state.
AgainBooting == exe = "new" /\ txn # None /\ txn.phase = "booting"

\* The candidate starts a second time: it did not survive its trial.  Without a
\* backup, or with a rollback on record, it could not start; OldBinarySurvives
\* says that neither happens.
Again == exe = "new" /\ txn # None /\ txn.phase \in {"booting", "healthy"}

Start ==
    /\ Started
    /\ agent' = exe
    /\ parent' = IF parent = None THEN None ELSE [parent EXCEPT !.fresh = FALSE]
    /\ \/ txn = None /\ UNCHANGED <<exe, txn, dog, roll>>
       \/ Trial
       \/ Interrupted
       \/ /\ Again
          /\ bak # None
          /\ exe' = None /\ roll' = [who |-> "boot", step |-> "moved"]
          /\ UNCHANGED <<txn, dog>>
    /\ UNCHANGED <<supervised, bak, stable, task, channel, server, history, faults>>

-----------------------------------------------------------------------------
(* The end of a trial.                                                     *)

\* finalize_startup_trial, after the stability window
Finalize ==
    /\ stable /\ ~Locked
    /\ stable' = FALSE
    /\ txn' = IF txn # None /\ txn.phase = "healthy" THEN None ELSE txn
    /\ UNCHANGED <<supervised, exe, bak, agent, dog, task, roll, parent, channel, server, history,
                   faults>>

\* rollback_unhealthy_trial_at, when the 90 s of start_trial_watchdog are over
Bite ==
    /\ dog /\ ~Locked
    /\ dog' = FALSE
    /\ IF txn # None /\ txn.phase \in {"booting", "healthy"}
         THEN exe' = None /\ roll' = [who |-> "watchdog", step |-> "moved"]
         ELSE UNCHANGED <<exe, roll>>
    /\ UNCHANGED <<supervised, bak, txn, agent, stable, task, parent, channel, server, history,
                   faults>>

\* rollback_files: the candidate is out of the way, the backup takes its place.
PutBack ==
    /\ roll # None /\ roll.step = "moved"
    /\ exe' = bak /\ bak' = None
    /\ roll' = [roll EXCEPT !.step = "restored"]
    /\ UNCHANGED <<supervised, txn, process, parent, channel, server, history, faults>>

\* What is written of a rollback.  A parent whose candidate has just removed
\* the state file writes it anew.
Undone ==
    [phase |-> "rolledback", job |-> IF txn = None THEN parent.job ELSE txn.job]

\* The state is written, and the process makes room for the restored binary;
\* an installation that was undone at once goes on as a failure.
Conclude ==
    /\ roll # None /\ roll.step = "restored"
    /\ roll' = None
    /\ \/ /\ roll.who = "install"
          /\ txn' = None
          /\ Fails
          /\ UNCHANGED <<agent, dog, stable, link, orders, op, parent>>
       \/ /\ roll.who # "install"
          /\ txn' = Undone
          /\ Gone /\ Unplugged
          /\ parent' = None
          /\ UNCHANGED wire
    /\ UNCHANGED <<supervised, exe, bak, tracker, history, faults>>

\* A parent that cannot undo the upgrade says so, and is the agent it was.
GoesOn ==
    /\ agent' = "old"
    /\ parent' = None
    /\ link' = IF link = "parent" THEN "ready" ELSE link
    /\ wire' \in {wire} \cup
           IF link = "parent" THEN {Append(wire, [kind |-> "result", job |-> parent.job])} ELSE {}

\* The backup cannot be moved in place: the candidate is put back, and the
\* process ends.  The installer forgets the transaction nevertheless, and a
\* parent goes on as the agent it was.
PutBackFails ==
    /\ Fault
    /\ roll # None /\ roll.step = "moved"
    /\ exe' = "new"
    /\ roll' = None
    /\ \/ /\ roll.who \in {"boot", "watchdog"}
          /\ Ended
          /\ UNCHANGED <<txn, wire, parent>>
       \/ /\ roll.who = "install"
          /\ txn' = None
          /\ Fails
          /\ UNCHANGED <<agent, dog, stable, link, orders, op, parent>>
       \/ /\ roll.who = "parent"
          /\ GoesOn
          /\ UNCHANGED <<txn, dog, stable, task, orders, op>>
    /\ UNCHANGED <<supervised, bak, tracker, history>>

\* The backup is in place, but the directory cannot be synced or the state not
\* written: who began it ends as above, with the transaction as it was.  For the
\* installer there is no difference, see Conclude.
ConcludeFails ==
    /\ Fault
    /\ roll # None /\ roll.step = "restored"
    /\ roll' = None
    /\ \/ /\ roll.who \in {"boot", "watchdog"}
          /\ Ended
          /\ UNCHANGED <<wire, parent, lost>>
       \/ /\ roll.who = "parent"
          /\ GoesOn
          /\ lost' = IF wire' = wire /\ txn = None THEN lost \cup {parent.job} ELSE lost
          /\ UNCHANGED <<dog, stable, task, orders, op>>
    /\ UNCHANGED <<supervised, disk, tracker, last>>

-----------------------------------------------------------------------------
(* The parent of an agent started by hand.                                 *)

TrialActive == txn # None /\ txn.phase \in {"pending", "booting", "healthy"}

ParentLeaves ==
    /\ parent' = None
    /\ IF link = "parent" THEN Unplugged ELSE UNCHANGED <<link, orders, op>>

\* trial_is_active: no trial, no need for a parent.
Look ==
    /\ parent # None /\ ~parent.seen /\ roll = None
    /\ IF TrialActive
         THEN parent' = [parent EXCEPT !.seen = TRUE] /\ UNCHANGED <<link, orders, op>>
         ELSE ParentLeaves
    /\ UNCHANGED <<supervised, disk, process, roll, wire, tracker, history, faults>>

\* try_wait: the candidate runs.
LookAgain ==
    /\ parent # None /\ parent.seen /\ roll = None
    /\ agent # "down" \/ parent.fresh
    /\ parent' = [parent EXCEPT !.seen = FALSE]
    /\ UNCHANGED <<supervised, disk, process, roll, channel, server, history, faults>>

\* The candidate has exited, or could not be started, or 90 s are over and it
\* is killed: whatever the state file says now, the old binary comes back.
TakeBack ==
    /\ parent # None /\ roll = None
    /\ parent.seen \/ parent.fresh
    /\ Ended
    /\ exe' = None /\ roll' = [who |-> "parent", step |-> "moved"]
    /\ parent' = [parent EXCEPT !.fresh = FALSE]
    /\ UNCHANGED <<supervised, bak, txn, wire, tracker, history, faults>>

\* The parent dies, and nobody watches the candidate.  If the candidate had
\* removed the state file before it was taken back, nobody will report that.
ParentDies ==
    /\ Fault
    /\ parent # None
    /\ ParentLeaves
    /\ roll' = IF roll # None /\ roll.who = "parent" THEN None ELSE roll
    /\ lost' = IF roll # None /\ roll.who = "parent" /\ txn = None
                 THEN lost \cup {parent.job} ELSE lost
    /\ UNCHANGED <<supervised, disk, process, wire, tracker, last>>

\* The agent's process dies, in whatever it does.
Crash ==
    /\ Fault
    /\ agent # "down"
    /\ Ended
    /\ roll' = None
    /\ UNCHANGED <<supervised, disk, parent, wire, tracker, history>>

-----------------------------------------------------------------------------
Operators == \E j \in Jobs : Request(j) \/ Insert(j)

Handshake == Connect \/ Commit \/ Report \/ Acknowledge

Install == BackUp \/ Swap \/ Restart

RollBack == PutBack \/ Conclude

Next ==
    \/ Operators \/ Sweep \/ Handle \/ HandleFails \/ ServerRestarts
    \/ Handshake \/ Drop
    \/ Deny \/ Receive \/ FetchFails \/ Prepare \/ Install \/ InstallFails \/ SyncFails
    \/ Start \/ Finalize \/ Bite \/ RollBack \/ PutBackFails \/ ConcludeFails
    \/ ParentConnects \/ ParentRefuses \/ Look \/ LookAgain \/ TakeBack \/ ParentDies \/ Crash

\* The supervisor restarts what ended, the agent connects again and again, its
\* threads run, and file operations come to their end.
Fairness ==
    /\ WF_vars(supervised /\ Start)
    /\ WF_vars(Handshake)
    /\ WF_vars(Install)
    /\ WF_vars(RollBack)
    /\ WF_vars(Finalize)
    /\ WF_vars(Bite)

Spec == Init /\ [][Next]_vars /\ Fairness

-----------------------------------------------------------------------------
(* Properties                                                              *)

\* The old binary can always be brought back until the candidate is confirmed:
\* it is at the agent's path or, complete, in the backup.  Between the renames
\* of a rollback it is in the backup, and no rollback is recorded over a
\* candidate.  (install_candidate_at, rollback_files)
OldBinarySurvives ==
    /\ ~(exe = "new" /\ txn = None) => "old" \in {exe, bak}
    /\ exe = None => bak = "old"
    /\ bak # "new"
    /\ txn # None /\ txn.phase = "rolledback" => exe = "old"

\* An upgrade the Server shows as succeeded is installed; if its candidate was
\* rolled back afterwards, the report of that is still to come, or was lost
\* with its connection, or names another job than the one that two operators
\* or a second request put in its place.  (finish_job_inner, on_system_info)
SuccessIsHonest ==
    tracker # None /\ tracker.status = "succeeded" /\ exe = "old"
      => \/ txn # None \/ roll # None
         \/ tracker.job \in Told \cup lost
         \/ tracker.job # last

\* Under a supervisor every installation is decided: the candidate confirmed,
\* or the old binary back and the failure reported.  Only a crash between the
\* two renames of a rollback leaves nothing to start.  (prepare_startup_at,
\* start_trial_watchdog)
CandidatesAreDecided == (supervised /\ txn # None) ~> (txn = None \/ exe = None)

=============================================================================
