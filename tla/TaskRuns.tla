------------------------------ MODULE TaskRuns ------------------------------
(***************************************************************************)
(* One scheduled task (service/task_scheduler.rs): its row, its cron job,  *)
(* its runs and the proof of their completion                              *)
(* (service/task_notification.rs).  Tasks share the lifecycle lock only,   *)
(* so one of them is enough to see what it protects.                       *)
(*                                                                         *)
(* Creating, changing, deleting and starting a task, restoring the         *)
(* scheduler and cleaning up orphaned Servers hold the lock from the first *)
(* read to the return.  The executors of a run, the task that drains them, *)
(* the push worker that recovers drained runs and the plain deletion of a  *)
(* Server do not: everything they do interleaves.  A step is what happens  *)
(* between two points where one of these can get in.                       *)
(*                                                                         *)
(* Writes to the database and calls of the cron scheduler may fail at any  *)
(* time: those are the disjuncts without fairness.                         *)
(*                                                                         *)
(* Updating, deleting, cleaning up and starting by hand run in the future  *)
(* of an HTTP handler, which is dropped where it waits when its client     *)
(* hangs up: the lock is released and nothing is put back.  One that drops *)
(* a statement leaves what the failure of that statement leaves, or its    *)
(* effect; the drops that leave anything else are HangUp and the disjuncts *)
(* that use HangsUp.                                                       *)
(***************************************************************************)
EXTENDS Naturals, FiniteSets

CONSTANTS
    Servers,
    Runs,          \* run ids, each a fresh uuid
    Jobs,          \* ids the cron scheduler gives its jobs
    MaxAttempts,   \* retry_count + 1 of the task
    MaxFaults,     \* restarts of the server process, and clients that hang up
    Selections,    \* sets of Servers that a task is created for or updated to
    Capable,       \* Servers whose agents may allow commands
    Deletable,     \* Servers that are ever deleted
    None

ASSUME NoneAssumption == None \notin Runs /\ None \notin Jobs
ASSUME JobAssumption == \E i, j \in Jobs : i # j
ASSUME SelectionAssumption == Selections \subseteq SUBSET Servers
ASSUME AttemptAssumption == MaxAttempts \in Nat \ {0}
ASSUME FaultAssumption == MaxFaults \in Nat

VARIABLES
    row,         \* the task's row of the tasks table
    servers,     \* the servers table
    status,      \* task_runs.status of each run, "none" without a row
    results,     \* task_results, as the run and the Server they belong to
    job,         \* TaskScheduler.job_map
    ticking,     \* the cron scheduler has that job; no other's callbacks matter
    fired,       \* jobs whose callback waits for the lifecycle lock
    active,      \* TaskScheduler.active_runs
    cancelled,   \* runs whose cancellation token is set
    phase,       \* where the run is: its starter, then the task that drains it
    exec,        \* the executor of each Server in a run
    adrift,      \* results whose INSERT outlives the executor that queued it
    op,          \* the holder of the lifecycle lock and what it remembers
    restored,    \* the cron scheduler has been started
    faults,      \* restarts and hang-ups so far
    drift,       \* a logged failure or a hang-up left row and job apart
    litter       \* one, a restart or a late INSERT left traces of a deleted task

durable == <<row, servers, status, results>>
cron == <<job, ticking>>
run == <<active, cancelled, phase, exec, adrift>>
history == <<faults, drift, litter>>
vars == <<row, servers, status, results, job, ticking, fired, active, cancelled,
          phase, exec, adrift, op, restored, faults, drift, litter>>

Row == [state : {"new", "live", "gone"}, enabled : BOOLEAN, targets : SUBSET Servers]

\* "refused" waits for the starter, which "denied" has seen; "ok" and "bad" hold
\* an outcome that is being written; "done" wrote its last word.
Executor == [pc : {"none", "refused", "denied", "asking", "ok", "bad",
                   "done", "quit", "failed"},
             left : 0..MaxAttempts]

\* "removed" says whether the cron scheduler removed the job when it was told to;
\* "start" is a start by the schedule, "run_now" one by hand.
Operation == [kind : {"idle", "start", "run_now", "update", "delete", "cleanup"},
              removed : BOOLEAN, doomed : SUBSET Servers]

Phase == {"unused", "starting", "draining", "proving", "spoilt", "finishing", "over"}

TypeOK ==
    /\ row \in Row
    /\ servers \in SUBSET Servers
    /\ status \in [Runs -> {"none", "running", "drained", "completed", "incomplete"}]
    /\ results \in SUBSET (Runs \X Servers)
    /\ job \in Jobs \cup {None}
    /\ ticking \in BOOLEAN
    /\ fired \in SUBSET Jobs
    /\ active \in Runs \cup {None}
    /\ cancelled \in SUBSET Runs
    /\ phase \in [Runs -> Phase]
    /\ exec \in [Runs -> [Servers -> Executor]]
    /\ adrift \in SUBSET (Runs \X Servers)
    /\ op \in Operation
    /\ restored \in BOOLEAN
    /\ faults \in 0..MaxFaults
    /\ drift \in BOOLEAN
    /\ litter \in BOOLEAN

\* An executor with no attempt left to make.
Over(pc) == [pc |-> pc, left |-> 0]

Absent == [s \in Servers |-> Over("none")]

Idle == [kind |-> "idle", removed |-> FALSE, doomed |-> {}]

\* The first start of a server, which found no task to restore.
Init ==
    /\ row = [state |-> "new", enabled |-> FALSE, targets |-> {}]
    /\ servers = Servers
    /\ status = [r \in Runs |-> "none"]
    /\ results = {}
    /\ job = None /\ ticking = FALSE
    /\ fired = {}
    /\ active = None
    /\ cancelled = {}
    /\ phase = [r \in Runs |-> "unused"]
    /\ exec = [r \in Runs |-> Absent]
    /\ adrift = {}
    /\ op = Idle
    /\ restored = TRUE
    /\ faults = 0
    /\ drift = FALSE
    /\ litter = FALSE

Free == op.kind = "idle"

Live == row.state = "live"

\* The cron scheduler and job_map have the same job, and they have it for a row
\* that says enabled.
Agree ==
    /\ ticking <=> Live /\ row.enabled
    /\ ticking <=> job # None

Apart == ~Agree

\* A task that is gone has results, or a run that may still write one.
Littered == row.state = "gone" /\ (results # {} \/ active # None)

\* add_job: the scheduler hands out an id no job and no waiting callback has.
AddsJob == job' = (CHOOSE j \in Jobs : j \notin fired) /\ ticking' = TRUE

NoJob == job' = None /\ ticking' = FALSE

\* The job of an enabled row is put back, or the failure to do so is logged.
RestoresJob(enabled) ==
    IF enabled
      THEN \/ AddsJob /\ drift' = FALSE
           \/ NoJob /\ drift' = TRUE
      ELSE NoJob /\ drift' = FALSE

\* A client hangs up, and the handler that is dropped for it may leave row, map
\* and cron scheduler apart.
HangsUp ==
    /\ faults < MaxFaults
    /\ faults' = faults + 1
    /\ drift' = Apart'

\* The active run is told to stop and waited for, or a hang-up comes before that.
Cancels(kind, removed, doomed) ==
    /\ op' = [kind |-> kind, removed |-> removed, doomed |-> doomed]
    /\ cancelled' = cancelled \cup ({active} \ {None})
    /\ UNCHANGED <<faults, drift>>

Forsakes == HangsUp /\ UNCHANGED <<op, cancelled>>

\* remove_job up to its wait: the cron scheduler forgets the job or fails to, the
\* active run is cancelled either way.  A hang-up while the cron scheduler is
\* asked leaves the run alone.
RemovesJob(kind, doomed) ==
    /\ UNCHANGED job
    /\ \/ \E gone \in BOOLEAN :
            /\ job = None => gone
            /\ ticking' = (ticking /\ ~gone)
            /\ Cancels(kind, gone, doomed)
       \/ ticking' \in {ticking, FALSE} /\ Forsakes

-----------------------------------------------------------------------------
(* The task, under the lifecycle lock.                                     *)

\* create_task.  A registration that fails takes the row out again; if that
\* fails as well, or the client hangs up, the row stays without a job.
CreateTask(targets) ==
    /\ Free /\ row.state = "new" /\ targets # {}
    /\ row' = [state |-> "live", enabled |-> TRUE, targets |-> targets]
    /\ \/ AddsJob /\ UNCHANGED drift
       \/ UNCHANGED cron /\ drift' = TRUE
    /\ UNCHANGED <<servers, status, results, fired, run, op, restored, faults, litter>>

\* update_task up to the wait for the cancelled run.
UpdateBegin(enabled, targets) ==
    /\ Free /\ Live
    /\ row' = [row EXCEPT !.enabled = enabled, !.targets = targets]
    /\ RemovesJob("update", {})
    /\ UNCHANGED <<servers, status, results, fired, active, phase, exec, adrift,
                   restored, litter>>

\* The rest of it.  The roll-back of a failed update writes an ActiveModel
\* whose fields are all unchanged: no column is written, the row keeps what
\* UpdateBegin gave it, and restore_job works from that row.  A job the
\* scheduler would not remove therefore outlives a row that was disabled.
UpdateEnd ==
    /\ op.kind = "update" /\ active = None
    /\ op' = Idle
    /\ IF op.removed THEN RestoresJob(row.enabled)
                     ELSE UNCHANGED cron /\ drift' = Apart
    /\ UNCHANGED <<durable, fired, run, restored, faults, litter>>

\* delete_task up to the wait.  The row need not be there any more: what a failed
\* removal left of the job can still be removed.
DeleteBegin ==
    /\ Free /\ row.state # "new"
    /\ UNCHANGED <<durable, fired, active, phase, exec, adrift, restored, litter>>
    /\ RemovesJob("delete", {})

\* The rows go in one transaction, the runs with the task by their foreign key.
DeleteRows ==
    /\ op.kind = "delete" /\ active = None /\ op.removed
    /\ row' = [state |-> "gone", enabled |-> FALSE, targets |-> {}]
    /\ results' = {}
    /\ status' = [r \in Runs |-> "none"]
    /\ NoJob
    /\ drift' = FALSE /\ litter' = FALSE
    /\ op' = Idle
    /\ UNCHANGED <<servers, fired, run, restored, faults>>

\* Mutant of DeleteFails: the job of a task that could not be deleted stays out.
DeleteForgetsJob ==
    /\ op.kind = "delete" /\ active = None
    /\ op' = Idle
    /\ IF op.removed THEN NoJob ELSE UNCHANGED cron
    /\ UNCHANGED <<durable, fired, run, restored, history>>

\* The job could not be removed, or the transaction failed and the job is put back.
DeleteFails ==
    /\ op.kind = "delete" /\ active = None
    /\ op' = Idle
    /\ IF op.removed THEN RestoresJob(row.enabled) ELSE UNCHANGED <<cron, drift>>
    /\ UNCHANGED <<durable, fired, run, restored, faults, litter>>

\* The handler of an update, a deletion or a cleanup is dropped while it waits for
\* the cancelled run: the cron scheduler has forgotten the job, job_map has not,
\* and nothing that was to follow the wait is done.
HangUp ==
    /\ op.kind \in {"update", "delete", "cleanup"}
    /\ op' = Idle
    /\ UNCHANGED <<durable, cron, fired, run, restored>>
    /\ litter' = (litter \/ Littered)
    /\ HangsUp

\* restore_and_start: runs the last process left are incomplete, enabled tasks
\* get a job.  Either may fail; a job that is there already is not replaced.
Restore ==
    /\ Free /\ ~restored
    /\ \/ status' = [r \in Runs |-> IF status[r] = "running" THEN "incomplete" ELSE status[r]]
       \/ UNCHANGED status
    /\ IF Live /\ job = None THEN RestoresJob(row.enabled) ELSE UNCHANGED <<cron, drift>>
    /\ restored' = TRUE
    /\ UNCHANGED <<row, servers, results, fired, run, op, faults, litter>>

-----------------------------------------------------------------------------
(* Servers.                                                                *)

ResultsWithout(doomed) == {result \in results : result[2] \notin doomed}

\* ServerService::delete_server: the results go with the Server, tasks keep naming it.
DeleteServer(s) ==
    /\ s \in servers \cap Deletable
    /\ servers' = servers \ {s}
    /\ results' = ResultsWithout({s})
    /\ UNCHANGED <<row, status, cron, fired, run, op, restored, history>>

\* cleanup_orphaned_servers up to the wait.  The Servers go first; the
\* transaction that takes them out of the task may fail after that.  A task
\* left without Servers goes with its results, in the same transaction, and then
\* loses its job; of any other only the run is cancelled.
CleanupBegin(doomed) ==
    /\ Free
    /\ doomed # {} /\ doomed \subseteq servers \cap Deletable
    /\ servers' = servers \ doomed
    /\ UNCHANGED <<fired, active, phase, exec, adrift, restored>>
    /\ \/ /\ Live /\ row.targets \cap doomed # {}
          /\ IF row.targets \subseteq doomed
               THEN /\ row' = [state |-> "gone", enabled |-> FALSE, targets |-> {}]
                    /\ results' = {}
                    /\ status' = [r \in Runs |-> "none"]
                    /\ RemovesJob("cleanup", doomed)
                    /\ litter' = (Free /\ Littered)'
               ELSE /\ row' = [row EXCEPT !.targets = @ \ doomed]
                    /\ results' = ResultsWithout(doomed)
                    /\ UNCHANGED <<status, cron, litter>>
                    /\ Cancels("cleanup", FALSE, doomed) \/ Forsakes
       \/ /\ results' = ResultsWithout(doomed)
          /\ UNCHANGED <<row, status, cron, cancelled, op, history>>

\* What becomes of the job.  A cleanup that took Servers from a task leaves it.
CleansJob ==
    IF Live THEN UNCHANGED <<cron, drift>>
    ELSE IF op.removed THEN NoJob /\ drift' = FALSE
    ELSE UNCHANGED cron /\ drift' = TRUE

\* Mutant of CleanupEnd: results written after the commit are not looked for.
CleanupOnce ==
    /\ op.kind = "cleanup" /\ active = None
    /\ op' = Idle
    /\ CleansJob
    /\ UNCHANGED <<durable, fired, run, restored, faults, litter>>

\* apply_after_commit after the wait: a deleted task loses its job, and what the
\* cancelled executors wrote meanwhile is removed.  Failures are logged.
CleanupEnd ==
    /\ op.kind = "cleanup" /\ active = None
    /\ op' = Idle
    /\ CleansJob
    /\ \/ results' = (IF Live THEN ResultsWithout(op.doomed) ELSE {}) /\ UNCHANGED litter
       \/ results' = results /\ litter' = (~Live /\ results # {})
    /\ UNCHANGED <<row, servers, status, fired, run, restored, faults>>

-----------------------------------------------------------------------------
(* Starting a run.                                                         *)

\* execute_scheduled_task up to the loop over the targets.  Whether a target may
\* be asked is decided from its row, which a deleted Server no longer has, and
\* from what its agent allows; a manual run has one attempt.  The loop spawns
\* the executors one by one; one that is yet to be spawned has not been heard of,
\* as one that asks and gets no answer, so here they ask from the start.
Starts(kind, r, attempts) ==
    /\ active = None
    /\ phase[r] = "unused" /\ r = CHOOSE q \in Runs : phase[q] = "unused"
    /\ active' = r
    /\ phase' = [phase EXCEPT ![r] = "starting"]
    /\ status' = [status EXCEPT ![r] = "running"]
    /\ op' = [Idle EXCEPT !.kind = kind]
    /\ \E asked \in SUBSET (row.targets \cap servers \cap Capable) :
         exec' = [exec EXCEPT ![r] =
                    [s \in Servers |->
                       IF s \in asked THEN [pc |-> "asking", left |-> attempts]
                       ELSE IF s \in row.targets THEN Over("refused")
                       ELSE Absent[s]]]

\* A job fires; at most one callback of the task waits at a time here.
Fire ==
    /\ restored /\ ticking /\ fired = {}
    /\ fired' = {job}
    /\ UNCHANGED <<durable, cron, run, op, restored, history>>

\* Mutant of CronStart: the callback does not ask whether its job is current.
StartStale(j, r) ==
    /\ Free /\ j \in fired
    /\ Live
    /\ fired' = fired \ {j}
    /\ Starts("start", r, MaxAttempts)
    /\ UNCHANGED <<row, servers, results, cron, cancelled, adrift, restored, history>>

\* The callback that add_job registers, once it has the lock.
CronStart(j, r) ==
    /\ Free /\ j \in fired
    /\ j = job
    /\ Live
    /\ fired' = fired \ {j}
    /\ Starts("start", r, MaxAttempts)
    /\ UNCHANGED <<row, servers, results, cron, cancelled, adrift, restored, history>>

\* It is stale, finds the last run active, finds no task or fails to insert a run.
CronSkip(j) ==
    /\ Free /\ j \in fired
    /\ fired' = fired \ {j}
    /\ UNCHANGED <<durable, cron, run, op, restored, history>>

RunNow(r) ==
    /\ Free /\ Live
    /\ Starts("run_now", r, 1)
    /\ UNCHANGED <<row, servers, results, cron, fired, cancelled, adrift, restored, history>>

\* A target that may not be asked gets a synthetic result.
Deny(r, s) ==
    /\ phase[r] = "starting" /\ exec[r][s].pc = "refused"
    /\ exec' = [exec EXCEPT ![r][s].pc = "denied"]
    /\ results' = results \cup {<<r, s>>}
    /\ UNCHANGED <<row, servers, status, cron, fired, active, cancelled, phase,
                   adrift, op, restored, history>>

Refused(r) == {s \in Servers : exec[r][s].pc = "refused"}

Untouched(r) == \A s \in Servers : exec[r][s].pc \in {"none", "refused", "asking"}

\* The run is over: its executors are gone, its guard is dropped.
Ends(r) ==
    /\ phase' = [phase EXCEPT ![r] = "over"]
    /\ exec' = [exec EXCEPT ![r] = Absent]
    /\ active' = IF active = r THEN None ELSE active
    /\ cancelled' = cancelled \ {r}

\* The starter is at a statement that may fail; one started by hand writes to
\* the audit log before it spawns an executor and after it refuses a target, and
\* its client may hang up there.
Stranded(r) ==
    /\ phase[r] = "starting"
    /\ \/ Refused(r) # {} \/ Untouched(r)
       \/ op.kind = "run_now" /\ \E s \in Servers : exec[r][s].pc \in {"denied", "asking"}

\* Mutant of Strand: the executors run on when their starter gives up.
StrandDetached(r) ==
    /\ Stranded(r)
    /\ phase' = [phase EXCEPT ![r] = "over"]
    /\ active' = None
    /\ op' = Idle
    /\ UNCHANGED <<durable, cron, fired, cancelled, exec, adrift, restored, history>>

\* Executors with a statement in the queue of the database.
Writing(r) == {s \in Servers : exec[r][s].pc \in {"ok", "bad"}}

\* The starter returns or is dropped, its executors are aborted and nobody
\* concludes the run.  A statement already queued is carried out all the same.
Strand(r) ==
    /\ Stranded(r)
    /\ \E late \in SUBSET Writing(r) : adrift' = adrift \cup ({r} \X late)
    /\ Ends(r)
    /\ op' = Idle
    /\ UNCHANGED <<durable, cron, fired, restored, history>>

\* The INSERT of an aborted executor, whatever became of the task meanwhile.
Land(r, s) ==
    /\ <<r, s>> \in adrift
    /\ adrift' = adrift \ {<<r, s>>}
    /\ results' = results \cup {<<r, s>>}
    /\ litter' = (litter \/ row.state = "gone")
    /\ UNCHANGED <<row, servers, status, cron, fired, active, cancelled, phase, exec,
                   op, restored, faults, drift>>

\* The join set goes to a task of its own and the lock is released.
Detach(r) ==
    /\ phase[r] = "starting" /\ Refused(r) = {}
    /\ phase' = [phase EXCEPT ![r] = "draining"]
    /\ op' = Idle
    /\ UNCHANGED <<durable, cron, fired, active, cancelled, exec, adrift, restored, history>>

-----------------------------------------------------------------------------
(* Executors: execute_for_server.                                          *)

\* The agent answers, the request times out or the link is lost; the outcome
\* counts if the run is not cancelled by then.
Answer(r, s) ==
    /\ exec[r][s].pc = "asking" /\ r \notin cancelled
    /\ \/ exec' = [exec EXCEPT ![r][s] = Over("ok")]
       \/ exec' = [exec EXCEPT ![r][s].pc = "bad"]
    /\ UNCHANGED <<durable, cron, fired, active, cancelled, phase, adrift, op, restored, history>>

Quit(r, s) ==
    /\ exec[r][s].pc = "asking" /\ r \in cancelled
    /\ exec' = [exec EXCEPT ![r][s] = Over("quit")]
    /\ UNCHANGED <<durable, cron, fired, active, cancelled, phase, adrift, op, restored, history>>

\* Mutant of Write: the last attempt is not told from the others.
WriteAndRetry(r, s) ==
    /\ exec[r][s].pc \in {"ok", "bad"}
    /\ results' = results \cup {<<r, s>>}
    /\ exec' = [exec EXCEPT ![r][s] =
                  IF @.pc = "ok" THEN Over("done") ELSE [pc |-> "asking", left |-> @.left - 1]]
    /\ UNCHANGED <<row, servers, status, cron, fired, active, cancelled, phase,
                   adrift, op, restored, history>>

\* write_result, whatever became of the run, the task or the Server meanwhile:
\* no foreign key ties the result to them.  A failed attempt may have a successor.
Write(r, s) ==
    /\ exec[r][s].pc \in {"ok", "bad"}
    /\ results' = results \cup {<<r, s>>}
    /\ exec' = [exec EXCEPT ![r][s] =
                  IF @.pc = "ok" \/ @.left = 1
                    THEN Over("done")
                    ELSE [pc |-> "asking", left |-> @.left - 1]]
    /\ UNCHANGED <<row, servers, status, cron, fired, active, cancelled, phase,
                   adrift, op, restored, history>>

WriteFails(r, s) ==
    /\ exec[r][s].pc \in {"ok", "bad"}
    /\ exec' = [exec EXCEPT ![r][s] = Over("failed")]
    /\ UNCHANGED <<durable, cron, fired, active, cancelled, phase, adrift, op, restored, history>>

-----------------------------------------------------------------------------
(* Completion.                                                             *)

Targets(r) == {s \in Servers : exec[r][s].pc # "none"}

\* Mutant of Drain: a cancelled run may be proved complete.
DrainRegardless(r) ==
    /\ phase[r] = "draining"
    /\ \A s \in Servers : exec[r][s].pc \notin {"asking", "ok", "bad"}
    /\ LET sound == \A s \in Servers : exec[r][s].pc # "failed"
       IN phase' = [phase EXCEPT ![r] = IF sound THEN "proving" ELSE "spoilt"]
    /\ UNCHANGED <<durable, cron, fired, active, cancelled, exec, adrift, op, restored, history>>

\* The join set is empty: the executors have all returned, and the run is sound
\* if none failed and nobody cancelled it.
Drain(r) ==
    /\ phase[r] = "draining"
    /\ \A s \in Servers : exec[r][s].pc \notin {"asking", "ok", "bad"}
    /\ LET sound == /\ r \notin cancelled
                    /\ \A s \in Servers : exec[r][s].pc # "failed"
       IN phase' = [phase EXCEPT ![r] = IF sound THEN "proving" ELSE "spoilt"]
    /\ UNCHANGED <<durable, cron, fired, active, cancelled, exec, adrift, op, restored, history>>

\* Mutant of Prove: a run whose row went with its task is retried like an error.
ProveExisting(r) ==
    /\ phase[r] \in {"proving", "spoilt"}
    /\ status[r] # "none"
    /\ phase' = [phase EXCEPT ![r] = "finishing"]
    /\ status' = [status EXCEPT ![r] = "incomplete"]
    /\ UNCHANGED <<row, servers, results, cron, fired, active, cancelled, exec,
                   adrift, op, restored, history>>

\* record_completion, retried until it commits.
Prove(r) ==
    /\ phase[r] \in {"proving", "spoilt"}
    /\ phase' = [phase EXCEPT ![r] = "finishing"]
    /\ LET complete == /\ phase[r] = "proving"
                       /\ Targets(r) # {}
                       /\ \A s \in Targets(r) : <<r, s>> \in results
       IN status' = [status EXCEPT ![r] =
                       IF @ # "running" THEN @
                       ELSE IF complete THEN "drained" ELSE "incomplete"]
    /\ UNCHANGED <<row, servers, results, cron, fired, active, cancelled, exec,
                   adrift, op, restored, history>>

\* finish_run admits the summary to the push outbox in the transaction that
\* completes the run.
Admits(r) == status' = [status EXCEPT ![r] = IF @ = "drained" THEN "completed" ELSE @]

\* The draining task tries that once, then drops the guard of the run.
Finish(r) ==
    /\ phase[r] = "finishing"
    /\ Admits(r) \/ UNCHANGED status
    /\ Ends(r)
    /\ UNCHANGED <<row, servers, results, cron, fired, adrift, op, restored, history>>

\* Mutant of Recover: only the runs of this process are looked at.
RecoverActive(r) ==
    /\ status[r] = "drained" /\ active = r
    /\ Admits(r)
    /\ UNCHANGED <<row, servers, results, cron, fired, run, op, restored, history>>

\* recover_pending, from the push worker, every second.
Recover(r) ==
    /\ status[r] = "drained"
    /\ Admits(r)
    /\ UNCHANGED <<row, servers, results, cron, fired, run, op, restored, history>>

-----------------------------------------------------------------------------
\* The process dies and is started again: what is not in the database is lost.
\* A cleanup cut short after its commit leaves what late executors wrote.
Crash ==
    /\ faults < MaxFaults
    /\ faults' = faults + 1
    /\ NoJob
    /\ fired' = {}
    /\ active' = None
    /\ cancelled' = {}
    /\ phase' = [r \in Runs |-> IF phase[r] = "unused" THEN "unused" ELSE "over"]
    /\ exec' = [r \in Runs |-> Absent]
    /\ adrift' = {}
    /\ op' = Idle
    /\ restored' = FALSE
    /\ drift' = FALSE
    /\ litter' = (row.state = "gone" /\ results # {})
    /\ UNCHANGED durable

Executors(r, s) == Answer(r, s) \/ Quit(r, s) \/ Write(r, s) \/ WriteFails(r, s)

Starter(r) == Detach(r) \/ \E s \in Servers : Deny(r, s)

Drainer(r) == Drain(r) \/ Prove(r) \/ Finish(r)

\* A run has finitely many of these steps left at any time.
Carries(r) == Starter(r) \/ Drainer(r) \/ \E s \in Servers : Executors(r, s)

Waiter == UpdateEnd \/ DeleteRows \/ DeleteFails \/ CleanupEnd

Next ==
    \/ \E targets \in Selections : CreateTask(targets)
    \/ \E enabled \in BOOLEAN, targets \in Selections : UpdateBegin(enabled, targets)
    \/ DeleteBegin
    \/ Waiter
    \/ Restore
    \/ \E s \in Servers : DeleteServer(s)
    \/ \E doomed \in SUBSET Servers : CleanupBegin(doomed)
    \/ Fire
    \/ \E j \in Jobs : CronSkip(j) \/ \E r \in Runs : CronStart(j, r)
    \/ \E r \in Runs : RunNow(r) \/ Carries(r) \/ Strand(r) \/ Recover(r)
    \/ \E r \in Runs, s \in Servers : Land(r, s)
    \/ HangUp \/ Crash

\* Code that has started goes on: an executor's request is answered or times
\* out, the waits end, and the push worker looks again every second.  Nothing
\* obliges anybody to create, change, start or delete anything.
Spec ==
    /\ Init /\ [][Next]_vars
    /\ WF_vars(Waiter)
    /\ WF_vars(\E r \in Runs : Carries(r))
    /\ \A r \in Runs : WF_vars(Recover(r))

-----------------------------------------------------------------------------
(* Properties.                                                             *)

\* Only the run on the active map has executors, whichever way the others ended.
OneRunAtATime ==
    \A r \in Runs : r # active => exec[r] = Absent /\ phase[r] \in {"unused", "over"}

\* When the lock is free, a task that is gone has left nothing: no results, not
\* even late ones, no run rows and no run.  "litter" lets through what a logged
\* failure, a hang-up at the wait of a cleanup, a restart before its end and the
\* INSERT of an executor that was aborted leave.
NothingLeftBehind ==
    Free /\ row.state = "gone" =>
        /\ \A r \in Runs : status[r] = "none"
        /\ ~litter => results = {} /\ active = None

\* When the lock is free and the scheduler runs, a task has a job exactly if its
\* row says enabled, and the map and the cron scheduler have the same, through
\* every failure that could be compensated.  "drift" lets through one that was
\* logged and a hang-up that left them apart, until the next operation on the
\* task that goes through.
JobsMatchRows ==
    Free /\ restored /\ ~drift => Agree

\* The schedule starts a run only of a task that is there and enabled at that
\* moment, however long the callback waited for the lock.
StartsAreDue ==
    [][\A r \in Runs : phase[r] = "unused" /\ phase'[r] = "starting" /\ fired' # fired =>
          Live /\ (row.enabled \/ drift)]_vars

\* Whoever holds the lifecycle lock lets it go: the waits for cancelled runs end.
OperationsFinish == []<>Free

\* Runs whose completion was proved are all admitted to the outbox, or deleted
\* with their task; neither a failed admission nor a restart leaves one there.
DrainedRunsAreSettled == []<>(\A r \in Runs : status[r] # "drained")

-----------------------------------------------------------------------------
(* The contract of the task.                                               *)

\* What the executors of the run in progress do.
Work == IF active = None THEN Absent ELSE exec[active]

Asked == {s \in Servers : Work[s].pc # "none"}

\* Those with a word left to say.
Due == {s \in Servers : Work[s].pc \in {"refused", "asking", "ok", "bad"}}

Spoilt == \E s \in Servers : Work[s].pc \in {"quit", "failed"}

Contract == INSTANCE TaskContract WITH
    task <- row.state, busy <- active, targets <- Asked, due <- Due, spoilt <- Spoilt

\* Through cancellation, retries, failed statements, deletions and restarts a
\* run is reported once at most, and only when every target has had its last
\* word, with a result of each: no attempt is left and none was cut short.
\* Nobody adds results but the run in progress and one that was stranded.
ImplementsContract == Contract!Spec
=============================================================================
