# ServerBee, verified: the agent plane and what runs on it

ServerBee monitors and operates a fleet of machines.  One Rust process (the *server*,
`crates/server`) keeps a SQLite database and one WebSocket per monitored machine; a small
Rust program (the *agent*, `crates/agent`) runs on each machine, reports metrics every
three seconds and carries out what operators ask for: commands, terminals, files, Docker,
upgrades.  Browsers and an iOS application talk to the server over HTTP and WebSockets.

This directory holds TLA+ models of the part of the server on which everything else
stands: who may speak for a machine, which connection speaks for it now, how requests
travel over that connection and come back, and what waits for what when a buffer is full.
On top of it are the three long-lived protocols of the program, which outlast a process:
the runs of scheduled tasks, the outbox of push messages, and the upgrade of an agent,
which replaces the binary it runs.  Each model was written from the code, function by
function; `PROJECT.json` names for each definition the lines it stands for.

1. [Inventory](#1-inventory)
2. [Plan](#2-plan)
3. [How the models correspond to the code](#3-how-the-models-correspond-to-the-code)
4. [What the runs check](#4-what-the-runs-check)
5. [Bounds and fairness](#5-bounds-and-fairness)
6. [What is proved](#6-what-is-proved)
7. [Where code and documentation disagree](#7-where-code-and-documentation-disagree)
8. [What is not modelled](#8-what-is-not-modelled)

How to run it, in this directory:

    tlc -workers 2 -config MCAgentAuthority.cfg MCAgentAuthority.tla
    tlapm AgentAuthorityProofs.tla


## 1. Inventory

### Components of the agent plane

**Agent Authority** (`service/agent_authority/mod.rs`).  State: the `servers` row (the hash
of the agent's run token, or NULL), `enrollment_offers` (single-use codes, each *open* or
with one final outcome), `agent_authority_events` (the history).  Operations: issue an
offer, begin a graceful or an emergency re-enrollment, replace or revoke an offer, revoke
the authority, claim (an agent presents a code and proposes its run token), admit a
WebSocket, delete Servers.  Each takes the Server's *lifecycle lock*, an in-process mutex
kept by AgentManager, opens a transaction with a write reservation, and *fences*, i.e.
takes the current connection off the map, before or after it commits.
Hard: handshakes that race with a transfer, offers that elapse in the middle, several
operators at once, deletions that need several locks, transactions that fail after the
fence, HTTP clients that hang up while a commit runs.
Correct when: the connected agent is always the authorized one; offers are single, final
and never consumed after they elapsed; the history explains the state; deletion leaves
nothing; nobody waits for ever.

**Agent registry and request relay** (`service/agent_manager.rs`).  State: the connection
map with connection ids and last-report times, response slots with a Server and a TTL,
terminal sessions, caches.  Operations: add, remove, remove-if-current; resolve a sender,
register a slot, send, wait with a deadline; dispatch a reply; sweep expired slots.
Hard: the map is only partly under the lifecycle lock, callers hold no lock at all, a
reconnect replaces an entry while the old task still runs, correlation ids are supplied by
the agents.
Correct when: an old connection's end never takes its successor off the map; replies come
from the Server that was asked; a lost agent fails its own waiters and nobody else's; every
slot is freed.

**Agent WebSocket endpoint** (`router/ws/agent/mod.rs`).  Per connection a read loop, a write
task and a channel of 64 messages.  Each frame is handled under the lifecycle lock, after a
check that the connection is still the current one; some handlers await room in a channel,
without a timeout and with the lock held.

**Offline checker** (`task/offline_checker.rs`).  One task for all Servers: every 10 s it
collects connections without a frame for 30 s, evicts them one by one under their locks, and
sweeps expired slots.

**Terminal relay** (`router/ws/terminal.rs`).  Per terminal one select loop between a browser
and the agent, with a channel of 256 events.

**Agent reporter** (`agent/src/reporter/mod.rs`).  One select loop that awaits every write and
does not read meanwhile.

**Server onboarding** (`service/server_onboarding.rs`).  A Server, its profile and its first
offer in one transaction, idempotent per request id.

### Components above it

**Task scheduler** (`service/task_scheduler.rs`, `task_notification.rs`).  State: the rows of
`tasks`, `task_runs` and `task_results`; in memory the map of cron jobs, the active runs with
a cancellation token each, and the executors of a run, one per Server.  Operations: create,
update, delete a task, run it now or by cron, restore at start, clean up orphaned Servers,
prove a run complete and admit its summary to the push outbox.
Hard: deletion cancels a run and waits for it, while the executors write results that no
foreign key ties to the task; a callback that waited for the lock fires a job that was
replaced; a failed operation has to put the cron job back; a process that dies leaves runs
that nobody concludes; an operation is an HTTP handler's future, dropped when the client hangs up.
Correct when: a task has one run at a time; nothing of a deleted task is left; the cron job
agrees with the row; a run reported as complete has a result of every target; operations
finish, and drained runs are settled.

**Push outbox and registration** (`service/mobile_push_outbox.rs`, `router/api/mobile_push.rs`,
`router/api/mobile.rs`).  State: outbox rows with an encrypted envelope, a lease and the next
attempt; the registration of a phone with its device token and revision.  Operations: admit a
row, claim, send, settle; save preferences, register, unregister.
Hard: leases lapse under a slow worker, answers come after the token changed, the clock a
worker read is old when it gets the writer lock, a crash comes between a send and its record.
Correct when: a message goes to the token it was admitted for or to nobody, has one final
fate, an answer erases only the token it is about, and every row settles.

**Agent upgrade** (`agent/src/upgrade/transaction.rs`, `agent/src/reporter`) and **upgrade
tracker** (`service/upgrade_tracker.rs`).  State: on the agent's disk the binary, its backup
and a state file; the task that installs, the watchdogs, and, for an agent started by hand, the
parent that watches its candidate; on the server one job per agent, in memory.
Hard: any process may die between two file operations; a rollback has two renames; the report
of a rollback comes one process and several connections later, after the server has taken the
candidate's first message for the success.
Correct when: the old binary can be brought back until the candidate is confirmed; what the
server shows as succeeded is installed or will be corrected; every installation is decided.

**Agent enrollment client and run token store** (`agent/src/register.rs`,
`run_token_store.rs`).  The agent stores the token it proposes before it claims, so that it
can retry a claim whose answer was lost.

### The rest of the server and the agent

*Alert intents* (`alert_event_intents.rs`), *file transfers*, *capability grants*: small state
machines swept by timers or fed by agents' frames.  *Alerts, notifications, traffic, records,
roll-up, renewal, status pages, dashboards, accounts*: mostly sequential database work.
`PROJECT.json` lists each with its status.

### How the parts interact

    operator --HTTP--> AgentAuthority --lock, fence--> AgentManager <--lock, current?-- read loop <--frames-- agent
    agent ---claim---> AgentAuthority                   |  ^   ^                          |
    agent --upgrade--> admit (lock) --add_connection----+  |   +--- offline checker       +--Ack, output--> channels
    HTTP handlers --request_with_id (no lock)--------------+        (lock per candidate)            |
                                                                                  terminal relay <--+--> browser

The lifecycle lock of a Server is what they share: authority transitions, admissions,
frames, cleanups and evictions of one Server are serial.  What is outside it, and therefore
worth checking, are the preflight of a handshake, the lookup of a claim, the whole of
`request_with_id`, the checker's walk over the map, and whatever a dropped future leaves
behind.

    cron, operators --> task scheduler --executors--> request_with_id --> agents
                              | finish_run, in one transaction
    alerts, security -->  push outbox  <--lease, settle-- 4 workers --> relay --> phone
                                         phone --HTTP--> registration

    operator --> upgrade tracker --Upgrade--> agent: state file, backup, candidate
                       ^---- SystemInfo (version), UpgradeResult, CapabilityDenied ----+

The task scheduler shares one lock of its own between its operations and the start of runs;
its executors use the relay's outcomes and nothing else of it.  The outbox shares the
database only.  The tracker learns of an upgrade's success from the version that the next
connection reports, and of a rollback from the connection after that.  `PROJECT.json` lists
the hazards line by line under "hazards".


## 2. Plan

In order of importance.

| step | module | what | state |
|---|---|---|---|
| 1 | `AgentAuthority` | transitions, claims, admission, deletion, dropped requests | done |
| 1 | `AuthorityContract` | the promise: authority, connection and offers without locks or failures | done |
| 2 | `AgentAuthorityProofs` | types, connection fencing and the lock order of deletions for all instances | done |
| 3 | `AgentRegistry` | connections, request relay, offline checker | done |
| 3 | `RelayContract` | the promise of `request_with_id`: a request without connections, slots or sweeps | done |
| 3 | `AgentRegistryProofs` | authentic answers, surviving successors, the refinement of `RelayContract` | done |
| 4 | `AgentLink` | back-pressure between agent, read loop, terminal and checker | done |
| 4 | `AgentLinkProofs` | handlers keep their connection, for all buffer sizes and any traffic | done |
| 5 | `TaskRuns` | one scheduled task: its row, cron job, runs and completion proof; cancel, delete, cleanup, failures, restarts, clients that hang up | done |
| 5 | `TaskContract` | what a task promises its owner: one run at a time, no results from elsewhere, final reports | done |
| 5 | `TaskRunsProofs` | every safety property of the run and the refinement for all instances | done |
| 6 | `PushContract` | what the outbox promises, without leases, clocks or revisions | done |
| 6 | `PushOutbox` | rows, leases, workers, registration; implements `PushContract` | done |
| 6 | `PushOutboxProofs` | leases and the refinement for all instances | done |
| 7 | `AgentUpgrade` | the agent's disk and processes, and the server's job | done |
| 7 | `AgentUpgradeProofs`, `AgentUpgradeReportProofs` | the old binary survives; success is honest | done |
| 8 | `AgentAuthorityOfferProofs` | offers, deletions, reports, the event history and the refinement of `AuthorityContract` for all instances | done |

`AgentRegistry` takes admission and fencing from `AgentAuthority` as actions that may happen
at any time, so that its properties hold under any authority; `AgentLink` takes from both
that a frame and an eviction need the lock.  An executor of `TaskRuns` takes from
`AgentRegistry` that a request ends, in an answer or a failure; `AgentUpgrade` takes from it
that a new connection silences the one before.  The admission of a run's summary is `Admits`
in `TaskRuns` and `Admit` in `PushOutbox`, one transaction of the code seen from both sides.
No module uses a RECURSIVE operator, so that all can be proved about.


## 3. How the models correspond to the code

### AgentAuthority

*State.*  The eight table variables are the three tables of the subsystem: `status`,
`token`, `hash` the `servers` row; `outcome`, `target`, `successor`, `elapsed` the
`enrollment_offers` rows (`"open"` is the NULL outcome, `elapsed` is `expires_at` compared
with now); `log` the event rows of each Server.  A salted hash is named by the offer whose
claim wrote it, because two claims with one run token still write two hashes, and admission
compares hashes.  `conn` is the connection map, `sock` one record per WebSocket task, with
the authority it was admitted under; `job`, `claim` and `del` are the program counters of
the requests in progress.

*Actions.*  Each transition of the code takes the lifecycle lock, reserves the write
transaction (`begin_write`), reads, decides, writes, commits, and fences before or after.
It is two actions here:

| code | begins with | commits as |
|---|---|---|
| `issue_offer_for_unclaimed` | `BeginIssue` | `WriteIssue` |
| `begin_reenrollment` | `BeginReenrollment` (fences when it is an emergency) | `WriteReenrollment` |
| `replace_offer` | `BeginReplace` | `WriteReplace`, or `WriteOutcome` when elapsed |
| `revoke_offer` | `BeginRevokeOffer` | `WriteOutcome` |
| `revoke_authority` | `BeginRevokeAuthority` | `WriteRevokeAuthority`, then the fence |
| `claim` | `LookupClaim` (no lock), then `ClaimAccepted` (fences), `ClaimExpired` or `ClaimRejected` | `WriteClaim`, `WriteOutcome` |
| `delete_servers` | `BeginDelete`, `TakeLock` per id in sorted order, `FenceDoomed` | `CommitDelete` |
| `preflight` and `admit` | `Preflight` (no lock), `Admit` or `Refuse` | |
| the read loop and its end | `HandleReport`, `Close` | |

`Writable` is "the lock is free and the write reservation can be had", and `job[s]` holds
what the decision was until `Commit` makes it durable or `Abort` rolls it back (a failing
statement, a failing COMMIT, or a request dropped before it).  A fence made before the
commit survives an `Abort`, as in the code.  `Restart` loses everything but the tables.

*Dropped requests.*  axum drops a handler's future when the client hangs up, and with it
the lock guard.  At the await of COMMIT the statement is already with sqlx's SQLite worker
thread.  With `MayDropRequests`, `DropAtCommit` releases the lock and leaves the transition
in `adrift`; `Land` completes it, or finds it rolled back, at any later moment.  Nothing
after the COMMIT, such as the fence of `revoke_authority`, is executed.

*Abstractions.*  Rows are records of what transitions read and write; audit rows, timestamps,
actor and source are left out.  Early returns that change nothing are the absence of a step.
Ids, codes and tokens are model values.

### AuthorityContract

What the subsystem promises, with no locks, transactions, handshakes or failures: five
actions on four variables.  A grant consumes the Server's open offer and disconnects whoever
was connected in the same step; whatever withdraws an authority disconnects in the same
step.  `AgentAuthority` implements it, when no request is dropped, under the mapping
`authority <- hash` and `live <- LiveUnder`, where `LiveUnder[s]` is the authority the
current socket of `s` was admitted under.

### AgentRegistry

`entry` is the connection map, `task` the tasks of the WebSockets, `deaf` those whose write
task (and channel receiver) has ended while the read loop goes on, `silent` the Servers
whose `last_report_at` is over the threshold, `slots` and `aged` the response slots and the
ones past their TTL, `req` the callers, `checker` the candidates the offline checker has
left.  `Remove` is an entry's removal with `finish_connection_removal`.  `request_with_id` is
`Resolve`, `Register`, `Send`, then one of `Reply`, `Disconnected`, `Timeout`, with `HangUp`
anywhere: nothing removes the slot when the future is dropped, so a caller that hangs up leaves it.
The slot is there before the send is over, so the reply may come first: such a request is
`replied` until `Resume` ends its send.
`Age` follows the clocks of the code: the TTL is the deadline plus ten seconds and counts
from the registration, while the deadline counts from the end of the send; the TTL can pass
before the deadline only when the send took longer than the ten seconds (`slow`).  The
connection steps run under the lifecycle lock and are therefore single steps; who may connect
is not restricted, so that the results hold under any authority.

### RelayContract

What a caller of `request_with_id` may count on, in terms of Servers and requests only: which
Servers are on the map (`online`), where each request is (`phase`, `server`), whether its send
was `slow`, and which requests in progress are `doomed`, that is, beyond any answer.  A request
is answered only if it is not doomed; it becomes doomed when its Server is lost or when its TTL
passes, which happens only to one that is late with its send or was; it fails early only if it
is doomed.  An answer that comes before the end of the send is taken up after it
(`Collect`).  Reconnects, frames of other Servers, fences of other Servers and the checker's
verdicts do not touch it.  `AgentRegistry` implements it with `doomed <- Doomed`, the requests
in progress that have no slot: the slot is how the code says that an answer is still possible.

### AgentLink

Per Server: `up` and `wire` are what is underway on the socket, `chan` the connection's
outgoing channel, `out` the terminal session's channel; `agent`, `loop`, `term` and `at` say
what the four kinds of tasks are waiting for.  Frames are reduced to what their handlers wait
for: a `report` for nothing, a `result` (TaskResult and what else is acknowledged) for room
in the connection's own channel, an `output` (TerminalOutput) for room in the terminal's, both
with the lifecycle lock held.  The agent and the terminal task are single loops that do not
read while they write.  Buffers have small capacities; nothing depends on which message is in
them, so they are counters except where frames of different kinds queue up.  Traffic has no
limit: a busy agent picks what it sends as often as it likes (`Pick`), and so does the browser
(`TakeInput`).

### TaskRuns

*State.*  `row` is the task's row (state, enabled, targets), `status` and `results` its runs and
their results, `servers` the Servers that exist; `job` the entry of `job_map` and `ticking`
whether the cron scheduler has that job, `fired` the callbacks that wait for the lifecycle lock;
`active` and `cancelled` the active run and the tokens; `phase` where a run is, first in its
starter and then in the task that drains it, `exec` the executor of each Server, `adrift` the
results whose INSERT is in the database's queue although their executor was aborted; `op` who
holds the lifecycle lock and what it remembers.  `drift` and `litter` are history: row, map and
cron scheduler were left apart, or traces of a deleted task behind, by one of the events that
the code does not compensate.

*Actions.*  The lock is held from the first read to the return, so an operation is one step
unless it waits for a cancelled run: then it is two, with the executors in between.

| code | actions |
|---|---|
| `create_task` | `CreateTask` |
| `update_task` | `UpdateBegin`, `UpdateEnd` |
| `delete_task` | `DeleteBegin`, then `DeleteRows` or `DeleteFails` |
| `cleanup_orphaned_servers` | `CleanupBegin`, `CleanupEnd` |
| `delete_server` | `DeleteServer` (outside the lock) |
| `restore_and_start` | `Restore` |
| a job's callback, `run_now` | `Fire`; `CronStart` or `CronSkip`; `RunNow` |
| `execute_scheduled_task` | `Starts`, `Deny`, `Detach`, or `Strand` when a statement fails or a manual run's client hangs up |
| `execute_for_server` | `Answer`, `Write`, `WriteFails`, `Quit` |
| the draining task, `record_completion`, `finish_run` | `Drain`, `Prove`, `Finish` |
| `recover_pending` | `Recover` |
| a handler that is dropped where it waits | `HangUp`, `Forsakes` |
| an INSERT that outlives its executor | `Land` |

*Dropped handlers.*  `update_task`, `delete_task`, `cleanup_orphaned_servers` and `run_now` run
in the future of an HTTP handler, which axum drops when the client hangs up: at that await the
lock is released, and nothing that was to follow is done.  At the await of a statement or of
`add_job` this leaves what a failure of that statement leaves, or its effect, and the model has both
already (`UpdateEnd`, `DeleteFails`, `CreateTask`, `CleanupBegin`).  Two places are different.
While the cron scheduler is asked to remove the job, the run is not cancelled yet (`Forsakes`,
in `RemovesJob` and `CleanupBegin`).  At the wait for the cancelled run (`HangUp`) the run
goes on ending, the cron scheduler has lost the job and `job_map` keeps it: an update has
written its row and adds no job, a deletion deletes nothing, a cleanup has committed and does not
look for late results.  Restarts and these hang-ups share one budget, `MaxFaults`.

*The contract.*  `TaskContract` has neither lock nor jobs, attempts, tokens or proofs: a task, the
status of its runs, their results, and of the run in progress (`busy`) its `targets`, those
with a word still `due`, and whether one was cut short (`spoilt`).  In `TaskRuns` these are the
executors of the active run that were started (`Asked`), that have something left to say
(`Due`), and that quit or failed to write (`Spoilt`).

### PushContract and PushOutbox

`PushContract` has the phone's token, the fate of each message, the token it is for, and what
each channel has under way.  A message is sent to the token it was admitted for; a fate is
final, except that of a message withdrawn while it was on its way; an answer takes a token
away only if it is about that token.  After a registration was deleted its revisions start
again, so a message admitted before may be taken for one of the next: `Forget` says so.

In `PushOutbox`, `reg` is the row of the phone's registration, `rows` the outbox, `wk` the
workers, `clock` a clock that everybody reads.  `deliver_next` is `Poll` (the read without the
writer lock, and the clock it goes by), one of `Claim`, `ClaimIneligible`, `ClaimNothing`,
then `Respond`, then `Settle` or `Drop`; time may pass between any two of them, so a lease
may have lapsed.  `Fail` loses a worker with its answer.  The refinement mapping takes a
registration to its token, a row to its `Fate` and a worker to its message and token in flight.
A row that became ineligible keeps its worker's lease id, as in the code, so a late answer may
still be recorded on it; that is the exception the contract makes.

### AgentUpgrade

*State.*  `exe`, `bak` and `txn` are the disk: the binary at the agent's path, the backup, the
state file.  `agent` is the process and the version it runs, `dog` and `stable` its two timers,
`task` the installation, `roll` a rollback between its two renames, `parent` the process that
watches a candidate it started.  `link`, `wire`, `orders` are the connection: how far the
handshake is, messages to the server, commands to the agent.  `tracker` is the server's job,
`op` the operators' requests between the look at the tracker and the insertion.

*Actions.*  `perform_upgrade` is `Receive`, `Prepare`, `BackUp`, `Swap`, `Restart`, each a file
operation after which the process may die (`Crash`); `prepare_startup` is `Start` with its
cases `Trial`, `Interrupted` and `Again`; the trial ends with `Commit` and `Finalize`, or with
`Bite` (the watchdog) or `TakeBack` (the parent) and `PutBack`, `Conclude`; `PutBackFails` and
`ConcludeFails` are the failures before and after the backup is in place.  The report of a
rollback is `Report` and `Acknowledge`.  On the server `Request` and `Insert` are the two steps
of `trigger_upgrade`; `Handle` gives the frames' verdicts, `Sweep` is the timeout.  An agent
under a supervisor and one started by hand differ from `Restart` on: the first exits, the
second starts the candidate and goes on as an agent beside it, and each connection takes the
place of the other's (`ParentConnects`).


## 4. What the runs check

| run | configuration | shows |
|---|---|---|
| `authority` | `MCAgentAuthority.cfg` | fencing, offers, history, deletion, reports and the contract, on one Server with everything racing |
| `dropped_requests` | `MCDroppedRequests.cfg` | what survives when clients hang up: offers stay single, by the write reservation alone |
| `server_deletion` | `MCServerDeletion.cfg` | deletions of overlapping sets never wait for each other, and they and all claims finish |
| `registry` | `AgentRegistry.cfg` | authentic answers, surviving successors, the contract of the relay, silent agents evicted, slots freed |
| `link` | `AgentLink.cfg` | under unlimited traffic: no connection goes while a handler holds its lock; locks come back and dead agents go, but for two named ways to be stuck |
| `task_runs` | `TaskRuns.cfg` | one run at a time; nothing of a deleted task left and row and job in agreement, but for what nobody compensates; the contract is implemented, operations and drained runs come to an end |
| `push_outbox` | `PushOutbox.cfg` | leases are exclusive while they last, the outbox keeps its contract, every row settles |
| `agent_upgrade` | `AgentUpgrade.cfg` | the old binary survives, a success is honest, every installation under a supervisor is decided |
| `revocation_dropped` | `MCRevocationDropped.cfg` | counterexample: a revoked agent stays connected |
| `waiter_outlives` | `WaiterOutlives.cfg` | counterexample: a request waits for a connection that has ended |
| `offline_verdict` | `OfflineVerdict.cfg` | counterexample: an agent that has just reported is marked offline |
| `jammed_link` | `JammedLink.cfg` | counterexample: one jammed connection keeps the dead agents of other Servers online |

The properties, and what it would take to break them:

- `ConnectionFencing`: the current connection of a Server was admitted under the hash its
  row holds now.  A handshake that trusts its preflight breaks it.
- `OneOpenOffer`, `TerminalOffersImmutable`, `HistoryExplainsAuthority`: offers are single and
  final, and each event starts where the one before it ended.  With `MayDropRequests` they
  hold only because `begin_write` takes the reservation before the first read: without it
  (`WithoutReservation`) a commit that lands late meets a decision taken on old rows.  The
  run `dropped_requests` checks the first; all three are proved with dropped requests.
- `NoDeadlock`: no set of deletions in which each waits for a lock that another one of the set
  holds.  It is the safety half of `DeletesFinish`, and does not depend on fairness.
- `HistoryTellsOutcomes`: each outcome has exactly one event, and an open offer none.
- `ElapsedNeverConsumed`: an offer that elapsed before a claim decided on it is not consumed.
- `DeletedLeavesNothing`, `ReportsOnlyUnderAuthority`: no connection, open offer or cached
  report outlives a Server; a superseded connection's frames are not applied.
- `ImplementsContract`: every step of `AgentAuthority` is a step of `AuthorityContract` or
  changes nothing of it.
- `DeletesFinish`, `ClaimsAreDecided`: the sorted lock order of `delete_servers` against two
  deletions, claims and transitions; in any other order two deletions wait on each other.
- `AnswersComeFromTheirServer`: correlation ids are named by agents, slots are tied to Servers.
- `SuccessorsSurvive`: a connection leaves the map by its own end, as a candidate of the
  checker, or by a fence, but never by its predecessor's end.
- `ImplementsRelay`: every step of `AgentRegistry` is a step of `RelayContract` or changes
  nothing of it.  A disconnection that fails the waiters of other Servers, a reply that
  settles a request twice, or a sweep that takes a slot within its TTL breaks it.
- `OneRunAtATime`: executors at work belong to one run, the active one; a starter that gives up
  and leaves its executors running breaks it.
- `NothingLeftBehind`: once a task is gone there are no run rows in any case, and no results of
  it, late executors included, and no run, unless `litter` says why: a logged failure of the
  last clean-up, a client that hung up while it waited, a restart before its end, or the INSERT
  of an aborted executor that landed afterwards.  A clean-up that does not look again after its
  wait breaks it.
- `JobsMatchRows`: with nobody holding the lock the cron scheduler has a job, and `job_map` the
  same, exactly if the row is live and enabled.  `drift` excepts a failure that was logged and
  a client that hung up and left them apart, until the next operation that goes through; a
  hang-up that leaves them in agreement is no exception.
- `ImplementsContract` of `TaskRuns`: every step is a step of `TaskContract` or changes nothing of
  it.  A run reported in spite of a cancelled executor, reported twice or reopened, or a result
  of any but the run in progress or one that was cut short and is never reported breaks it.
- `StartsAreDue`: a run starts only for the job the task has now.
- `OperationsFinish`, `DrainedRunsAreSettled`: the holder of the lock waits for a cancelled run,
  and gets it; a drained run is completed or goes with its task, over restarts as well.  Both are
  stated as "again and again" (`[]<>`), which says the same of a state that is to come to an end.
- `LeaseIsExclusive`: while a lease lasts the row carries its worker's, so nobody else sends it.
- `RowsSettle`: an admitted row comes to an outcome, whoever dies in between.
- `OldBinarySurvives`: until the candidate is confirmed, the old binary is at the agent's path or
  complete in the backup.
- `SuccessIsHonest`: a job shown as succeeded is installed, or the report of its rollback is to
  come, or was lost with a connection, or is another job's.
- `CandidatesAreDecided`: under a supervisor a transaction ends, in the candidate or the old
  binary, unless a crash between the two renames left nothing to start.
- `HandlersKeepTheirConnection`: while a frame handler holds the lifecycle lock, be it to await
  room in a channel, its connection stays on the map and its read loop goes on.  A checker that
  evicts without the lock breaks it.
- `LocksAreReleased`, `DeadAgentsGoOfflineUnlessStuck`: the handlers give the lock back and the
  dead agents of every Server go, whatever agents and browsers send, unless some handler is
  stuck for good.  There are two ways, and no other: `Jammed`, where agent, write task and handler
  (or the terminal behind it) wait for each other with the buffers between them full, and `Unread`,
  where a browser does not read its terminal.  The first property excepts a Server only if it
  is itself stuck.  An acknowledgement that waits until it is on the wire breaks the first,
  a checker that compares the threshold the wrong way round the second.
- `SilentGoOffline`, `SlotsAreFreed`: progress of the checker and the sweep.

Each property of a passing run has a mutant of the model, named in `PROJECT.json`, that
breaks it: a guard dropped, a comparison turned round, an event or a fence forgotten.


## 5. Bounds and fairness

*Bounds.*  All are sizes of constant sets, except those of `AgentLink`.

- `authority`: one Server (Servers share no state but the deletions' locks), three offers
  (open, replaced by a second, reissued as a third; two consumed in turn and a third open),
  one run token (the strongest case, since every socket verifies for it), two sockets (an old
  and a new one), two claims, one deletion.  548,000 states.  Offers, sockets, claims and
  deleters are interchangeable and the run is without liveness, so symmetry is sound.
- `dropped_requests`: the same with one socket and one claim, and transactions adrift.
- `server_deletion`: two Servers and two deletions, the least that can wait on each other;
  no sockets, no symmetry, for the liveness.
- `registry`: two Servers, two connections, one request, so that a reconnect, an agent of
  another Server and a candidate of the checker meet.  A slot's properties concern one slot
  at a time.  177,784 states.
- `link`: one busy Server and one that is merely connected, every buffer of size one, no bound
  on what is sent.  114,252 states.  A larger buffer only takes longer to fill, and the second
  Server is the one whose dead agent the checker has to reach.
- `task_runs`: two Servers of which one may be asked and deleted, the selections with and
  without the other, two runs (an old one and its successor), two attempts, one restart or
  hang-up, two job ids, so that a callback of a replaced job meets its successor.  1,736,753
  states.  With two (`MaxFaults = 2`) the safety properties also hold, on 3,291,003 states.
- `push_outbox`: one row (rows share nothing but their order), two tokens, two workers, leases
  and waits of one unit in a window of two, so that a lease lapses and a retry comes too late
  within the time bound of three; three revisions, two failures.  295,026 states.
- `agent_upgrade`: two jobs, hence two operators at once or a second upgrade after a failed one,
  and two faults, so that a recovery is interrupted in its turn; both kinds of agent.  The
  messages on the wire are bounded by the jobs.  110,484 states.

*The exceptions of `link`.*  `Jammed` needs as many acknowledged frames and as much terminal
input as fit into the channel (64 messages in the code) and the TCP buffers on both sides while the
agent reads nothing because it awaits a write of its own; nothing in the code rules it out, and no
wait in it has a timeout.  `jammed_link` is the run in which it happens.

*Fairness*, and what justifies it.

- Strong fairness of the steps that take a lifecycle lock: `tokio::sync::Mutex` is FIFO, so a
  task that waits is served whenever the lock is released often enough.
- Weak fairness of `Commit \/ Abort`, of a deletion's end and of a landing COMMIT: SQLite's
  busy wait is bounded (5 s, `main.rs`), after which the statement fails.
- Weak fairness of the checker's and the sweep's steps in `AgentRegistry`: a periodic task,
  whose locks are free there in every state, handlers being single steps.
- Strong fairness in `AgentLink` of the agent's reads and of the terminal's and read loop's
  steps: `tokio::select!` polls its branches in random order, channels queue their senders.
- Weak fairness in `TaskRuns` of a run's own steps (`Carries`), of the operation that waits
  (`Waiter`) and of `Recover`: requests have a deadline, statements end, and the push worker
  looks every second.  Nothing requires them to succeed: a recovery that fails for ever would
  leave a run drained, so `Recover` assumes a database that works in the end.
- Weak fairness in `PushOutbox` of the clock and of each worker's steps: workers poll for ever
  and a send has a timeout.  None for the phone.
- Weak fairness in `AgentUpgrade` of the supervisor's restart, the handshake, the installation's
  and the rollback's file operations and the two timers.  None for operators, the server's frames, or
  the parent of an agent started by hand, which may die and leave its candidate unwatched;
  `CandidatesAreDecided` is stated for supervised agents for that reason.
- `Send` in `AgentRegistry` is weakly fair: a socket drains or fails.  `AgentLink` is the
  module that looks into that assumption.
- None for agents and operators: an agent may never report, answer or close, an offer may
  never be claimed.  A browser may never read, unless `BrowsersRead`, and
  may send without end.


## 6. What is proved

The modules whose names end in `Proofs` prove the following with TLAPS for every value of the
constants.  The assumptions are the named ones of the modules: Server ids are natural numbers
(they are sorted), `None` is no member of the other sets, switches are Booleans, durations and
bounds natural numbers, and there are two job ids for the cron scheduler to choose from.

*Connection fencing*, `~MayDropRequests => (Spec => []ConnectionFencing)`.  The property is
not inductive: a commit that changes `hash` preserves it only if nobody is connected, or if
it fences.  `IInv` adds why that is so.

- `LockInv`: a lock has one holder, be it a transition or a deletion, and rows that are
  adrift are in nobody's hands.  Without it two transitions could interleave on one Server.
- `RowInv`: authority, open offers and transitions in progress imply a `servers` row.
- `FenceInv`: a `consume` or `emergency` in progress, and a deletion past its fence, have
  nobody connected.  This needs that `Admit` asks for the same lock.
- `JobInv`: the offer a transition decided on is still open and its Server's.
- `DropInv`: nothing is adrift when requests are not dropped.
- `ConnInv`: the current connection is live, belongs to its Server, and, when requests are
  not dropped, was admitted under the row's present hash.

Each has a lemma `...Next` over the step.  Those read the effect of an action from a few
*form* lemmas (`StepForms`, `TransactionForms`, `DeleteForms`): a step begins a transition,
makes one durable, moves a deletion, or touches connections only.  `TypeCorrectness` comes
from the same invariant.

*Offers, deletions and reports.*  `AgentAuthorityOfferProofs` adds `OfferInv` to `IInv`.

- `ReadInv`: what a transition read still holds when it writes: `issue` finds the Server
  unclaimed and a reenrollment finds it claimed, and a transition that mints or revokes settles
  the only open offer there is.  `OneOpenOffer` and `ReadInv` need each other: the read is
  complete because there is one offer, and the second offer is never written because the read
  is still true, by the lock and the write reservation.  This holds with dropped requests too.
- `ElapsedInv`: only open offers elapse, so a COMMIT that settles an offer forgets its expiry.
  `ElapsedNeverConsumed` follows from `OnlyClaimsDecide`: a COMMIT consumes an offer only by a
  decision, and no decision falls on an elapsed offer.
- `ReportInv`: a cached report has a `servers` row, if no request is dropped; with `ConnInv` and
  `RowInv` it gives `DeletedLeavesNothing`.

*The contract.*  `Refinement` maps each step to one of `AuthorityContract` or to none: a COMMIT
settles, withdraws or grants, where `FenceInv` supplies that nobody is connected and
`ReadInv` that what is settled are all the open offers; fences, closing sockets and the checker
disconnect; a deletion disconnects and then deletes; beginnings, aborts, handshakes that are
not admitted, reports and expiry are not visible.  Only `~MayDropRequests` makes it true: with
a dropped request the authority changes in one step and the connection goes in another.

*The lock order.*  `NoDeadlock` speaks of arbitrary sets of deletions.  `OrderInv` says that
the locks a deletion holds are of lesser Servers than those it still wants, since it takes
them in sorted order.  If every member of a set waited for a lock held in the set,
there would be a greatest awaited lock (`Greatest`, by well-foundedness of the natural numbers;
here the finiteness of `Servers` is a hypothesis), and whoever holds that one awaits a
greater one.  Claims and transitions need no part in this: they hold one lock and wait for none.

*The history.*  The second half of `AgentAuthorityOfferProofs` proves `HistoryExplainsAuthority` and
`HistoryTellsOutcomes` for all instances, dropped requests included.  `LogForms` reads off what
a COMMIT appends: the terminal event of its own offer, an event of the transition, or both,
and `ReadInv` says that the states these name are the ones before and after.  The second needs
`TellsInv` about all offers and all histories: nothing is told of an offer without an outcome,
wherever it might be told, so that its terminal event is the first and the only one.

*The registry.*  `AnswersComeFromTheirServer` is inductive together with `TypeOK`: the answer
is recorded in the step that checks the slot's Server.  `SuccessorsSurvive` is an action
property, proved from `TypeOK` by cases on `Next`.  `RelayRefinement` needs `SlotInv` besides:
slots belong to requests in progress or abandoned, the TTL of a waiting request passes only
after a slow send, and no send is slow before it is done.  Then an admission is `Connect`; a
cleanup, an eviction and a fence are `Lose` or nothing; each step of a caller is its
namesake; a sweep is `Expire`; everything else is invisible.

*Back-pressure.*  Both theorems are about all buffer sizes, any number of Servers and unlimited
traffic.  `Typing` says that no buffer is filled beyond its size, and `ConnectionsAreKept` is
inductive with it: the lock is only taken by a read loop that is online and has a frame, only
the handler gives it back, and the checker, the only one to take a connection off, awaits it.

*Task runs.*  The invariants of `task_runs`, `StartsAreDue` and the refinement of
`TaskContract` from one invariant.  `OneRunAtATime` is inductive; the others need what connects
an operation with what it waits for.

- `LockInv`: a run is being started only by the holder of the lock, and a start and an update
  have a task.
- `RunInv`: an executor that quit belongs to a cancelled run, and a run that is being proved has
  no executor with something left to say, or one cut short.
- `AttemptsInv`: an attempt that may fail is one the executor has.
- `RowInv`: a task that is gone has no run rows, and nothing else but `litter` or what its
  cleanup is waiting for.
- `JobInv`: row, map and cron scheduler agree whenever nobody is in the middle of changing them
  and nothing left them apart; before the scheduler is restored, only that a job has an enabled
  row.  `FiredInv`: one callback waits, so that a new job has an id of its own.
- `LateInv`: a result that is adrift belongs to a run that is over and was cut short while its
  row said "running", so that it is never reported.

The exceptions are the ones of the properties: `drift` and `litter` are set by the steps that
are not compensated and by no other, and cleared by the next operation that goes through.

`Refinement`: `Prove` looks at results, which an earlier attempt may have written too, and only
`RunInv` makes it the contract's `Prove`, with nothing due and nothing spoilt.  `FreshInv` adds
that a run id that was never used has no row, so every start is a `Start`; `WasThere`, that
whoever deletes has found the task.  Then a denial and a result are `Speak`, a quitting executor
and a failed write are `CutShort`, a stranded start, an admission that ends its run and a crash
are `Stop`, an INSERT that lands late is `Straggle`, and answers, hang-ups, a drained JoinSet
and a detached starter are invisible.

*The push outbox.*  `LeaseIsExclusive` from `LeaseIsWritten`: while a worker's lease lasts, the
row says so, because every taking over and every sweep compares the clock with the lease, and a
clock that was read earlier is never ahead (`ClocksAreRead`).  `ImplementsContract`: the
initial states map to initial states, and each action to the step it stands for, by cases.
That needs `RevisionsTellTokens`, by which a row of the registration's revision is for its
token, unless the registration was deleted meanwhile; `LeasedRowsAreOpen` and `NothingToSend`,
about what is in flight; and `TokensAreEarly`, that the bound on revisions leaves an erasure room.

*The upgrade.*  `OldBinarySurvives` together with `DiskInv`: the order of an installation
(`InstallationInOrder`), the owner of a rollback (`RollbackHasAnOwner`), that what runs is what is
installed (`CandidateRunsInPlace`), and that a parent keeps its candidate's backup
(`ParentHasBackup`).  `SuccessIsHonest` is proved on top of that: the transaction on disk is
of the last installation (`JobsAreKnown`), a candidate's version on the wire comes from a
candidate (`NewsIsOfTheCandidate`), no job is shown as succeeded before its candidate
exists (`NoEarlySuccess`), and a report is made before it is forgotten (`ReportsAreMade`).

*Only model-checked.*  All liveness, which is beyond the prover: `DeletesFinish`,
`ClaimsAreDecided`, `SilentGoOffline`, `SlotsAreFreed`, `OperationsFinish`,
`DrainedRunsAreSettled`, `RowsSettle`, `CandidatesAreDecided`, `DeadAgentsGoOfflineUnlessStuck`,
`LocksAreReleased`.  `NoDeadlock` is the safety half of the first, and is proved.


## 7. Where code and documentation disagree

Each of these is a run whose property TLC finds violated, and a finding in `PROJECT.json`
with the lines of both sides.

1. `revocation_dropped`.  `revoke_authority` fences after its commit.  A client that hangs up
   while COMMIT runs leaves the authority revoked and the agent connected, until the next
   transition, disconnection or restart.  ADR 0004 calls fencing "a hard invariant, not a
   post-commit courtesy".
2. `waiter_outlives`.  "The slot is dropped (failing the receiver) if `server_id`
   disconnects": not when a reconnect replaces the entry, nor when the removal falls between
   the lookup of the sender and the registration of the slot.  The caller waits until its
   deadline.
3. `offline_verdict`.  "marked offline (no report for 30s)": candidates are read without the
   lock and only their connection id is compared under it, so an agent whose report was
   handled in between is evicted all the same; it has to reconnect.
4. `jammed_link`.  "Runs every 10 seconds": an agent that awaits room for its write does not
   read; the write task awaits the socket; the read loop awaits room for an Ack in the channel the
   write task empties, and holds the lifecycle lock, for which the checker waits as soon as
   that agent counts as silent.  Nobody in this circle has a timeout.  Other Servers' agents that
   die are not evicted and no slot is swept.

Seen while modelling, without a run of its own:

- A browser that stops reading its terminal blocks the terminal task, then its channel, then the
  read loop with the lifecycle lock, then the checker, to the same effect as the jam.  It is
  the exception `Unread`; with `BrowsersRead = FALSE` in `JammedLink.cfg` TLC may find either.
- `TaskServerCleanup` is `#[must_use = "the scheduler cleanup must run after the surrounding
  transaction commits"]` (`task_scheduler.rs:557`).  It does not run to its end when the client of
  `cleanup_orphaned_servers` hangs up at `apply_after_commit` (`router/api/server.rs:1425`): results
  that cancelled executors write later stay, and a job of the deleted task may stay in `job_map`.
  Nor does a deletion or an update whose client hangs up while it waits put the job back, which
  every failure after that wait does: an enabled task then runs no more until an operation on it
  goes through or the server restarts (`drift`).  A hang-up is not logged.
- The roll-back of a failed `update_task` converts the old row into an `ActiveModel` whose fields
  all count as unchanged, so that its `update` writes no column: the row keeps the values of the
  update that failed.  `UpdateEnd` does what the code does.  When the job of a task that is being
  disabled could not be removed, a disabled row is left with a job (`drift`).
- An upgrade counts as succeeded by the version the agent reports.  When a second operator's
  request replaced the job meanwhile, it is the second that is shown as succeeded, and the
  report of the rollback, which names the first, does not correct it.  `SuccessIsHonest` says so
  in its last disjunct.  `CapabilityDenied` fails whichever job is current.
- The report of a rollback is forgotten as soon as it is written to the socket.
- A crash between the two renames of a rollback leaves no binary at the agent's path; nothing
  starts until somebody moves the backup.  `CandidatesAreDecided` excepts that state.
- The candidate of an agent started by hand and its parent take the connection from each other
  while the trial lasts; a parent that dies leaves its candidate without a watchdog.


## 8. What is not modelled

- In the modelled components: the mirrors of capabilities, the Docker and process caches and
  the transfers that `finish_connection_removal` also clears; what each kind of frame writes
  to the database; the reads of Agent Authority; the protocol version and capability
  negotiation of the handshake; opening, auditing and ending terminals; the request ids of
  Server onboarding, whose effect on authority is `Onboard`.
- Constraints of the schema (the unique index on open offers, foreign keys) are not relied
  on: `OneOpenOffer` is proved to hold without them.
- Time is the passing of a deadline, a TTL or an expiry as a step of its own; durations
  appear only where one is compared with another (`Age`, `GoSilent`).
- SQLite is taken to be serializable under its write reservation and durable at COMMIT.
- `TaskRuns`: one-shot tasks, the validation of requests, reads and the wording of results.  One
  callback of the task waits at a time.  A statement that a dropped handler itself was
  executing takes effect at once or never; only the INSERTs of aborted executors land later.
- `PushOutbox`: one mobile session and one category (a category that is off is folded into
  `on`); the relay's own suppression of duplicates; what is encrypted and how.
- `AgentUpgrade`: the stages of progress, which decide nothing; the length of timers, which may
  be over at any moment they run, so that the model has more behaviours than the code; a state
  file that cannot be removed; the name of a deleted executable under Linux.
- The agent's enrollment client and token file, file transfers, alert intents and capability
  grants: small machines whose hazards are listed.  The first needs no more of the server than a
  claim that may be repeated, which `AgentAuthority` has; the three others are each a counter or a
  queue with one writer, where only the listed lines may go wrong.
- Everything that is sequential database work, outbound HTTP, measurement of the host or user
  interface; `PROJECT.json` gives the reason for each.  The share of the program's lines that
  the modules stand for is small for that reason.  Hazards in these parts that are worth a
  property are listed there as uncovered.
