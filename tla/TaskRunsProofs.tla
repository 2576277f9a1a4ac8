--------------------------- MODULE TaskRunsProofs ---------------------------
(***************************************************************************)
(* The safety of one scheduled task, proved for any number of Servers,     *)
(* runs, jobs, attempts, restarts and hang-ups: types, one run at a time,  *)
(* nothing left of a deleted task, jobs that match their row, starts that  *)
(* are justified when they are made, and the contract of the task.         *)
(***************************************************************************)
EXTENDS TaskRuns, TLAPS

\* An attempt that may fail is one the executor has.
AttemptsInv ==
    \A r \in Runs, s \in Servers :
        exec[r][s].pc \in {"asking", "bad"} => exec[r][s].left > 0

\* One callback waits at a time.
FiredInv == \A i, j \in fired : i = j

Starting == {"start", "run_now"}

\* What the holder of the lifecycle lock relies on.
LockInv ==
    /\ \A r \in Runs : phase[r] = "starting" => op.kind \in Starting
    /\ op.kind \in Starting \cup {"update"} => Live

\* What an executor has seen, and what the task that drained it knows.
RunInv ==
    \A r \in Runs, s \in Servers :
        /\ exec[r][s].pc = "refused" => phase[r] = "starting"
        /\ exec[r][s].pc = "quit" => r \in cancelled
        /\ phase[r] = "proving" => exec[r][s].pc \in {"none", "denied", "done"}

\* A task that is gone has nothing left but what its cleanup still has to do, or
\* what "litter" records.
RowInv ==
    /\ ~Live => ~row.enabled
    /\ row.state = "gone" =>
         /\ \A r \in Runs : status[r] = "none"
         /\ op.kind # "cleanup" /\ ~litter => active = None /\ results = {}

\* Nobody is about to change the job or has changed it already.
Quiet ==
    \/ op.kind \in Starting \cup {"idle"}
    \/ op.kind = "delete" /\ ~op.removed
    \/ op.kind = "cleanup" /\ Live

\* Before the scheduler is restored only one half of Agree holds.
JobInv ==
    /\ ticking => job # None
    /\ Quiet /\ ~drift =>
         /\ job # None => ticking /\ Live /\ row.enabled
         /\ restored /\ Live /\ row.enabled => job # None

\* A run that is over stays so, and a result that is adrift belongs to one that
\* was cut short while its row said "running", or whose row has gone.
LateInv ==
    /\ \A r \in Runs : phase[r] = "over" => active # r
    /\ \A r \in Runs : phase[r] = "starting" => status[r] = "running"
    /\ \A r \in Runs, s \in Servers : <<r, s>> \in adrift =>
         /\ phase[r] = "over"
         /\ status[r] \in {"running", "incomplete"} \/ row.state = "gone"

IInv ==
    /\ TypeOK /\ AttemptsInv /\ FiredInv
    /\ OneRunAtATime /\ LockInv /\ RunInv /\ RowInv /\ JobInv /\ LateInv

-----------------------------------------------------------------------------
(* The parts that actions share.                                           *)

\* A job is handed out that no callback waits for.
LEMMA AddsAJob == ASSUME FiredInv, AddsJob PROVE job' \in Jobs /\ ticking' = TRUE
<1>1. \E j \in Jobs : j \notin fired
  BY JobAssumption DEF FiredInv
<1> QED
  BY <1>1 DEF AddsJob

LEMMA RestoresAJob ==
    ASSUME FiredInv, NEW enabled \in BOOLEAN, RestoresJob(enabled)
    PROVE  /\ job' \in Jobs \cup {None} /\ ticking' \in BOOLEAN
           /\ drift' \in BOOLEAN
           /\ ticking' <=> job' # None
           /\ ~drift' => (job' # None <=> enabled)
<1>1. CASE AddsJob
  BY <1>1, AddsAJob, NoneAssumption DEF RestoresJob, NoJob
<1>2. CASE ~AddsJob
  BY <1>2 DEF RestoresJob, NoJob
<1> QED
  BY <1>1, <1>2

LEMMA Hanging ==
    ASSUME TypeOK, HangsUp
    PROVE  /\ faults' \in 0..MaxFaults /\ drift' \in BOOLEAN
           /\ ~drift' => Agree'
<1>1. faults' \in 0..MaxFaults
  BY FaultAssumption DEF HangsUp, TypeOK
<1>2. (Apart' \in BOOLEAN) /\ (~Apart' => Agree')
  BY DEF Apart
<1> QED
  BY <1>1, <1>2 DEF HangsUp

LEMMA Cancelling ==
    ASSUME TypeOK, NEW kind \in {"update", "delete", "cleanup"}, NEW removed \in BOOLEAN,
           NEW doomed \in SUBSET Servers, Cancels(kind, removed, doomed)
    PROVE  /\ op' \in Operation
           /\ op'.kind = kind /\ op'.removed = removed
           /\ cancelled' \in SUBSET Runs /\ cancelled \subseteq cancelled'
           /\ faults' \in 0..MaxFaults /\ drift' = drift /\ drift' \in BOOLEAN
  BY DEF TypeOK, Cancels, Operation

LEMMA RemovesAJob ==
    ASSUME TypeOK, NEW kind \in {"update", "delete", "cleanup"}, NEW doomed \in SUBSET Servers,
           RemovesJob(kind, doomed)
    PROVE  /\ op' \in Operation
           /\ cancelled' \in SUBSET Runs /\ cancelled \subseteq cancelled'
           /\ job' = job /\ job' \in Jobs \cup {None}
           /\ ticking' \in BOOLEAN /\ (ticking' => ticking)
           /\ faults' \in 0..MaxFaults /\ drift' \in BOOLEAN
           /\ \/ /\ op'.kind = kind /\ drift' = drift
                 /\ ~op'.removed => ticking' = ticking
              \/ op' = op /\ (~drift' => Agree')
<1>1. job' = job /\ job' \in Jobs \cup {None} /\ ticking \in BOOLEAN /\ op \in Operation
  BY DEF RemovesJob, TypeOK
<1>2. ASSUME NEW gone \in BOOLEAN, ticking' = (ticking /\ ~gone), Cancels(kind, gone, doomed)
      PROVE  /\ op' \in Operation
             /\ cancelled' \in SUBSET Runs /\ cancelled \subseteq cancelled'
             /\ ticking' \in BOOLEAN /\ (ticking' => ticking)
             /\ faults' \in 0..MaxFaults /\ drift' \in BOOLEAN
             /\ op'.kind = kind /\ drift' = drift
             /\ ~op'.removed => ticking' = ticking
  <2>1. ticking' \in BOOLEAN /\ (ticking' => ticking) /\ (~gone => ticking' = ticking)
    BY <1>1, <1>2
  <2> QED
    BY <1>2, <2>1, Cancelling
<1>3. CASE ticking' \in {ticking, FALSE} /\ Forsakes
  <2>1. ticking' \in BOOLEAN /\ (ticking' => ticking)
    <3>1. CASE ticking' = ticking
      BY <1>1, <3>1
    <3>2. CASE ticking' = FALSE
      BY <3>2
    <3> QED
      BY <1>3, <3>1, <3>2
  <2>2. op' = op /\ cancelled' = cancelled /\ HangsUp
    BY <1>3 DEF Forsakes
  <2>3. cancelled \in SUBSET Runs
    BY DEF TypeOK
  <2> QED
    BY <1>1, <2>1, <2>2, <2>3, Hanging
<1> QED
  BY <1>1, <1>2, <1>3 DEF RemovesJob

LEMMA IdleIsTyped == Idle \in Operation /\ Idle.kind = "idle"
  BY DEF Idle, Operation

LEMMA AbsentIsTyped ==
    /\ Absent \in [Servers -> Executor]
    /\ \A s \in Servers : Absent[s].pc = "none"
  BY AttemptAssumption DEF Absent, Over, Executor

\* The runs stay what they are, except that one may be cancelled.
LEMMA RunsRest ==
    ASSUME IInv, UNCHANGED <<phase, exec, active>>, cancelled \subseteq cancelled'
    PROVE  AttemptsInv' /\ OneRunAtATime' /\ RunInv'
  BY DEF IInv, AttemptsInv, OneRunAtATime, RunInv

\* Runs that are over stay over, and so do the results that are adrift.
LEMMA LateRests ==
    ASSUME IInv, UNCHANGED <<phase, active>>, adrift' \subseteq adrift,
           row.state = "gone" => row'.state = "gone",
           \A r \in Runs :
               \/ status'[r] = status[r]
               \/ /\ phase[r] # "starting"
                  /\ row'.state = "gone" \/ status[r] = "drained" \/ status'[r] = "incomplete"
    PROVE  LateInv'
  BY DEF IInv, LateInv

\* When nobody works on the task no run is being started.
LEMMA NoneStarts ==
    ASSUME IInv, op.kind \notin Starting PROVE \A r \in Runs : phase[r] # "starting"
  BY DEF IInv, LockInv

LEMMA InitIInv == Init => IInv
<1> SUFFICES ASSUME Init PROVE IInv
  OBVIOUS
<1>1. TypeOK
  <2>1. /\ row \in Row /\ servers \in SUBSET Servers /\ results \in SUBSET (Runs \X Servers)
        /\ faults \in 0..MaxFaults
    BY FaultAssumption DEF Init, Row
  <2>2. exec \in [Runs -> [Servers -> Executor]] /\ op \in Operation
    BY AbsentIsTyped, IdleIsTyped DEF Init
  <2>3. /\ status \in [Runs -> {"none", "running", "drained", "completed", "incomplete"}]
        /\ phase \in [Runs -> Phase]
    BY DEF Init, Phase
  <2> QED
    BY <2>1, <2>2, <2>3 DEF Init, TypeOK
<1>2. AttemptsInv /\ OneRunAtATime /\ RunInv
  BY AbsentIsTyped DEF Init, AttemptsInv, OneRunAtATime, RunInv
<1>3. FiredInv /\ LockInv /\ RowInv /\ JobInv /\ LateInv
  BY IdleIsTyped DEF Init, FiredInv, LockInv, RowInv, JobInv, Quiet, Live, LateInv, Starting
<1> QED
  BY <1>1, <1>2, <1>3 DEF IInv

-----------------------------------------------------------------------------
(* The task.                                                               *)

LEMMA CreateTaskKeepsIInv ==
    ASSUME IInv, NEW targets \in Selections, CreateTask(targets) PROVE IInv'
<1>1. row' = [state |-> "live", enabled |-> TRUE, targets |-> targets]
  BY DEF CreateTask
<1>2. \/ job' \in Jobs /\ ticking' = TRUE /\ drift' = drift
      \/ job' = job /\ ticking' = ticking /\ drift' = TRUE
  BY AddsAJob DEF CreateTask, IInv, cron
<1>3. TypeOK'
  <2>1. row' \in Row
    BY <1>1, SelectionAssumption DEF Row
  <2>2. job' \in Jobs \cup {None} /\ ticking' \in BOOLEAN /\ drift' \in BOOLEAN
    BY <1>2 DEF IInv, TypeOK
  <2> QED
    BY <2>1, <2>2 DEF CreateTask, IInv, TypeOK, run
<1>4. AttemptsInv' /\ OneRunAtATime' /\ RunInv' /\ FiredInv'
  BY RunsRest DEF CreateTask, IInv, FiredInv, run
<1>5. LockInv' /\ RowInv' /\ JobInv'
  BY <1>1, <1>2, NoneStarts, NoneAssumption
     DEF CreateTask, IInv, LockInv, RowInv, JobInv, Live, Quiet, Free, run, Starting
<1>6. LateInv'
  BY LateRests DEF CreateTask, run
<1> QED
  BY <1>3, <1>4, <1>5, <1>6 DEF IInv

LEMMA UpdateBeginKeepsIInv ==
    ASSUME IInv, NEW enabled \in BOOLEAN, NEW targets \in Selections,
           UpdateBegin(enabled, targets)
    PROVE  IInv'
<1>1. /\ op' \in Operation /\ cancelled' \in SUBSET Runs /\ cancelled \subseteq cancelled'
      /\ job' = job /\ job' \in Jobs \cup {None} /\ ticking' \in BOOLEAN /\ (ticking' => ticking)
      /\ faults' \in 0..MaxFaults /\ drift' \in BOOLEAN
      /\ op'.kind = "update" \/ (op' = op /\ (~drift' => Agree'))
  BY RemovesAJob DEF UpdateBegin, IInv
<1>2. row' = [state |-> "live", enabled |-> enabled, targets |-> targets]
  BY DEF UpdateBegin, Live, IInv, TypeOK, Row
<1>3. TypeOK'
  BY <1>1, <1>2, SelectionAssumption DEF UpdateBegin, IInv, TypeOK, Row
<1>4. AttemptsInv' /\ OneRunAtATime' /\ RunInv' /\ FiredInv'
  BY <1>1, RunsRest DEF UpdateBegin, IInv, FiredInv
<1>5. LockInv' /\ RowInv'
  BY <1>1, <1>2, NoneStarts DEF UpdateBegin, LockInv, RowInv, Live, Free, Starting
<1>6. JobInv'
  BY <1>1, <1>2 DEF UpdateBegin, IInv, JobInv, Quiet, Agree, Live, Starting
<1>7. LateInv'
  BY <1>2, LateRests DEF UpdateBegin, Live
<1> QED
  BY <1>3, <1>4, <1>5, <1>6, <1>7 DEF IInv

LEMMA UpdateEndKeepsIInv == ASSUME IInv, UpdateEnd PROVE IInv'
<1>1. /\ job' \in Jobs \cup {None} /\ ticking' \in BOOLEAN /\ drift' \in BOOLEAN
      /\ ticking' => job' # None
      /\ ~drift' => (job' # None <=> row.enabled) /\ (job' # None <=> ticking')
  <2>1. row.enabled \in BOOLEAN /\ job \in Jobs \cup {None} /\ ticking \in BOOLEAN /\ Live
    BY DEF UpdateEnd, IInv, TypeOK, Row, LockInv
  <2>2. CASE op.removed
    BY <2>1, <2>2, RestoresAJob DEF UpdateEnd, IInv
  <2>3. CASE ~op.removed
    <3>1. drift' = Apart /\ job' = job /\ ticking' = ticking
      BY <2>3 DEF UpdateEnd, cron
    <3>2. Apart \in BOOLEAN /\ (~Apart => Agree)
      BY DEF Apart
    <3> QED
      BY <2>1, <3>1, <3>2 DEF Agree, IInv, JobInv
  <2> QED
    BY <2>2, <2>3
<1>2. TypeOK'
  BY <1>1, IdleIsTyped DEF UpdateEnd, IInv, TypeOK, durable, run
<1>3. AttemptsInv' /\ OneRunAtATime' /\ RunInv' /\ FiredInv' /\ LateInv'
  BY RunsRest, LateRests DEF UpdateEnd, IInv, FiredInv, run, durable
<1>4. LockInv' /\ RowInv' /\ JobInv'
  BY <1>1, NoneStarts, IdleIsTyped
     DEF UpdateEnd, IInv, LockInv, RowInv, JobInv, Live, Quiet, durable, run, Starting
<1> QED
  BY <1>2, <1>3, <1>4 DEF IInv

LEMMA DeleteBeginKeepsIInv == ASSUME IInv, DeleteBegin PROVE IInv'
<1>1. /\ op' \in Operation /\ cancelled' \in SUBSET Runs /\ cancelled \subseteq cancelled'
      /\ job' = job /\ job' \in Jobs \cup {None} /\ ticking' \in BOOLEAN /\ (ticking' => ticking)
      /\ faults' \in 0..MaxFaults /\ drift' \in BOOLEAN
      /\ \/ /\ op'.kind = "delete" /\ drift' = drift
            /\ ~op'.removed => ticking' = ticking
         \/ op' = op /\ (~drift' => Agree')
  BY RemovesAJob DEF DeleteBegin, IInv
<1>2. TypeOK'
  BY <1>1 DEF DeleteBegin, IInv, TypeOK, durable
<1>3. AttemptsInv' /\ OneRunAtATime' /\ RunInv' /\ FiredInv' /\ LateInv'
  BY <1>1, RunsRest, LateRests DEF DeleteBegin, IInv, FiredInv, durable
<1>4. LockInv' /\ RowInv'
  BY <1>1, NoneStarts DEF DeleteBegin, IInv, LockInv, RowInv, Live, Free, durable, Starting
<1>5. JobInv'
  BY <1>1 DEF DeleteBegin, IInv, JobInv, Quiet, Agree, Live, Free, durable, Starting
<1> QED
  BY <1>2, <1>3, <1>4, <1>5 DEF IInv

LEMMA DeleteRowsKeepsIInv == ASSUME IInv, DeleteRows PROVE IInv'
<1>1. TypeOK'
  BY IdleIsTyped DEF DeleteRows, IInv, TypeOK, Row, run, NoJob
<1>2. AttemptsInv' /\ OneRunAtATime' /\ RunInv' /\ FiredInv'
  BY RunsRest DEF DeleteRows, IInv, FiredInv, run
<1>3. LockInv' /\ RowInv' /\ JobInv' /\ LateInv'
  BY NoneStarts, LateRests, IdleIsTyped
     DEF DeleteRows, LockInv, RowInv, JobInv, Live, Quiet, run, NoJob, Starting
<1> QED
  BY <1>1, <1>2, <1>3 DEF IInv

LEMMA DeleteFailsKeepsIInv == ASSUME IInv, DeleteFails PROVE IInv'
<1>1. /\ job' \in Jobs \cup {None} /\ ticking' \in BOOLEAN /\ drift' \in BOOLEAN
      /\ \/ /\ ticking' <=> job' # None
            /\ ~drift' => (job' # None <=> row.enabled)
         \/ ~op.removed /\ job' = job /\ ticking' = ticking /\ drift' = drift
  <2>1. row.enabled \in BOOLEAN /\ job \in Jobs \cup {None} /\ drift \in BOOLEAN
        /\ ticking \in BOOLEAN
    BY DEF IInv, TypeOK, Row
  <2>2. CASE op.removed
    BY <2>1, <2>2, RestoresAJob DEF DeleteFails, IInv
  <2>3. CASE ~op.removed
    BY <2>1, <2>3 DEF DeleteFails, cron
  <2> QED
    BY <2>2, <2>3
<1>2. TypeOK'
  BY <1>1, IdleIsTyped DEF DeleteFails, IInv, TypeOK, durable, run
<1>3. AttemptsInv' /\ OneRunAtATime' /\ RunInv' /\ FiredInv' /\ LateInv'
  BY RunsRest, LateRests DEF DeleteFails, IInv, FiredInv, run, durable
<1>4. LockInv' /\ RowInv'
  BY NoneStarts, IdleIsTyped DEF DeleteFails, IInv, LockInv, RowInv, Live, durable, run, Starting
<1>5. JobInv'
  BY <1>1, IdleIsTyped DEF DeleteFails, IInv, RowInv, JobInv, Live, Quiet, durable
<1> QED
  BY <1>2, <1>3, <1>4, <1>5 DEF IInv

LEMMA HangUpKeepsIInv == ASSUME IInv, HangUp PROVE IInv'
<1>1. /\ faults' \in 0..MaxFaults /\ drift' \in BOOLEAN
      /\ ~drift' => Agree'
  BY Hanging DEF HangUp, IInv
<1>2. TypeOK'
  BY <1>1, IdleIsTyped DEF HangUp, IInv, TypeOK, durable, cron, run
<1>3. AttemptsInv' /\ OneRunAtATime' /\ RunInv' /\ FiredInv' /\ LateInv'
  BY RunsRest, LateRests DEF HangUp, IInv, FiredInv, run, durable
<1>4. LockInv' /\ RowInv'
  BY NoneStarts, IdleIsTyped
     DEF HangUp, IInv, LockInv, RowInv, Live, Littered, durable, run, Starting
<1>5. JobInv'
  BY <1>1 DEF HangUp, IInv, JobInv, Agree, Live, cron, durable
<1> QED
  BY <1>2, <1>3, <1>4, <1>5 DEF IInv

LEMMA RestoreKeepsIInv == ASSUME IInv, Restore PROVE IInv'
<1>1. status' \in [Runs -> {"none", "running", "drained", "completed", "incomplete"}]
  BY DEF Restore, IInv, TypeOK
<1>2. \A r \in Runs : status'[r] = status[r] \/ (status[r] = "running" /\ status'[r] = "incomplete")
  BY DEF Restore, IInv, TypeOK
<1>3. /\ job' \in Jobs \cup {None} /\ ticking' \in BOOLEAN /\ drift' \in BOOLEAN
      /\ IF Live /\ job = None
           THEN (ticking' <=> job' # None) /\ (~drift' => (job' # None <=> row.enabled))
           ELSE job' = job /\ ticking' = ticking /\ drift' = drift
  <2>1. row.enabled \in BOOLEAN /\ job \in Jobs \cup {None} /\ drift \in BOOLEAN
        /\ ticking \in BOOLEAN
    BY DEF IInv, TypeOK, Row
  <2>2. CASE Live /\ job = None
    BY <2>1, <2>2, RestoresAJob DEF Restore, IInv
  <2>3. CASE ~(Live /\ job = None)
    BY <2>1, <2>3 DEF Restore, cron
  <2> QED
    BY <2>2, <2>3
<1>4. TypeOK'
  BY <1>1, <1>3 DEF Restore, IInv, TypeOK, run
<1>5. AttemptsInv' /\ OneRunAtATime' /\ RunInv' /\ FiredInv'
  BY RunsRest DEF Restore, IInv, FiredInv, run
<1>6. LockInv' /\ RowInv' /\ JobInv'
  BY <1>2, <1>3 DEF Restore, IInv, LockInv, RowInv, JobInv, Live, Quiet, Free, run, Starting
<1>7. LateInv'
  BY <1>2, NoneStarts, LateRests DEF Restore, Free, run, Starting
<1> QED
  BY <1>4, <1>5, <1>6, <1>7 DEF IInv

-----------------------------------------------------------------------------
(* Servers.                                                                *)

LEMMA ResultsShrink == \A doomed : ResultsWithout(doomed) \subseteq results
  BY DEF ResultsWithout

LEMMA DeleteServerKeepsIInv ==
    ASSUME IInv, NEW s \in Servers, DeleteServer(s) PROVE IInv'
<1>1. servers' \in SUBSET Servers /\ results' \subseteq results
  BY ResultsShrink DEF DeleteServer, IInv, TypeOK
<1>2. TypeOK'
  BY <1>1 DEF DeleteServer, IInv, TypeOK, cron, run, history
<1>3. AttemptsInv' /\ OneRunAtATime' /\ RunInv' /\ FiredInv' /\ LateInv'
  BY RunsRest, LateRests DEF DeleteServer, IInv, FiredInv, run
<1>4. LockInv' /\ RowInv' /\ JobInv'
  BY <1>1 DEF DeleteServer, IInv, LockInv, RowInv, JobInv, Live, Quiet, cron, run, history
<1> QED
  BY <1>2, <1>3, <1>4 DEF IInv

LEMMA CleanupBeginKeepsIInv ==
    ASSUME IInv, NEW doomed \in SUBSET Servers, CleanupBegin(doomed) PROVE IInv'
<1>1. servers' \in SUBSET Servers
  BY DEF CleanupBegin, IInv, TypeOK
<1>2. FiredInv'
  BY DEF CleanupBegin, IInv, FiredInv
<1>3. CASE /\ RemovesJob("cleanup", doomed) /\ Live
           /\ row' = [state |-> "gone", enabled |-> FALSE, targets |-> {}]
           /\ results' = {} /\ status' = [r \in Runs |-> "none"]
           /\ litter' = (Free /\ Littered)'
  <2>1. /\ op' \in Operation /\ cancelled' \in SUBSET Runs /\ cancelled \subseteq cancelled'
        /\ job' = job /\ job' \in Jobs \cup {None} /\ ticking' \in BOOLEAN /\ (ticking' => ticking)
        /\ faults' \in 0..MaxFaults /\ drift' \in BOOLEAN
        /\ op'.kind = "cleanup" \/ (op' = op /\ (~drift' => Agree'))
    BY <1>3, RemovesAJob DEF IInv
  <2>2. litter' \in BOOLEAN /\ (op' = op /\ ~litter' => active = None)
    BY <1>3 DEF CleanupBegin, Free, Littered
  <2>3. TypeOK'
    BY <1>1, <1>3, <2>1, <2>2 DEF CleanupBegin, IInv, TypeOK, Row
  <2>4. AttemptsInv' /\ OneRunAtATime' /\ RunInv'
    BY <2>1, RunsRest DEF CleanupBegin
  <2>5. LockInv' /\ RowInv'
    BY <1>3, <2>1, <2>2, NoneStarts
       DEF CleanupBegin, LockInv, RowInv, Live, Free, Starting
  <2>6. JobInv'
    BY <1>3, <2>1 DEF CleanupBegin, IInv, JobInv, Live, Quiet, Free, Agree, Starting
  <2>7. LateInv'
    BY <1>3, NoneStarts, LateRests DEF CleanupBegin, Free, Starting
  <2> QED
    BY <1>2, <2>3, <2>4, <2>5, <2>6, <2>7 DEF IInv
<1>4. CASE /\ Cancels("cleanup", FALSE, doomed) \/ Forsakes
           /\ Live /\ row' = [row EXCEPT !.targets = @ \ doomed]
           /\ results' = ResultsWithout(doomed) /\ UNCHANGED <<status, cron, litter>>
  <2>1. /\ op' \in Operation /\ cancelled' \in SUBSET Runs /\ cancelled \subseteq cancelled'
        /\ faults' \in 0..MaxFaults /\ drift' \in BOOLEAN
        /\ \/ op'.kind = "cleanup" /\ drift' = drift
           \/ op' = op /\ (~drift' => Agree')
    BY <1>4, Cancelling, Hanging DEF IInv, Forsakes, TypeOK
  <2>2. row' \in Row /\ row'.state = row.state /\ row'.enabled = row.enabled
    BY <1>4 DEF IInv, TypeOK, Row
  <2>3. TypeOK'
    BY <1>1, <1>4, <2>1, <2>2, ResultsShrink DEF CleanupBegin, IInv, TypeOK, cron
  <2>4. AttemptsInv' /\ OneRunAtATime' /\ RunInv'
    BY <2>1, RunsRest DEF CleanupBegin
  <2>5. LockInv' /\ RowInv'
    BY <1>4, <2>1, <2>2, NoneStarts
       DEF CleanupBegin, IInv, LockInv, RowInv, Live, Free, Starting
  <2>6. JobInv'
    BY <1>4, <2>1, <2>2 DEF CleanupBegin, IInv, JobInv, Live, Quiet, Free, Agree, cron, Starting
  <2>7. LateInv'
    BY <1>4, <2>2, LateRests DEF CleanupBegin
  <2> QED
    BY <1>2, <2>3, <2>4, <2>5, <2>6, <2>7 DEF IInv
<1>5. CASE /\ results' = ResultsWithout(doomed)
           /\ UNCHANGED <<row, status, cron, cancelled, op, history>>
  <2>1. TypeOK'
    BY <1>1, <1>5, ResultsShrink DEF CleanupBegin, IInv, TypeOK, cron, history
  <2>2. AttemptsInv' /\ OneRunAtATime' /\ RunInv' /\ LateInv'
    BY <1>5, RunsRest, LateRests DEF CleanupBegin
  <2>3. LockInv' /\ RowInv' /\ JobInv'
    BY <1>5, ResultsShrink
       DEF CleanupBegin, IInv, LockInv, RowInv, JobInv, Live, Quiet, cron, history
  <2> QED
    BY <1>2, <2>1, <2>2, <2>3 DEF IInv
<1> QED
  BY <1>3, <1>4, <1>5 DEF CleanupBegin

LEMMA CleanupEndKeepsIInv == ASSUME IInv, CleanupEnd PROVE IInv'
<1>1. /\ job' \in Jobs \cup {None} /\ ticking' \in BOOLEAN /\ drift' \in BOOLEAN
      /\ ticking' => job' # None
      /\ IF Live THEN job' = job /\ ticking' = ticking /\ drift' = drift
                 ELSE ~drift' => job' = None
  BY DEF CleanupEnd, CleansJob, NoJob, cron, IInv, TypeOK, JobInv
<1>2. /\ results' \subseteq results /\ litter' \in BOOLEAN
      /\ ~Live /\ ~litter' => results' = {}
  BY ResultsShrink DEF CleanupEnd, IInv, TypeOK
<1>3. TypeOK'
  BY <1>1, <1>2, IdleIsTyped DEF CleanupEnd, IInv, TypeOK, run
<1>4. AttemptsInv' /\ OneRunAtATime' /\ RunInv' /\ FiredInv' /\ LateInv'
  BY RunsRest, LateRests DEF CleanupEnd, IInv, FiredInv, run
<1>5. LockInv' /\ RowInv' /\ JobInv'
  BY <1>1, <1>2, NoneStarts, IdleIsTyped
     DEF CleanupEnd, IInv, LockInv, RowInv, JobInv, Live, Quiet, run, Starting
<1> QED
  BY <1>3, <1>4, <1>5 DEF IInv

-----------------------------------------------------------------------------
(* Starting a run.                                                         *)

LEMMA FireKeepsIInv == ASSUME IInv, Fire PROVE IInv'
<1>1. TypeOK' /\ FiredInv'
  BY DEF Fire, IInv, TypeOK, FiredInv, JobInv, durable, cron, run, history
<1>2. AttemptsInv' /\ OneRunAtATime' /\ RunInv' /\ LateInv'
  BY RunsRest, LateRests DEF Fire, run, durable
<1>3. LockInv' /\ RowInv' /\ JobInv'
  BY DEF Fire, IInv, LockInv, RowInv, JobInv, Live, Quiet, durable, cron, run, history
<1> QED
  BY <1>1, <1>2, <1>3 DEF IInv

LEMMA CronSkipKeepsIInv == ASSUME IInv, NEW j \in Jobs, CronSkip(j) PROVE IInv'
<1>1. TypeOK' /\ FiredInv'
  BY DEF CronSkip, IInv, TypeOK, FiredInv, durable, cron, run, history
<1>2. AttemptsInv' /\ OneRunAtATime' /\ RunInv' /\ LateInv'
  BY RunsRest, LateRests DEF CronSkip, run, durable
<1>3. LockInv' /\ RowInv' /\ JobInv'
  BY DEF CronSkip, IInv, LockInv, RowInv, JobInv, Live, Quiet, durable, cron, run, history
<1> QED
  BY <1>1, <1>2, <1>3 DEF IInv

\* The effect of a start on the runs, and what it leaves alone.
LEMMA StartsOneRun ==
    ASSUME IInv, Free, Live, NEW r \in Runs, NEW attempts \in 1..MaxAttempts,
           NEW kind \in Starting, Starts(kind, r, attempts), fired' \subseteq fired,
           UNCHANGED <<row, servers, results, job, ticking, cancelled, adrift, restored,
                       faults, drift, litter>>
    PROVE  IInv'
<1>1. /\ active = None /\ active' = r
      /\ op' \in Operation /\ op'.kind \in Starting
      /\ phase[r] = "unused" /\ phase' = [phase EXCEPT ![r] = "starting"]
      /\ status' = [status EXCEPT ![r] = "running"]
  BY DEF Starts, Idle, Operation, Starting
<1>2. PICK asked \in SUBSET (row.targets \cap servers \cap Capable) :
        exec' = [exec EXCEPT ![r] =
                   [s \in Servers |->
                      IF s \in asked THEN [pc |-> "asking", left |-> attempts]
                      ELSE IF s \in row.targets THEN Over("refused")
                      ELSE Absent[s]]]
  BY DEF Starts
<1>3. \A s \in Servers :
        \/ exec'[r][s] = [pc |-> "asking", left |-> attempts]
        \/ exec'[r][s] = Over("refused")
        \/ exec'[r][s] = Absent[s]
  BY <1>2 DEF IInv, TypeOK
<1>4. \A s \in Servers :
        /\ exec'[r][s] \in Executor
        /\ exec'[r][s].pc = "asking" => exec'[r][s].left > 0
        /\ exec'[r][s].pc \in {"asking", "refused", "none"}
  BY <1>3, AbsentIsTyped, AttemptAssumption DEF Executor, Over
<1>5. exec' \in [Runs -> [Servers -> Executor]]
  <2>1. [s \in Servers |->
           IF s \in asked THEN [pc |-> "asking", left |-> attempts]
           ELSE IF s \in row.targets THEN Over("refused")
           ELSE Absent[s]] \in [Servers -> Executor]
    BY AbsentIsTyped, AttemptAssumption DEF Executor, Over
  <2> QED
    BY <1>2, <2>1 DEF IInv, TypeOK
<1>6. TypeOK'
  BY <1>1, <1>5 DEF IInv, TypeOK, Phase
<1>7. \A q \in Runs : q # r => exec'[q] = Absent /\ phase'[q] \in {"unused", "over"}
  BY <1>1, <1>2, NoneAssumption DEF IInv, OneRunAtATime, TypeOK
<1>8. phase'[r] = "starting"
  BY <1>1 DEF IInv, TypeOK
<1>9. AttemptsInv' /\ OneRunAtATime' /\ RunInv'
  <2>1. OneRunAtATime'
    BY <1>1, <1>7 DEF OneRunAtATime
  <2>2. \A q \in Runs, s \in Servers : q # r => exec'[q][s].pc = "none"
    BY <1>7, AbsentIsTyped
  <2>3. AttemptsInv'
    <3> SUFFICES ASSUME NEW q \in Runs, NEW s \in Servers, exec'[q][s].pc \in {"asking", "bad"}
                 PROVE  exec'[q][s].left > 0
      BY DEF AttemptsInv
    <3>1. q = r
      BY <2>2
    <3> QED
      BY <1>4, <3>1
  <2>4. RunInv'
    <3> SUFFICES ASSUME NEW q \in Runs, NEW s \in Servers
                 PROVE  /\ exec'[q][s].pc = "refused" => phase'[q] = "starting"
                        /\ exec'[q][s].pc # "quit"
                        /\ phase'[q] # "proving"
      BY DEF RunInv
    <3>1. CASE q = r
      BY <1>4, <1>8, <3>1
    <3>2. CASE q # r
      BY <1>7, <2>2, <3>2
    <3> QED
      BY <3>1, <3>2
  <2> QED
    BY <2>1, <2>3, <2>4
<1>10. FiredInv'
  BY DEF IInv, FiredInv
<1>11. LockInv' /\ RowInv' /\ JobInv'
  BY <1>1, <1>7 DEF IInv, LockInv, RowInv, JobInv, Live, Quiet, Free, Starting
<1>12. LateInv'
  BY <1>1, <1>7, <1>8, NoneAssumption DEF IInv, TypeOK, LateInv
<1> QED
  BY <1>6, <1>9, <1>10, <1>11, <1>12 DEF IInv

LEMMA StartKeepsIInv ==
    ASSUME IInv, NEW r \in Runs, RunNow(r) \/ \E j \in Jobs : CronStart(j, r)
    PROVE  IInv'
<1>1. 1 \in 1..MaxAttempts /\ MaxAttempts \in 1..MaxAttempts
  BY AttemptAssumption
<1>2. CASE RunNow(r)
  BY <1>1, <1>2, StartsOneRun DEF RunNow, cron, history, Starting
<1>3. ASSUME NEW j \in Jobs, CronStart(j, r) PROVE IInv'
  BY <1>1, <1>3, StartsOneRun DEF CronStart, cron, history, Starting
<1> QED
  BY <1>2, <1>3

-----------------------------------------------------------------------------
(* Executors.                                                              *)

\* One executor of the active run goes on, and may write its result.
LEMMA ExecutorMoves ==
    ASSUME IInv, NEW r \in Runs, NEW s \in Servers, NEW e \in Executor,
           exec[r][s].pc # "none",
           exec' = [exec EXCEPT ![r][s] = e],
           e.pc \in {"asking", "bad"} => e.left > 0,
           e.pc # "refused",
           e.pc = "quit" => r \in cancelled,
           phase[r] # "proving",
           results' \in {results, results \cup {<<r, s>>}},
           UNCHANGED <<row, servers, status, cron, fired, active, cancelled, phase,
                       adrift, op, restored, history>>
    PROVE  IInv'
<1>1. \A q \in Runs, t \in Servers : exec'[q][t] = IF q = r /\ t = s THEN e ELSE exec[q][t]
  BY DEF IInv, TypeOK
<1>2. exec' \in [Runs -> [Servers -> Executor]] /\ \A q \in Runs \ {r} : exec'[q] = exec[q]
  BY DEF IInv, TypeOK
<1>3. active = r
  BY AbsentIsTyped DEF IInv, OneRunAtATime
<1>4. TypeOK'
  BY <1>2 DEF IInv, TypeOK, cron, history
<1>5. AttemptsInv' /\ RunInv'
  BY <1>1 DEF IInv, AttemptsInv, RunInv
<1>6. OneRunAtATime'
  BY <1>2, <1>3 DEF IInv, OneRunAtATime
<1>7. FiredInv' /\ LockInv' /\ JobInv' /\ LateInv'
  BY LateRests DEF IInv, FiredInv, LockInv, JobInv, Live, Quiet, cron, history
<1>8. RowInv'
  BY <1>3, NoneAssumption DEF IInv, RowInv, Live, history
<1> QED
  BY <1>4, <1>5, <1>6, <1>7, <1>8 DEF IInv

LEMMA ExecutorIsTyped ==
    ASSUME IInv, NEW r \in Runs, NEW s \in Servers
    PROVE  /\ exec[r][s] \in Executor
           /\ exec[r][s].left \in 0..MaxAttempts
           /\ exec[r][s].pc \in {"asking", "bad"} => exec[r][s].left > 0
           /\ exec[r][s].pc \in {"refused", "asking", "ok", "bad"} => phase[r] # "proving"
  BY DEF IInv, TypeOK, Executor, AttemptsInv, RunInv

LEMMA DenyKeepsIInv ==
    ASSUME IInv, NEW r \in Runs, NEW s \in Servers, Deny(r, s) PROVE IInv'
<1>1. exec' = [exec EXCEPT ![r][s] = [exec[r][s] EXCEPT !.pc = "denied"]]
  BY DEF Deny, IInv, TypeOK
<1>2. /\ [exec[r][s] EXCEPT !.pc = "denied"] \in Executor
      /\ [exec[r][s] EXCEPT !.pc = "denied"].pc = "denied"
  BY ExecutorIsTyped DEF Executor
<1> QED
  BY <1>1, <1>2, ExecutorMoves, ExecutorIsTyped DEF Deny

LEMMA AnswerKeepsIInv ==
    ASSUME IInv, NEW r \in Runs, NEW s \in Servers, Answer(r, s) PROVE IInv'
<1>1. CASE exec' = [exec EXCEPT ![r][s] = Over("ok")]
  <2>1. Over("ok") \in Executor /\ Over("ok").pc = "ok"
    BY AttemptAssumption DEF Over, Executor
  <2> QED
    BY <1>1, <2>1, ExecutorMoves, ExecutorIsTyped DEF Answer, durable
<1>2. CASE exec' = [exec EXCEPT ![r][s].pc = "bad"]
  <2>1. exec' = [exec EXCEPT ![r][s] = [exec[r][s] EXCEPT !.pc = "bad"]]
    BY <1>2 DEF IInv, TypeOK
  <2>2. /\ [exec[r][s] EXCEPT !.pc = "bad"] \in Executor
        /\ [exec[r][s] EXCEPT !.pc = "bad"].pc = "bad"
        /\ [exec[r][s] EXCEPT !.pc = "bad"].left > 0
    BY ExecutorIsTyped DEF Executor, Answer
  <2> QED
    BY <2>1, <2>2, ExecutorMoves, ExecutorIsTyped DEF Answer, durable
<1> QED
  BY <1>1, <1>2 DEF Answer

LEMMA QuitKeepsIInv ==
    ASSUME IInv, NEW r \in Runs, NEW s \in Servers, Quit(r, s) PROVE IInv'
<1>1. Over("quit") \in Executor /\ Over("quit").pc = "quit"
  BY AttemptAssumption DEF Over, Executor
<1> QED
  BY <1>1, ExecutorMoves, ExecutorIsTyped DEF Quit, durable

LEMMA WriteKeepsIInv ==
    ASSUME IInv, NEW r \in Runs, NEW s \in Servers, Write(r, s) PROVE IInv'
<1>1. CASE exec[r][s].pc = "ok" \/ exec[r][s].left = 1
  <2>1. exec' = [exec EXCEPT ![r][s] = Over("done")]
    BY <1>1 DEF Write, IInv, TypeOK
  <2>2. Over("done") \in Executor /\ Over("done").pc = "done"
    BY AttemptAssumption DEF Over, Executor
  <2> QED
    BY <2>1, <2>2, ExecutorMoves, ExecutorIsTyped DEF Write
<1>2. CASE ~(exec[r][s].pc = "ok" \/ exec[r][s].left = 1)
  <2> DEFINE again == [pc |-> "asking", left |-> exec[r][s].left - 1]
  <2>1. exec' = [exec EXCEPT ![r][s] = again]
    BY <1>2 DEF Write, IInv, TypeOK
  <2>2. again \in Executor /\ again.pc = "asking" /\ again.left > 0
    BY <1>2, ExecutorIsTyped, AttemptAssumption DEF Write, Executor
  <2> HIDE DEF again
  <2> QED
    BY <2>1, <2>2, ExecutorMoves, ExecutorIsTyped DEF Write
<1> QED
  BY <1>1, <1>2

LEMMA WriteFailsKeepsIInv ==
    ASSUME IInv, NEW r \in Runs, NEW s \in Servers, WriteFails(r, s) PROVE IInv'
<1>1. Over("failed") \in Executor /\ Over("failed").pc = "failed"
  BY AttemptAssumption DEF Over, Executor
<1> QED
  BY <1>1, ExecutorMoves, ExecutorIsTyped DEF WriteFails, durable

-----------------------------------------------------------------------------
(* The end of a run.                                                       *)

\* A run ends, in what way ever: no executor is left, nobody needs its token.
LEMMA RunEnds ==
    ASSUME IInv, NEW r \in Runs, Ends(r)
    PROVE  /\ active' \in Runs \cup {None} /\ cancelled' \in SUBSET Runs
           /\ phase' \in [Runs -> Phase] /\ exec' \in [Runs -> [Servers -> Executor]]
           /\ active = None => active' = None
           /\ \A q \in Runs : phase'[q] = "starting" => phase[q] = "starting" /\ q # r
           /\ AttemptsInv' /\ OneRunAtATime' /\ RunInv'
           /\ \A q \in Runs : phase'[q] = "over" <=> (phase[q] = "over" \/ q = r)
           /\ \A q \in Runs : phase'[q] = "over" => active' # q
<1>1. /\ active' \in Runs \cup {None} /\ cancelled' \in SUBSET Runs
      /\ active = None => active' = None
  BY DEF Ends, IInv, TypeOK
<1>2. /\ phase' \in [Runs -> Phase] /\ exec' \in [Runs -> [Servers -> Executor]]
      /\ \A q \in Runs : phase'[q] = IF q = r THEN "over" ELSE phase[q]
      /\ \A q \in Runs : exec'[q] = IF q = r THEN Absent ELSE exec[q]
  BY AbsentIsTyped DEF Ends, IInv, TypeOK, Phase
<1>3. OneRunAtATime'
  BY <1>2 DEF Ends, IInv, OneRunAtATime
<1>4. AttemptsInv'
  BY <1>2, AbsentIsTyped DEF IInv, AttemptsInv
<1>5. RunInv'
  BY <1>2, AbsentIsTyped DEF Ends, IInv, RunInv
<1>6. \A q \in Runs : phase'[q] = "over" => active' # q
  BY <1>2, NoneAssumption DEF Ends, IInv, LateInv
<1> QED
  BY <1>1, <1>2, <1>3, <1>4, <1>5, <1>6

LEMMA StrandKeepsIInv == ASSUME IInv, NEW r \in Runs, Strand(r) PROVE IInv'
<1>1. PICK late \in SUBSET Writing(r) : adrift' = adrift \cup ({r} \X late)
  BY DEF Strand
<1>2. adrift' \in SUBSET (Runs \X Servers)
  BY <1>1 DEF IInv, TypeOK, Writing
<1>3. TypeOK' /\ AttemptsInv' /\ OneRunAtATime' /\ RunInv' /\ FiredInv'
  BY <1>2, RunEnds, IdleIsTyped DEF Strand, IInv, TypeOK, FiredInv, durable, cron, history
<1>4. phase[r] = "starting" /\ op.kind \in Starting /\ active = r
  BY DEF Strand, Stranded, IInv, LockInv, OneRunAtATime
<1>5. \A q \in Runs : phase'[q] # "starting"
  BY <1>4, RunEnds DEF Strand, IInv, OneRunAtATime
<1>6. LockInv' /\ RowInv' /\ JobInv'
  BY <1>4, <1>5, IdleIsTyped
     DEF Strand, IInv, LockInv, RowInv, JobInv, Live, Quiet, durable, cron, history, Starting
<1>7. LateInv'
  <2>1. \A q \in Runs, s \in Servers : <<q, s>> \in adrift' => <<q, s>> \in adrift \/ q = r
    BY <1>1
  <2>2. status[r] = "running" /\ UNCHANGED <<row, status>>
    BY <1>4 DEF Strand, durable, IInv, LateInv
  <2> QED
    BY <1>5, <2>1, <2>2, RunEnds DEF Strand, IInv, LateInv
<1> QED
  BY <1>3, <1>6, <1>7 DEF IInv

LEMMA LandKeepsIInv ==
    ASSUME IInv, NEW r \in Runs, NEW s \in Servers, Land(r, s) PROVE IInv'
<1>1. TypeOK' /\ FiredInv'
  BY DEF Land, IInv, TypeOK, FiredInv, cron
<1>2. AttemptsInv' /\ OneRunAtATime' /\ RunInv' /\ LateInv'
  BY RunsRest, LateRests DEF Land
<1>3. LockInv' /\ RowInv' /\ JobInv'
  BY DEF Land, IInv, LockInv, RowInv, JobInv, Live, Quiet, cron
<1> QED
  BY <1>1, <1>2, <1>3 DEF IInv

LEMMA DetachKeepsIInv == ASSUME IInv, NEW r \in Runs, Detach(r) PROVE IInv'
<1>1. phase[r] = "starting" /\ op.kind \in Starting /\ active = r
  BY DEF Detach, IInv, LockInv, OneRunAtATime
<1>2. /\ phase' \in [Runs -> Phase]
      /\ \A q \in Runs : phase'[q] = IF q = r THEN "draining" ELSE phase[q]
  BY DEF Detach, IInv, TypeOK, Phase
<1>3. \A q \in Runs : phase'[q] # "starting"
  BY <1>1, <1>2 DEF IInv, OneRunAtATime
<1>4. TypeOK' /\ AttemptsInv' /\ FiredInv'
  BY <1>2, IdleIsTyped DEF Detach, IInv, TypeOK, AttemptsInv, FiredInv, durable, cron, history
<1>5. OneRunAtATime'
  BY <1>1, <1>2 DEF Detach, IInv, OneRunAtATime
<1>6. RunInv'
  BY <1>2 DEF Detach, IInv, RunInv, Refused
<1>7. LockInv' /\ RowInv' /\ JobInv'
  BY <1>1, <1>3, IdleIsTyped
     DEF Detach, IInv, LockInv, RowInv, JobInv, Live, Quiet, durable, cron, history, Starting
<1>8. LateInv'
  BY <1>1, <1>2 DEF Detach, IInv, LateInv, durable
<1> QED
  BY <1>4, <1>5, <1>6, <1>7, <1>8 DEF IInv

\* A drained run moves on; its row may come to an end.
LEMMA RunAdvances ==
    ASSUME IInv, NEW r \in Runs, NEW to \in {"proving", "spoilt", "finishing"},
           phase[r] \notin {"starting", "unused", "over"},
           phase' = [phase EXCEPT ![r] = to],
           to = "proving" => \A s \in Servers : exec[r][s].pc \in {"none", "denied", "done"},
           status' \in [Runs -> {"none", "running", "drained", "completed", "incomplete"}],
           \A q \in Runs : status[q] = "none" => status'[q] = "none",
           \A q \in Runs : status'[q] = status[q] \/ q = r,
           UNCHANGED <<row, servers, results, cron, fired, active, cancelled, exec,
                       adrift, op, restored, history>>
    PROVE  IInv'
<1>1. /\ phase' \in [Runs -> Phase]
      /\ \A q \in Runs : phase'[q] = IF q = r THEN to ELSE phase[q]
  BY DEF IInv, TypeOK, Phase
<1>2. TypeOK' /\ AttemptsInv' /\ FiredInv'
  BY <1>1 DEF IInv, TypeOK, AttemptsInv, FiredInv, cron, history
<1>3. OneRunAtATime'
  BY <1>1 DEF IInv, OneRunAtATime
<1>4. RunInv'
  BY <1>1 DEF IInv, RunInv
<1>5. LockInv' /\ RowInv' /\ JobInv'
  BY <1>1 DEF IInv, LockInv, RowInv, JobInv, Live, Quiet, cron, history
<1>6. LateInv'
  BY <1>1 DEF IInv, LateInv
<1> QED
  BY <1>2, <1>3, <1>4, <1>5, <1>6 DEF IInv

LEMMA DrainKeepsIInv == ASSUME IInv, NEW r \in Runs, Drain(r) PROVE IInv'
<1> DEFINE sound == r \notin cancelled /\ \A s \in Servers : exec[r][s].pc # "failed"
<1> DEFINE to == IF sound THEN "proving" ELSE "spoilt"
<1>1. phase' = [phase EXCEPT ![r] = to]
  BY DEF Drain
<1>2. \A s \in Servers : exec[r][s].pc \in {"none", "denied", "done", "quit", "failed"}
  BY DEF Drain, IInv, TypeOK, Executor, RunInv
<1>3. to = "proving" => \A s \in Servers : exec[r][s].pc \in {"none", "denied", "done"}
  BY <1>2 DEF IInv, RunInv
<1>4. to \in {"proving", "spoilt", "finishing"}
  OBVIOUS
<1> HIDE DEF to, sound
<1> QED
  BY <1>1, <1>3, <1>4, RunAdvances DEF Drain, IInv, TypeOK, durable

LEMMA ProveKeepsIInv == ASSUME IInv, NEW r \in Runs, Prove(r) PROVE IInv'
<1>1. /\ status' \in [Runs -> {"none", "running", "drained", "completed", "incomplete"}]
      /\ \A q \in Runs : status[q] = "none" => status'[q] = "none"
      /\ \A q \in Runs : status'[q] = status[q] \/ q = r
  BY DEF Prove, IInv, TypeOK
<1> QED
  BY <1>1, RunAdvances DEF Prove

LEMMA AdmissionCloses ==
    ASSUME IInv, NEW r \in Runs, Admits(r) \/ UNCHANGED status
    PROVE  /\ status' \in [Runs -> {"none", "running", "drained", "completed", "incomplete"}]
           /\ \A q \in Runs : status[q] = "none" => status'[q] = "none"
           /\ \A q \in Runs : status'[q] = "drained" => status[q] = "drained"
           /\ \A q \in Runs : status'[q] = status[q] \/ status[q] = "drained"
  BY DEF Admits, IInv, TypeOK

LEMMA FinishKeepsIInv == ASSUME IInv, NEW r \in Runs, Finish(r) PROVE IInv'
<1>1. TypeOK' /\ AttemptsInv' /\ OneRunAtATime' /\ RunInv' /\ FiredInv'
  BY RunEnds, AdmissionCloses DEF Finish, IInv, TypeOK, FiredInv, cron, history
<1>2. LockInv' /\ RowInv' /\ JobInv'
  BY RunEnds, AdmissionCloses
     DEF Finish, IInv, LockInv, RowInv, JobInv, Live, Quiet, cron, history
<1>3. LateInv'
  BY RunEnds, AdmissionCloses DEF Finish, IInv, LateInv
<1> QED
  BY <1>1, <1>2, <1>3 DEF IInv

LEMMA RecoverKeepsIInv == ASSUME IInv, NEW r \in Runs, Recover(r) PROVE IInv'
<1>1. TypeOK' /\ FiredInv'
  BY AdmissionCloses DEF Recover, IInv, TypeOK, FiredInv, cron, run, history
<1>2. AttemptsInv' /\ OneRunAtATime' /\ RunInv'
  BY RunsRest DEF Recover, run
<1>3. LockInv' /\ RowInv' /\ JobInv'
  BY AdmissionCloses DEF Recover, IInv, LockInv, RowInv, JobInv, Live, Quiet, cron, run, history
<1>4. LateInv'
  BY AdmissionCloses DEF Recover, IInv, LateInv, run
<1> QED
  BY <1>1, <1>2, <1>3, <1>4 DEF IInv

LEMMA CrashKeepsIInv == ASSUME IInv, Crash PROVE IInv'
<1>1. /\ phase' \in [Runs -> Phase] /\ \A r \in Runs : phase'[r] \in {"unused", "over"}
      /\ exec' \in [Runs -> [Servers -> Executor]] /\ \A r \in Runs : exec'[r] = Absent
  BY AbsentIsTyped DEF Crash, Phase
<1>2. faults' \in 0..MaxFaults
  BY FaultAssumption DEF Crash, IInv, TypeOK
<1>3. TypeOK'
  BY <1>1, <1>2, IdleIsTyped DEF Crash, NoJob, IInv, TypeOK, durable
<1>4. AttemptsInv' /\ OneRunAtATime' /\ RunInv' /\ FiredInv'
  BY <1>1, AbsentIsTyped DEF Crash, AttemptsInv, OneRunAtATime, RunInv, FiredInv
<1>5. LockInv' /\ RowInv' /\ JobInv'
  BY <1>1, IdleIsTyped
     DEF Crash, NoJob, IInv, LockInv, RowInv, JobInv, Live, Quiet, durable, Starting
<1>6. LateInv'
  BY <1>1, NoneAssumption DEF Crash, LateInv
<1> QED
  BY <1>3, <1>4, <1>5, <1>6 DEF IInv

-----------------------------------------------------------------------------
(* The invariant.                                                          *)

LEMMA CarriesKeepsIInv == ASSUME IInv, NEW r \in Runs, Carries(r) PROVE IInv'
<1>1. CASE Starter(r)
  BY <1>1, DetachKeepsIInv, DenyKeepsIInv DEF Starter
<1>2. CASE Drainer(r)
  BY <1>2, DrainKeepsIInv, ProveKeepsIInv, FinishKeepsIInv DEF Drainer
<1>3. ASSUME NEW s \in Servers, Executors(r, s) PROVE IInv'
  BY <1>3, AnswerKeepsIInv, QuitKeepsIInv, WriteKeepsIInv, WriteFailsKeepsIInv DEF Executors
<1> QED
  BY <1>1, <1>2, <1>3 DEF Carries

LEMMA StutteringKeepsIInv == ASSUME IInv, UNCHANGED vars PROVE IInv'
<1>1. TypeOK' /\ FiredInv'
  BY DEF IInv, vars, TypeOK, FiredInv
<1>2. AttemptsInv' /\ OneRunAtATime' /\ RunInv' /\ LateInv'
  BY RunsRest, LateRests DEF vars
<1>3. LockInv' /\ RowInv' /\ JobInv'
  BY DEF IInv, vars, LockInv, RowInv, JobInv, Live, Quiet
<1> QED
  BY <1>1, <1>2, <1>3 DEF IInv

LEMMA NextKeepsIInv == IInv /\ [Next]_vars => IInv'
<1> SUFFICES ASSUME IInv, [Next]_vars PROVE IInv'
  OBVIOUS
<1>1. ASSUME NEW targets \in Selections, CreateTask(targets) PROVE IInv'
  BY <1>1, CreateTaskKeepsIInv
<1>2. ASSUME NEW enabled \in BOOLEAN, NEW targets \in Selections, UpdateBegin(enabled, targets)
      PROVE  IInv'
  BY <1>2, UpdateBeginKeepsIInv
<1>3. CASE DeleteBegin
  BY <1>3, DeleteBeginKeepsIInv
<1>4. CASE Waiter
  BY <1>4, UpdateEndKeepsIInv, DeleteRowsKeepsIInv, DeleteFailsKeepsIInv, CleanupEndKeepsIInv
     DEF Waiter
<1>5. CASE Restore
  BY <1>5, RestoreKeepsIInv
<1>6. ASSUME NEW s \in Servers, DeleteServer(s) PROVE IInv'
  BY <1>6, DeleteServerKeepsIInv
<1>7. ASSUME NEW doomed \in SUBSET Servers, CleanupBegin(doomed) PROVE IInv'
  BY <1>7, CleanupBeginKeepsIInv
<1>8. CASE Fire
  BY <1>8, FireKeepsIInv
<1>9. ASSUME NEW j \in Jobs, CronSkip(j) PROVE IInv'
  BY <1>9, CronSkipKeepsIInv
<1>10. ASSUME NEW r \in Runs, RunNow(r) \/ \E j \in Jobs : CronStart(j, r) PROVE IInv'
  BY <1>10, StartKeepsIInv
<1>11. ASSUME NEW r \in Runs, Carries(r) \/ Strand(r) \/ Recover(r) PROVE IInv'
  BY <1>11, CarriesKeepsIInv, StrandKeepsIInv, RecoverKeepsIInv
<1>12. CASE Crash
  BY <1>12, CrashKeepsIInv
<1>13. CASE HangUp
  BY <1>13, HangUpKeepsIInv
<1>14. ASSUME NEW r \in Runs, NEW s \in Servers, Land(r, s) PROVE IInv'
  BY <1>14, LandKeepsIInv
<1>15. CASE UNCHANGED vars
  BY <1>15, StutteringKeepsIInv
<1> QED
  BY <1>1, <1>2, <1>3, <1>4, <1>5, <1>6, <1>7, <1>8, <1>9, <1>10, <1>11, <1>12, <1>13, <1>14,
     <1>15 DEF Next

\* IInv is an invariant of the specification.
THEOREM Invariance == Spec => []IInv
<1> QED
  BY InitIInv, NextKeepsIInv, PTL DEF Spec

\* Every variable keeps its type; in particular no executor has fewer than no
\* attempts left.  (execute_for_server)
THEOREM Typing == Spec => []TypeOK
<1>1. IInv => TypeOK
  BY DEF IInv
<1> QED
  BY <1>1, Invariance, PTL

\* Only the run on the active map has executors.  (ActiveRunGuard)
THEOREM RunsAreSingle == Spec => []OneRunAtATime
<1>1. IInv => OneRunAtATime
  BY DEF IInv
<1> QED
  BY <1>1, Invariance, PTL

\* A task that is gone has left no run rows, and no results and no run either but
\* what a logged failure, a restart, a hang-up or an aborted executor left.
\* (delete_task, apply_after_commit)
THEOREM NothingIsLeftBehind == Spec => []NothingLeftBehind
<1>1. IInv => NothingLeftBehind
  BY DEF IInv, RowInv, NothingLeftBehind, Free
<1> QED
  BY <1>1, Invariance, PTL

\* The cron scheduler and the job map have a job exactly for an enabled task, except
\* after a logged failure or a hang-up.  (update_task, delete_task,
\* apply_after_commit, restore_and_start)
THEOREM JobsAlwaysMatchRows == Spec => []JobsMatchRows
<1>1. IInv => JobsMatchRows
  BY DEF IInv, JobInv, JobsMatchRows, Agree, Free, Quiet
<1> QED
  BY <1>1, Invariance, PTL

-----------------------------------------------------------------------------
(* Steps.                                                                  *)

\* Only a start takes a run from "unused" to "starting".
LEMMA OnlyStartsStart ==
    ASSUME IInv, [Next]_vars, NEW r \in Runs, phase[r] = "unused", phase'[r] = "starting"
    PROVE  \E q \in Runs : RunNow(q) \/ \E j \in Jobs : CronStart(j, q)
<1>1. ASSUME NEW q \in Runs, Strand(q) \/ Finish(q) PROVE FALSE
  BY <1>1, RunEnds DEF Strand, Finish
<1>2. ASSUME NEW q \in Runs, Detach(q) \/ Drain(q) \/ Prove(q) PROVE FALSE
  BY <1>2 DEF Detach, Drain, Prove, IInv, TypeOK
<1>3. ASSUME NEW q \in Runs, \/ Recover(q)
                            \/ \E s \in Servers : Deny(q, s) \/ Executors(q, s) \/ Land(q, s)
      PROVE  UNCHANGED phase
  BY <1>3 DEF Recover, Land, Deny, Executors, Answer, Quit, Write, WriteFails, run
<1>4. ASSUME \/ \E targets \in Selections : CreateTask(targets)
             \/ \E enabled \in BOOLEAN, targets \in Selections : UpdateBegin(enabled, targets)
             \/ DeleteBegin \/ Waiter \/ Restore
             \/ \E s \in Servers : DeleteServer(s)
             \/ \E doomed \in SUBSET Servers : CleanupBegin(doomed)
             \/ Fire \/ HangUp \/ \E j \in Jobs : CronSkip(j)
             \/ UNCHANGED vars
      PROVE  UNCHANGED phase
  BY <1>4 DEF HangUp, CreateTask, UpdateBegin, DeleteBegin, Waiter, UpdateEnd, DeleteRows, DeleteFails,
              CleanupEnd, Restore, DeleteServer, CleanupBegin, Fire, CronSkip, run, vars
<1>5. CASE Crash
  BY <1>5 DEF Crash
<1> QED
  BY <1>1, <1>2, <1>3, <1>4, <1>5 DEF Next, Carries, Starter, Drainer

\* The schedule starts only what is enabled when it starts.  (add_job)
THEOREM StartsAreAlwaysDue == Spec => StartsAreDue
<1>1. IInv /\ [Next]_vars =>
        [\A r \in Runs : phase[r] = "unused" /\ phase'[r] = "starting" /\ fired' # fired =>
            Live /\ (row.enabled \/ drift)]_vars
  <2> SUFFICES ASSUME IInv, [Next]_vars, NEW r \in Runs,
                      phase[r] = "unused", phase'[r] = "starting", fired' # fired
               PROVE  Live /\ (row.enabled \/ drift)
    OBVIOUS
  <2>1. PICK q \in Runs : RunNow(q) \/ \E j \in Jobs : CronStart(j, q)
    BY OnlyStartsStart
  <2>2. PICK j \in Jobs : CronStart(j, q)
    BY <2>1 DEF RunNow
  <2> QED
    BY <2>2, NoneAssumption DEF CronStart, Free, IInv, JobInv, Quiet
<1> QED
  BY <1>1, Invariance, PTL DEF Spec, StartsAreDue


-----------------------------------------------------------------------------
(* The contract of the task.                                               *)

ContractStep == Contract!Next \/ UNCHANGED Contract!vars

Progress == <<active, Asked, Due, Spoilt>>

\* A run id is fresh until its run starts.
FreshInv == \A r \in Runs : phase[r] = "unused" => status[r] = "none"

LEMMA WorkIsOfTheActiveRun ==
    ASSUME IInv
    PROVE  /\ active \in Runs => Work = exec[active]
           /\ Work \in [Servers -> Executor]
           /\ \A r \in Runs, s \in Servers : exec[r][s].pc # "none" => active = r
           /\ \A r \in Runs : phase[r] \notin {"unused", "over"} => active = r
           /\ active = None => Asked = {} /\ Due = {} /\ ~Spoilt
<1>1. active \in Runs => Work = exec[active]
  BY NoneAssumption DEF Work
<1>2. Work \in [Servers -> Executor]
  BY AbsentIsTyped DEF Work, IInv, TypeOK
<1>3. /\ \A r \in Runs, s \in Servers : exec[r][s].pc # "none" => active = r
      /\ \A r \in Runs : phase[r] \notin {"unused", "over"} => active = r
  BY AbsentIsTyped DEF IInv, OneRunAtATime
<1>4. active = None => Asked = {} /\ Due = {} /\ ~Spoilt
  BY AbsentIsTyped DEF Work, Asked, Due, Spoilt
<1> QED
  BY <1>1, <1>2, <1>3, <1>4

LEMMA ProgressRests ==
    ASSUME UNCHANGED <<active, exec>> PROVE UNCHANGED Progress
  BY DEF Progress, Work, Asked, Due, Spoilt

\* Steps that the contract does not see.
LEMMA StepIsHidden ==
    ASSUME row'.state = row.state, UNCHANGED <<status, results, active, exec>>
    PROVE  ContractStep
  BY ProgressRests DEF Progress, ContractStep, Contract!vars

\* Results that go.
LEMMA ResultsGo ==
    ASSUME row'.state = row.state, UNCHANGED <<status, active, exec>>,
           \/ \E doomed \in SUBSET Servers : results' = ResultsWithout(doomed)
           \/ row.state = "gone" /\ results' = {}
           \/ UNCHANGED results
    PROVE  ContractStep
<1>1. CASE UNCHANGED results
  BY <1>1, StepIsHidden
<1>2. ASSUME NEW doomed \in SUBSET Servers, results' = ResultsWithout(doomed)
      PROVE  ContractStep
  <2>1. Contract!Forget(doomed)
    BY <1>2, ProgressRests DEF Progress, Contract!Forget, Contract!progress, ResultsWithout
  <2> QED
    BY <2>1 DEF ContractStep, Contract!Next
<1>3. CASE row.state = "gone" /\ results' = {}
  <2>1. Contract!Forget({})
    BY <1>3, ProgressRests DEF Progress, Contract!Forget, Contract!progress
  <2>2. {} \in SUBSET Servers
    OBVIOUS
  <2> QED
    BY <2>1, <2>2 DEF ContractStep, Contract!Next
<1> QED
  BY <1>1, <1>2, <1>3

\* The task goes with its runs and results.
LEMMA TaskGoes ==
    ASSUME row.state # "new", row'.state = "gone", status' = [r \in Runs |-> "none"],
           results' = {}, UNCHANGED <<active, exec>>
    PROVE  ContractStep
<1>1. Contract!Delete
  BY ProgressRests DEF Progress, Contract!Delete, Contract!progress
<1> QED
  BY <1>1 DEF ContractStep, Contract!Next

\* Runs that were left running are abandoned.
LEMMA RunsAreAbandoned ==
    ASSUME TypeOK, UNCHANGED <<row, results, active, exec>>, NEW runs \in SUBSET Runs,
           \A r \in runs : status[r] = "running",
           status' = [r \in Runs |-> IF r \in runs THEN "incomplete" ELSE status[r]]
    PROVE  ContractStep
<1>1. Contract!Abandon(runs)
  BY ProgressRests DEF Progress, Contract!Abandon, Contract!progress
<1> QED
  BY <1>1 DEF ContractStep, Contract!Next

-----------------------------------------------------------------------------
(* The run in progress.                                                    *)

LEMMA RunStarts ==
    ASSUME IInv, IInv', FreshInv, Live, NEW kind, NEW r \in Runs, NEW attempts,
           Starts(kind, r, attempts),
           UNCHANGED <<row, results>>
    PROVE  ContractStep
<1>1. /\ active = None /\ active' = r /\ status[r] = "none"
      /\ status' = [status EXCEPT ![r] = "running"]
  BY DEF Starts, FreshInv
<1>2. Work' = exec'[r]
  BY <1>1, NoneAssumption DEF Work
<1>3. PICK asked \in SUBSET (row.targets \cap servers \cap Capable) :
        exec' = [exec EXCEPT ![r] =
                   [s \in Servers |->
                      IF s \in asked THEN [pc |-> "asking", left |-> attempts]
                      ELSE IF s \in row.targets THEN Over("refused")
                      ELSE Absent[s]]]
  BY DEF Starts
<1>4. \A s \in Servers :
        Work'[s].pc = IF s \in asked THEN "asking"
                      ELSE IF s \in row.targets THEN "refused" ELSE "none"
  BY <1>2, <1>3, AbsentIsTyped DEF IInv, TypeOK, Over
<1>5. Asked' = row.targets /\ Due' = row.targets /\ ~Spoilt'
  BY <1>3, <1>4 DEF Asked, Due, Spoilt, IInv, TypeOK, Row
<1>6. row.targets \in SUBSET Servers
  BY DEF IInv, TypeOK, Row
<1>7. Contract!Start(r, row.targets)
  BY <1>1, <1>5 DEF Contract!Start, Live
<1> QED
  BY <1>6, <1>7 DEF ContractStep, Contract!Next

\* What one executor does to the progress of its run.
LEMMA ExecutorProgresses ==
    ASSUME IInv, NEW r \in Runs, NEW s \in Servers, NEW e, e.pc # "none",
           exec[r][s].pc # "none", exec' = [exec EXCEPT ![r][s] = e], active' = active
    PROVE  /\ active = r /\ Asked' = Asked
           /\ e.pc \in {"refused", "asking", "ok", "bad"} => Due' = Due \cup {s}
           /\ e.pc \notin {"refused", "asking", "ok", "bad"} => Due' = Due \ {s}
           /\ e.pc \in {"quit", "failed"} => Spoilt'
           /\ e.pc \notin {"quit", "failed"} /\ exec[r][s].pc \notin {"quit", "failed"} =>
                Spoilt' = Spoilt
<1>1. active = r /\ Work = exec[r]
  BY WorkIsOfTheActiveRun
<1>2. Work' = [Work EXCEPT ![s] = e]
  BY <1>1, NoneAssumption DEF Work, IInv, TypeOK
<1>3. /\ Work'[s] = e /\ Work[s].pc # "none"
      /\ \A t \in Servers \ {s} : Work'[t] = Work[t]
  BY <1>1, <1>2, WorkIsOfTheActiveRun
<1>4. Asked' = Asked
  BY <1>3 DEF Asked
<1>5. /\ e.pc \in {"refused", "asking", "ok", "bad"} => Due' = Due \cup {s}
      /\ e.pc \notin {"refused", "asking", "ok", "bad"} => Due' = Due \ {s}
  BY <1>3 DEF Due
<1>6. /\ e.pc \in {"quit", "failed"} => Spoilt'
      /\ e.pc \notin {"quit", "failed"} /\ exec[r][s].pc \notin {"quit", "failed"} =>
           (Spoilt' <=> Spoilt)
  BY <1>1, <1>3 DEF Spoilt
<1>7. Spoilt \in BOOLEAN /\ Spoilt' \in BOOLEAN
  BY DEF Spoilt
<1> QED
  BY <1>1, <1>4, <1>5, <1>6, <1>7

LEMMA ExecutorImplements ==
    ASSUME IInv, NEW r \in Runs, NEW s \in Servers, Executors(r, s) \/ Deny(r, s)
    PROVE  ContractStep
<1> DEFINE e == exec'[r][s]
<1>1. /\ exec[r][s].pc \in {"refused", "asking", "ok", "bad"}
      /\ active' = active /\ UNCHANGED <<row, status>>
  BY DEF Executors, Deny, Answer, Quit, Write, WriteFails, durable
<1>2. exec' = [exec EXCEPT ![r][s] = e]
  BY DEF Executors, Deny, Answer, Quit, Write, WriteFails, IInv, TypeOK
<1>3. active = r /\ Work[s].pc = exec[r][s].pc /\ s \in Due
  BY <1>1, WorkIsOfTheActiveRun DEF Due
<1>4. CASE Answer(r, s)
  <2>1. e.pc \in {"ok", "bad"}
    BY <1>4 DEF Answer, IInv, TypeOK, Executor, Over
  <2> HIDE DEF e
  <2>2. Asked' = Asked /\ Due' = Due \cup {s} /\ Spoilt' = Spoilt
    BY <1>1, <1>2, <2>1, ExecutorProgresses
  <2>3. UNCHANGED results
    BY <1>4 DEF Answer, durable
  <2> QED
    BY <1>1, <1>3, <2>2, <2>3 DEF ContractStep, Contract!vars
<1>5. CASE Quit(r, s) \/ WriteFails(r, s)
  <2>1. e.pc \in {"quit", "failed"}
    BY <1>5 DEF Quit, WriteFails, IInv, TypeOK, Over
  <2> HIDE DEF e
  <2>2. Asked' = Asked /\ Due' = Due \ {s} /\ Spoilt' = TRUE
    <3>1. Asked' = Asked /\ Due' = Due \ {s} /\ Spoilt'
      BY <1>1, <1>2, <2>1, ExecutorProgresses
    <3>2. Spoilt' \in BOOLEAN
      BY DEF Spoilt
    <3> QED
      BY <3>1, <3>2
  <2>3. UNCHANGED results
    BY <1>5 DEF Quit, WriteFails, durable
  <2>4. Contract!CutShort(s)
    BY <1>1, <1>3, <2>2, <2>3 DEF Contract!CutShort
  <2> QED
    BY <2>4 DEF ContractStep, Contract!Next
<1>6. CASE Write(r, s) \/ Deny(r, s)
  <2>1. e.pc \in {"done", "asking", "denied"}
    BY <1>6 DEF Write, Deny, IInv, TypeOK, Executor, Over
  <2> HIDE DEF e
  <2>2. Asked' = Asked /\ Due' \in {Due, Due \ {s}} /\ Spoilt' = Spoilt
    <3>1. Asked' = Asked /\ Spoilt' = Spoilt /\ Due' \in {Due \cup {s}, Due \ {s}}
      BY <1>1, <1>2, <2>1, ExecutorProgresses
    <3>2. Due \cup {s} = Due
      BY <1>3
    <3> QED
      BY <3>1, <3>2
  <2>3. results' = results \cup {<<active, s>>}
    BY <1>3, <1>6 DEF Write, Deny
  <2>4. Contract!Speak(s)
    BY <1>1, <1>3, <2>2, <2>3 DEF Contract!Speak
  <2> QED
    BY <2>4 DEF ContractStep, Contract!Next
<1> QED
  BY <1>4, <1>5, <1>6 DEF Executors

\* record_completion
LEMMA ProofImplements ==
    ASSUME IInv, NEW r \in Runs, Prove(r) PROVE ContractStep
<1>1. active = r /\ Work = exec[r] /\ UNCHANGED <<row, results, active, exec>>
  BY WorkIsOfTheActiveRun DEF Prove
<1>2. Asked = Targets(r)
  BY <1>1 DEF Asked, Targets
<1>3. TypeOK
  BY DEF IInv
<1>4. CASE status[r] # "running"
  <2>1. UNCHANGED status
    BY <1>3, <1>4 DEF Prove, TypeOK
  <2> QED
    BY <1>1, <2>1, StepIsHidden
<1>5. CASE status' = [status EXCEPT ![r] = "incomplete"] /\ status[r] = "running"
  <2>1. status' = [q \in Runs |-> IF q \in {r} THEN "incomplete" ELSE status[q]]
    BY <1>3, <1>5 DEF TypeOK
  <2> QED
    BY <1>1, <1>3, <1>5, <2>1, RunsAreAbandoned
<1>6. CASE /\ status[r] = "running" /\ phase[r] = "proving"
           /\ Targets(r) # {} /\ \A s \in Targets(r) : <<r, s>> \in results
           /\ status' = [status EXCEPT ![r] = "drained"]
  <2>1. \A s \in Servers : Work[s].pc \in {"none", "denied", "done"}
    BY <1>1, <1>6 DEF IInv, RunInv
  <2>2. Contract!Complete
    BY <1>1, <1>2, <1>6, <2>1 DEF Contract!Complete, Due, Spoilt
  <2>3. Contract!Prove(r)
    BY <1>1, <1>6, <2>2, ProgressRests DEF Progress, Contract!Prove, Contract!progress
  <2> QED
    BY <2>3 DEF ContractStep, Contract!Next
<1> QED
  BY <1>3, <1>4, <1>5, <1>6 DEF Prove, TypeOK

\* finish_run, by whomever
LEMMA AdmissionImplements ==
    ASSUME NEW r \in Runs, Admits(r), UNCHANGED <<row, results, active, exec>>
    PROVE  ContractStep
<1>1. Contract!Announce(r)
  BY ProgressRests DEF Progress, Admits, Contract!Announce, Contract!Announced, Contract!progress
<1> QED
  BY <1>1 DEF ContractStep, Contract!Next

\* The guard of the run in progress is dropped, or its process dies.
LEMMA StopImplements ==
    ASSUME IInv, IInv', active # None, active' = None, UNCHANGED <<row, results>>,
           UNCHANGED status \/ Admits(active)
    PROVE  ContractStep
<1>1. Asked' = {} /\ Due' = {} /\ Spoilt' = FALSE
  BY AbsentIsTyped DEF Asked, Due, Spoilt, Work
<1>2. Contract!Stop
  BY <1>1 DEF Admits, Contract!Stop, Contract!Announced
<1> QED
  BY <1>2 DEF ContractStep, Contract!Next

LEMMA EndImplements ==
    ASSUME IInv, IInv', NEW r \in Runs, Strand(r) \/ Finish(r)
    PROVE  ContractStep
<1>1. active = r
  BY WorkIsOfTheActiveRun DEF Strand, Stranded, Finish
<1>2. active' = None /\ UNCHANGED <<row, results>> /\ (UNCHANGED status \/ Admits(r))
  BY <1>1 DEF Strand, Finish, Ends, durable
<1> QED
  BY <1>1, <1>2, StopImplements, NoneAssumption

\* The INSERT of an aborted executor.
LEMMA LandingImplements ==
    ASSUME IInv, NEW r \in Runs, NEW s \in Servers, Land(r, s) PROVE ContractStep
<1>1. r # active /\ (status[r] \in {"running", "incomplete"} \/ row.state = "gone")
  BY DEF Land, IInv, LateInv
<1>2. UNCHANGED <<row, status, active, exec>> /\ results' = results \cup {<<r, s>>}
  BY DEF Land
<1>3. Contract!Straggle(r, s)
  BY <1>1, <1>2, ProgressRests DEF Progress, Contract!Straggle, Contract!progress
<1> QED
  BY <1>3 DEF ContractStep, Contract!Next

LEMMA CrashImplements == ASSUME IInv, IInv', Crash PROVE ContractStep
<1>1. active' = None /\ UNCHANGED <<row, results, status>>
  BY DEF Crash, durable
<1>2. CASE active # None
  BY <1>1, <1>2, StopImplements
<1>3. CASE active = None
  <2>1. Work' = Work
    BY <1>1, <1>3 DEF Work
  <2>2. UNCHANGED <<Asked, Due, Spoilt>>
    BY <2>1 DEF Asked, Due, Spoilt
  <2> QED
    BY <1>1, <1>3, <2>2 DEF ContractStep, Contract!vars
<1> QED
  BY <1>2, <1>3

LEMMA CleanupImplements ==
    ASSUME IInv, NEW doomed \in SUBSET Servers, CleanupBegin(doomed) PROVE ContractStep
<1>1. UNCHANGED <<active, exec>>
  BY DEF CleanupBegin
<1>2. CASE results' = ResultsWithout(doomed) /\ UNCHANGED <<row, status>>
  BY <1>1, <1>2, ResultsGo
<1>3. CASE /\ row' = [row EXCEPT !.targets = @ \ doomed]
           /\ results' = ResultsWithout(doomed) /\ UNCHANGED status
  <2>1. row'.state = row.state
    BY <1>3 DEF IInv, TypeOK, Row
  <2> QED
    BY <1>1, <1>3, <2>1, ResultsGo
<1>4. CASE /\ Live /\ row' = [state |-> "gone", enabled |-> FALSE, targets |-> {}]
           /\ results' = {} /\ status' = [r \in Runs |-> "none"]
  BY <1>1, <1>4, TaskGoes DEF Live
<1> QED
  BY <1>2, <1>3, <1>4 DEF CleanupBegin

-----------------------------------------------------------------------------
(* The refinement.                                                         *)

\* No run becomes unused again, and none has a row before it starts.
LEMMA FreshNext == ASSUME IInv, FreshInv, [Next]_vars PROVE FreshInv'
<1>1. ASSUME NEW r \in Runs, RunNow(r) \/ \E j \in Jobs : CronStart(j, r) PROVE FreshInv'
  <2>1. /\ phase' = [phase EXCEPT ![r] = "starting"]
        /\ status' = [status EXCEPT ![r] = "running"]
    BY <1>1 DEF RunNow, CronStart, Starts
  <2> QED
    BY <2>1 DEF FreshInv, IInv, TypeOK
<1>2. ASSUME NEW r \in Runs, Detach(r) \/ Drain(r) \/ Prove(r) PROVE FreshInv'
  <2>1. \A q \in Runs : phase'[q] = "unused" => phase[q] = "unused" /\ status'[q] = status[q]
    BY <1>2 DEF Detach, Drain, Prove, durable, IInv, TypeOK
  <2> QED
    BY <2>1 DEF FreshInv
<1>3. ASSUME NEW r \in Runs, Strand(r) \/ Finish(r) PROVE FreshInv'
  <2>1. \A q \in Runs : phase'[q] = "unused" => phase[q] = "unused"
    BY <1>3 DEF Strand, Finish, Ends, IInv, TypeOK
  <2>2. \A q \in Runs : status[q] = "none" => status'[q] = "none"
    BY <1>3, AdmissionCloses DEF Strand, Finish, durable
  <2> QED
    BY <2>1, <2>2 DEF FreshInv
<1>4. ASSUME NEW r \in Runs, Recover(r) PROVE FreshInv'
  BY <1>4, AdmissionCloses DEF Recover, FreshInv, run
<1>5. CASE DeleteRows \/ Restore \/ \E doomed \in SUBSET Servers : CleanupBegin(doomed)
  <2>1. UNCHANGED phase /\ \A q \in Runs : status[q] = "none" => status'[q] = "none"
    BY <1>5 DEF DeleteRows, Restore, CleanupBegin, run, IInv, TypeOK
  <2> QED
    BY <2>1 DEF FreshInv
<1>6. CASE Crash
  BY <1>6 DEF Crash, durable, FreshInv
<1>7. ASSUME NEW r \in Runs, NEW s \in Servers, Executors(r, s) \/ Deny(r, s) \/ Land(r, s)
      PROVE  FreshInv'
  BY <1>7 DEF Executors, Answer, Quit, Write, WriteFails, Deny, Land, durable, FreshInv
<1>8. ASSUME \/ \E chosen \in Selections : CreateTask(chosen)
             \/ \E enabled \in BOOLEAN, chosen \in Selections : UpdateBegin(enabled, chosen)
             \/ DeleteBegin \/ UpdateEnd \/ DeleteFails \/ CleanupEnd
             \/ \E s \in Servers : DeleteServer(s)
             \/ Fire \/ HangUp \/ \E j \in Jobs : CronSkip(j)
             \/ UNCHANGED vars
      PROVE  FreshInv'
  BY <1>8 DEF HangUp, CreateTask, UpdateBegin, DeleteBegin, UpdateEnd, DeleteFails, CleanupEnd,
              DeleteServer, Fire, CronSkip, durable, run, vars, FreshInv
<1> QED
  BY <1>1, <1>2, <1>3, <1>4, <1>5, <1>6, <1>7, <1>8
     DEF Next, Waiter, Carries, Starter, Drainer

\* A task that is being deleted or cleaned up was there.
WasThere == op.kind \in {"delete", "cleanup"} => row.state # "new"

LEMMA WasThereNext == ASSUME IInv, WasThere, [Next]_vars PROVE WasThere'
<1>1. CASE UNCHANGED op /\ row'.state = row.state
  BY <1>1 DEF WasThere
<1>2. CASE op' = Idle
  BY <1>2, IdleIsTyped DEF WasThere
<1>3. ASSUME NEW r \in Runs, RunNow(r) \/ \E j \in Jobs : CronStart(j, r) PROVE WasThere'
  BY <1>3 DEF RunNow, CronStart, Starts, Idle, WasThere
<1>4. ASSUME NEW enabled \in BOOLEAN, NEW chosen \in Selections, UpdateBegin(enabled, chosen)
      PROVE  WasThere'
  BY <1>4, RemovesAJob DEF UpdateBegin, Free, Live, IInv, WasThere
<1>5. CASE DeleteBegin
  BY <1>5 DEF DeleteBegin, durable, WasThere
<1>6. ASSUME NEW doomed \in SUBSET Servers, CleanupBegin(doomed) PROVE WasThere'
  <2>1. CASE UNCHANGED <<row, op>>
    BY <2>1 DEF WasThere
  <2>2. CASE Live /\ row'.state \in {"gone", row.state}
    BY <2>2 DEF Live, WasThere
  <2>3. UNCHANGED <<row, op>> \/ (Live /\ row'.state \in {"gone", row.state})
    <3>1. CASE row' = [state |-> "gone", enabled |-> FALSE, targets |-> {}] /\ Live
      BY <3>1
    <3>2. CASE row' = [row EXCEPT !.targets = @ \ doomed] /\ Live
      BY <3>2 DEF IInv, TypeOK, Row
    <3>3. CASE UNCHANGED <<row, op>>
      BY <3>3
    <3> QED
      BY <1>6, <3>1, <3>2, <3>3 DEF CleanupBegin
  <2> QED
    BY <2>1, <2>2, <2>3
<1>7. ASSUME NEW chosen \in Selections, CreateTask(chosen) PROVE WasThere'
  BY <1>7 DEF CreateTask, WasThere
<1>8. ASSUME NEW r \in Runs, \/ Detach(r) \/ Strand(r) \/ Drain(r) \/ Prove(r) \/ Finish(r)
                             \/ Recover(r)
                             \/ \E s \in Servers : Executors(r, s) \/ Deny(r, s) \/ Land(r, s)
      PROVE  op' = Idle \/ (UNCHANGED op /\ row'.state = row.state)
  BY <1>8 DEF Detach, Strand, Drain, Prove, Finish, Recover, Executors, Answer, Quit, Write,
              WriteFails, Deny, Land, durable
<1>9. ASSUME Waiter \/ HangUp \/ Crash PROVE op' = Idle
  BY <1>9 DEF Waiter, UpdateEnd, DeleteRows, DeleteFails, CleanupEnd, HangUp, Crash
<1>10. ASSUME \/ \E s \in Servers : DeleteServer(s)
              \/ Restore \/ Fire \/ \E j \in Jobs : CronSkip(j)
              \/ UNCHANGED vars
       PROVE  UNCHANGED op /\ row'.state = row.state
  BY <1>10 DEF DeleteServer, Restore, Fire, CronSkip, durable, vars
<1> QED
  BY <1>1, <1>2, <1>3, <1>4, <1>5, <1>6, <1>7, <1>8, <1>9, <1>10
     DEF Next, Carries, Starter, Drainer

\* What the owner of the lock does to the task.
LEMMA OwnerImplements ==
    ASSUME IInv, WasThere,
           \/ \E chosen \in Selections : CreateTask(chosen)
           \/ \E enabled \in BOOLEAN, chosen \in Selections : UpdateBegin(enabled, chosen)
           \/ DeleteBegin \/ Waiter \/ Restore
    PROVE  ContractStep
<1>1. ASSUME NEW chosen \in Selections, CreateTask(chosen) PROVE ContractStep
  <2>1. UNCHANGED <<status, results, active, exec>>
    BY <1>1 DEF CreateTask, run
  <2>2. row.state = "new" /\ row'.state = "live"
    BY <1>1 DEF CreateTask
  <2>3. Contract!Create
    BY <2>1, <2>2, ProgressRests DEF Progress, Contract!Create, Contract!progress
  <2> QED
    BY <2>3 DEF ContractStep, Contract!Next
<1>2. ASSUME NEW enabled \in BOOLEAN, NEW chosen \in Selections, UpdateBegin(enabled, chosen)
      PROVE  ContractStep
  <2>1. row'.state = row.state /\ UNCHANGED <<status, results, active, exec>>
    BY <1>2 DEF UpdateBegin, IInv, TypeOK, Row
  <2> QED
    BY <2>1, StepIsHidden
<1>3. CASE DeleteBegin \/ UpdateEnd \/ DeleteFails
  <2>1. UNCHANGED <<row, status, results, active, exec>>
    BY <1>3 DEF DeleteBegin, UpdateEnd, DeleteFails, durable, run
  <2> QED
    BY <2>1, StepIsHidden
<1>4. CASE DeleteRows
  <2>1. row.state # "new"
    BY <1>4 DEF DeleteRows, WasThere
  <2> QED
    BY <1>4, <2>1, TaskGoes DEF DeleteRows, run
<1>5. CASE CleanupEnd
  <2>1. UNCHANGED <<row, status, active, exec>>
    BY <1>5 DEF CleanupEnd, run
  <2>2. op.doomed \in SUBSET Servers
    BY DEF IInv, TypeOK, Operation
  <2>3. \/ results' = ResultsWithout(op.doomed)
        \/ row.state = "gone" /\ results' = {}
        \/ UNCHANGED results
    BY <1>5 DEF CleanupEnd, Live, WasThere, IInv, TypeOK, Row
  <2> QED
    BY <2>1, <2>2, <2>3, ResultsGo
<1>6. CASE Restore
  <2>1. UNCHANGED <<row, results, active, exec>>
    BY <1>6 DEF Restore, run
  <2>2. CASE UNCHANGED status
    BY <2>1, <2>2, StepIsHidden
  <2>3. CASE status' = [r \in Runs |-> IF status[r] = "running" THEN "incomplete" ELSE status[r]]
    <3> DEFINE left == {r \in Runs : status[r] = "running"}
    <3>1. status' = [r \in Runs |-> IF r \in left THEN "incomplete" ELSE status[r]]
      BY <2>3
    <3>2. left \in SUBSET Runs /\ \A r \in left : status[r] = "running"
      OBVIOUS
    <3> HIDE DEF left
    <3> QED
      BY <2>1, <3>1, <3>2, RunsAreAbandoned DEF IInv
  <2> QED
    BY <1>6, <2>2, <2>3 DEF Restore
<1> QED
  BY <1>1, <1>2, <1>3, <1>4, <1>5, <1>6 DEF Waiter

LEMMA NextImplements ==
    ASSUME IInv, IInv', FreshInv, WasThere, [Next]_vars PROVE ContractStep
<1>1. ASSUME NEW r \in Runs, RunNow(r) \/ \E j \in Jobs : CronStart(j, r) PROVE ContractStep
  BY <1>1, RunStarts DEF RunNow, CronStart
<1>2. ASSUME NEW r \in Runs, Detach(r) \/ Drain(r) PROVE ContractStep
  <2>1. UNCHANGED <<row, status, results, active, exec>>
    BY <1>2 DEF Detach, Drain, durable
  <2> QED
    BY <2>1, StepIsHidden
<1>3. ASSUME NEW r \in Runs, Strand(r) \/ Finish(r) PROVE ContractStep
  BY <1>3, EndImplements
<1>4. ASSUME NEW r \in Runs, Recover(r) PROVE ContractStep
  BY <1>4, AdmissionImplements DEF Recover, run
<1>5. ASSUME NEW doomed \in SUBSET Servers, CleanupBegin(doomed) PROVE ContractStep
  BY <1>5, CleanupImplements
<1>6. CASE Crash
  BY <1>6, CrashImplements
<1>7. ASSUME NEW r \in Runs, NEW s \in Servers, Executors(r, s) \/ Deny(r, s) PROVE ContractStep
  BY <1>7, ExecutorImplements
<1>8. ASSUME NEW r \in Runs, Prove(r) PROVE ContractStep
  BY <1>8, ProofImplements
<1>9. ASSUME NEW s \in Servers, DeleteServer(s) PROVE ContractStep
  <2>1. UNCHANGED <<row, status, active, exec>> /\ results' = ResultsWithout({s})
    BY <1>9 DEF DeleteServer, run
  <2>2. {s} \in SUBSET Servers
    OBVIOUS
  <2> QED
    BY <2>1, <2>2, ResultsGo
<1>10. CASE Fire \/ HangUp \/ (\E j \in Jobs : CronSkip(j)) \/ UNCHANGED vars
  <2>1. UNCHANGED <<row, status, results, active, exec>>
    BY <1>10 DEF Fire, HangUp, CronSkip, durable, run, vars
  <2> QED
    BY <2>1, StepIsHidden
<1>11. ASSUME NEW r \in Runs, NEW s \in Servers, Land(r, s) PROVE ContractStep
  BY <1>11, LandingImplements
<1> QED
  BY <1>1, <1>2, <1>3, <1>4, <1>5, <1>6, <1>7, <1>8, <1>9, <1>10, <1>11, OwnerImplements
     DEF Next, Carries, Starter, Drainer

LEMMA InitImplements == Init => FreshInv /\ WasThere /\ Contract!Init
<1> SUFFICES ASSUME Init PROVE FreshInv /\ WasThere /\ Contract!Init
  OBVIOUS
<1>1. Asked = {} /\ Due = {} /\ ~Spoilt
  BY AbsentIsTyped DEF Init, Work, Asked, Due, Spoilt
<1>2. Spoilt = FALSE
  BY <1>1 DEF Spoilt
<1> QED
  BY <1>1, <1>2, IdleIsTyped DEF Init, FreshInv, WasThere, Contract!Init

\* A scheduled task keeps the promise it makes its owner: one run at a time, no
\* result but from the run in progress or one that is never reported, and a summary that is sent once at most, of a
\* run in which each target had its last word and none was cut short.
THEOREM Refinement == Spec => ImplementsContract
<1>1. Init => FreshInv /\ WasThere /\ Contract!Init
  BY InitImplements
<1>2. IInv /\ FreshInv /\ WasThere /\ [Next]_vars => FreshInv' /\ WasThere'
  BY FreshNext, WasThereNext
<1>3. IInv /\ IInv' /\ FreshInv /\ WasThere /\ [Next]_vars => [Contract!Next]_(Contract!vars)
  <2> SUFFICES ASSUME IInv, IInv', FreshInv, WasThere, [Next]_vars
               PROVE  [Contract!Next]_(Contract!vars)
    OBVIOUS
  <2> QED
    BY NextImplements DEF ContractStep
<1> QED
  BY Invariance, <1>1, <1>2, <1>3, PTL DEF Spec, ImplementsContract, Contract!Spec
=============================================================================
