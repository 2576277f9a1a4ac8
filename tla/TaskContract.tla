----------------------------- MODULE TaskContract -----------------------------
(***************************************************************************)
(* What a scheduled task promises its owner, without the lifecycle lock,   *)
(* cron jobs, cancellation, retries or completion proofs: one run at a     *)
(* time; results from the run in progress, or late ones from a run that    *)
(* was cut short and is never reported; and a summary that is sent once,   *)
(* for a run that went through all its targets and lost none.  TaskRuns    *)
(* implements it.                                                          *)
(***************************************************************************)
CONSTANTS Servers, Runs, None

VARIABLES
    task,       \* "new", "live" or "gone"
    status,     \* of each run, "none" without a row
    results,    \* the run and the Server of each result
    busy,       \* the run in progress
    targets,    \* of the run in progress
    due,        \* targets whose last word is still to come
    spoilt      \* one of its targets has been cut short

vars == <<task, status, results, busy, targets, due, spoilt>>
progress == <<busy, targets, due, spoilt>>

Init ==
    /\ task = "new"
    /\ status = [r \in Runs |-> "none"]
    /\ results = {}
    /\ busy = None /\ targets = {} /\ due = {} /\ spoilt = FALSE

Create ==
    /\ task = "new" /\ task' = "live"
    /\ UNCHANGED <<status, results, progress>>

Start(r, asked) ==
    /\ task = "live" /\ busy = None /\ status[r] = "none"
    /\ status' = [status EXCEPT ![r] = "running"]
    /\ busy' = r /\ targets' = asked /\ due' = asked /\ spoilt' = FALSE
    /\ UNCHANGED <<task, results>>

\* A target says something, not necessarily its last word.
Speak(s) ==
    /\ s \in due
    /\ results' = results \cup {<<busy, s>>}
    /\ due' \in {due, due \ {s}}
    /\ UNCHANGED <<task, status, busy, targets, spoilt>>

CutShort(s) ==
    /\ s \in due
    /\ due' = due \ {s} /\ spoilt' = TRUE
    /\ UNCHANGED <<task, status, results, busy, targets>>

\* A result of a run that was cut short turns up: it is never reported, or its
\* row has gone with the task.
Straggle(r, s) ==
    /\ r # busy
    /\ status[r] \in {"running", "incomplete"} \/ task = "gone"
    /\ results' = results \cup {<<r, s>>}
    /\ UNCHANGED <<task, status, progress>>

\* Nothing is missing and nothing more will come.
Complete ==
    /\ due = {} /\ ~spoilt
    /\ targets # {} /\ {busy} \X targets \subseteq results

\* A run that was left running is incomplete, for good.
Abandon(runs) ==
    /\ \A r \in runs : status[r] = "running"
    /\ status' = [r \in Runs |-> IF r \in runs THEN "incomplete" ELSE status[r]]
    /\ UNCHANGED <<task, results, progress>>

Prove(r) ==
    /\ busy = r /\ Complete
    /\ status[r] = "running"
    /\ status' = [status EXCEPT ![r] = "drained"]
    /\ UNCHANGED <<task, results, progress>>

Announced(r) == [status EXCEPT ![r] = IF @ = "drained" THEN "completed" ELSE @]

Announce(r) ==
    /\ status' = Announced(r)
    /\ UNCHANGED <<task, results, progress>>

\* The run is over, and whoever is still at work on it stops.
Stop ==
    /\ busy # None
    /\ status' \in {status, Announced(busy)}
    /\ busy' = None /\ targets' = {} /\ due' = {} /\ spoilt' = FALSE
    /\ UNCHANGED <<task, results>>

\* The task goes with its runs; one in progress may go on for a while.
Delete ==
    /\ task # "new" /\ task' = "gone"
    /\ status' = [r \in Runs |-> "none"]
    /\ results' = {}
    /\ UNCHANGED progress

\* Results go with their Servers or with the task, never otherwise.
Forget(doomed) ==
    /\ \/ results' = {result \in results : result[2] \notin doomed}
       \/ task = "gone" /\ results' = {}
    /\ UNCHANGED <<task, status, progress>>

Next ==
    \/ Create \/ Stop \/ Delete
    \/ \E r \in Runs : Prove(r) \/ Announce(r) \/ \E asked \in SUBSET Servers : Start(r, asked)
    \/ \E s \in Servers : Speak(s) \/ CutShort(s) \/ \E r \in Runs : Straggle(r, s)
    \/ \E runs \in SUBSET Runs : Abandon(runs)
    \/ \E doomed \in SUBSET Servers : Forget(doomed)

Spec == Init /\ [][Next]_vars
===============================================================================
