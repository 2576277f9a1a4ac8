------------------------- MODULE AgentUpgradeProofs -------------------------
(***************************************************************************)
(* The upgrade of an agent, for any number of jobs and faults: the types,  *)
(* and that the old binary survives every interrupted upgrade.             *)
(***************************************************************************)
EXTENDS AgentUpgrade, SequenceTheorems, TLAPS

\* Only the old agent, without a candidate to watch, installs one.
InstallerIsOld == task # None => agent = "old" /\ parent = None

\* The installation keeps its order: record, backup, candidate.
InstallationInOrder ==
    /\ task # None /\ task.at \in {"pending", "backed"}
         => exe = "old" /\ roll = None /\ txn # None /\ txn.phase = "pending"
    /\ task # None /\ task.at = "backed" => bak = "old"
    /\ task # None /\ task.at = "swapped" /\ roll = None
         => exe = "new" /\ bak = "old" /\ txn # None /\ txn.phase = "pending"

\* Who rolls back, and what it finds.
RollbackHasAnOwner ==
    roll # None =>
      /\ roll.step = "moved" => exe = None
      /\ roll.step = "restored" => exe = "old"
      /\ txn # None => txn.phase # "rolledback"
      /\ roll.who \in {"boot", "watchdog"} => agent = "new" /\ txn # None /\ parent = None
      /\ roll.who = "install" => task # None /\ task.at = "swapped" /\ txn # None
      /\ roll.who = "parent" => agent = "down" /\ parent # None

\* What runs is what is installed, until a rollback; threads belong to the candidate.
CandidateRunsInPlace ==
    /\ agent = "new" /\ roll = None => exe = "new"
    /\ dog => agent = "new" /\ parent = None
    /\ stable => agent = "new"
    /\ link \notin {"none", "parent"} => agent # "down"
    /\ link = "parent" => parent # None

\* A parent watches over a candidate with its backup.
ParentHasBackup ==
    parent # None =>
      /\ roll = None => exe = "new" /\ bak = "old" /\ agent # "old"
      /\ parent.fresh => agent = "down" /\ roll = None /\ txn # None /\ txn.phase = "pending"

\* What the disk holds, and who may change it
DiskInv ==
    /\ OldBinarySurvives
    /\ InstallerIsOld
    /\ InstallationInOrder
    /\ RollbackHasAnOwner
    /\ CandidateRunsInPlace
    /\ ParentHasBackup

IInv == TypeOK /\ DiskInv

-----------------------------------------------------------------------------
(* The types of what several actions share. *)

LEMMA UnpluggedIsTyped ==
    ASSUME TypeOK, Unplugged
    PROVE  /\ link' = "none"
           /\ orders' \in Seq(Jobs)
           /\ op' \in [Jobs -> {"idle", "checked", "stale", "done"}]
  BY DEF TypeOK, Unplugged

LEMMA AdmitsIsTyped ==
    ASSUME TypeOK, NEW state \in {"greeted", "parent"}, NEW ver \in {"old", "new"},
           Admits(state, ver)
    PROVE  TypeOK'
<1>1. [kind |-> "info", ver |-> ver] \in Message
  BY DEF Message
<1>2. wire' \in Seq(Message)
  BY <1>1 DEF Admits
<1>3. op' \in [Jobs -> {"idle", "checked", "stale", "done"}] /\ orders' \in Seq(Jobs)
  BY DEF Admits, TypeOK
<1>4. lost' \subseteq Jobs
  BY DEF Admits, TypeOK, Told
<1>. QED BY <1>2, <1>3, <1>4 DEF Admits, TypeOK, disk, process

LEMMA ParentLeavesIsTyped ==
    ASSUME TypeOK, ParentLeaves
    PROVE  /\ parent' = None
           /\ link' \in {"none", "greeted", "committed", "reported", "ready"}
           /\ orders' \in Seq(Jobs)
           /\ op' \in [Jobs -> {"idle", "checked", "stale", "done"}]
           /\ link' # "none" => link' = link
  BY UnpluggedIsTyped DEF TypeOK, ParentLeaves

LEMMA EndedIsTyped ==
    ASSUME TypeOK, Ended
    PROVE  /\ agent' = "down" /\ dog' = FALSE /\ stable' = FALSE /\ task' = None
           /\ link' \in {"none", "parent"} /\ (link' = "parent" => link = "parent")
           /\ orders' \in Seq(Jobs)
           /\ op' \in [Jobs -> {"idle", "checked", "stale", "done"}]
  BY UnpluggedIsTyped DEF TypeOK, Ended, Gone

LEMMA ParentIsTyped ==
    ASSUME TypeOK
    PROVE  /\ \A j \in Jobs : LET p == [job |-> j, fresh |-> TRUE, seen |-> FALSE]
                             IN  p \in Parent /\ p # None
           /\ parent # None =>
                /\ [parent EXCEPT !.fresh = FALSE] # None
                /\ \A b \in BOOLEAN : [parent EXCEPT !.seen = b] # None
<1>1. \A j \in Jobs : [job |-> j, fresh |-> TRUE, seen |-> FALSE] \in Parent
  BY DEF Parent
<1>2. parent # None => [parent EXCEPT !.fresh = FALSE] \in Parent
  BY DEF TypeOK, Parent
<1>3. parent # None => \A b \in BOOLEAN : [parent EXCEPT !.seen = b] \in Parent
  BY DEF TypeOK, Parent
<1>. QED BY <1>1, <1>2, <1>3, NoneAssumption

LEMMA MutedIsTyped == ASSUME TypeOK PROVE Muted \in Task \cup {None}
  BY DEF TypeOK, Muted, Task

LEMMA ToldAreJobs == TypeOK => Told \subseteq Jobs
  BY DEF Told

LEMMA VerdictIsTyped ==
    ASSUME TypeOK, NEW m PROVE Verdict(m) \in Job \cup {None}
<1>1. ASSUME tracker # None, NEW st \in {"succeeded", "failed"}
      PROVE  [tracker EXCEPT !.status = st] \in Job
  BY <1>1 DEF TypeOK, Job
<1>2. CASE m.kind = "info" /\ m.ver = "new" /\ Running
  BY <1>1, <1>2 DEF Verdict, Running
<1>3. CASE m.kind = "result" /\ Overrules(m.job)
  BY <1>1, <1>3 DEF Verdict, Overrules
<1>4. CASE m.kind = "denied" /\ Running
  BY <1>1, <1>4 DEF Verdict, Running
<1>5. CASE /\ ~(m.kind = "info" /\ m.ver = "new" /\ Running)
           /\ ~(m.kind = "result" /\ Overrules(m.job))
           /\ ~(m.kind = "denied" /\ Running)
  BY <1>5 DEF Verdict, TypeOK
<1>. QED BY <1>2, <1>3, <1>4, <1>5

LEMMA ResultsAreMessages ==
    /\ \A j \in Jobs : [kind |-> "result", job |-> j] \in Message
    /\ \A v \in {"old", "new"} : [kind |-> "info", ver |-> v] \in Message
    /\ [kind |-> "denied"] \in Message
  BY DEF Message

LEMMA FailsIsTyped ==
    ASSUME TypeOK, task # None, Fails
    PROVE  task' = None /\ wire' \in Seq(Message)
<1>1. task.job \in Jobs /\ task' = None
  BY DEF TypeOK, Fails, Task
<1>2. [kind |-> "result", job |-> task.job] \in Message
  BY <1>1, ResultsAreMessages
<1>3. Append(wire, [kind |-> "result", job |-> task.job]) \in Seq(Message)
  BY <1>2 DEF TypeOK
<1>. QED BY <1>1, <1>3 DEF TypeOK, Fails

LEMMA ReportOfParentIsTyped ==
    ASSUME TypeOK, parent # None
    PROVE  Append(wire, [kind |-> "result", job |-> parent.job]) \in Seq(Message)
<1>1. [kind |-> "result", job |-> parent.job] \in Message
  BY ResultsAreMessages DEF TypeOK, Parent
<1>. QED BY <1>1 DEF TypeOK

LEMMA InitIInv == Init => IInv
<1>. SUFFICES ASSUME Init PROVE IInv
  OBVIOUS
<1>1. TypeOK
  <2>1. op \in [Jobs -> {"idle", "checked", "stale", "done"}] /\ faults \in 0..MaxFaults
    BY FaultAssumption DEF Init
  <2>2. wire \in Seq(Message) /\ orders \in Seq(Jobs)
    BY DEF Init
  <2>3. supervised \in BOOLEAN /\ dog \in BOOLEAN /\ stable \in BOOLEAN
    BY DEF Init
  <2>. QED BY <2>1, <2>2, <2>3 DEF Init, TypeOK
<1>2. DiskInv
  BY NoneAssumption DEF Init, DiskInv, OldBinarySurvives, InstallerIsOld, InstallationInOrder,
     RollbackHasAnOwner, CandidateRunsInPlace, ParentHasBackup
<1>. QED BY <1>1, <1>2 DEF IInv

-----------------------------------------------------------------------------
(* Every step preserves the invariant. *)

\* What neither the Server nor a broken connection touches keeps what the disk
\* holds: a task that loses its way back is the same installation.
LEMMA DiskUntouched ==
    ASSUME IInv, UNCHANGED <<disk, agent, dog, stable, roll, parent>>,
           task' = task \/ task' = Muted, link' = link \/ link' = "none"
    PROVE  DiskInv'
<1>1. (task' = None <=> task = None) /\ (task # None => task'.at = task.at)
  <2>1. CASE task = None
    BY <2>1 DEF Muted
  <2>2. ASSUME task # None PROVE Muted # None /\ Muted.at = task.at
    <3>1. task \in Task
      BY <2>2 DEF IInv, TypeOK
    <3>2. [task EXCEPT !.tx = FALSE] \in Task /\ [task EXCEPT !.tx = FALSE].at = task.at
      BY <3>1 DEF Task
    <3>. QED BY <2>2, <3>2, NoneAssumption DEF Muted
  <2>. QED BY <2>1, <2>2
<1>2. OldBinarySurvives' /\ ParentHasBackup'
  BY DEF IInv, DiskInv, disk, OldBinarySurvives, ParentHasBackup
<1>3. InstallerIsOld' /\ InstallationInOrder'
  BY <1>1 DEF IInv, DiskInv, disk, InstallerIsOld, InstallationInOrder
<1>4. RollbackHasAnOwner' /\ CandidateRunsInPlace'
  BY <1>1 DEF IInv, DiskInv, disk, RollbackHasAnOwner, CandidateRunsInPlace
<1>. QED BY <1>2, <1>3, <1>4 DEF DiskInv

\* The Server's side changes nothing on the disk.
LEMMA ServerKeepsIInv ==
    ASSUME IInv,
           (\E j \in Jobs : Request(j)) \/ (\E j \in Jobs : Insert(j)) \/ Sweep \/ Handle \/ HandleFails \/
           ServerRestarts
    PROVE  IInv'
<1>. USE DEF IInv
<1>1. ASSUME NEW j \in Jobs, Request(j) PROVE IInv'
  <2>1. TypeOK'
    BY <1>1, NoneAssumption DEF TypeOK, Request, disk, process, channel, history
  <2>2. DiskInv'
    BY <1>1, DiskUntouched DEF Request, process, channel
  <2>. QED BY <2>1, <2>2
<1>2. ASSUME NEW j \in Jobs, Insert(j) PROVE IInv'
  <2>1. TypeOK'
    <3>1. orders' \in Seq(Jobs)
      BY <1>2 DEF TypeOK, Insert, disk, process
    <3>2. op' \in [Jobs -> {"idle", "checked", "stale", "done"}]
      BY <1>2 DEF TypeOK, Insert, disk, process
    <3>3. tracker' \in Job \cup {None}
      BY <1>2 DEF TypeOK, Insert, disk, process, Job
    <3>. QED BY <1>2, <3>1, <3>2, <3>3 DEF TypeOK, Insert, disk, process, history
  <2>2. DiskInv'
    BY <1>2, DiskUntouched DEF Insert, process
  <2>. QED BY <2>1, <2>2
<1>3. CASE Sweep
  <2>1. TypeOK'
    BY <1>3, NoneAssumption DEF TypeOK, Sweep, disk, process, channel, history, Running, Job
  <2>2. DiskInv'
    BY <1>3, DiskUntouched DEF Sweep, process, channel
  <2>. QED BY <2>1, <2>2
<1>4. CASE Handle
  <2>1. TypeOK'
    BY <1>4, NoneAssumption, VerdictIsTyped DEF TypeOK, Handle, disk, process, history
  <2>2. DiskInv'
    BY <1>4, DiskUntouched DEF Handle, process
  <2>. QED BY <2>1, <2>2
<1>5. CASE HandleFails
  <2>1. TypeOK'
    BY <1>5, NoneAssumption, UnpluggedIsTyped, MutedIsTyped, ToldAreJobs, FaultAssumption DEF
       TypeOK, HandleFails, disk, Fault
  <2>2. DiskInv'
    BY <1>5, DiskUntouched DEF HandleFails, Unplugged
  <2>. QED BY <2>1, <2>2
<1>6. CASE ServerRestarts
  <2>1. TypeOK'
    BY <1>6, NoneAssumption, MutedIsTyped, ToldAreJobs, FaultAssumption DEF TypeOK,
       ServerRestarts, disk, Fault
  <2>2. DiskInv'
    BY <1>6, DiskUntouched DEF ServerRestarts, disk
  <2>. QED BY <2>1, <2>2
<1>. QED BY <1>1, <1>2, <1>3, <1>4, <1>5, <1>6

\* The connection is set up and lost.
LEMMA ConnectionKeepsIInv ==
    ASSUME IInv,
           Connect \/ Commit \/ Report \/ Acknowledge \/ Drop \/ Deny
    PROVE  IInv'
<1>. USE DEF IInv
<1>1. CASE Connect
  <2>1. TypeOK'
    BY <1>1, NoneAssumption, AdmitsIsTyped DEF TypeOK, Connect
  <2>2. DiskInv'
    BY <1>1, NoneAssumption DEF TypeOK, Connect, Admits, disk, process, DiskInv,
       OldBinarySurvives, InstallerIsOld, InstallationInOrder, RollbackHasAnOwner,
       CandidateRunsInPlace, ParentHasBackup
  <2>. QED BY <2>1, <2>2
<1>2. CASE Commit
  <2>1. TypeOK'
    <3>1. txn' \in Transaction \cup {None}
      BY <1>2 DEF TypeOK, Commit, server, Transaction
    <3>2. stable' \in BOOLEAN
      BY <1>2 DEF TypeOK, Commit, server
    <3>3. faults' \in 0..MaxFaults
      BY <1>2, FaultAssumption DEF TypeOK, Commit, server, Fault
    <3>. QED BY <1>2, <3>1, <3>2, <3>3 DEF TypeOK, Commit, server, history
  <2>2. DiskInv'
    BY <1>2, NoneAssumption DEF TypeOK, Commit, server, history, Fault, Locked, Transaction,
       DiskInv, OldBinarySurvives, InstallerIsOld, InstallationInOrder, RollbackHasAnOwner,
       CandidateRunsInPlace, ParentHasBackup
  <2>. QED BY <2>1, <2>2
<1>3. CASE Report
  <2>1. TypeOK'
    <3>1. (txn # None => Recovered \in Message)
      BY <1>3, ResultsAreMessages DEF TypeOK, Report, disk, process, server, Recovered,
         Transaction
    <3>2. wire' \in Seq(Message)
      BY <1>3, <3>1 DEF TypeOK, Report, disk, process, server
    <3>. QED BY <1>3, <3>1, <3>2 DEF TypeOK, Report, disk, process, server, history
  <2>2. DiskInv'
    BY <1>3, NoneAssumption DEF TypeOK, Report, disk, process, server, history, Locked, DiskInv,
       OldBinarySurvives, InstallerIsOld, InstallationInOrder, RollbackHasAnOwner,
       CandidateRunsInPlace, ParentHasBackup
  <2>. QED BY <2>1, <2>2
<1>4. CASE Acknowledge
  <2>1. TypeOK'
    BY <1>4, NoneAssumption DEF TypeOK, Acknowledge, process, server, history
  <2>2. DiskInv'
    BY <1>4, NoneAssumption DEF TypeOK, Acknowledge, process, server, history, Locked, DiskInv,
       OldBinarySurvives, InstallerIsOld, InstallationInOrder, RollbackHasAnOwner,
       CandidateRunsInPlace, ParentHasBackup
  <2>. QED BY <2>1, <2>2
<1>5. CASE Drop
  <2>1. TypeOK'
    BY <1>5, NoneAssumption, UnpluggedIsTyped, MutedIsTyped, FaultAssumption DEF TypeOK, Drop,
       disk, history, Fault
  <2>2. DiskInv'
    BY <1>5, DiskUntouched DEF Drop, Unplugged
  <2>. QED BY <2>1, <2>2
<1>6. CASE Deny
  <2>1. TypeOK'
    BY <1>6, NoneAssumption, ResultsAreMessages DEF TypeOK, Deny, disk, process, server, history
  <2>2. DiskInv'
    BY <1>6, NoneAssumption DEF TypeOK, Deny, disk, process, server, history, DiskInv,
       OldBinarySurvives, InstallerIsOld, InstallationInOrder, RollbackHasAnOwner,
       CandidateRunsInPlace, ParentHasBackup
  <2>. QED BY <2>1, <2>2
<1>. QED BY <1>1, <1>2, <1>3, <1>4, <1>5, <1>6

\* The task takes a command and installs the candidate.
LEMMA TaskKeepsIInv ==
    ASSUME IInv,
           Receive \/ FetchFails \/ Prepare \/ BackUp \/ InstallFails \/ Swap \/ SyncFails \/ Restart
    PROVE  IInv'
<1>. USE DEF IInv
<1>1. CASE Receive
  <2>1. TypeOK'
    <3>1. Head(orders) \in Jobs /\ orders' \in Seq(Jobs)
      BY <1>1 DEF TypeOK, Receive, disk, server
    <3>2. [job |-> Head(orders), at |-> "fetching", tx |-> TRUE] \in Task
      BY <1>1, <3>1 DEF TypeOK, Receive, disk, server, Task
    <3>3. task' \in Task \cup {None}
      BY <1>1, <3>2 DEF TypeOK, Receive, disk, server
    <3>4. [kind |-> "result", job |-> Head(orders)] \in Message
      BY <1>1, <3>1, ResultsAreMessages DEF TypeOK, Receive, disk, server
    <3>5. Append(wire, [kind |-> "result", job |-> Head(orders)]) \in Seq(Message)
      BY <1>1, <3>4 DEF TypeOK, Receive, disk, server
    <3>6. wire' \in Seq(Message)
      BY <1>1, <3>5 DEF TypeOK, Receive, disk, server
    <3>. QED BY <1>1, <3>1, <3>2, <3>3, <3>4, <3>5, <3>6 DEF TypeOK, Receive, disk, server,
         history
  <2>2. DiskInv'
    BY <1>1, NoneAssumption DEF TypeOK, Receive, disk, server, history, Task, DiskInv,
       OldBinarySurvives, InstallerIsOld, InstallationInOrder, RollbackHasAnOwner,
       CandidateRunsInPlace, ParentHasBackup
  <2>. QED BY <2>1, <2>2
<1>2. CASE FetchFails
  <2>1. TypeOK'
    BY <1>2, NoneAssumption, FailsIsTyped DEF TypeOK, FetchFails, disk, server, history
  <2>2. DiskInv'
    BY <1>2, NoneAssumption DEF TypeOK, FetchFails, disk, server, history, Fails, DiskInv,
       OldBinarySurvives, InstallerIsOld, InstallationInOrder, RollbackHasAnOwner,
       CandidateRunsInPlace, ParentHasBackup
  <2>. QED BY <2>1, <2>2
<1>3. CASE Prepare
  <2>1. TypeOK'
    BY <1>3, NoneAssumption DEF TypeOK, Prepare, channel, server, Task, Transaction
  <2>2. DiskInv'
    BY <1>3, NoneAssumption DEF TypeOK, Prepare, channel, server, Task, Transaction, Locked,
       DiskInv, OldBinarySurvives, InstallerIsOld, InstallationInOrder, RollbackHasAnOwner,
       CandidateRunsInPlace, ParentHasBackup
  <2>. QED BY <2>1, <2>2
<1>4. CASE BackUp
  <2>1. TypeOK'
    BY <1>4, NoneAssumption DEF TypeOK, BackUp, channel, server, history, Task
  <2>2. DiskInv'
    BY <1>4, NoneAssumption DEF TypeOK, BackUp, channel, server, history, Task, DiskInv,
       OldBinarySurvives, InstallerIsOld, InstallationInOrder, RollbackHasAnOwner,
       CandidateRunsInPlace, ParentHasBackup
  <2>. QED BY <2>1, <2>2
<1>5. CASE InstallFails
  <2>1. TypeOK'
    BY <1>5, NoneAssumption, FailsIsTyped, FaultAssumption DEF TypeOK, InstallFails, server,
       history, Fault
  <2>2. DiskInv'
    BY <1>5, NoneAssumption DEF TypeOK, InstallFails, server, history, Fails, Fault, DiskInv,
       OldBinarySurvives, InstallerIsOld, InstallationInOrder, RollbackHasAnOwner,
       CandidateRunsInPlace, ParentHasBackup
  <2>. QED BY <2>1, <2>2
<1>6. CASE Swap
  <2>1. TypeOK'
    BY <1>6, NoneAssumption DEF TypeOK, Swap, channel, server, history, Task
  <2>2. DiskInv'
    BY <1>6, NoneAssumption DEF TypeOK, Swap, channel, server, history, Task, DiskInv,
       OldBinarySurvives, InstallerIsOld, InstallationInOrder, RollbackHasAnOwner,
       CandidateRunsInPlace, ParentHasBackup
  <2>. QED BY <2>1, <2>2
<1>7. CASE SyncFails
  <2>1. TypeOK'
    BY <1>7, NoneAssumption, FaultAssumption DEF TypeOK, SyncFails, process, channel, server,
       history, Fault, Rollback
  <2>2. DiskInv'
    BY <1>7, NoneAssumption DEF TypeOK, SyncFails, process, channel, server, history, Fault,
       Rollback, DiskInv, OldBinarySurvives, InstallerIsOld, InstallationInOrder,
       RollbackHasAnOwner, CandidateRunsInPlace, ParentHasBackup
  <2>. QED BY <2>1, <2>2
<1>8. CASE Restart
  <2>1. TypeOK'
    <3>1. task.job \in Jobs
      BY <1>8 DEF TypeOK, Restart, disk, Task
    <3>2. parent' \in Parent \cup {None}
      BY <1>8, <3>1, ParentIsTyped DEF TypeOK, Restart, disk
    <3>3. /\ orders' \in Seq(Jobs)
         /\ link' \in {"none", "greeted", "committed", "reported", "ready", "parent"}
         /\ op' \in [Jobs -> {"idle", "checked", "stale", "done"}]
      BY <1>8, UnpluggedIsTyped DEF TypeOK, Restart, disk
    <3>4. /\ dog' \in BOOLEAN
         /\ stable' \in BOOLEAN
         /\ task' \in Task \cup {None}
         /\ agent' \in {"down", "old", "new"}
      BY <1>8 DEF TypeOK, Restart, disk, Gone
    <3>. QED BY <1>8, <3>1, <3>2, <3>3, <3>4 DEF TypeOK, Restart, disk, history
  <2>2. DiskInv'
    <3>1. OldBinarySurvives'
      BY <1>8, NoneAssumption DEF TypeOK, Restart, disk, history, Gone, Unplugged, Parent, Task,
         DiskInv, OldBinarySurvives, InstallerIsOld, InstallationInOrder, RollbackHasAnOwner,
         CandidateRunsInPlace, ParentHasBackup
    <3>2. InstallerIsOld'
      BY <1>8, NoneAssumption DEF TypeOK, Restart, disk, history, Gone, Unplugged, Parent, Task,
         DiskInv, OldBinarySurvives, InstallerIsOld, InstallationInOrder, RollbackHasAnOwner,
         CandidateRunsInPlace, ParentHasBackup
    <3>3. InstallationInOrder'
      BY <1>8, NoneAssumption DEF TypeOK, Restart, disk, history, Gone, Unplugged, Parent, Task,
         DiskInv, OldBinarySurvives, InstallerIsOld, InstallationInOrder, RollbackHasAnOwner,
         CandidateRunsInPlace, ParentHasBackup
    <3>4. RollbackHasAnOwner'
      BY <1>8, NoneAssumption DEF TypeOK, Restart, disk, history, Gone, Unplugged, Parent, Task,
         DiskInv, OldBinarySurvives, InstallerIsOld, InstallationInOrder, RollbackHasAnOwner,
         CandidateRunsInPlace, ParentHasBackup
    <3>5. CandidateRunsInPlace'
      BY <1>8, NoneAssumption, ParentIsTyped DEF TypeOK, Restart, disk, history, Gone,
         Unplugged, Task, DiskInv, OldBinarySurvives, InstallerIsOld, InstallationInOrder,
         RollbackHasAnOwner, CandidateRunsInPlace, ParentHasBackup
    <3>6. ParentHasBackup'
      BY <1>8, NoneAssumption DEF TypeOK, Restart, disk, history, Gone, Unplugged, Parent, Task,
         DiskInv, OldBinarySurvives, InstallerIsOld, InstallationInOrder, RollbackHasAnOwner,
         CandidateRunsInPlace, ParentHasBackup
    <3>. QED BY <3>1, <3>2, <3>3, <3>4, <3>5, <3>6 DEF DiskInv
  <2>. QED BY <2>1, <2>2
<1>. QED BY <1>1, <1>2, <1>3, <1>4, <1>5, <1>6, <1>7, <1>8

\* A binary starts, is confirmed or rolled back.
LEMMA TrialKeepsIInv ==
    ASSUME IInv,
           Start \/ Finalize \/ Bite \/ PutBack \/ Conclude \/ PutBackFails \/
           ConcludeFails
    PROVE  IInv'
<1>. USE DEF IInv
<1>1. CASE Start
  <2>1. TypeOK'
    <3>1. txn' \in Transaction \cup {None}
      BY <1>1 DEF TypeOK, Start, channel, server, Trial, Interrupted, Transaction
    <3>2. parent' \in Parent \cup {None}
      BY <1>1 DEF TypeOK, Start, channel, server, Parent
    <3>3. dog' \in BOOLEAN
      BY <1>1 DEF TypeOK, Start, channel, server, Trial, Interrupted
    <3>4. roll' \in Rollback \cup {None} /\ exe' \in {"old", "new", None}
      BY <1>1 DEF TypeOK, Start, channel, server, Trial, Interrupted, Rollback
    <3>5. agent' \in {"down", "old", "new"}
      BY <1>1, NoneAssumption DEF TypeOK, Start, channel, server, Started
    <3>. QED BY <1>1, <3>1, <3>2, <3>3, <3>4, <3>5 DEF TypeOK, Start, channel, server, history
  <2>2. DiskInv'
    <3>1. OldBinarySurvives'
      BY <1>1, NoneAssumption DEF TypeOK, Start, channel, server, history, Started, Trial,
         Interrupted, Again, Transaction, Rollback, Parent, DiskInv, OldBinarySurvives,
         InstallerIsOld, InstallationInOrder, RollbackHasAnOwner, CandidateRunsInPlace,
         ParentHasBackup
    <3>2. InstallerIsOld'
      BY <1>1, NoneAssumption DEF TypeOK, Start, channel, server, history, Started, Trial,
         Interrupted, Again, Transaction, Rollback, Parent, DiskInv, OldBinarySurvives,
         InstallerIsOld, InstallationInOrder, RollbackHasAnOwner, CandidateRunsInPlace,
         ParentHasBackup
    <3>3. InstallationInOrder'
      BY <1>1, NoneAssumption DEF TypeOK, Start, channel, server, history, Started, Trial,
         Interrupted, Again, Transaction, Rollback, Parent, DiskInv, OldBinarySurvives,
         InstallerIsOld, InstallationInOrder, RollbackHasAnOwner, CandidateRunsInPlace,
         ParentHasBackup
    <3>4. RollbackHasAnOwner'
      BY <1>1, NoneAssumption DEF TypeOK, Start, channel, server, history, Started, Trial,
         Interrupted, Again, Transaction, Rollback, Parent, DiskInv, OldBinarySurvives,
         InstallerIsOld, InstallationInOrder, RollbackHasAnOwner, CandidateRunsInPlace,
         ParentHasBackup
    <3>5. CandidateRunsInPlace'
      BY <1>1, NoneAssumption, ParentIsTyped DEF TypeOK, Start, channel, server, history,
         Started, Trial, Interrupted, Again, Transaction, Rollback, DiskInv, OldBinarySurvives,
         InstallerIsOld, InstallationInOrder, RollbackHasAnOwner, CandidateRunsInPlace,
         ParentHasBackup
    <3>6. ParentHasBackup'
      BY <1>1, NoneAssumption DEF TypeOK, Start, channel, server, history, Started, Trial,
         Interrupted, Again, Transaction, Rollback, Parent, DiskInv, OldBinarySurvives,
         InstallerIsOld, InstallationInOrder, RollbackHasAnOwner, CandidateRunsInPlace,
         ParentHasBackup
    <3>. QED BY <3>1, <3>2, <3>3, <3>4, <3>5, <3>6 DEF DiskInv
  <2>. QED BY <2>1, <2>2
<1>2. CASE Finalize
  <2>1. TypeOK'
    <3>1. txn' \in Transaction \cup {None}
      BY <1>2 DEF TypeOK, Finalize, channel, server
    <3>2. stable' \in BOOLEAN
      BY <1>2 DEF TypeOK, Finalize, channel, server
    <3>. QED BY <1>2, <3>1, <3>2 DEF TypeOK, Finalize, channel, server, history
  <2>2. DiskInv'
    BY <1>2, NoneAssumption DEF TypeOK, Finalize, channel, server, history, Locked, DiskInv,
       OldBinarySurvives, InstallerIsOld, InstallationInOrder, RollbackHasAnOwner,
       CandidateRunsInPlace, ParentHasBackup
  <2>. QED BY <2>1, <2>2
<1>3. CASE Bite
  <2>1. TypeOK'
    <3>1. dog' \in BOOLEAN
      BY <1>3 DEF TypeOK, Bite, channel, server
    <3>2. roll' \in Rollback \cup {None} /\ exe' \in {"old", "new", None}
      BY <1>3 DEF TypeOK, Bite, channel, server, Rollback
    <3>. QED BY <1>3, <3>1, <3>2 DEF TypeOK, Bite, channel, server, history
  <2>2. DiskInv'
    BY <1>3, NoneAssumption DEF TypeOK, Bite, channel, server, history, Rollback, Locked,
       DiskInv, OldBinarySurvives, InstallerIsOld, InstallationInOrder, RollbackHasAnOwner,
       CandidateRunsInPlace, ParentHasBackup
  <2>. QED BY <2>1, <2>2
<1>4. CASE PutBack
  <2>1. TypeOK'
    BY <1>4, NoneAssumption DEF TypeOK, PutBack, process, channel, server, history, Rollback
  <2>2. DiskInv'
    BY <1>4, NoneAssumption DEF TypeOK, PutBack, process, channel, server, history, Rollback,
       DiskInv, OldBinarySurvives, InstallerIsOld, InstallationInOrder, RollbackHasAnOwner,
       CandidateRunsInPlace, ParentHasBackup
  <2>. QED BY <2>1, <2>2
<1>5. CASE Conclude
  <2>1. TypeOK'
    <3>1. txn' \in Transaction \cup {None}
      BY <1>5 DEF TypeOK, Conclude, Undone, Transaction, Parent, DiskInv, RollbackHasAnOwner,
         Rollback
    <3>2. /\ task' \in Task \cup {None}
         /\ wire' \in Seq(Message)
         /\ orders' \in Seq(Jobs)
         /\ link' \in {"none", "greeted", "committed", "reported", "ready", "parent"}
         /\ op' \in [Jobs -> {"idle", "checked", "stale", "done"}]
         /\ agent' \in {"down", "old", "new"}
      BY <1>5, FailsIsTyped, UnpluggedIsTyped DEF TypeOK, Conclude, Gone, DiskInv,
         RollbackHasAnOwner, Rollback
    <3>3. parent' \in Parent \cup {None} /\ roll' \in Rollback \cup {None}
      BY <1>5 DEF TypeOK, Conclude
    <3>4. dog' \in BOOLEAN /\ stable' \in BOOLEAN
      BY <1>5 DEF TypeOK, Conclude, Gone
    <3>. QED BY <1>5, <3>1, <3>2, <3>3, <3>4 DEF TypeOK, Conclude, history
  <2>2. DiskInv'
    BY <1>5, NoneAssumption DEF TypeOK, Conclude, history, Gone, Unplugged, Fails, Undone,
       Transaction, Rollback, DiskInv, OldBinarySurvives, InstallerIsOld, InstallationInOrder,
       RollbackHasAnOwner, CandidateRunsInPlace, ParentHasBackup
  <2>. QED BY <2>1, <2>2
<1>6. CASE PutBackFails
  <2>1. TypeOK'
    <3>1. (roll.who = "install" => task # None)
      BY <1>6 DEF TypeOK, PutBackFails, GoesOn, DiskInv, RollbackHasAnOwner
    <3>2. wire' \in Seq(Message)
      BY <1>6, <3>1, FailsIsTyped, ReportOfParentIsTyped DEF TypeOK, PutBackFails, GoesOn, DiskInv,
         RollbackHasAnOwner, Rollback
    <3>3. task' \in Task \cup {None}
      BY <1>6, <3>1, FailsIsTyped, EndedIsTyped DEF TypeOK, PutBackFails, GoesOn, Rollback
    <3>4. /\ orders' \in Seq(Jobs)
         /\ link' \in {"none", "greeted", "committed", "reported", "ready", "parent"}
         /\ op' \in [Jobs -> {"idle", "checked", "stale", "done"}]
      BY <1>6, EndedIsTyped DEF TypeOK, PutBackFails, GoesOn, Rollback
    <3>5. /\ agent' \in {"down", "old", "new"}
         /\ exe' \in {"old", "new", None}
         /\ txn' \in Transaction \cup {None}
      BY <1>6, EndedIsTyped DEF TypeOK, PutBackFails, GoesOn, Rollback
    <3>6. dog' \in BOOLEAN /\ stable' \in BOOLEAN
      BY <1>6, EndedIsTyped DEF TypeOK, PutBackFails, GoesOn, Rollback
    <3>7. parent' \in Parent \cup {None}
      BY <1>6 DEF TypeOK, PutBackFails, GoesOn, Rollback
    <3>8. faults' \in 0..MaxFaults
      BY <1>6, FaultAssumption DEF TypeOK, PutBackFails, GoesOn, Fault
    <3>. QED BY <1>6, <3>1, <3>2, <3>3, <3>4, <3>5, <3>6, <3>7, <3>8 DEF TypeOK, PutBackFails, GoesOn,
         history
  <2>2. DiskInv'
    BY <1>6, NoneAssumption DEF TypeOK, PutBackFails, GoesOn, history, Ended, Gone, Unplugged, Fails,
       Fault, Rollback, Transaction, DiskInv, OldBinarySurvives, InstallerIsOld,
       InstallationInOrder, RollbackHasAnOwner, CandidateRunsInPlace, ParentHasBackup
  <2>. QED BY <2>1, <2>2
<1>7. CASE ConcludeFails
  <2>1. TypeOK'
    <3>1. wire' \in Seq(Message)
      BY <1>7, ReportOfParentIsTyped DEF TypeOK, ConcludeFails, GoesOn, DiskInv,
         RollbackHasAnOwner
    <3>2. /\ task' \in Task \cup {None}
         /\ orders' \in Seq(Jobs)
         /\ link' \in {"none", "greeted", "committed", "reported", "ready", "parent"}
         /\ op' \in [Jobs -> {"idle", "checked", "stale", "done"}]
      BY <1>7, EndedIsTyped DEF TypeOK, ConcludeFails, GoesOn
    <3>3. /\ agent' \in {"down", "old", "new"}
         /\ dog' \in BOOLEAN /\ stable' \in BOOLEAN
         /\ parent' \in Parent \cup {None} /\ roll' = None
      BY <1>7, EndedIsTyped DEF TypeOK, ConcludeFails, GoesOn
    <3>4. lost' \subseteq Jobs
      BY <1>7 DEF TypeOK, ConcludeFails, Parent, DiskInv, RollbackHasAnOwner
    <3>5. faults' \in 0..MaxFaults
      BY <1>7, FaultAssumption DEF TypeOK, ConcludeFails, Fault
    <3>. QED BY <1>7, <3>1, <3>2, <3>3, <3>4, <3>5 DEF TypeOK, ConcludeFails, disk
  <2>2. DiskInv'
    BY <1>7, NoneAssumption DEF TypeOK, ConcludeFails, GoesOn, disk, Ended, Gone, Unplugged,
       Fault, Rollback, Transaction, DiskInv, OldBinarySurvives, InstallerIsOld,
       InstallationInOrder, RollbackHasAnOwner, CandidateRunsInPlace, ParentHasBackup
  <2>. QED BY <2>1, <2>2
<1>. QED BY <1>1, <1>2, <1>3, <1>4, <1>5, <1>6, <1>7

\* The parent watches, and processes die.
LEMMA ParentKeepsIInv ==
    ASSUME IInv,
           ParentConnects \/ ParentRefuses \/ Look \/ LookAgain \/ TakeBack \/ ParentDies \/ Crash
    PROVE  IInv'
<1>. USE DEF IInv
<1>1. CASE ParentConnects
  <2>1. TypeOK'
    BY <1>1, NoneAssumption, AdmitsIsTyped DEF TypeOK, ParentConnects
  <2>2. DiskInv'
    BY <1>1, NoneAssumption DEF TypeOK, ParentConnects, Admits, disk, process, DiskInv,
       OldBinarySurvives, InstallerIsOld, InstallationInOrder, RollbackHasAnOwner,
       CandidateRunsInPlace, ParentHasBackup
  <2>. QED BY <2>1, <2>2
<1>2. CASE ParentRefuses
  <2>1. TypeOK'
    <3>1. Head(orders) \in Jobs /\ orders' \in Seq(Jobs)
      BY <1>2 DEF TypeOK, ParentRefuses, disk, process, server
    <3>2. [kind |-> "result", job |-> Head(orders)] \in Message
      BY <1>2, <3>1, ResultsAreMessages DEF TypeOK, ParentRefuses, disk, process, server
    <3>3. wire' \in Seq(Message)
      BY <1>2, <3>2 DEF TypeOK, ParentRefuses, disk, process, server
    <3>. QED BY <1>2, <3>1, <3>2, <3>3 DEF TypeOK, ParentRefuses, disk, process, server, history
  <2>2. DiskInv'
    BY <1>2, NoneAssumption DEF TypeOK, ParentRefuses, disk, process, server, history, DiskInv,
       OldBinarySurvives, InstallerIsOld, InstallationInOrder, RollbackHasAnOwner,
       CandidateRunsInPlace, ParentHasBackup
  <2>. QED BY <2>1, <2>2
<1>3. CASE Look
  <2>1. TypeOK'
    <3>1. parent' \in Parent \cup {None}
      <4>1. [parent EXCEPT !.seen = TRUE] \in Parent
        BY <1>3 DEF TypeOK, Look, Parent
      <4>. QED BY <1>3, <4>1, ParentLeavesIsTyped DEF Look
    <3>2. /\ orders' \in Seq(Jobs)
         /\ link' \in {"none", "greeted", "committed", "reported", "ready", "parent"}
         /\ op' \in [Jobs -> {"idle", "checked", "stale", "done"}]
      BY <1>3, ParentLeavesIsTyped DEF TypeOK, Look, disk, process
    <3>. QED BY <1>3, <3>1, <3>2 DEF TypeOK, Look, disk, process, history
  <2>2. DiskInv'
    <3>1. OldBinarySurvives'
      BY <1>3, NoneAssumption DEF TypeOK, Look, disk, process, history, TrialActive,
         ParentLeaves, Unplugged, Parent, DiskInv, OldBinarySurvives, InstallerIsOld,
         InstallationInOrder, RollbackHasAnOwner, CandidateRunsInPlace, ParentHasBackup
    <3>2. InstallerIsOld'
      BY <1>3, NoneAssumption DEF TypeOK, Look, disk, process, history, TrialActive,
         ParentLeaves, Unplugged, Parent, DiskInv, OldBinarySurvives, InstallerIsOld,
         InstallationInOrder, RollbackHasAnOwner, CandidateRunsInPlace, ParentHasBackup
    <3>3. InstallationInOrder'
      BY <1>3, NoneAssumption DEF TypeOK, Look, disk, process, history, TrialActive,
         ParentLeaves, Unplugged, Parent, DiskInv, OldBinarySurvives, InstallerIsOld,
         InstallationInOrder, RollbackHasAnOwner, CandidateRunsInPlace, ParentHasBackup
    <3>4. RollbackHasAnOwner'
      BY <1>3, NoneAssumption DEF TypeOK, Look, disk, process, history, TrialActive,
         ParentLeaves, Unplugged, Parent, DiskInv, OldBinarySurvives, InstallerIsOld,
         InstallationInOrder, RollbackHasAnOwner, CandidateRunsInPlace, ParentHasBackup
    <3>5. CandidateRunsInPlace'
      BY <1>3, NoneAssumption, ParentIsTyped DEF TypeOK, Look, disk, process, history,
         TrialActive, ParentLeaves, Unplugged, DiskInv, OldBinarySurvives, InstallerIsOld,
         InstallationInOrder, RollbackHasAnOwner, CandidateRunsInPlace, ParentHasBackup
    <3>6. ParentHasBackup'
      BY <1>3, NoneAssumption DEF TypeOK, Look, disk, process, history, TrialActive,
         ParentLeaves, Unplugged, Parent, DiskInv, OldBinarySurvives, InstallerIsOld,
         InstallationInOrder, RollbackHasAnOwner, CandidateRunsInPlace, ParentHasBackup
    <3>. QED BY <3>1, <3>2, <3>3, <3>4, <3>5, <3>6 DEF DiskInv
  <2>. QED BY <2>1, <2>2
<1>4. CASE LookAgain
  <2>1. TypeOK'
    <3>1. parent' \in Parent \cup {None}
      BY <1>4 DEF TypeOK, LookAgain, disk, process, channel, server, Parent
    <3>. QED BY <1>4, <3>1 DEF TypeOK, LookAgain, disk, process, channel, server, history
  <2>2. DiskInv'
    BY <1>4, NoneAssumption DEF TypeOK, LookAgain, disk, process, channel, server, history,
       Parent, DiskInv, OldBinarySurvives, InstallerIsOld, InstallationInOrder,
       RollbackHasAnOwner, CandidateRunsInPlace, ParentHasBackup
  <2>. QED BY <2>1, <2>2
<1>5. CASE TakeBack
  <2>1. TypeOK'
    <3>1. parent' \in Parent \cup {None} /\ roll' \in Rollback \cup {None}
      BY <1>5 DEF TypeOK, TakeBack, Parent, Rollback
    <3>2. /\ orders' \in Seq(Jobs)
         /\ link' \in {"none", "greeted", "committed", "reported", "ready", "parent"}
         /\ op' \in [Jobs -> {"idle", "checked", "stale", "done"}]
      BY <1>5, EndedIsTyped DEF TypeOK, TakeBack
    <3>3. /\ dog' \in BOOLEAN
         /\ stable' \in BOOLEAN
         /\ task' \in Task \cup {None}
         /\ agent' \in {"down", "old", "new"}
      BY <1>5, EndedIsTyped DEF TypeOK, TakeBack
    <3>. QED BY <1>5, <3>1, <3>2, <3>3 DEF TypeOK, TakeBack, history
  <2>2. DiskInv'
    <3>1. OldBinarySurvives'
      BY <1>5, NoneAssumption DEF TypeOK, TakeBack, history, Ended, Gone, Unplugged, Rollback,
         Parent, DiskInv, OldBinarySurvives, InstallerIsOld, InstallationInOrder,
         RollbackHasAnOwner, CandidateRunsInPlace, ParentHasBackup
    <3>2. InstallerIsOld'
      BY <1>5, NoneAssumption DEF TypeOK, TakeBack, history, Ended, Gone, Unplugged, Rollback,
         Parent, DiskInv, OldBinarySurvives, InstallerIsOld, InstallationInOrder,
         RollbackHasAnOwner, CandidateRunsInPlace, ParentHasBackup
    <3>3. InstallationInOrder'
      BY <1>5, NoneAssumption DEF TypeOK, TakeBack, history, Ended, Gone, Unplugged, Rollback,
         Parent, DiskInv, OldBinarySurvives, InstallerIsOld, InstallationInOrder,
         RollbackHasAnOwner, CandidateRunsInPlace, ParentHasBackup
    <3>4. RollbackHasAnOwner'
      BY <1>5, NoneAssumption DEF TypeOK, TakeBack, history, Ended, Gone, Unplugged, Rollback,
         Parent, DiskInv, OldBinarySurvives, InstallerIsOld, InstallationInOrder,
         RollbackHasAnOwner, CandidateRunsInPlace, ParentHasBackup
    <3>5. CandidateRunsInPlace'
      BY <1>5, NoneAssumption DEF TypeOK, TakeBack, history, Ended, Gone, Unplugged, Rollback,
         Parent, DiskInv, OldBinarySurvives, InstallerIsOld, InstallationInOrder,
         RollbackHasAnOwner, CandidateRunsInPlace, ParentHasBackup
    <3>6. ParentHasBackup'
      BY <1>5, NoneAssumption DEF TypeOK, TakeBack, history, Ended, Gone, Unplugged, Rollback,
         Parent, DiskInv, OldBinarySurvives, InstallerIsOld, InstallationInOrder,
         RollbackHasAnOwner, CandidateRunsInPlace, ParentHasBackup
    <3>. QED BY <3>1, <3>2, <3>3, <3>4, <3>5, <3>6 DEF DiskInv
  <2>. QED BY <2>1, <2>2
<1>6. CASE ParentDies
  <2>1. TypeOK'
    BY <1>6, NoneAssumption, FaultAssumption, ParentLeavesIsTyped DEF TypeOK, ParentDies, disk,
       process, Fault, Parent
  <2>2. DiskInv'
    BY <1>6, NoneAssumption DEF TypeOK, ParentDies, disk, process, Fault, ParentLeaves,
       Unplugged, Parent, DiskInv, OldBinarySurvives, InstallerIsOld, InstallationInOrder,
       RollbackHasAnOwner, CandidateRunsInPlace, ParentHasBackup
  <2>. QED BY <2>1, <2>2
<1>7. CASE Crash
  <2>1. TypeOK'
    <3>1. /\ orders' \in Seq(Jobs)
         /\ link' \in {"none", "greeted", "committed", "reported", "ready", "parent"}
         /\ op' \in [Jobs -> {"idle", "checked", "stale", "done"}]
      BY <1>7, EndedIsTyped DEF TypeOK, Crash, disk
    <3>2. /\ dog' \in BOOLEAN
         /\ stable' \in BOOLEAN
         /\ task' \in Task \cup {None}
         /\ agent' \in {"down", "old", "new"}
      BY <1>7, EndedIsTyped DEF TypeOK, Crash, disk
    <3>3. faults' \in 0..MaxFaults
      BY <1>7, FaultAssumption DEF TypeOK, Crash, disk, Fault
    <3>. QED BY <1>7, <3>1, <3>2, <3>3 DEF TypeOK, Crash, disk, history
  <2>2. DiskInv'
    <3>1. OldBinarySurvives'
      BY <1>7, NoneAssumption DEF TypeOK, Crash, disk, history, Ended, Gone, Unplugged, Fault,
         Rollback, DiskInv, OldBinarySurvives, InstallerIsOld, InstallationInOrder,
         RollbackHasAnOwner, CandidateRunsInPlace, ParentHasBackup
    <3>2. InstallerIsOld'
      BY <1>7, NoneAssumption DEF TypeOK, Crash, disk, history, Ended, Gone, Unplugged, Fault,
         Rollback, DiskInv, OldBinarySurvives, InstallerIsOld, InstallationInOrder,
         RollbackHasAnOwner, CandidateRunsInPlace, ParentHasBackup
    <3>3. InstallationInOrder'
      BY <1>7, NoneAssumption DEF TypeOK, Crash, disk, history, Ended, Gone, Unplugged, Fault,
         Rollback, DiskInv, OldBinarySurvives, InstallerIsOld, InstallationInOrder,
         RollbackHasAnOwner, CandidateRunsInPlace, ParentHasBackup
    <3>4. RollbackHasAnOwner'
      BY <1>7, NoneAssumption DEF TypeOK, Crash, disk, history, Ended, Gone, Unplugged, Fault,
         Rollback, DiskInv, OldBinarySurvives, InstallerIsOld, InstallationInOrder,
         RollbackHasAnOwner, CandidateRunsInPlace, ParentHasBackup
    <3>5. CandidateRunsInPlace'
      BY <1>7, NoneAssumption DEF TypeOK, Crash, disk, history, Ended, Gone, Unplugged, Fault,
         Rollback, DiskInv, OldBinarySurvives, InstallerIsOld, InstallationInOrder,
         RollbackHasAnOwner, CandidateRunsInPlace, ParentHasBackup
    <3>6. ParentHasBackup'
      BY <1>7, NoneAssumption DEF TypeOK, Crash, disk, history, Ended, Gone, Unplugged, Fault,
         Rollback, DiskInv, OldBinarySurvives, InstallerIsOld, InstallationInOrder,
         RollbackHasAnOwner, CandidateRunsInPlace, ParentHasBackup
    <3>. QED BY <3>1, <3>2, <3>3, <3>4, <3>5, <3>6 DEF DiskInv
  <2>. QED BY <2>1, <2>2
<1>. QED BY <1>1, <1>2, <1>3, <1>4, <1>5, <1>6, <1>7

-----------------------------------------------------------------------------
LEMMA StutteringKeepsIInv == IInv /\ UNCHANGED vars => IInv'
  BY DEF IInv, TypeOK, DiskInv, OldBinarySurvives, InstallerIsOld, InstallationInOrder,
     RollbackHasAnOwner, CandidateRunsInPlace, ParentHasBackup, vars, TrialActive

LEMMA NextKeepsIInv == IInv /\ [Next]_vars => IInv'
  BY ServerKeepsIInv, ConnectionKeepsIInv, TaskKeepsIInv, TrialKeepsIInv, ParentKeepsIInv,
     StutteringKeepsIInv
     DEF Next, Operators, Handshake, Install, RollBack

LEMMA Invariance == Spec => []IInv
<1>. QED BY InitIInv, NextKeepsIInv, PTL DEF Spec

\* The state keeps its types: in every reachable state of agent, disk and Server.
THEOREM Typing == Spec => []TypeOK
<1>1. IInv => TypeOK
  BY DEF IInv
<1>. QED BY <1>1, Invariance, PTL

\* However installation, trial and rollback are interrupted, the old binary can be
\* brought back until the candidate is confirmed (install_candidate_at,
\* rollback_files, prepare_startup_at).
THEOREM OldBinaryAlwaysSurvives == Spec => []OldBinarySurvives
<1>1. IInv => OldBinarySurvives
  BY DEF IInv, DiskInv
<1>. QED BY <1>1, Invariance, PTL

=============================================================================
