---------------------- MODULE AgentUpgradeReportProofs ----------------------
(***************************************************************************)
(* An upgrade that the Server shows as succeeded is installed, or its      *)
(* rollback is reported: proved for any number of jobs and faults from the *)
(* invariant of AgentUpgradeProofs.                                        *)
(***************************************************************************)
EXTENDS AgentUpgradeProofs

Ordered == {orders[i] : i \in 1..Len(orders)}

\* Whose job it is that is installed, watched and undone.
JobsAreKnown ==
    /\ txn # None => txn.job = last
    /\ parent # None => parent.job = last
    /\ task # None => op[task.job] = "done" /\ (task.at # "fetching" => task.job = last)
    /\ \A j \in Ordered : op[j] = "done"
    /\ last # None => op[last] = "done"
    /\ link = "none" => Ordered = {}
    /\ \A j \in Jobs : op[j] = "checked" => link # "none"

\* The SystemInfo of a candidate, not handled yet
News == [kind |-> "info", ver |-> "new"] \in OnWire

\* The Server does not mistake an old agent for the candidate.
NewsIsOfTheCandidate ==
    /\ task # None => ~News
    /\ link = "parent" \/ (link # "none" /\ agent = "old") => ~News
    /\ News /\ exe = "old" => txn # None \/ roll # None \/ last \in lost

\* The Server shows job j as running or succeeded.
Shown(j) == tracker # None /\ tracker.job = j /\ tracker.status \in {"running", "succeeded"}

Succeeded(j) == tracker # None /\ tracker.job = j /\ tracker.status = "succeeded"

\* No success before there is a candidate.
NoEarlySuccess ==
    /\ task # None => ~Succeeded(task.job)
    /\ agent = "old" \/ link = "parent" => \A j \in Ordered : ~Succeeded(j)

\* A report is made before it is forgotten, and no upgrade starts before that.
ReportsAreMade ==
    /\ task # None \/ (link = "ready" /\ agent = "old") => ~(txn # None /\ txn.phase = "rolledback")
    /\ link = "reported"
         => /\ agent = "old" /\ txn # None /\ txn.phase = "rolledback"
            /\ last \in Told \cup lost \/ ~Shown(last)

ReportInv ==
    /\ SuccessIsHonest
    /\ JobsAreKnown
    /\ NewsIsOfTheCandidate
    /\ NoEarlySuccess
    /\ ReportsAreMade

-----------------------------------------------------------------------------
(* Messages and commands as sets. *)

LEMMA EndOfSequence ==
    ASSUME NEW S, NEW s \in Seq(S), NEW m \in S
    PROVE  {Append(s, m)[i] : i \in 1..Len(Append(s, m))} = {s[i] : i \in 1..Len(s)} \cup {m}
<1>1. Len(Append(s, m)) = Len(s) + 1 /\ Len(s) \in Nat
  OBVIOUS
<1>2. \A i \in 1..Len(s) : Append(s, m)[i] = s[i]
  OBVIOUS
<1>3. Append(s, m)[Len(s) + 1] = m
  OBVIOUS
<1>. QED BY <1>1, <1>2, <1>3

LEMMA FrontOfSequence ==
    ASSUME NEW S, NEW s \in Seq(S), s # <<>>
    PROVE  {s[i] : i \in 1..Len(s)} = {Tail(s)[i] : i \in 1..Len(Tail(s))} \cup {Head(s)}
<1>1. Len(s) \in Nat \ {0} /\ Len(Tail(s)) = Len(s) - 1
  OBVIOUS
<1>2. \A i \in 1..Len(Tail(s)) : Tail(s)[i] = s[i + 1]
  OBVIOUS
<1>3. Head(s) = s[1]
  OBVIOUS
<1>4. ASSUME NEW i \in 1..Len(s), i # 1 PROVE i - 1 \in 1..Len(Tail(s)) /\ s[i] = Tail(s)[i - 1]
  <2>1. \A n \in Nat : i \in 1..n => i - 1 \in 1..(n - 1) /\ (i - 1) + 1 = i
    BY <1>4
  <2>2. i - 1 \in 1..Len(Tail(s)) /\ (i - 1) + 1 = i
    BY <1>1, <2>1
  <2>. QED BY <2>2, <1>2
<1>5. ASSUME NEW i \in 1..Len(Tail(s)) PROVE i + 1 \in 1..Len(s)
  BY <1>1
<1>6. \A i \in 1..Len(s) : i = 1 \/ \E k \in 1..Len(Tail(s)) : s[i] = Tail(s)[k]
  BY <1>4
<1>7. 1 \in 1..Len(s)
  BY <1>1
<1>. QED BY <1>2, <1>3, <1>5, <1>6, <1>7

LEMMA WireGrows ==
    ASSUME TypeOK, NEW m \in Message, wire' = Append(wire, m)
    PROVE  OnWire' = OnWire \cup {m}
  BY EndOfSequence DEF TypeOK, OnWire

LEMMA WireShrinks ==
    ASSUME TypeOK, wire # <<>>, wire' = Tail(wire)
    PROVE  OnWire = OnWire' \cup {Head(wire)}
  BY FrontOfSequence DEF TypeOK, OnWire

LEMMA WireIsReset == ASSUME NEW m, wire' = <<m>> PROVE OnWire' = {m}
  BY DEF OnWire

LEMMA WireIsCut == ASSUME wire' = <<>> PROVE OnWire' = {}
  BY DEF OnWire

LEMMA WireIsSame == ASSUME wire' = wire PROVE OnWire' = OnWire
  BY DEF OnWire

LEMMA FailsOnWire ==
    ASSUME TypeOK, task # None, Fails
    PROVE  OnWire' = OnWire \/ OnWire' = OnWire \cup {[kind |-> "result", job |-> task.job]}
<1>1. [kind |-> "result", job |-> task.job] \in Message
  BY ResultsAreMessages DEF TypeOK, Task
<1>2. CASE task.tx
  BY <1>1, <1>2, WireGrows DEF Fails
<1>3. CASE ~task.tx
  BY <1>3, WireIsSame DEF Fails
<1>. QED BY <1>2, <1>3

LEMMA ReportOfParentOnWire ==
    ASSUME TypeOK, parent # None, wire' = Append(wire, [kind |-> "result", job |-> parent.job])
    PROVE  OnWire' = OnWire \cup {[kind |-> "result", job |-> parent.job]}
<1>1. [kind |-> "result", job |-> parent.job] \in Message
  BY ResultsAreMessages DEF TypeOK, Parent
<1>. QED BY <1>1, WireGrows

LEMMA OrdersGrow ==
    ASSUME TypeOK, NEW j \in Jobs, orders' = Append(orders, j)
    PROVE  Ordered' = Ordered \cup {j}
  BY EndOfSequence DEF TypeOK, Ordered

LEMMA OrdersShrink ==
    ASSUME TypeOK, orders # <<>>, orders' = Tail(orders)
    PROVE  Ordered = Ordered' \cup {Head(orders)}
  BY FrontOfSequence DEF TypeOK, Ordered

LEMMA OrdersAreCut == ASSUME orders' = <<>> PROVE Ordered' = {}
  BY DEF Ordered

LEMMA OrdersAreSame == ASSUME orders' = orders PROVE Ordered' = Ordered
  BY DEF Ordered

LEMMA InitReportInv == Init => ReportInv
<1>. SUFFICES ASSUME Init PROVE ReportInv
  OBVIOUS
<1>1. OnWire = {} /\ Ordered = {}
  BY DEF Init, OnWire, Ordered
<1>. QED
  BY <1>1 DEF Init, ReportInv, SuccessIsHonest, JobsAreKnown, NewsIsOfTheCandidate, News,
     NoEarlySuccess, ReportsAreMade

-----------------------------------------------------------------------------
(* Every step preserves it, given the invariant of the disk before and after. *)

LEMMA ServerKeepsReportInv ==
    ASSUME IInv, IInv', ReportInv,
           (\E j \in Jobs : Request(j)) \/ (\E j \in Jobs : Insert(j)) \/ Sweep \/ Handle \/ HandleFails \/
           ServerRestarts
    PROVE  ReportInv'
<1>1. ASSUME NEW j \in Jobs, Request(j) PROVE ReportInv'
  <2>1. OnWire' = OnWire
    BY <1>1, WireIsSame DEF IInv, TypeOK, Request, channel
  <2>2. Ordered' = Ordered
    BY <1>1, OrdersAreSame DEF IInv, TypeOK, Request, channel
  <2>3. SuccessIsHonest'
    BY <1>1, <2>1, <2>2, NoneAssumption DEF IInv, TypeOK, Request, disk, process, channel,
       history, DiskInv, OldBinarySurvives, InstallerIsOld, InstallationInOrder,
       RollbackHasAnOwner, CandidateRunsInPlace, ParentHasBackup, ReportInv, SuccessIsHonest,
       JobsAreKnown, NewsIsOfTheCandidate, News, NoEarlySuccess, ReportsAreMade, Shown,
       Succeeded, Told
  <2>4. JobsAreKnown'
    BY <1>1, <2>1, <2>2, NoneAssumption DEF IInv, TypeOK, Request, disk, process, channel,
       history, DiskInv, OldBinarySurvives, InstallerIsOld, InstallationInOrder,
       RollbackHasAnOwner, CandidateRunsInPlace, ParentHasBackup, ReportInv, SuccessIsHonest,
       JobsAreKnown, NewsIsOfTheCandidate, News, NoEarlySuccess, ReportsAreMade, Shown,
       Succeeded, Told
  <2>5. NewsIsOfTheCandidate'
    BY <1>1, <2>1, <2>2, NoneAssumption DEF IInv, TypeOK, Request, disk, process, channel,
       history, DiskInv, OldBinarySurvives, InstallerIsOld, InstallationInOrder,
       RollbackHasAnOwner, CandidateRunsInPlace, ParentHasBackup, ReportInv, SuccessIsHonest,
       JobsAreKnown, NewsIsOfTheCandidate, News, NoEarlySuccess, ReportsAreMade, Shown,
       Succeeded, Told
  <2>6. NoEarlySuccess'
    BY <1>1, <2>1, <2>2, NoneAssumption DEF IInv, TypeOK, Request, disk, process, channel,
       history, DiskInv, OldBinarySurvives, InstallerIsOld, InstallationInOrder,
       RollbackHasAnOwner, CandidateRunsInPlace, ParentHasBackup, ReportInv, SuccessIsHonest,
       JobsAreKnown, NewsIsOfTheCandidate, News, NoEarlySuccess, ReportsAreMade, Shown,
       Succeeded, Told
  <2>7. ReportsAreMade'
    BY <1>1, <2>1, <2>2, NoneAssumption DEF IInv, TypeOK, Request, disk, process, channel,
       history, DiskInv, OldBinarySurvives, InstallerIsOld, InstallationInOrder,
       RollbackHasAnOwner, CandidateRunsInPlace, ParentHasBackup, ReportInv, SuccessIsHonest,
       JobsAreKnown, NewsIsOfTheCandidate, News, NoEarlySuccess, ReportsAreMade, Shown,
       Succeeded, Told
  <2>. QED BY <2>3, <2>4, <2>5, <2>6, <2>7 DEF ReportInv
<1>2. ASSUME NEW j \in Jobs, Insert(j) PROVE ReportInv'
  <2>1. OnWire' = OnWire
    BY <1>2, WireIsSame DEF IInv, TypeOK, Insert
  <2>2. Ordered' = Ordered \/ (op[j] = "checked" /\ Ordered' = Ordered \cup {j})
    BY <1>2, OrdersGrow, OrdersAreSame DEF IInv, TypeOK, Insert
  <2>3. SuccessIsHonest'
    BY <1>2, <2>1, <2>2, NoneAssumption DEF IInv, TypeOK, Insert, disk, process, history, Job,
       DiskInv, OldBinarySurvives, InstallerIsOld, InstallationInOrder, RollbackHasAnOwner,
       CandidateRunsInPlace, ParentHasBackup, ReportInv, SuccessIsHonest, JobsAreKnown,
       NewsIsOfTheCandidate, News, NoEarlySuccess, ReportsAreMade, Shown, Succeeded, Told
  <2>4. JobsAreKnown'
    BY <1>2, <2>1, <2>2, NoneAssumption DEF IInv, TypeOK, Insert, disk, process, history, Job,
       DiskInv, OldBinarySurvives, InstallerIsOld, InstallationInOrder, RollbackHasAnOwner,
       CandidateRunsInPlace, ParentHasBackup, ReportInv, SuccessIsHonest, JobsAreKnown,
       NewsIsOfTheCandidate, News, NoEarlySuccess, ReportsAreMade, Shown, Succeeded, Told
  <2>5. NewsIsOfTheCandidate'
    BY <1>2, <2>1, <2>2, NoneAssumption DEF IInv, TypeOK, Insert, disk, process, history, Job,
       DiskInv, OldBinarySurvives, InstallerIsOld, InstallationInOrder, RollbackHasAnOwner,
       CandidateRunsInPlace, ParentHasBackup, ReportInv, SuccessIsHonest, JobsAreKnown,
       NewsIsOfTheCandidate, News, NoEarlySuccess, ReportsAreMade, Shown, Succeeded, Told
  <2>6. NoEarlySuccess'
    BY <1>2, <2>1, <2>2, NoneAssumption DEF IInv, TypeOK, Insert, disk, process, history, Job,
       DiskInv, OldBinarySurvives, InstallerIsOld, InstallationInOrder, RollbackHasAnOwner,
       CandidateRunsInPlace, ParentHasBackup, ReportInv, SuccessIsHonest, JobsAreKnown,
       NewsIsOfTheCandidate, News, NoEarlySuccess, ReportsAreMade, Shown, Succeeded, Told
  <2>7. ReportsAreMade'
    BY <1>2, <2>1, <2>2, NoneAssumption DEF IInv, TypeOK, Insert, disk, process, history, Job,
       DiskInv, OldBinarySurvives, InstallerIsOld, InstallationInOrder, RollbackHasAnOwner,
       CandidateRunsInPlace, ParentHasBackup, ReportInv, SuccessIsHonest, JobsAreKnown,
       NewsIsOfTheCandidate, News, NoEarlySuccess, ReportsAreMade, Shown, Succeeded, Told
  <2>. QED BY <2>3, <2>4, <2>5, <2>6, <2>7 DEF ReportInv
<1>3. CASE Sweep
  <2>1. OnWire' = OnWire
    BY <1>3, WireIsSame DEF IInv, TypeOK, Sweep, channel
  <2>2. Ordered' = Ordered
    BY <1>3, OrdersAreSame DEF IInv, TypeOK, Sweep, channel
  <2>3. SuccessIsHonest'
    BY <1>3, <2>1, <2>2, NoneAssumption DEF IInv, TypeOK, Sweep, disk, process, channel,
       history, Running, Job, DiskInv, OldBinarySurvives, InstallerIsOld, InstallationInOrder,
       RollbackHasAnOwner, CandidateRunsInPlace, ParentHasBackup, ReportInv, SuccessIsHonest,
       JobsAreKnown, NewsIsOfTheCandidate, News, NoEarlySuccess, ReportsAreMade, Shown,
       Succeeded, Told
  <2>4. JobsAreKnown'
    BY <1>3, <2>1, <2>2, NoneAssumption DEF IInv, TypeOK, Sweep, disk, process, channel,
       history, Running, Job, DiskInv, OldBinarySurvives, InstallerIsOld, InstallationInOrder,
       RollbackHasAnOwner, CandidateRunsInPlace, ParentHasBackup, ReportInv, SuccessIsHonest,
       JobsAreKnown, NewsIsOfTheCandidate, News, NoEarlySuccess, ReportsAreMade, Shown,
       Succeeded, Told
  <2>5. NewsIsOfTheCandidate'
    BY <1>3, <2>1, <2>2, NoneAssumption DEF IInv, TypeOK, Sweep, disk, process, channel,
       history, Running, Job, DiskInv, OldBinarySurvives, InstallerIsOld, InstallationInOrder,
       RollbackHasAnOwner, CandidateRunsInPlace, ParentHasBackup, ReportInv, SuccessIsHonest,
       JobsAreKnown, NewsIsOfTheCandidate, News, NoEarlySuccess, ReportsAreMade, Shown,
       Succeeded, Told
  <2>6. NoEarlySuccess'
    BY <1>3, <2>1, <2>2, NoneAssumption DEF IInv, TypeOK, Sweep, disk, process, channel,
       history, Running, Job, DiskInv, OldBinarySurvives, InstallerIsOld, InstallationInOrder,
       RollbackHasAnOwner, CandidateRunsInPlace, ParentHasBackup, ReportInv, SuccessIsHonest,
       JobsAreKnown, NewsIsOfTheCandidate, News, NoEarlySuccess, ReportsAreMade, Shown,
       Succeeded, Told
  <2>7. ReportsAreMade'
    BY <1>3, <2>1, <2>2, NoneAssumption DEF IInv, TypeOK, Sweep, disk, process, channel,
       history, Running, Job, DiskInv, OldBinarySurvives, InstallerIsOld, InstallationInOrder,
       RollbackHasAnOwner, CandidateRunsInPlace, ParentHasBackup, ReportInv, SuccessIsHonest,
       JobsAreKnown, NewsIsOfTheCandidate, News, NoEarlySuccess, ReportsAreMade, Shown,
       Succeeded, Told
  <2>. QED BY <2>3, <2>4, <2>5, <2>6, <2>7 DEF ReportInv
<1>4. CASE Handle
  <2>1. OnWire = OnWire' \cup {Head(wire)} /\ Head(wire) \in Message
    BY <1>4, WireShrinks DEF IInv, TypeOK, Handle
  <2>2. Ordered' = Ordered
    BY <1>4, OrdersAreSame DEF IInv, TypeOK, Handle
  <2>3. SuccessIsHonest'
    BY <1>4, <2>1, <2>2, NoneAssumption DEF IInv, TypeOK, Handle, disk, process, history,
       Verdict, Running, Overrules, Job, Message, DiskInv, OldBinarySurvives, InstallerIsOld,
       InstallationInOrder, RollbackHasAnOwner, CandidateRunsInPlace, ParentHasBackup,
       ReportInv, SuccessIsHonest, JobsAreKnown, NewsIsOfTheCandidate, News, NoEarlySuccess,
       ReportsAreMade, Shown, Succeeded, Told
  <2>4. JobsAreKnown'
    BY <1>4, <2>1, <2>2, NoneAssumption DEF IInv, TypeOK, Handle, disk, process, history,
       Verdict, Running, Overrules, Job, Message, DiskInv, OldBinarySurvives, InstallerIsOld,
       InstallationInOrder, RollbackHasAnOwner, CandidateRunsInPlace, ParentHasBackup,
       ReportInv, SuccessIsHonest, JobsAreKnown, NewsIsOfTheCandidate, News, NoEarlySuccess,
       ReportsAreMade, Shown, Succeeded, Told
  <2>5. NewsIsOfTheCandidate'
    BY <1>4, <2>1, <2>2, NoneAssumption DEF IInv, TypeOK, Handle, disk, process, history,
       Verdict, Running, Overrules, Job, Message, DiskInv, OldBinarySurvives, InstallerIsOld,
       InstallationInOrder, RollbackHasAnOwner, CandidateRunsInPlace, ParentHasBackup,
       ReportInv, SuccessIsHonest, JobsAreKnown, NewsIsOfTheCandidate, News, NoEarlySuccess,
       ReportsAreMade, Shown, Succeeded, Told
  <2>6. NoEarlySuccess'
    BY <1>4, <2>1, <2>2, NoneAssumption DEF IInv, TypeOK, Handle, disk, process, history,
       Verdict, Running, Overrules, Job, Message, DiskInv, OldBinarySurvives, InstallerIsOld,
       InstallationInOrder, RollbackHasAnOwner, CandidateRunsInPlace, ParentHasBackup,
       ReportInv, SuccessIsHonest, JobsAreKnown, NewsIsOfTheCandidate, News, NoEarlySuccess,
       ReportsAreMade, Shown, Succeeded, Told
  <2>7. ReportsAreMade'
    BY <1>4, <2>1, <2>2, NoneAssumption DEF IInv, TypeOK, Handle, disk, process, history,
       Verdict, Running, Overrules, Job, Message, DiskInv, OldBinarySurvives, InstallerIsOld,
       InstallationInOrder, RollbackHasAnOwner, CandidateRunsInPlace, ParentHasBackup,
       ReportInv, SuccessIsHonest, JobsAreKnown, NewsIsOfTheCandidate, News, NoEarlySuccess,
       ReportsAreMade, Shown, Succeeded, Told
  <2>. QED BY <2>3, <2>4, <2>5, <2>6, <2>7 DEF ReportInv
<1>5. CASE HandleFails
  <2>1. OnWire' = {}
    BY <1>5, WireIsCut DEF IInv, TypeOK, HandleFails
  <2>2. Ordered' = {}
    BY <1>5, OrdersAreCut DEF IInv, TypeOK, HandleFails, Unplugged
  <2>3. SuccessIsHonest'
    BY <1>5, <2>1, <2>2, NoneAssumption DEF IInv, TypeOK, HandleFails, disk, Fault, Unplugged,
       Muted, Task, DiskInv, OldBinarySurvives, InstallerIsOld, InstallationInOrder,
       RollbackHasAnOwner, CandidateRunsInPlace, ParentHasBackup, ReportInv, SuccessIsHonest,
       JobsAreKnown, NewsIsOfTheCandidate, News, NoEarlySuccess, ReportsAreMade, Shown,
       Succeeded, Told
  <2>4. JobsAreKnown'
    BY <1>5, <2>1, <2>2, NoneAssumption DEF IInv, TypeOK, HandleFails, disk, Fault, Unplugged,
       Muted, Task, DiskInv, OldBinarySurvives, InstallerIsOld, InstallationInOrder,
       RollbackHasAnOwner, CandidateRunsInPlace, ParentHasBackup, ReportInv, SuccessIsHonest,
       JobsAreKnown, NewsIsOfTheCandidate, News, NoEarlySuccess, ReportsAreMade, Shown,
       Succeeded, Told
  <2>5. NewsIsOfTheCandidate'
    BY <1>5, <2>1, <2>2, NoneAssumption DEF IInv, TypeOK, HandleFails, disk, Fault, Unplugged,
       Muted, Task, DiskInv, OldBinarySurvives, InstallerIsOld, InstallationInOrder,
       RollbackHasAnOwner, CandidateRunsInPlace, ParentHasBackup, ReportInv, SuccessIsHonest,
       JobsAreKnown, NewsIsOfTheCandidate, News, NoEarlySuccess, ReportsAreMade, Shown,
       Succeeded, Told
  <2>6. NoEarlySuccess'
    BY <1>5, <2>1, <2>2, NoneAssumption DEF IInv, TypeOK, HandleFails, disk, Fault, Unplugged,
       Muted, Task, DiskInv, OldBinarySurvives, InstallerIsOld, InstallationInOrder,
       RollbackHasAnOwner, CandidateRunsInPlace, ParentHasBackup, ReportInv, SuccessIsHonest,
       JobsAreKnown, NewsIsOfTheCandidate, News, NoEarlySuccess, ReportsAreMade, Shown,
       Succeeded, Told
  <2>7. ReportsAreMade'
    BY <1>5, <2>1, <2>2, NoneAssumption DEF IInv, TypeOK, HandleFails, disk, Fault, Unplugged,
       Muted, Task, DiskInv, OldBinarySurvives, InstallerIsOld, InstallationInOrder,
       RollbackHasAnOwner, CandidateRunsInPlace, ParentHasBackup, ReportInv, SuccessIsHonest,
       JobsAreKnown, NewsIsOfTheCandidate, News, NoEarlySuccess, ReportsAreMade, Shown,
       Succeeded, Told
  <2>. QED BY <2>3, <2>4, <2>5, <2>6, <2>7 DEF ReportInv
<1>6. CASE ServerRestarts
  <2>1. OnWire' = {}
    BY <1>6, WireIsCut DEF IInv, TypeOK, ServerRestarts
  <2>2. Ordered' = {}
    BY <1>6, OrdersAreCut DEF IInv, TypeOK, ServerRestarts
  <2>3. SuccessIsHonest'
    BY <1>6, <2>1, <2>2, NoneAssumption DEF IInv, TypeOK, ServerRestarts, disk, Fault, Muted,
       Task, DiskInv, OldBinarySurvives, InstallerIsOld, InstallationInOrder,
       RollbackHasAnOwner, CandidateRunsInPlace, ParentHasBackup, ReportInv, SuccessIsHonest,
       JobsAreKnown, NewsIsOfTheCandidate, News, NoEarlySuccess, ReportsAreMade, Shown,
       Succeeded, Told
  <2>4. JobsAreKnown'
    BY <1>6, <2>1, <2>2, NoneAssumption DEF IInv, TypeOK, ServerRestarts, disk, Fault, Muted,
       Task, DiskInv, OldBinarySurvives, InstallerIsOld, InstallationInOrder,
       RollbackHasAnOwner, CandidateRunsInPlace, ParentHasBackup, ReportInv, SuccessIsHonest,
       JobsAreKnown, NewsIsOfTheCandidate, News, NoEarlySuccess, ReportsAreMade, Shown,
       Succeeded, Told
  <2>5. NewsIsOfTheCandidate'
    BY <1>6, <2>1, <2>2, NoneAssumption DEF IInv, TypeOK, ServerRestarts, disk, Fault, Muted,
       Task, DiskInv, OldBinarySurvives, InstallerIsOld, InstallationInOrder,
       RollbackHasAnOwner, CandidateRunsInPlace, ParentHasBackup, ReportInv, SuccessIsHonest,
       JobsAreKnown, NewsIsOfTheCandidate, News, NoEarlySuccess, ReportsAreMade, Shown,
       Succeeded, Told
  <2>6. NoEarlySuccess'
    BY <1>6, <2>1, <2>2, NoneAssumption DEF IInv, TypeOK, ServerRestarts, disk, Fault, Muted,
       Task, DiskInv, OldBinarySurvives, InstallerIsOld, InstallationInOrder,
       RollbackHasAnOwner, CandidateRunsInPlace, ParentHasBackup, ReportInv, SuccessIsHonest,
       JobsAreKnown, NewsIsOfTheCandidate, News, NoEarlySuccess, ReportsAreMade, Shown,
       Succeeded, Told
  <2>7. ReportsAreMade'
    BY <1>6, <2>1, <2>2, NoneAssumption DEF IInv, TypeOK, ServerRestarts, disk, Fault, Muted,
       Task, DiskInv, OldBinarySurvives, InstallerIsOld, InstallationInOrder,
       RollbackHasAnOwner, CandidateRunsInPlace, ParentHasBackup, ReportInv, SuccessIsHonest,
       JobsAreKnown, NewsIsOfTheCandidate, News, NoEarlySuccess, ReportsAreMade, Shown,
       Succeeded, Told
  <2>. QED BY <2>3, <2>4, <2>5, <2>6, <2>7 DEF ReportInv
<1>. QED BY <1>1, <1>2, <1>3, <1>4, <1>5, <1>6

LEMMA ConnectionKeepsReportInv ==
    ASSUME IInv, IInv', ReportInv,
           Connect \/ Commit \/ Report \/ Acknowledge \/ Drop \/ Deny
    PROVE  ReportInv'
<1>1. CASE Connect
  <2>1. OnWire' = {[kind |-> "info", ver |-> agent]}
    BY <1>1, WireIsReset DEF IInv, TypeOK, Connect, Admits
  <2>2. Ordered' = {}
    BY <1>1, OrdersAreCut DEF IInv, TypeOK, Connect, Admits
  <2>3. SuccessIsHonest'
    BY <1>1, <2>1, <2>2, NoneAssumption DEF IInv, TypeOK, Connect, Admits, disk, process,
       DiskInv, OldBinarySurvives, InstallerIsOld, InstallationInOrder, RollbackHasAnOwner,
       CandidateRunsInPlace, ParentHasBackup, ReportInv, SuccessIsHonest, JobsAreKnown,
       NewsIsOfTheCandidate, News, NoEarlySuccess, ReportsAreMade, Shown, Succeeded, Told
  <2>4. JobsAreKnown'
    BY <1>1, <2>1, <2>2, NoneAssumption DEF IInv, TypeOK, Connect, Admits, disk, process,
       DiskInv, OldBinarySurvives, InstallerIsOld, InstallationInOrder, RollbackHasAnOwner,
       CandidateRunsInPlace, ParentHasBackup, ReportInv, SuccessIsHonest, JobsAreKnown,
       NewsIsOfTheCandidate, News, NoEarlySuccess, ReportsAreMade, Shown, Succeeded, Told
  <2>5. NewsIsOfTheCandidate'
    BY <1>1, <2>1, <2>2, NoneAssumption DEF IInv, TypeOK, Connect, Admits, disk, process,
       DiskInv, OldBinarySurvives, InstallerIsOld, InstallationInOrder, RollbackHasAnOwner,
       CandidateRunsInPlace, ParentHasBackup, ReportInv, SuccessIsHonest, JobsAreKnown,
       NewsIsOfTheCandidate, News, NoEarlySuccess, ReportsAreMade, Shown, Succeeded, Told
  <2>6. NoEarlySuccess'
    BY <1>1, <2>1, <2>2, NoneAssumption DEF IInv, TypeOK, Connect, Admits, disk, process,
       DiskInv, OldBinarySurvives, InstallerIsOld, InstallationInOrder, RollbackHasAnOwner,
       CandidateRunsInPlace, ParentHasBackup, ReportInv, SuccessIsHonest, JobsAreKnown,
       NewsIsOfTheCandidate, News, NoEarlySuccess, ReportsAreMade, Shown, Succeeded, Told
  <2>7. ReportsAreMade'
    BY <1>1, <2>1, <2>2, NoneAssumption DEF IInv, TypeOK, Connect, Admits, disk, process,
       DiskInv, OldBinarySurvives, InstallerIsOld, InstallationInOrder, RollbackHasAnOwner,
       CandidateRunsInPlace, ParentHasBackup, ReportInv, SuccessIsHonest, JobsAreKnown,
       NewsIsOfTheCandidate, News, NoEarlySuccess, ReportsAreMade, Shown, Succeeded, Told
  <2>. QED BY <2>3, <2>4, <2>5, <2>6, <2>7 DEF ReportInv
<1>2. CASE Commit
  <2>1. OnWire' = OnWire
    BY <1>2, WireIsSame DEF IInv, TypeOK, Commit
  <2>2. Ordered' = Ordered
    BY <1>2, OrdersAreSame DEF IInv, TypeOK, Commit
  <2>3. SuccessIsHonest'
    BY <1>2, <2>1, <2>2, NoneAssumption DEF IInv, TypeOK, Commit, server, history, Fault,
       Locked, Transaction, DiskInv, OldBinarySurvives, InstallerIsOld, InstallationInOrder,
       RollbackHasAnOwner, CandidateRunsInPlace, ParentHasBackup, ReportInv, SuccessIsHonest,
       JobsAreKnown, NewsIsOfTheCandidate, News, NoEarlySuccess, ReportsAreMade, Shown,
       Succeeded, Told
  <2>4. JobsAreKnown'
    BY <1>2, <2>1, <2>2, NoneAssumption DEF IInv, TypeOK, Commit, server, history, Fault,
       Locked, Transaction, DiskInv, OldBinarySurvives, InstallerIsOld, InstallationInOrder,
       RollbackHasAnOwner, CandidateRunsInPlace, ParentHasBackup, ReportInv, SuccessIsHonest,
       JobsAreKnown, NewsIsOfTheCandidate, News, NoEarlySuccess, ReportsAreMade, Shown,
       Succeeded, Told
  <2>5. NewsIsOfTheCandidate'
    BY <1>2, <2>1, <2>2, NoneAssumption DEF IInv, TypeOK, Commit, server, history, Fault,
       Locked, Transaction, DiskInv, OldBinarySurvives, InstallerIsOld, InstallationInOrder,
       RollbackHasAnOwner, CandidateRunsInPlace, ParentHasBackup, ReportInv, SuccessIsHonest,
       JobsAreKnown, NewsIsOfTheCandidate, News, NoEarlySuccess, ReportsAreMade, Shown,
       Succeeded, Told
  <2>6. NoEarlySuccess'
    BY <1>2, <2>1, <2>2, NoneAssumption DEF IInv, TypeOK, Commit, server, history, Fault,
       Locked, Transaction, DiskInv, OldBinarySurvives, InstallerIsOld, InstallationInOrder,
       RollbackHasAnOwner, CandidateRunsInPlace, ParentHasBackup, ReportInv, SuccessIsHonest,
       JobsAreKnown, NewsIsOfTheCandidate, News, NoEarlySuccess, ReportsAreMade, Shown,
       Succeeded, Told
  <2>7. ReportsAreMade'
    BY <1>2, <2>1, <2>2, NoneAssumption DEF IInv, TypeOK, Commit, server, history, Fault,
       Locked, Transaction, DiskInv, OldBinarySurvives, InstallerIsOld, InstallationInOrder,
       RollbackHasAnOwner, CandidateRunsInPlace, ParentHasBackup, ReportInv, SuccessIsHonest,
       JobsAreKnown, NewsIsOfTheCandidate, News, NoEarlySuccess, ReportsAreMade, Shown,
       Succeeded, Told
  <2>. QED BY <2>3, <2>4, <2>5, <2>6, <2>7 DEF ReportInv
<1>3. CASE Report
  <2>1. (link' = "ready" /\ OnWire' = OnWire) \/ (txn # None /\ OnWire' = OnWire \cup {Recovered})
    BY <1>3, WireGrows, WireIsSame, ResultsAreMessages DEF IInv, TypeOK, Report
  <2>2. Ordered' = Ordered
    BY <1>3, OrdersAreSame DEF IInv, TypeOK, Report
  <2>3. SuccessIsHonest'
    BY <1>3, <2>1, <2>2, NoneAssumption DEF IInv, TypeOK, Report, disk, process, server,
       history, Recovered, Transaction, Locked, DiskInv, OldBinarySurvives, InstallerIsOld,
       InstallationInOrder, RollbackHasAnOwner, CandidateRunsInPlace, ParentHasBackup,
       ReportInv, SuccessIsHonest, JobsAreKnown, NewsIsOfTheCandidate, News, NoEarlySuccess,
       ReportsAreMade, Shown, Succeeded, Told
  <2>4. JobsAreKnown'
    BY <1>3, <2>1, <2>2, NoneAssumption DEF IInv, TypeOK, Report, disk, process, server,
       history, Recovered, Transaction, Locked, DiskInv, OldBinarySurvives, InstallerIsOld,
       InstallationInOrder, RollbackHasAnOwner, CandidateRunsInPlace, ParentHasBackup,
       ReportInv, SuccessIsHonest, JobsAreKnown, NewsIsOfTheCandidate, News, NoEarlySuccess,
       ReportsAreMade, Shown, Succeeded, Told
  <2>5. NewsIsOfTheCandidate'
    BY <1>3, <2>1, <2>2, NoneAssumption DEF IInv, TypeOK, Report, disk, process, server,
       history, Recovered, Transaction, Locked, DiskInv, OldBinarySurvives, InstallerIsOld,
       InstallationInOrder, RollbackHasAnOwner, CandidateRunsInPlace, ParentHasBackup,
       ReportInv, SuccessIsHonest, JobsAreKnown, NewsIsOfTheCandidate, News, NoEarlySuccess,
       ReportsAreMade, Shown, Succeeded, Told
  <2>6. NoEarlySuccess'
    BY <1>3, <2>1, <2>2, NoneAssumption DEF IInv, TypeOK, Report, disk, process, server,
       history, Recovered, Transaction, Locked, DiskInv, OldBinarySurvives, InstallerIsOld,
       InstallationInOrder, RollbackHasAnOwner, CandidateRunsInPlace, ParentHasBackup,
       ReportInv, SuccessIsHonest, JobsAreKnown, NewsIsOfTheCandidate, News, NoEarlySuccess,
       ReportsAreMade, Shown, Succeeded, Told
  <2>7. ReportsAreMade'
    BY <1>3, <2>1, <2>2, NoneAssumption DEF IInv, TypeOK, Report, disk, process, server,
       history, Recovered, Transaction, Locked, DiskInv, OldBinarySurvives, InstallerIsOld,
       InstallationInOrder, RollbackHasAnOwner, CandidateRunsInPlace, ParentHasBackup,
       ReportInv, SuccessIsHonest, JobsAreKnown, NewsIsOfTheCandidate, News, NoEarlySuccess,
       ReportsAreMade, Shown, Succeeded, Told
  <2>. QED BY <2>3, <2>4, <2>5, <2>6, <2>7 DEF ReportInv
<1>4. CASE Acknowledge
  <2>1. OnWire' = OnWire
    BY <1>4, WireIsSame DEF IInv, TypeOK, Acknowledge
  <2>2. Ordered' = Ordered
    BY <1>4, OrdersAreSame DEF IInv, TypeOK, Acknowledge
  <2>3. SuccessIsHonest'
    BY <1>4, <2>1, <2>2, NoneAssumption DEF IInv, TypeOK, Acknowledge, process, server, history,
       Locked, DiskInv, OldBinarySurvives, InstallerIsOld, InstallationInOrder,
       RollbackHasAnOwner, CandidateRunsInPlace, ParentHasBackup, ReportInv, SuccessIsHonest,
       JobsAreKnown, NewsIsOfTheCandidate, News, NoEarlySuccess, ReportsAreMade, Shown,
       Succeeded, Told
  <2>4. JobsAreKnown'
    BY <1>4, <2>1, <2>2, NoneAssumption DEF IInv, TypeOK, Acknowledge, process, server, history,
       Locked, DiskInv, OldBinarySurvives, InstallerIsOld, InstallationInOrder,
       RollbackHasAnOwner, CandidateRunsInPlace, ParentHasBackup, ReportInv, SuccessIsHonest,
       JobsAreKnown, NewsIsOfTheCandidate, News, NoEarlySuccess, ReportsAreMade, Shown,
       Succeeded, Told
  <2>5. NewsIsOfTheCandidate'
    BY <1>4, <2>1, <2>2, NoneAssumption DEF IInv, TypeOK, Acknowledge, process, server, history,
       Locked, DiskInv, OldBinarySurvives, InstallerIsOld, InstallationInOrder,
       RollbackHasAnOwner, CandidateRunsInPlace, ParentHasBackup, ReportInv, SuccessIsHonest,
       JobsAreKnown, NewsIsOfTheCandidate, News, NoEarlySuccess, ReportsAreMade, Shown,
       Succeeded, Told
  <2>6. NoEarlySuccess'
    BY <1>4, <2>1, <2>2, NoneAssumption DEF IInv, TypeOK, Acknowledge, process, server, history,
       Locked, DiskInv, OldBinarySurvives, InstallerIsOld, InstallationInOrder,
       RollbackHasAnOwner, CandidateRunsInPlace, ParentHasBackup, ReportInv, SuccessIsHonest,
       JobsAreKnown, NewsIsOfTheCandidate, News, NoEarlySuccess, ReportsAreMade, Shown,
       Succeeded, Told
  <2>7. ReportsAreMade'
    BY <1>4, <2>1, <2>2, NoneAssumption DEF IInv, TypeOK, Acknowledge, process, server, history,
       Locked, DiskInv, OldBinarySurvives, InstallerIsOld, InstallationInOrder,
       RollbackHasAnOwner, CandidateRunsInPlace, ParentHasBackup, ReportInv, SuccessIsHonest,
       JobsAreKnown, NewsIsOfTheCandidate, News, NoEarlySuccess, ReportsAreMade, Shown,
       Succeeded, Told
  <2>. QED BY <2>3, <2>4, <2>5, <2>6, <2>7 DEF ReportInv
<1>5. CASE Drop
  <2>1. OnWire' = OnWire
    BY <1>5, WireIsSame DEF IInv, TypeOK, Drop
  <2>2. Ordered' = {}
    BY <1>5, OrdersAreCut DEF IInv, TypeOK, Drop, Unplugged
  <2>3. SuccessIsHonest'
    BY <1>5, <2>1, <2>2, NoneAssumption DEF IInv, TypeOK, Drop, disk, history, Fault, Unplugged,
       Muted, Task, DiskInv, OldBinarySurvives, InstallerIsOld, InstallationInOrder,
       RollbackHasAnOwner, CandidateRunsInPlace, ParentHasBackup, ReportInv, SuccessIsHonest,
       JobsAreKnown, NewsIsOfTheCandidate, News, NoEarlySuccess, ReportsAreMade, Shown,
       Succeeded, Told
  <2>4. JobsAreKnown'
    BY <1>5, <2>1, <2>2, NoneAssumption DEF IInv, TypeOK, Drop, disk, history, Fault, Unplugged,
       Muted, Task, DiskInv, OldBinarySurvives, InstallerIsOld, InstallationInOrder,
       RollbackHasAnOwner, CandidateRunsInPlace, ParentHasBackup, ReportInv, SuccessIsHonest,
       JobsAreKnown, NewsIsOfTheCandidate, News, NoEarlySuccess, ReportsAreMade, Shown,
       Succeeded, Told
  <2>5. NewsIsOfTheCandidate'
    BY <1>5, <2>1, <2>2, NoneAssumption DEF IInv, TypeOK, Drop, disk, history, Fault, Unplugged,
       Muted, Task, DiskInv, OldBinarySurvives, InstallerIsOld, InstallationInOrder,
       RollbackHasAnOwner, CandidateRunsInPlace, ParentHasBackup, ReportInv, SuccessIsHonest,
       JobsAreKnown, NewsIsOfTheCandidate, News, NoEarlySuccess, ReportsAreMade, Shown,
       Succeeded, Told
  <2>6. NoEarlySuccess'
    BY <1>5, <2>1, <2>2, NoneAssumption DEF IInv, TypeOK, Drop, disk, history, Fault, Unplugged,
       Muted, Task, DiskInv, OldBinarySurvives, InstallerIsOld, InstallationInOrder,
       RollbackHasAnOwner, CandidateRunsInPlace, ParentHasBackup, ReportInv, SuccessIsHonest,
       JobsAreKnown, NewsIsOfTheCandidate, News, NoEarlySuccess, ReportsAreMade, Shown,
       Succeeded, Told
  <2>7. ReportsAreMade'
    BY <1>5, <2>1, <2>2, NoneAssumption DEF IInv, TypeOK, Drop, disk, history, Fault, Unplugged,
       Muted, Task, DiskInv, OldBinarySurvives, InstallerIsOld, InstallationInOrder,
       RollbackHasAnOwner, CandidateRunsInPlace, ParentHasBackup, ReportInv, SuccessIsHonest,
       JobsAreKnown, NewsIsOfTheCandidate, News, NoEarlySuccess, ReportsAreMade, Shown,
       Succeeded, Told
  <2>. QED BY <2>3, <2>4, <2>5, <2>6, <2>7 DEF ReportInv
<1>6. CASE Deny
  <2>1. OnWire' = OnWire \cup {[kind |-> "denied"]}
    BY <1>6, WireGrows, ResultsAreMessages DEF IInv, TypeOK, Deny
  <2>2. Ordered = Ordered' \cup {Head(orders)} /\ Head(orders) \in Jobs
    BY <1>6, OrdersShrink DEF IInv, TypeOK, Deny
  <2>3. SuccessIsHonest'
    BY <1>6, <2>1, <2>2, NoneAssumption DEF IInv, TypeOK, Deny, disk, process, server, history,
       DiskInv, OldBinarySurvives, InstallerIsOld, InstallationInOrder, RollbackHasAnOwner,
       CandidateRunsInPlace, ParentHasBackup, ReportInv, SuccessIsHonest, JobsAreKnown,
       NewsIsOfTheCandidate, News, NoEarlySuccess, ReportsAreMade, Shown, Succeeded, Told
  <2>4. JobsAreKnown'
    BY <1>6, <2>1, <2>2, NoneAssumption DEF IInv, TypeOK, Deny, disk, process, server, history,
       DiskInv, OldBinarySurvives, InstallerIsOld, InstallationInOrder, RollbackHasAnOwner,
       CandidateRunsInPlace, ParentHasBackup, ReportInv, SuccessIsHonest, JobsAreKnown,
       NewsIsOfTheCandidate, News, NoEarlySuccess, ReportsAreMade, Shown, Succeeded, Told
  <2>5. NewsIsOfTheCandidate'
    BY <1>6, <2>1, <2>2, NoneAssumption DEF IInv, TypeOK, Deny, disk, process, server, history,
       DiskInv, OldBinarySurvives, InstallerIsOld, InstallationInOrder, RollbackHasAnOwner,
       CandidateRunsInPlace, ParentHasBackup, ReportInv, SuccessIsHonest, JobsAreKnown,
       NewsIsOfTheCandidate, News, NoEarlySuccess, ReportsAreMade, Shown, Succeeded, Told
  <2>6. NoEarlySuccess'
    BY <1>6, <2>1, <2>2, NoneAssumption DEF IInv, TypeOK, Deny, disk, process, server, history,
       DiskInv, OldBinarySurvives, InstallerIsOld, InstallationInOrder, RollbackHasAnOwner,
       CandidateRunsInPlace, ParentHasBackup, ReportInv, SuccessIsHonest, JobsAreKnown,
       NewsIsOfTheCandidate, News, NoEarlySuccess, ReportsAreMade, Shown, Succeeded, Told
  <2>7. ReportsAreMade'
    BY <1>6, <2>1, <2>2, NoneAssumption DEF IInv, TypeOK, Deny, disk, process, server, history,
       DiskInv, OldBinarySurvives, InstallerIsOld, InstallationInOrder, RollbackHasAnOwner,
       CandidateRunsInPlace, ParentHasBackup, ReportInv, SuccessIsHonest, JobsAreKnown,
       NewsIsOfTheCandidate, News, NoEarlySuccess, ReportsAreMade, Shown, Succeeded, Told
  <2>. QED BY <2>3, <2>4, <2>5, <2>6, <2>7 DEF ReportInv
<1>. QED BY <1>1, <1>2, <1>3, <1>4, <1>5, <1>6

LEMMA TaskKeepsReportInv ==
    ASSUME IInv, IInv', ReportInv,
           Receive \/ FetchFails \/ Prepare \/ BackUp \/ InstallFails \/ Swap \/ SyncFails \/ Restart
    PROVE  ReportInv'
<1>1. CASE Receive
  <2>1. OnWire' = OnWire \/ OnWire' = OnWire \cup {[kind |-> "result", job |-> Head(orders)]}
    BY <1>1, WireGrows, WireIsSame, ResultsAreMessages DEF IInv, TypeOK, Receive
  <2>2. Ordered = Ordered' \cup {Head(orders)} /\ Head(orders) \in Jobs
    BY <1>1, OrdersShrink DEF IInv, TypeOK, Receive
  <2>3. SuccessIsHonest'
    BY <1>1, <2>1, <2>2, NoneAssumption DEF IInv, TypeOK, Receive, disk, server, history, Task,
       DiskInv, OldBinarySurvives, InstallerIsOld, InstallationInOrder, RollbackHasAnOwner,
       CandidateRunsInPlace, ParentHasBackup, ReportInv, SuccessIsHonest, JobsAreKnown,
       NewsIsOfTheCandidate, News, NoEarlySuccess, ReportsAreMade, Shown, Succeeded, Told
  <2>4. JobsAreKnown'
    BY <1>1, <2>1, <2>2, NoneAssumption DEF IInv, TypeOK, Receive, disk, server, history, Task,
       DiskInv, OldBinarySurvives, InstallerIsOld, InstallationInOrder, RollbackHasAnOwner,
       CandidateRunsInPlace, ParentHasBackup, ReportInv, SuccessIsHonest, JobsAreKnown,
       NewsIsOfTheCandidate, News, NoEarlySuccess, ReportsAreMade, Shown, Succeeded, Told
  <2>5. NewsIsOfTheCandidate'
    BY <1>1, <2>1, <2>2, NoneAssumption DEF IInv, TypeOK, Receive, disk, server, history, Task,
       DiskInv, OldBinarySurvives, InstallerIsOld, InstallationInOrder, RollbackHasAnOwner,
       CandidateRunsInPlace, ParentHasBackup, ReportInv, SuccessIsHonest, JobsAreKnown,
       NewsIsOfTheCandidate, News, NoEarlySuccess, ReportsAreMade, Shown, Succeeded, Told
  <2>6. NoEarlySuccess'
    BY <1>1, <2>1, <2>2, NoneAssumption DEF IInv, TypeOK, Receive, disk, server, history, Task,
       DiskInv, OldBinarySurvives, InstallerIsOld, InstallationInOrder, RollbackHasAnOwner,
       CandidateRunsInPlace, ParentHasBackup, ReportInv, SuccessIsHonest, JobsAreKnown,
       NewsIsOfTheCandidate, News, NoEarlySuccess, ReportsAreMade, Shown, Succeeded, Told
  <2>7. ReportsAreMade'
    BY <1>1, <2>1, <2>2, NoneAssumption DEF IInv, TypeOK, Receive, disk, server, history, Task,
       DiskInv, OldBinarySurvives, InstallerIsOld, InstallationInOrder, RollbackHasAnOwner,
       CandidateRunsInPlace, ParentHasBackup, ReportInv, SuccessIsHonest, JobsAreKnown,
       NewsIsOfTheCandidate, News, NoEarlySuccess, ReportsAreMade, Shown, Succeeded, Told
  <2>. QED BY <2>3, <2>4, <2>5, <2>6, <2>7 DEF ReportInv
<1>2. CASE FetchFails
  <2>1. OnWire' = OnWire \/ OnWire' = OnWire \cup {[kind |-> "result", job |-> task.job]}
    BY <1>2, FailsOnWire DEF IInv, TypeOK, FetchFails
  <2>2. Ordered' = Ordered
    BY <1>2, OrdersAreSame DEF IInv, TypeOK, FetchFails
  <2>3. SuccessIsHonest'
    BY <1>2, <2>1, <2>2, NoneAssumption DEF IInv, TypeOK, FetchFails, disk, server, history,
       Fails, Task, DiskInv, OldBinarySurvives, InstallerIsOld, InstallationInOrder,
       RollbackHasAnOwner, CandidateRunsInPlace, ParentHasBackup, ReportInv, SuccessIsHonest,
       JobsAreKnown, NewsIsOfTheCandidate, News, NoEarlySuccess, ReportsAreMade, Shown,
       Succeeded, Told
  <2>4. JobsAreKnown'
    BY <1>2, <2>1, <2>2, NoneAssumption DEF IInv, TypeOK, FetchFails, disk, server, history,
       Fails, Task, DiskInv, OldBinarySurvives, InstallerIsOld, InstallationInOrder,
       RollbackHasAnOwner, CandidateRunsInPlace, ParentHasBackup, ReportInv, SuccessIsHonest,
       JobsAreKnown, NewsIsOfTheCandidate, News, NoEarlySuccess, ReportsAreMade, Shown,
       Succeeded, Told
  <2>5. NewsIsOfTheCandidate'
    BY <1>2, <2>1, <2>2, NoneAssumption DEF IInv, TypeOK, FetchFails, disk, server, history,
       Fails, Task, DiskInv, OldBinarySurvives, InstallerIsOld, InstallationInOrder,
       RollbackHasAnOwner, CandidateRunsInPlace, ParentHasBackup, ReportInv, SuccessIsHonest,
       JobsAreKnown, NewsIsOfTheCandidate, News, NoEarlySuccess, ReportsAreMade, Shown,
       Succeeded, Told
  <2>6. NoEarlySuccess'
    BY <1>2, <2>1, <2>2, NoneAssumption DEF IInv, TypeOK, FetchFails, disk, server, history,
       Fails, Task, DiskInv, OldBinarySurvives, InstallerIsOld, InstallationInOrder,
       RollbackHasAnOwner, CandidateRunsInPlace, ParentHasBackup, ReportInv, SuccessIsHonest,
       JobsAreKnown, NewsIsOfTheCandidate, News, NoEarlySuccess, ReportsAreMade, Shown,
       Succeeded, Told
  <2>7. ReportsAreMade'
    BY <1>2, <2>1, <2>2, NoneAssumption DEF IInv, TypeOK, FetchFails, disk, server, history,
       Fails, Task, DiskInv, OldBinarySurvives, InstallerIsOld, InstallationInOrder,
       RollbackHasAnOwner, CandidateRunsInPlace, ParentHasBackup, ReportInv, SuccessIsHonest,
       JobsAreKnown, NewsIsOfTheCandidate, News, NoEarlySuccess, ReportsAreMade, Shown,
       Succeeded, Told
  <2>. QED BY <2>3, <2>4, <2>5, <2>6, <2>7 DEF ReportInv
<1>3. CASE Prepare
  <2>1. OnWire' = OnWire
    BY <1>3, WireIsSame DEF IInv, TypeOK, Prepare, channel
  <2>2. Ordered' = Ordered
    BY <1>3, OrdersAreSame DEF IInv, TypeOK, Prepare, channel
  <2>3. SuccessIsHonest'
    BY <1>3, <2>1, <2>2, NoneAssumption DEF IInv, TypeOK, Prepare, channel, server, Task,
       Transaction, Locked, DiskInv, OldBinarySurvives, InstallerIsOld, InstallationInOrder,
       RollbackHasAnOwner, CandidateRunsInPlace, ParentHasBackup, ReportInv, SuccessIsHonest,
       JobsAreKnown, NewsIsOfTheCandidate, News, NoEarlySuccess, ReportsAreMade, Shown,
       Succeeded, Told
  <2>4. JobsAreKnown'
    BY <1>3, <2>1, <2>2, NoneAssumption DEF IInv, TypeOK, Prepare, channel, server, Task,
       Transaction, Locked, DiskInv, OldBinarySurvives, InstallerIsOld, InstallationInOrder,
       RollbackHasAnOwner, CandidateRunsInPlace, ParentHasBackup, ReportInv, SuccessIsHonest,
       JobsAreKnown, NewsIsOfTheCandidate, News, NoEarlySuccess, ReportsAreMade, Shown,
       Succeeded, Told
  <2>5. NewsIsOfTheCandidate'
    BY <1>3, <2>1, <2>2, NoneAssumption DEF IInv, TypeOK, Prepare, channel, server, Task,
       Transaction, Locked, DiskInv, OldBinarySurvives, InstallerIsOld, InstallationInOrder,
       RollbackHasAnOwner, CandidateRunsInPlace, ParentHasBackup, ReportInv, SuccessIsHonest,
       JobsAreKnown, NewsIsOfTheCandidate, News, NoEarlySuccess, ReportsAreMade, Shown,
       Succeeded, Told
  <2>6. NoEarlySuccess'
    BY <1>3, <2>1, <2>2, NoneAssumption DEF IInv, TypeOK, Prepare, channel, server, Task,
       Transaction, Locked, DiskInv, OldBinarySurvives, InstallerIsOld, InstallationInOrder,
       RollbackHasAnOwner, CandidateRunsInPlace, ParentHasBackup, ReportInv, SuccessIsHonest,
       JobsAreKnown, NewsIsOfTheCandidate, News, NoEarlySuccess, ReportsAreMade, Shown,
       Succeeded, Told
  <2>7. ReportsAreMade'
    BY <1>3, <2>1, <2>2, NoneAssumption DEF IInv, TypeOK, Prepare, channel, server, Task,
       Transaction, Locked, DiskInv, OldBinarySurvives, InstallerIsOld, InstallationInOrder,
       RollbackHasAnOwner, CandidateRunsInPlace, ParentHasBackup, ReportInv, SuccessIsHonest,
       JobsAreKnown, NewsIsOfTheCandidate, News, NoEarlySuccess, ReportsAreMade, Shown,
       Succeeded, Told
  <2>. QED BY <2>3, <2>4, <2>5, <2>6, <2>7 DEF ReportInv
<1>4. CASE BackUp
  <2>1. OnWire' = OnWire
    BY <1>4, WireIsSame DEF IInv, TypeOK, BackUp, channel
  <2>2. Ordered' = Ordered
    BY <1>4, OrdersAreSame DEF IInv, TypeOK, BackUp, channel
  <2>3. SuccessIsHonest'
    BY <1>4, <2>1, <2>2, NoneAssumption DEF IInv, TypeOK, BackUp, channel, server, history,
       Task, DiskInv, OldBinarySurvives, InstallerIsOld, InstallationInOrder,
       RollbackHasAnOwner, CandidateRunsInPlace, ParentHasBackup, ReportInv, SuccessIsHonest,
       JobsAreKnown, NewsIsOfTheCandidate, News, NoEarlySuccess, ReportsAreMade, Shown,
       Succeeded, Told
  <2>4. JobsAreKnown'
    BY <1>4, <2>1, <2>2, NoneAssumption DEF IInv, TypeOK, BackUp, channel, server, history,
       Task, DiskInv, OldBinarySurvives, InstallerIsOld, InstallationInOrder,
       RollbackHasAnOwner, CandidateRunsInPlace, ParentHasBackup, ReportInv, SuccessIsHonest,
       JobsAreKnown, NewsIsOfTheCandidate, News, NoEarlySuccess, ReportsAreMade, Shown,
       Succeeded, Told
  <2>5. NewsIsOfTheCandidate'
    BY <1>4, <2>1, <2>2, NoneAssumption DEF IInv, TypeOK, BackUp, channel, server, history,
       Task, DiskInv, OldBinarySurvives, InstallerIsOld, InstallationInOrder,
       RollbackHasAnOwner, CandidateRunsInPlace, ParentHasBackup, ReportInv, SuccessIsHonest,
       JobsAreKnown, NewsIsOfTheCandidate, News, NoEarlySuccess, ReportsAreMade, Shown,
       Succeeded, Told
  <2>6. NoEarlySuccess'
    BY <1>4, <2>1, <2>2, NoneAssumption DEF IInv, TypeOK, BackUp, channel, server, history,
       Task, DiskInv, OldBinarySurvives, InstallerIsOld, InstallationInOrder,
       RollbackHasAnOwner, CandidateRunsInPlace, ParentHasBackup, ReportInv, SuccessIsHonest,
       JobsAreKnown, NewsIsOfTheCandidate, News, NoEarlySuccess, ReportsAreMade, Shown,
       Succeeded, Told
  <2>7. ReportsAreMade'
    BY <1>4, <2>1, <2>2, NoneAssumption DEF IInv, TypeOK, BackUp, channel, server, history,
       Task, DiskInv, OldBinarySurvives, InstallerIsOld, InstallationInOrder,
       RollbackHasAnOwner, CandidateRunsInPlace, ParentHasBackup, ReportInv, SuccessIsHonest,
       JobsAreKnown, NewsIsOfTheCandidate, News, NoEarlySuccess, ReportsAreMade, Shown,
       Succeeded, Told
  <2>. QED BY <2>3, <2>4, <2>5, <2>6, <2>7 DEF ReportInv
<1>5. CASE InstallFails
  <2>1. OnWire' = OnWire \/ OnWire' = OnWire \cup {[kind |-> "result", job |-> task.job]}
    BY <1>5, FailsOnWire DEF IInv, TypeOK, InstallFails
  <2>2. Ordered' = Ordered
    BY <1>5, OrdersAreSame DEF IInv, TypeOK, InstallFails
  <2>3. SuccessIsHonest'
    BY <1>5, <2>1, <2>2, NoneAssumption DEF IInv, TypeOK, InstallFails, server, history, Fails,
       Fault, Task, Transaction, DiskInv, OldBinarySurvives, InstallerIsOld,
       InstallationInOrder, RollbackHasAnOwner, CandidateRunsInPlace, ParentHasBackup,
       ReportInv, SuccessIsHonest, JobsAreKnown, NewsIsOfTheCandidate, News, NoEarlySuccess,
       ReportsAreMade, Shown, Succeeded, Told
  <2>4. JobsAreKnown'
    BY <1>5, <2>1, <2>2, NoneAssumption DEF IInv, TypeOK, InstallFails, server, history, Fails,
       Fault, Task, Transaction, DiskInv, OldBinarySurvives, InstallerIsOld,
       InstallationInOrder, RollbackHasAnOwner, CandidateRunsInPlace, ParentHasBackup,
       ReportInv, SuccessIsHonest, JobsAreKnown, NewsIsOfTheCandidate, News, NoEarlySuccess,
       ReportsAreMade, Shown, Succeeded, Told
  <2>5. NewsIsOfTheCandidate'
    BY <1>5, <2>1, <2>2, NoneAssumption DEF IInv, TypeOK, InstallFails, server, history, Fails,
       Fault, Task, Transaction, DiskInv, OldBinarySurvives, InstallerIsOld,
       InstallationInOrder, RollbackHasAnOwner, CandidateRunsInPlace, ParentHasBackup,
       ReportInv, SuccessIsHonest, JobsAreKnown, NewsIsOfTheCandidate, News, NoEarlySuccess,
       ReportsAreMade, Shown, Succeeded, Told
  <2>6. NoEarlySuccess'
    BY <1>5, <2>1, <2>2, NoneAssumption DEF IInv, TypeOK, InstallFails, server, history, Fails,
       Fault, Task, Transaction, DiskInv, OldBinarySurvives, InstallerIsOld,
       InstallationInOrder, RollbackHasAnOwner, CandidateRunsInPlace, ParentHasBackup,
       ReportInv, SuccessIsHonest, JobsAreKnown, NewsIsOfTheCandidate, News, NoEarlySuccess,
       ReportsAreMade, Shown, Succeeded, Told
  <2>7. ReportsAreMade'
    BY <1>5, <2>1, <2>2, NoneAssumption DEF IInv, TypeOK, InstallFails, server, history, Fails,
       Fault, Task, Transaction, DiskInv, OldBinarySurvives, InstallerIsOld,
       InstallationInOrder, RollbackHasAnOwner, CandidateRunsInPlace, ParentHasBackup,
       ReportInv, SuccessIsHonest, JobsAreKnown, NewsIsOfTheCandidate, News, NoEarlySuccess,
       ReportsAreMade, Shown, Succeeded, Told
  <2>. QED BY <2>3, <2>4, <2>5, <2>6, <2>7 DEF ReportInv
<1>6. CASE Swap
  <2>1. OnWire' = OnWire
    BY <1>6, WireIsSame DEF IInv, TypeOK, Swap, channel
  <2>2. Ordered' = Ordered
    BY <1>6, OrdersAreSame DEF IInv, TypeOK, Swap, channel
  <2>3. SuccessIsHonest'
    BY <1>6, <2>1, <2>2, NoneAssumption DEF IInv, TypeOK, Swap, channel, server, history, Task,
       DiskInv, OldBinarySurvives, InstallerIsOld, InstallationInOrder, RollbackHasAnOwner,
       CandidateRunsInPlace, ParentHasBackup, ReportInv, SuccessIsHonest, JobsAreKnown,
       NewsIsOfTheCandidate, News, NoEarlySuccess, ReportsAreMade, Shown, Succeeded, Told
  <2>4. JobsAreKnown'
    BY <1>6, <2>1, <2>2, NoneAssumption DEF IInv, TypeOK, Swap, channel, server, history, Task,
       DiskInv, OldBinarySurvives, InstallerIsOld, InstallationInOrder, RollbackHasAnOwner,
       CandidateRunsInPlace, ParentHasBackup, ReportInv, SuccessIsHonest, JobsAreKnown,
       NewsIsOfTheCandidate, News, NoEarlySuccess, ReportsAreMade, Shown, Succeeded, Told
  <2>5. NewsIsOfTheCandidate'
    BY <1>6, <2>1, <2>2, NoneAssumption DEF IInv, TypeOK, Swap, channel, server, history, Task,
       DiskInv, OldBinarySurvives, InstallerIsOld, InstallationInOrder, RollbackHasAnOwner,
       CandidateRunsInPlace, ParentHasBackup, ReportInv, SuccessIsHonest, JobsAreKnown,
       NewsIsOfTheCandidate, News, NoEarlySuccess, ReportsAreMade, Shown, Succeeded, Told
  <2>6. NoEarlySuccess'
    BY <1>6, <2>1, <2>2, NoneAssumption DEF IInv, TypeOK, Swap, channel, server, history, Task,
       DiskInv, OldBinarySurvives, InstallerIsOld, InstallationInOrder, RollbackHasAnOwner,
       CandidateRunsInPlace, ParentHasBackup, ReportInv, SuccessIsHonest, JobsAreKnown,
       NewsIsOfTheCandidate, News, NoEarlySuccess, ReportsAreMade, Shown, Succeeded, Told
  <2>7. ReportsAreMade'
    BY <1>6, <2>1, <2>2, NoneAssumption DEF IInv, TypeOK, Swap, channel, server, history, Task,
       DiskInv, OldBinarySurvives, InstallerIsOld, InstallationInOrder, RollbackHasAnOwner,
       CandidateRunsInPlace, ParentHasBackup, ReportInv, SuccessIsHonest, JobsAreKnown,
       NewsIsOfTheCandidate, News, NoEarlySuccess, ReportsAreMade, Shown, Succeeded, Told
  <2>. QED BY <2>3, <2>4, <2>5, <2>6, <2>7 DEF ReportInv
<1>7. CASE SyncFails
  <2>1. OnWire' = OnWire
    BY <1>7, WireIsSame DEF IInv, TypeOK, SyncFails, channel
  <2>2. Ordered' = Ordered
    BY <1>7, OrdersAreSame DEF IInv, TypeOK, SyncFails, channel
  <2>3. SuccessIsHonest'
    BY <1>7, <2>1, <2>2, NoneAssumption DEF IInv, TypeOK, SyncFails, process, channel, server,
       history, Fault, Rollback, DiskInv, OldBinarySurvives, InstallerIsOld,
       InstallationInOrder, RollbackHasAnOwner, CandidateRunsInPlace, ParentHasBackup,
       ReportInv, SuccessIsHonest, JobsAreKnown, NewsIsOfTheCandidate, News, NoEarlySuccess,
       ReportsAreMade, Shown, Succeeded, Told
  <2>4. JobsAreKnown'
    BY <1>7, <2>1, <2>2, NoneAssumption DEF IInv, TypeOK, SyncFails, process, channel, server,
       history, Fault, Rollback, DiskInv, OldBinarySurvives, InstallerIsOld,
       InstallationInOrder, RollbackHasAnOwner, CandidateRunsInPlace, ParentHasBackup,
       ReportInv, SuccessIsHonest, JobsAreKnown, NewsIsOfTheCandidate, News, NoEarlySuccess,
       ReportsAreMade, Shown, Succeeded, Told
  <2>5. NewsIsOfTheCandidate'
    BY <1>7, <2>1, <2>2, NoneAssumption DEF IInv, TypeOK, SyncFails, process, channel, server,
       history, Fault, Rollback, DiskInv, OldBinarySurvives, InstallerIsOld,
       InstallationInOrder, RollbackHasAnOwner, CandidateRunsInPlace, ParentHasBackup,
       ReportInv, SuccessIsHonest, JobsAreKnown, NewsIsOfTheCandidate, News, NoEarlySuccess,
       ReportsAreMade, Shown, Succeeded, Told
  <2>6. NoEarlySuccess'
    BY <1>7, <2>1, <2>2, NoneAssumption DEF IInv, TypeOK, SyncFails, process, channel, server,
       history, Fault, Rollback, DiskInv, OldBinarySurvives, InstallerIsOld,
       InstallationInOrder, RollbackHasAnOwner, CandidateRunsInPlace, ParentHasBackup,
       ReportInv, SuccessIsHonest, JobsAreKnown, NewsIsOfTheCandidate, News, NoEarlySuccess,
       ReportsAreMade, Shown, Succeeded, Told
  <2>7. ReportsAreMade'
    BY <1>7, <2>1, <2>2, NoneAssumption DEF IInv, TypeOK, SyncFails, process, channel, server,
       history, Fault, Rollback, DiskInv, OldBinarySurvives, InstallerIsOld,
       InstallationInOrder, RollbackHasAnOwner, CandidateRunsInPlace, ParentHasBackup,
       ReportInv, SuccessIsHonest, JobsAreKnown, NewsIsOfTheCandidate, News, NoEarlySuccess,
       ReportsAreMade, Shown, Succeeded, Told
  <2>. QED BY <2>3, <2>4, <2>5, <2>6, <2>7 DEF ReportInv
<1>8. CASE Restart
  <2>1. OnWire' = OnWire
    BY <1>8, WireIsSame DEF IInv, TypeOK, Restart
  <2>2. \/ link' = "none" /\ Ordered' = {}
        \/ Ordered' = Ordered /\ op' = op /\ (link' = "none" => link = "none")
    BY <1>8, OrdersAreCut, OrdersAreSame DEF IInv, TypeOK, Restart, Gone, Unplugged
  <2>3. SuccessIsHonest'
    BY <1>8, <2>1, <2>2, NoneAssumption DEF IInv, TypeOK, Restart, disk, history, Gone,
       Unplugged, Parent, Task, DiskInv, OldBinarySurvives, InstallerIsOld, InstallationInOrder,
       RollbackHasAnOwner, CandidateRunsInPlace, ParentHasBackup, ReportInv, SuccessIsHonest,
       JobsAreKnown, NewsIsOfTheCandidate, News, NoEarlySuccess, ReportsAreMade, Shown,
       Succeeded, Told
  <2>4. JobsAreKnown'
    BY <1>8, <2>1, <2>2, NoneAssumption DEF IInv, TypeOK, Restart, disk, history, Gone,
       Unplugged, Parent, Task, DiskInv, OldBinarySurvives, InstallerIsOld, InstallationInOrder,
       RollbackHasAnOwner, CandidateRunsInPlace, ParentHasBackup, ReportInv, SuccessIsHonest,
       JobsAreKnown, NewsIsOfTheCandidate, News, NoEarlySuccess, ReportsAreMade, Shown,
       Succeeded, Told
  <2>5. NewsIsOfTheCandidate'
    BY <1>8, <2>1, <2>2, NoneAssumption DEF IInv, TypeOK, Restart, disk, history, Gone,
       Unplugged, Parent, Task, DiskInv, OldBinarySurvives, InstallerIsOld, InstallationInOrder,
       RollbackHasAnOwner, CandidateRunsInPlace, ParentHasBackup, ReportInv, SuccessIsHonest,
       JobsAreKnown, NewsIsOfTheCandidate, News, NoEarlySuccess, ReportsAreMade, Shown,
       Succeeded, Told
  <2>6. NoEarlySuccess'
    BY <1>8, <2>1, <2>2, NoneAssumption DEF IInv, TypeOK, Restart, disk, history, Gone,
       Unplugged, Parent, Task, DiskInv, OldBinarySurvives, InstallerIsOld, InstallationInOrder,
       RollbackHasAnOwner, CandidateRunsInPlace, ParentHasBackup, ReportInv, SuccessIsHonest,
       JobsAreKnown, NewsIsOfTheCandidate, News, NoEarlySuccess, ReportsAreMade, Shown,
       Succeeded, Told
  <2>7. ReportsAreMade'
    BY <1>8, <2>1, <2>2, NoneAssumption DEF IInv, TypeOK, Restart, disk, history, Gone,
       Unplugged, Parent, Task, DiskInv, OldBinarySurvives, InstallerIsOld, InstallationInOrder,
       RollbackHasAnOwner, CandidateRunsInPlace, ParentHasBackup, ReportInv, SuccessIsHonest,
       JobsAreKnown, NewsIsOfTheCandidate, News, NoEarlySuccess, ReportsAreMade, Shown,
       Succeeded, Told
  <2>. QED BY <2>3, <2>4, <2>5, <2>6, <2>7 DEF ReportInv
<1>. QED BY <1>1, <1>2, <1>3, <1>4, <1>5, <1>6, <1>7, <1>8

LEMMA TrialKeepsReportInv ==
    ASSUME IInv, IInv', ReportInv,
           Start \/ Finalize \/ Bite \/ PutBack \/ Conclude \/ PutBackFails \/
           ConcludeFails
    PROVE  ReportInv'
<1>1. CASE Start
  <2>1. OnWire' = OnWire
    BY <1>1, WireIsSame DEF IInv, TypeOK, Start, channel
  <2>2. Ordered' = Ordered
    BY <1>1, OrdersAreSame DEF IInv, TypeOK, Start, channel
  <2>3. SuccessIsHonest'
    BY <1>1, <2>1, <2>2, NoneAssumption DEF IInv, TypeOK, Start, channel, server, history,
       Started, Trial, Interrupted, Again, Transaction, Rollback, Parent, DiskInv,
       OldBinarySurvives, InstallerIsOld, InstallationInOrder, RollbackHasAnOwner,
       CandidateRunsInPlace, ParentHasBackup, ReportInv, SuccessIsHonest, JobsAreKnown,
       NewsIsOfTheCandidate, News, NoEarlySuccess, ReportsAreMade, Shown, Succeeded, Told
  <2>4. JobsAreKnown'
    BY <1>1, <2>1, <2>2, NoneAssumption DEF IInv, TypeOK, Start, channel, server, history,
       Started, Trial, Interrupted, Again, Transaction, Rollback, Parent, DiskInv,
       OldBinarySurvives, InstallerIsOld, InstallationInOrder, RollbackHasAnOwner,
       CandidateRunsInPlace, ParentHasBackup, ReportInv, SuccessIsHonest, JobsAreKnown,
       NewsIsOfTheCandidate, News, NoEarlySuccess, ReportsAreMade, Shown, Succeeded, Told
  <2>5. NewsIsOfTheCandidate'
    BY <1>1, <2>1, <2>2, NoneAssumption DEF IInv, TypeOK, Start, channel, server, history,
       Started, Trial, Interrupted, Again, Transaction, Rollback, Parent, DiskInv,
       OldBinarySurvives, InstallerIsOld, InstallationInOrder, RollbackHasAnOwner,
       CandidateRunsInPlace, ParentHasBackup, ReportInv, SuccessIsHonest, JobsAreKnown,
       NewsIsOfTheCandidate, News, NoEarlySuccess, ReportsAreMade, Shown, Succeeded, Told
  <2>6. NoEarlySuccess'
    BY <1>1, <2>1, <2>2, NoneAssumption DEF IInv, TypeOK, Start, channel, server, history,
       Started, Trial, Interrupted, Again, Transaction, Rollback, Parent, DiskInv,
       OldBinarySurvives, InstallerIsOld, InstallationInOrder, RollbackHasAnOwner,
       CandidateRunsInPlace, ParentHasBackup, ReportInv, SuccessIsHonest, JobsAreKnown,
       NewsIsOfTheCandidate, News, NoEarlySuccess, ReportsAreMade, Shown, Succeeded, Told
  <2>7. ReportsAreMade'
    BY <1>1, <2>1, <2>2, NoneAssumption DEF IInv, TypeOK, Start, channel, server, history,
       Started, Trial, Interrupted, Again, Transaction, Rollback, Parent, DiskInv,
       OldBinarySurvives, InstallerIsOld, InstallationInOrder, RollbackHasAnOwner,
       CandidateRunsInPlace, ParentHasBackup, ReportInv, SuccessIsHonest, JobsAreKnown,
       NewsIsOfTheCandidate, News, NoEarlySuccess, ReportsAreMade, Shown, Succeeded, Told
  <2>. QED BY <2>3, <2>4, <2>5, <2>6, <2>7 DEF ReportInv
<1>2. CASE Finalize
  <2>1. OnWire' = OnWire
    BY <1>2, WireIsSame DEF IInv, TypeOK, Finalize, channel
  <2>2. Ordered' = Ordered
    BY <1>2, OrdersAreSame DEF IInv, TypeOK, Finalize, channel
  <2>3. SuccessIsHonest'
    BY <1>2, <2>1, <2>2, NoneAssumption DEF IInv, TypeOK, Finalize, channel, server, history,
       Locked, DiskInv, OldBinarySurvives, InstallerIsOld, InstallationInOrder,
       RollbackHasAnOwner, CandidateRunsInPlace, ParentHasBackup, ReportInv, SuccessIsHonest,
       JobsAreKnown, NewsIsOfTheCandidate, News, NoEarlySuccess, ReportsAreMade, Shown,
       Succeeded, Told
  <2>4. JobsAreKnown'
    BY <1>2, <2>1, <2>2, NoneAssumption DEF IInv, TypeOK, Finalize, channel, server, history,
       Locked, DiskInv, OldBinarySurvives, InstallerIsOld, InstallationInOrder,
       RollbackHasAnOwner, CandidateRunsInPlace, ParentHasBackup, ReportInv, SuccessIsHonest,
       JobsAreKnown, NewsIsOfTheCandidate, News, NoEarlySuccess, ReportsAreMade, Shown,
       Succeeded, Told
  <2>5. NewsIsOfTheCandidate'
    BY <1>2, <2>1, <2>2, NoneAssumption DEF IInv, TypeOK, Finalize, channel, server, history,
       Locked, DiskInv, OldBinarySurvives, InstallerIsOld, InstallationInOrder,
       RollbackHasAnOwner, CandidateRunsInPlace, ParentHasBackup, ReportInv, SuccessIsHonest,
       JobsAreKnown, NewsIsOfTheCandidate, News, NoEarlySuccess, ReportsAreMade, Shown,
       Succeeded, Told
  <2>6. NoEarlySuccess'
    BY <1>2, <2>1, <2>2, NoneAssumption DEF IInv, TypeOK, Finalize, channel, server, history,
       Locked, DiskInv, OldBinarySurvives, InstallerIsOld, InstallationInOrder,
       RollbackHasAnOwner, CandidateRunsInPlace, ParentHasBackup, ReportInv, SuccessIsHonest,
       JobsAreKnown, NewsIsOfTheCandidate, News, NoEarlySuccess, ReportsAreMade, Shown,
       Succeeded, Told
  <2>7. ReportsAreMade'
    BY <1>2, <2>1, <2>2, NoneAssumption DEF IInv, TypeOK, Finalize, channel, server, history,
       Locked, DiskInv, OldBinarySurvives, InstallerIsOld, InstallationInOrder,
       RollbackHasAnOwner, CandidateRunsInPlace, ParentHasBackup, ReportInv, SuccessIsHonest,
       JobsAreKnown, NewsIsOfTheCandidate, News, NoEarlySuccess, ReportsAreMade, Shown,
       Succeeded, Told
  <2>. QED BY <2>3, <2>4, <2>5, <2>6, <2>7 DEF ReportInv
<1>3. CASE Bite
  <2>1. OnWire' = OnWire
    BY <1>3, WireIsSame DEF IInv, TypeOK, Bite, channel
  <2>2. Ordered' = Ordered
    BY <1>3, OrdersAreSame DEF IInv, TypeOK, Bite, channel
  <2>3. SuccessIsHonest'
    BY <1>3, <2>1, <2>2, NoneAssumption DEF IInv, TypeOK, Bite, channel, server, history,
       Rollback, Locked, DiskInv, OldBinarySurvives, InstallerIsOld, InstallationInOrder,
       RollbackHasAnOwner, CandidateRunsInPlace, ParentHasBackup, ReportInv, SuccessIsHonest,
       JobsAreKnown, NewsIsOfTheCandidate, News, NoEarlySuccess, ReportsAreMade, Shown,
       Succeeded, Told
  <2>4. JobsAreKnown'
    BY <1>3, <2>1, <2>2, NoneAssumption DEF IInv, TypeOK, Bite, channel, server, history,
       Rollback, Locked, DiskInv, OldBinarySurvives, InstallerIsOld, InstallationInOrder,
       RollbackHasAnOwner, CandidateRunsInPlace, ParentHasBackup, ReportInv, SuccessIsHonest,
       JobsAreKnown, NewsIsOfTheCandidate, News, NoEarlySuccess, ReportsAreMade, Shown,
       Succeeded, Told
  <2>5. NewsIsOfTheCandidate'
    BY <1>3, <2>1, <2>2, NoneAssumption DEF IInv, TypeOK, Bite, channel, server, history,
       Rollback, Locked, DiskInv, OldBinarySurvives, InstallerIsOld, InstallationInOrder,
       RollbackHasAnOwner, CandidateRunsInPlace, ParentHasBackup, ReportInv, SuccessIsHonest,
       JobsAreKnown, NewsIsOfTheCandidate, News, NoEarlySuccess, ReportsAreMade, Shown,
       Succeeded, Told
  <2>6. NoEarlySuccess'
    BY <1>3, <2>1, <2>2, NoneAssumption DEF IInv, TypeOK, Bite, channel, server, history,
       Rollback, Locked, DiskInv, OldBinarySurvives, InstallerIsOld, InstallationInOrder,
       RollbackHasAnOwner, CandidateRunsInPlace, ParentHasBackup, ReportInv, SuccessIsHonest,
       JobsAreKnown, NewsIsOfTheCandidate, News, NoEarlySuccess, ReportsAreMade, Shown,
       Succeeded, Told
  <2>7. ReportsAreMade'
    BY <1>3, <2>1, <2>2, NoneAssumption DEF IInv, TypeOK, Bite, channel, server, history,
       Rollback, Locked, DiskInv, OldBinarySurvives, InstallerIsOld, InstallationInOrder,
       RollbackHasAnOwner, CandidateRunsInPlace, ParentHasBackup, ReportInv, SuccessIsHonest,
       JobsAreKnown, NewsIsOfTheCandidate, News, NoEarlySuccess, ReportsAreMade, Shown,
       Succeeded, Told
  <2>. QED BY <2>3, <2>4, <2>5, <2>6, <2>7 DEF ReportInv
<1>4. CASE PutBack
  <2>1. OnWire' = OnWire
    BY <1>4, WireIsSame DEF IInv, TypeOK, PutBack, channel
  <2>2. Ordered' = Ordered
    BY <1>4, OrdersAreSame DEF IInv, TypeOK, PutBack, channel
  <2>3. SuccessIsHonest'
    BY <1>4, <2>1, <2>2, NoneAssumption DEF IInv, TypeOK, PutBack, process, channel, server,
       history, Rollback, DiskInv, OldBinarySurvives, InstallerIsOld, InstallationInOrder,
       RollbackHasAnOwner, CandidateRunsInPlace, ParentHasBackup, ReportInv, SuccessIsHonest,
       JobsAreKnown, NewsIsOfTheCandidate, News, NoEarlySuccess, ReportsAreMade, Shown,
       Succeeded, Told
  <2>4. JobsAreKnown'
    BY <1>4, <2>1, <2>2, NoneAssumption DEF IInv, TypeOK, PutBack, process, channel, server,
       history, Rollback, DiskInv, OldBinarySurvives, InstallerIsOld, InstallationInOrder,
       RollbackHasAnOwner, CandidateRunsInPlace, ParentHasBackup, ReportInv, SuccessIsHonest,
       JobsAreKnown, NewsIsOfTheCandidate, News, NoEarlySuccess, ReportsAreMade, Shown,
       Succeeded, Told
  <2>5. NewsIsOfTheCandidate'
    BY <1>4, <2>1, <2>2, NoneAssumption DEF IInv, TypeOK, PutBack, process, channel, server,
       history, Rollback, DiskInv, OldBinarySurvives, InstallerIsOld, InstallationInOrder,
       RollbackHasAnOwner, CandidateRunsInPlace, ParentHasBackup, ReportInv, SuccessIsHonest,
       JobsAreKnown, NewsIsOfTheCandidate, News, NoEarlySuccess, ReportsAreMade, Shown,
       Succeeded, Told
  <2>6. NoEarlySuccess'
    BY <1>4, <2>1, <2>2, NoneAssumption DEF IInv, TypeOK, PutBack, process, channel, server,
       history, Rollback, DiskInv, OldBinarySurvives, InstallerIsOld, InstallationInOrder,
       RollbackHasAnOwner, CandidateRunsInPlace, ParentHasBackup, ReportInv, SuccessIsHonest,
       JobsAreKnown, NewsIsOfTheCandidate, News, NoEarlySuccess, ReportsAreMade, Shown,
       Succeeded, Told
  <2>7. ReportsAreMade'
    BY <1>4, <2>1, <2>2, NoneAssumption DEF IInv, TypeOK, PutBack, process, channel, server,
       history, Rollback, DiskInv, OldBinarySurvives, InstallerIsOld, InstallationInOrder,
       RollbackHasAnOwner, CandidateRunsInPlace, ParentHasBackup, ReportInv, SuccessIsHonest,
       JobsAreKnown, NewsIsOfTheCandidate, News, NoEarlySuccess, ReportsAreMade, Shown,
       Succeeded, Told
  <2>. QED BY <2>3, <2>4, <2>5, <2>6, <2>7 DEF ReportInv
<1>5. CASE Conclude
  <2>1. OnWire' = OnWire \/ OnWire' = OnWire \cup {[kind |-> "result", job |-> task.job]}
    BY <1>5, FailsOnWire, WireIsSame DEF IInv, TypeOK, Conclude, Gone, DiskInv,
       RollbackHasAnOwner, Rollback
  <2>2. \/ link' = "none" /\ Ordered' = {}
        \/ Ordered' = Ordered /\ op' = op /\ (link' = "none" => link = "none")
    BY <1>5, OrdersAreCut, OrdersAreSame DEF IInv, TypeOK, Conclude, Gone, Unplugged
  <2>3. SuccessIsHonest'
    BY <1>5, <2>1, <2>2, NoneAssumption DEF IInv, TypeOK, Conclude, history, Gone, Unplugged,
       Fails, Undone, Transaction, Rollback, Task, Parent, DiskInv, OldBinarySurvives,
       InstallerIsOld, InstallationInOrder, RollbackHasAnOwner, CandidateRunsInPlace,
       ParentHasBackup, ReportInv, SuccessIsHonest, JobsAreKnown, NewsIsOfTheCandidate, News,
       NoEarlySuccess, ReportsAreMade, Shown, Succeeded, Told
  <2>4. JobsAreKnown'
    BY <1>5, <2>1, <2>2, NoneAssumption DEF IInv, TypeOK, Conclude, history, Gone, Unplugged,
       Fails, Undone, Transaction, Rollback, Task, Parent, DiskInv, OldBinarySurvives,
       InstallerIsOld, InstallationInOrder, RollbackHasAnOwner, CandidateRunsInPlace,
       ParentHasBackup, ReportInv, SuccessIsHonest, JobsAreKnown, NewsIsOfTheCandidate, News,
       NoEarlySuccess, ReportsAreMade, Shown, Succeeded, Told
  <2>5. NewsIsOfTheCandidate'
    BY <1>5, <2>1, <2>2, NoneAssumption DEF IInv, TypeOK, Conclude, history, Gone, Unplugged,
       Fails, Undone, Transaction, Rollback, Task, Parent, DiskInv, OldBinarySurvives,
       InstallerIsOld, InstallationInOrder, RollbackHasAnOwner, CandidateRunsInPlace,
       ParentHasBackup, ReportInv, SuccessIsHonest, JobsAreKnown, NewsIsOfTheCandidate, News,
       NoEarlySuccess, ReportsAreMade, Shown, Succeeded, Told
  <2>6. NoEarlySuccess'
    BY <1>5, <2>1, <2>2, NoneAssumption DEF IInv, TypeOK, Conclude, history, Gone, Unplugged,
       Fails, Undone, Transaction, Rollback, Task, Parent, DiskInv, OldBinarySurvives,
       InstallerIsOld, InstallationInOrder, RollbackHasAnOwner, CandidateRunsInPlace,
       ParentHasBackup, ReportInv, SuccessIsHonest, JobsAreKnown, NewsIsOfTheCandidate, News,
       NoEarlySuccess, ReportsAreMade, Shown, Succeeded, Told
  <2>7. ReportsAreMade'
    BY <1>5, <2>1, <2>2, NoneAssumption DEF IInv, TypeOK, Conclude, history, Gone, Unplugged,
       Fails, Undone, Transaction, Rollback, Task, Parent, DiskInv, OldBinarySurvives,
       InstallerIsOld, InstallationInOrder, RollbackHasAnOwner, CandidateRunsInPlace,
       ParentHasBackup, ReportInv, SuccessIsHonest, JobsAreKnown, NewsIsOfTheCandidate, News,
       NoEarlySuccess, ReportsAreMade, Shown, Succeeded, Told
  <2>. QED BY <2>3, <2>4, <2>5, <2>6, <2>7 DEF ReportInv
<1>6. CASE PutBackFails
  <2>1. \/ OnWire' = OnWire \/ OnWire' = OnWire \cup {[kind |-> "result", job |-> task.job]}
        \/ parent # None /\ OnWire' = OnWire \cup {[kind |-> "result", job |-> parent.job]}
    BY <1>6, FailsOnWire, WireIsSame, ReportOfParentOnWire DEF IInv, TypeOK, PutBackFails, GoesOn,
       DiskInv, RollbackHasAnOwner, Rollback
  <2>2. \/ link' = "none" /\ Ordered' = {}
        \/ Ordered' = Ordered /\ op' = op /\ (link' = "none" => link = "none")
    BY <1>6, OrdersAreCut, OrdersAreSame DEF IInv, TypeOK, PutBackFails, GoesOn, Ended, Gone, Unplugged,
       Rollback, DiskInv, CandidateRunsInPlace
  <2>3. SuccessIsHonest'
    BY <1>6, <2>1, <2>2, NoneAssumption DEF IInv, TypeOK, PutBackFails, GoesOn, history, Ended, Gone,
       Unplugged, Fails, Fault, Rollback, Transaction, Task, DiskInv, OldBinarySurvives,
       InstallerIsOld, InstallationInOrder, RollbackHasAnOwner, CandidateRunsInPlace,
       ParentHasBackup, ReportInv, SuccessIsHonest, JobsAreKnown, NewsIsOfTheCandidate, News,
       NoEarlySuccess, ReportsAreMade, Shown, Succeeded, Told
  <2>4. JobsAreKnown'
    BY <1>6, <2>1, <2>2, NoneAssumption DEF IInv, TypeOK, PutBackFails, GoesOn, history, Ended, Gone,
       Unplugged, Fails, Fault, Rollback, Transaction, Task, DiskInv, OldBinarySurvives,
       InstallerIsOld, InstallationInOrder, RollbackHasAnOwner, CandidateRunsInPlace,
       ParentHasBackup, ReportInv, SuccessIsHonest, JobsAreKnown, NewsIsOfTheCandidate, News,
       NoEarlySuccess, ReportsAreMade, Shown, Succeeded, Told
  <2>5. NewsIsOfTheCandidate'
    BY <1>6, <2>1, <2>2, NoneAssumption DEF IInv, TypeOK, PutBackFails, GoesOn, history, Ended, Gone,
       Unplugged, Fails, Fault, Rollback, Transaction, Task, DiskInv, OldBinarySurvives,
       InstallerIsOld, InstallationInOrder, RollbackHasAnOwner, CandidateRunsInPlace,
       ParentHasBackup, ReportInv, SuccessIsHonest, JobsAreKnown, NewsIsOfTheCandidate, News,
       NoEarlySuccess, ReportsAreMade, Shown, Succeeded, Told
  <2>6. NoEarlySuccess'
    BY <1>6, <2>1, <2>2, NoneAssumption DEF IInv, TypeOK, PutBackFails, GoesOn, history, Ended, Gone,
       Unplugged, Fails, Fault, Rollback, Transaction, Task, DiskInv, OldBinarySurvives,
       InstallerIsOld, InstallationInOrder, RollbackHasAnOwner, CandidateRunsInPlace,
       ParentHasBackup, ReportInv, SuccessIsHonest, JobsAreKnown, NewsIsOfTheCandidate, News,
       NoEarlySuccess, ReportsAreMade, Shown, Succeeded, Told
  <2>7. ReportsAreMade'
    BY <1>6, <2>1, <2>2, NoneAssumption DEF IInv, TypeOK, PutBackFails, GoesOn, history, Ended, Gone,
       Unplugged, Fails, Fault, Rollback, Transaction, Task, DiskInv, OldBinarySurvives,
       InstallerIsOld, InstallationInOrder, RollbackHasAnOwner, CandidateRunsInPlace,
       ParentHasBackup, ReportInv, SuccessIsHonest, JobsAreKnown, NewsIsOfTheCandidate, News,
       NoEarlySuccess, ReportsAreMade, Shown, Succeeded, Told
  <2>. QED BY <2>3, <2>4, <2>5, <2>6, <2>7 DEF ReportInv
<1>7. CASE ConcludeFails
  <2>1. \/ wire' = wire /\ OnWire' = OnWire
        \/ parent # None /\ OnWire' = OnWire \cup {[kind |-> "result", job |-> parent.job]}
    BY <1>7, WireIsSame, ReportOfParentOnWire DEF IInv, TypeOK, ConcludeFails, GoesOn,
       DiskInv, RollbackHasAnOwner, Rollback
  <2>2. \/ link' = "none" /\ Ordered' = {}
        \/ Ordered' = Ordered /\ op' = op /\ (link' = "none" => link = "none")
    BY <1>7, OrdersAreCut, OrdersAreSame DEF IInv, TypeOK, ConcludeFails, GoesOn, Ended, Gone,
       Unplugged, Rollback, DiskInv, CandidateRunsInPlace
  <2>3. SuccessIsHonest'
    <3>1. txn' = txn /\ exe' = exe /\ tracker' = tracker /\ last' = last
      BY <1>7 DEF ConcludeFails, disk
    <3>2. \/ txn # None
          \/ parent # None /\ parent.job = last /\ last \in Told' \cup lost'
      <4>1. CASE roll.who \in {"boot", "watchdog"}
        BY <1>7, <4>1 DEF IInv, ConcludeFails, DiskInv, RollbackHasAnOwner
      <4>2. CASE roll.who = "parent" /\ txn = None
        <5>1. parent # None /\ parent.job = last /\ last \in Jobs
          BY <1>7, <4>2, NoneAssumption DEF IInv, TypeOK, ConcludeFails, DiskInv,
             RollbackHasAnOwner, ReportInv, JobsAreKnown, Parent
        <5>2. CASE wire' = wire
          BY <1>7, <4>2, <5>1, <5>2 DEF ConcludeFails
        <5>3. CASE wire' # wire
          BY <2>1, <5>1, <5>3 DEF Told
        <5>. QED BY <5>1, <5>2, <5>3
      <4>. QED BY <1>7, <4>1, <4>2 DEF ConcludeFails
    <3>. QED BY <3>1, <3>2 DEF SuccessIsHonest
  <2>4. JobsAreKnown'
    BY <1>7, <2>1, <2>2, NoneAssumption DEF IInv, TypeOK, ConcludeFails, GoesOn, disk, Ended, Gone,
       Unplugged, Fault, Rollback, Transaction, Task, DiskInv, OldBinarySurvives,
       InstallerIsOld, InstallationInOrder, RollbackHasAnOwner, CandidateRunsInPlace,
       ParentHasBackup, ReportInv, SuccessIsHonest, JobsAreKnown, NewsIsOfTheCandidate, News,
       NoEarlySuccess, ReportsAreMade, Shown, Succeeded, Told
  <2>5. NewsIsOfTheCandidate'
    BY <1>7, <2>1, <2>2, NoneAssumption DEF IInv, TypeOK, ConcludeFails, GoesOn, disk, Ended, Gone,
       Unplugged, Fault, Rollback, Transaction, Task, DiskInv, OldBinarySurvives,
       InstallerIsOld, InstallationInOrder, RollbackHasAnOwner, CandidateRunsInPlace,
       ParentHasBackup, ReportInv, SuccessIsHonest, JobsAreKnown, NewsIsOfTheCandidate, News,
       NoEarlySuccess, ReportsAreMade, Shown, Succeeded, Told
  <2>6. NoEarlySuccess'
    BY <1>7, <2>1, <2>2, NoneAssumption DEF IInv, TypeOK, ConcludeFails, GoesOn, disk, Ended, Gone,
       Unplugged, Fault, Rollback, Transaction, Task, DiskInv, OldBinarySurvives,
       InstallerIsOld, InstallationInOrder, RollbackHasAnOwner, CandidateRunsInPlace,
       ParentHasBackup, ReportInv, SuccessIsHonest, JobsAreKnown, NewsIsOfTheCandidate, News,
       NoEarlySuccess, ReportsAreMade, Shown, Succeeded, Told
  <2>7. ReportsAreMade'
    BY <1>7, <2>1, <2>2, NoneAssumption DEF IInv, TypeOK, ConcludeFails, GoesOn, disk, Ended, Gone,
       Unplugged, Fault, Rollback, Transaction, Task, DiskInv, OldBinarySurvives,
       InstallerIsOld, InstallationInOrder, RollbackHasAnOwner, CandidateRunsInPlace,
       ParentHasBackup, ReportInv, SuccessIsHonest, JobsAreKnown, NewsIsOfTheCandidate, News,
       NoEarlySuccess, ReportsAreMade, Shown, Succeeded, Told
  <2>. QED BY <2>3, <2>4, <2>5, <2>6, <2>7 DEF ReportInv
<1>. QED BY <1>1, <1>2, <1>3, <1>4, <1>5, <1>6, <1>7

LEMMA ParentKeepsReportInv ==
    ASSUME IInv, IInv', ReportInv,
           ParentConnects \/ ParentRefuses \/ Look \/ LookAgain \/ TakeBack \/ ParentDies \/ Crash
    PROVE  ReportInv'
<1>1. CASE ParentConnects
  <2>1. OnWire' = {[kind |-> "info", ver |-> "old"]}
    BY <1>1, WireIsReset DEF IInv, TypeOK, ParentConnects, Admits
  <2>2. Ordered' = {}
    BY <1>1, OrdersAreCut DEF IInv, TypeOK, ParentConnects, Admits
  <2>3. SuccessIsHonest'
    BY <1>1, <2>1, <2>2, NoneAssumption DEF IInv, TypeOK, ParentConnects, Admits, disk, process,
       DiskInv, OldBinarySurvives, InstallerIsOld, InstallationInOrder, RollbackHasAnOwner,
       CandidateRunsInPlace, ParentHasBackup, ReportInv, SuccessIsHonest, JobsAreKnown,
       NewsIsOfTheCandidate, News, NoEarlySuccess, ReportsAreMade, Shown, Succeeded, Told
  <2>4. JobsAreKnown'
    BY <1>1, <2>1, <2>2, NoneAssumption DEF IInv, TypeOK, ParentConnects, Admits, disk, process,
       DiskInv, OldBinarySurvives, InstallerIsOld, InstallationInOrder, RollbackHasAnOwner,
       CandidateRunsInPlace, ParentHasBackup, ReportInv, SuccessIsHonest, JobsAreKnown,
       NewsIsOfTheCandidate, News, NoEarlySuccess, ReportsAreMade, Shown, Succeeded, Told
  <2>5. NewsIsOfTheCandidate'
    BY <1>1, <2>1, <2>2, NoneAssumption DEF IInv, TypeOK, ParentConnects, Admits, disk, process,
       DiskInv, OldBinarySurvives, InstallerIsOld, InstallationInOrder, RollbackHasAnOwner,
       CandidateRunsInPlace, ParentHasBackup, ReportInv, SuccessIsHonest, JobsAreKnown,
       NewsIsOfTheCandidate, News, NoEarlySuccess, ReportsAreMade, Shown, Succeeded, Told
  <2>6. NoEarlySuccess'
    BY <1>1, <2>1, <2>2, NoneAssumption DEF IInv, TypeOK, ParentConnects, Admits, disk, process,
       DiskInv, OldBinarySurvives, InstallerIsOld, InstallationInOrder, RollbackHasAnOwner,
       CandidateRunsInPlace, ParentHasBackup, ReportInv, SuccessIsHonest, JobsAreKnown,
       NewsIsOfTheCandidate, News, NoEarlySuccess, ReportsAreMade, Shown, Succeeded, Told
  <2>7. ReportsAreMade'
    BY <1>1, <2>1, <2>2, NoneAssumption DEF IInv, TypeOK, ParentConnects, Admits, disk, process,
       DiskInv, OldBinarySurvives, InstallerIsOld, InstallationInOrder, RollbackHasAnOwner,
       CandidateRunsInPlace, ParentHasBackup, ReportInv, SuccessIsHonest, JobsAreKnown,
       NewsIsOfTheCandidate, News, NoEarlySuccess, ReportsAreMade, Shown, Succeeded, Told
  <2>. QED BY <2>3, <2>4, <2>5, <2>6, <2>7 DEF ReportInv
<1>2. CASE ParentRefuses
  <2>1. OnWire' = OnWire \cup {[kind |-> "result", job |-> Head(orders)]}
    BY <1>2, WireGrows, ResultsAreMessages DEF IInv, TypeOK, ParentRefuses
  <2>2. Ordered = Ordered' \cup {Head(orders)} /\ Head(orders) \in Jobs
    BY <1>2, OrdersShrink DEF IInv, TypeOK, ParentRefuses
  <2>3. SuccessIsHonest'
    BY <1>2, <2>1, <2>2, NoneAssumption DEF IInv, TypeOK, ParentRefuses, disk, process, server,
       history, DiskInv, OldBinarySurvives, InstallerIsOld, InstallationInOrder,
       RollbackHasAnOwner, CandidateRunsInPlace, ParentHasBackup, ReportInv, SuccessIsHonest,
       JobsAreKnown, NewsIsOfTheCandidate, News, NoEarlySuccess, ReportsAreMade, Shown,
       Succeeded, Told
  <2>4. JobsAreKnown'
    BY <1>2, <2>1, <2>2, NoneAssumption DEF IInv, TypeOK, ParentRefuses, disk, process, server,
       history, DiskInv, OldBinarySurvives, InstallerIsOld, InstallationInOrder,
       RollbackHasAnOwner, CandidateRunsInPlace, ParentHasBackup, ReportInv, SuccessIsHonest,
       JobsAreKnown, NewsIsOfTheCandidate, News, NoEarlySuccess, ReportsAreMade, Shown,
       Succeeded, Told
  <2>5. NewsIsOfTheCandidate'
    BY <1>2, <2>1, <2>2, NoneAssumption DEF IInv, TypeOK, ParentRefuses, disk, process, server,
       history, DiskInv, OldBinarySurvives, InstallerIsOld, InstallationInOrder,
       RollbackHasAnOwner, CandidateRunsInPlace, ParentHasBackup, ReportInv, SuccessIsHonest,
       JobsAreKnown, NewsIsOfTheCandidate, News, NoEarlySuccess, ReportsAreMade, Shown,
       Succeeded, Told
  <2>6. NoEarlySuccess'
    BY <1>2, <2>1, <2>2, NoneAssumption DEF IInv, TypeOK, ParentRefuses, disk, process, server,
       history, DiskInv, OldBinarySurvives, InstallerIsOld, InstallationInOrder,
       RollbackHasAnOwner, CandidateRunsInPlace, ParentHasBackup, ReportInv, SuccessIsHonest,
       JobsAreKnown, NewsIsOfTheCandidate, News, NoEarlySuccess, ReportsAreMade, Shown,
       Succeeded, Told
  <2>7. ReportsAreMade'
    BY <1>2, <2>1, <2>2, NoneAssumption DEF IInv, TypeOK, ParentRefuses, disk, process, server,
       history, DiskInv, OldBinarySurvives, InstallerIsOld, InstallationInOrder,
       RollbackHasAnOwner, CandidateRunsInPlace, ParentHasBackup, ReportInv, SuccessIsHonest,
       JobsAreKnown, NewsIsOfTheCandidate, News, NoEarlySuccess, ReportsAreMade, Shown,
       Succeeded, Told
  <2>. QED BY <2>3, <2>4, <2>5, <2>6, <2>7 DEF ReportInv
<1>3. CASE Look
  <2>1. OnWire' = OnWire
    BY <1>3, WireIsSame DEF IInv, TypeOK, Look
  <2>2. \/ link' = "none" /\ Ordered' = {}
        \/ Ordered' = Ordered /\ op' = op /\ (link' = "none" => link = "none")
    BY <1>3, OrdersAreCut, OrdersAreSame DEF IInv, TypeOK, Look, ParentLeaves, Unplugged
  <2>3. SuccessIsHonest'
    BY <1>3, <2>1, <2>2, NoneAssumption DEF IInv, TypeOK, Look, disk, process, history,
       TrialActive, ParentLeaves, Unplugged, Parent, DiskInv, OldBinarySurvives, InstallerIsOld,
       InstallationInOrder, RollbackHasAnOwner, CandidateRunsInPlace, ParentHasBackup,
       ReportInv, SuccessIsHonest, JobsAreKnown, NewsIsOfTheCandidate, News, NoEarlySuccess,
       ReportsAreMade, Shown, Succeeded, Told
  <2>4. JobsAreKnown'
    BY <1>3, <2>1, <2>2, NoneAssumption DEF IInv, TypeOK, Look, disk, process, history,
       TrialActive, ParentLeaves, Unplugged, Parent, DiskInv, OldBinarySurvives, InstallerIsOld,
       InstallationInOrder, RollbackHasAnOwner, CandidateRunsInPlace, ParentHasBackup,
       ReportInv, SuccessIsHonest, JobsAreKnown, NewsIsOfTheCandidate, News, NoEarlySuccess,
       ReportsAreMade, Shown, Succeeded, Told
  <2>5. NewsIsOfTheCandidate'
    BY <1>3, <2>1, <2>2, NoneAssumption DEF IInv, TypeOK, Look, disk, process, history,
       TrialActive, ParentLeaves, Unplugged, Parent, DiskInv, OldBinarySurvives, InstallerIsOld,
       InstallationInOrder, RollbackHasAnOwner, CandidateRunsInPlace, ParentHasBackup,
       ReportInv, SuccessIsHonest, JobsAreKnown, NewsIsOfTheCandidate, News, NoEarlySuccess,
       ReportsAreMade, Shown, Succeeded, Told
  <2>6. NoEarlySuccess'
    BY <1>3, <2>1, <2>2, NoneAssumption DEF IInv, TypeOK, Look, disk, process, history,
       TrialActive, ParentLeaves, Unplugged, Parent, DiskInv, OldBinarySurvives, InstallerIsOld,
       InstallationInOrder, RollbackHasAnOwner, CandidateRunsInPlace, ParentHasBackup,
       ReportInv, SuccessIsHonest, JobsAreKnown, NewsIsOfTheCandidate, News, NoEarlySuccess,
       ReportsAreMade, Shown, Succeeded, Told
  <2>7. ReportsAreMade'
    BY <1>3, <2>1, <2>2, NoneAssumption DEF IInv, TypeOK, Look, disk, process, history,
       TrialActive, ParentLeaves, Unplugged, Parent, DiskInv, OldBinarySurvives, InstallerIsOld,
       InstallationInOrder, RollbackHasAnOwner, CandidateRunsInPlace, ParentHasBackup,
       ReportInv, SuccessIsHonest, JobsAreKnown, NewsIsOfTheCandidate, News, NoEarlySuccess,
       ReportsAreMade, Shown, Succeeded, Told
  <2>. QED BY <2>3, <2>4, <2>5, <2>6, <2>7 DEF ReportInv
<1>4. CASE LookAgain
  <2>1. OnWire' = OnWire
    BY <1>4, WireIsSame DEF IInv, TypeOK, LookAgain, channel
  <2>2. Ordered' = Ordered
    BY <1>4, OrdersAreSame DEF IInv, TypeOK, LookAgain, channel
  <2>3. SuccessIsHonest'
    BY <1>4, <2>1, <2>2, NoneAssumption DEF IInv, TypeOK, LookAgain, disk, process, channel,
       server, history, Parent, DiskInv, OldBinarySurvives, InstallerIsOld, InstallationInOrder,
       RollbackHasAnOwner, CandidateRunsInPlace, ParentHasBackup, ReportInv, SuccessIsHonest,
       JobsAreKnown, NewsIsOfTheCandidate, News, NoEarlySuccess, ReportsAreMade, Shown,
       Succeeded, Told
  <2>4. JobsAreKnown'
    BY <1>4, <2>1, <2>2, NoneAssumption DEF IInv, TypeOK, LookAgain, disk, process, channel,
       server, history, Parent, DiskInv, OldBinarySurvives, InstallerIsOld, InstallationInOrder,
       RollbackHasAnOwner, CandidateRunsInPlace, ParentHasBackup, ReportInv, SuccessIsHonest,
       JobsAreKnown, NewsIsOfTheCandidate, News, NoEarlySuccess, ReportsAreMade, Shown,
       Succeeded, Told
  <2>5. NewsIsOfTheCandidate'
    BY <1>4, <2>1, <2>2, NoneAssumption DEF IInv, TypeOK, LookAgain, disk, process, channel,
       server, history, Parent, DiskInv, OldBinarySurvives, InstallerIsOld, InstallationInOrder,
       RollbackHasAnOwner, CandidateRunsInPlace, ParentHasBackup, ReportInv, SuccessIsHonest,
       JobsAreKnown, NewsIsOfTheCandidate, News, NoEarlySuccess, ReportsAreMade, Shown,
       Succeeded, Told
  <2>6. NoEarlySuccess'
    BY <1>4, <2>1, <2>2, NoneAssumption DEF IInv, TypeOK, LookAgain, disk, process, channel,
       server, history, Parent, DiskInv, OldBinarySurvives, InstallerIsOld, InstallationInOrder,
       RollbackHasAnOwner, CandidateRunsInPlace, ParentHasBackup, ReportInv, SuccessIsHonest,
       JobsAreKnown, NewsIsOfTheCandidate, News, NoEarlySuccess, ReportsAreMade, Shown,
       Succeeded, Told
  <2>7. ReportsAreMade'
    BY <1>4, <2>1, <2>2, NoneAssumption DEF IInv, TypeOK, LookAgain, disk, process, channel,
       server, history, Parent, DiskInv, OldBinarySurvives, InstallerIsOld, InstallationInOrder,
       RollbackHasAnOwner, CandidateRunsInPlace, ParentHasBackup, ReportInv, SuccessIsHonest,
       JobsAreKnown, NewsIsOfTheCandidate, News, NoEarlySuccess, ReportsAreMade, Shown,
       Succeeded, Told
  <2>. QED BY <2>3, <2>4, <2>5, <2>6, <2>7 DEF ReportInv
<1>5. CASE TakeBack
  <2>1. OnWire' = OnWire
    BY <1>5, WireIsSame DEF IInv, TypeOK, TakeBack
  <2>2. \/ link' = "none" /\ Ordered' = {}
        \/ Ordered' = Ordered /\ op' = op /\ (link' = "none" => link = "none")
    BY <1>5, OrdersAreCut, OrdersAreSame DEF IInv, TypeOK, TakeBack, Ended, Unplugged
  <2>3. SuccessIsHonest'
    BY <1>5, <2>1, <2>2, NoneAssumption DEF IInv, TypeOK, TakeBack, history, Ended, Gone,
       Unplugged, Rollback, Parent, DiskInv, OldBinarySurvives, InstallerIsOld,
       InstallationInOrder, RollbackHasAnOwner, CandidateRunsInPlace, ParentHasBackup,
       ReportInv, SuccessIsHonest, JobsAreKnown, NewsIsOfTheCandidate, News, NoEarlySuccess,
       ReportsAreMade, Shown, Succeeded, Told
  <2>4. JobsAreKnown'
    BY <1>5, <2>1, <2>2, NoneAssumption DEF IInv, TypeOK, TakeBack, history, Ended, Gone,
       Unplugged, Rollback, Parent, DiskInv, OldBinarySurvives, InstallerIsOld,
       InstallationInOrder, RollbackHasAnOwner, CandidateRunsInPlace, ParentHasBackup,
       ReportInv, SuccessIsHonest, JobsAreKnown, NewsIsOfTheCandidate, News, NoEarlySuccess,
       ReportsAreMade, Shown, Succeeded, Told
  <2>5. NewsIsOfTheCandidate'
    BY <1>5, <2>1, <2>2, NoneAssumption DEF IInv, TypeOK, TakeBack, history, Ended, Gone,
       Unplugged, Rollback, Parent, DiskInv, OldBinarySurvives, InstallerIsOld,
       InstallationInOrder, RollbackHasAnOwner, CandidateRunsInPlace, ParentHasBackup,
       ReportInv, SuccessIsHonest, JobsAreKnown, NewsIsOfTheCandidate, News, NoEarlySuccess,
       ReportsAreMade, Shown, Succeeded, Told
  <2>6. NoEarlySuccess'
    BY <1>5, <2>1, <2>2, NoneAssumption DEF IInv, TypeOK, TakeBack, history, Ended, Gone,
       Unplugged, Rollback, Parent, DiskInv, OldBinarySurvives, InstallerIsOld,
       InstallationInOrder, RollbackHasAnOwner, CandidateRunsInPlace, ParentHasBackup,
       ReportInv, SuccessIsHonest, JobsAreKnown, NewsIsOfTheCandidate, News, NoEarlySuccess,
       ReportsAreMade, Shown, Succeeded, Told
  <2>7. ReportsAreMade'
    BY <1>5, <2>1, <2>2, NoneAssumption DEF IInv, TypeOK, TakeBack, history, Ended, Gone,
       Unplugged, Rollback, Parent, DiskInv, OldBinarySurvives, InstallerIsOld,
       InstallationInOrder, RollbackHasAnOwner, CandidateRunsInPlace, ParentHasBackup,
       ReportInv, SuccessIsHonest, JobsAreKnown, NewsIsOfTheCandidate, News, NoEarlySuccess,
       ReportsAreMade, Shown, Succeeded, Told
  <2>. QED BY <2>3, <2>4, <2>5, <2>6, <2>7 DEF ReportInv
<1>6. CASE ParentDies
  <2>1. OnWire' = OnWire
    BY <1>6, WireIsSame DEF IInv, TypeOK, ParentDies
  <2>2. \/ link' = "none" /\ Ordered' = {}
        \/ Ordered' = Ordered /\ op' = op /\ (link' = "none" => link = "none")
    BY <1>6, OrdersAreCut, OrdersAreSame DEF IInv, TypeOK, ParentDies, ParentLeaves, Unplugged
  <2>3. SuccessIsHonest'
    BY <1>6, <2>1, <2>2, NoneAssumption DEF IInv, TypeOK, ParentDies, disk, process, Fault,
       ParentLeaves, Unplugged, Parent, Rollback, DiskInv, OldBinarySurvives, InstallerIsOld,
       InstallationInOrder, RollbackHasAnOwner, CandidateRunsInPlace, ParentHasBackup,
       ReportInv, SuccessIsHonest, JobsAreKnown, NewsIsOfTheCandidate, News, NoEarlySuccess,
       ReportsAreMade, Shown, Succeeded, Told
  <2>4. JobsAreKnown'
    BY <1>6, <2>1, <2>2, NoneAssumption DEF IInv, TypeOK, ParentDies, disk, process, Fault,
       ParentLeaves, Unplugged, Parent, Rollback, DiskInv, OldBinarySurvives, InstallerIsOld,
       InstallationInOrder, RollbackHasAnOwner, CandidateRunsInPlace, ParentHasBackup,
       ReportInv, SuccessIsHonest, JobsAreKnown, NewsIsOfTheCandidate, News, NoEarlySuccess,
       ReportsAreMade, Shown, Succeeded, Told
  <2>5. NewsIsOfTheCandidate'
    BY <1>6, <2>1, <2>2, NoneAssumption DEF IInv, TypeOK, ParentDies, disk, process, Fault,
       ParentLeaves, Unplugged, Parent, Rollback, DiskInv, OldBinarySurvives, InstallerIsOld,
       InstallationInOrder, RollbackHasAnOwner, CandidateRunsInPlace, ParentHasBackup,
       ReportInv, SuccessIsHonest, JobsAreKnown, NewsIsOfTheCandidate, News, NoEarlySuccess,
       ReportsAreMade, Shown, Succeeded, Told
  <2>6. NoEarlySuccess'
    BY <1>6, <2>1, <2>2, NoneAssumption DEF IInv, TypeOK, ParentDies, disk, process, Fault,
       ParentLeaves, Unplugged, Parent, Rollback, DiskInv, OldBinarySurvives, InstallerIsOld,
       InstallationInOrder, RollbackHasAnOwner, CandidateRunsInPlace, ParentHasBackup,
       ReportInv, SuccessIsHonest, JobsAreKnown, NewsIsOfTheCandidate, News, NoEarlySuccess,
       ReportsAreMade, Shown, Succeeded, Told
  <2>7. ReportsAreMade'
    BY <1>6, <2>1, <2>2, NoneAssumption DEF IInv, TypeOK, ParentDies, disk, process, Fault,
       ParentLeaves, Unplugged, Parent, Rollback, DiskInv, OldBinarySurvives, InstallerIsOld,
       InstallationInOrder, RollbackHasAnOwner, CandidateRunsInPlace, ParentHasBackup,
       ReportInv, SuccessIsHonest, JobsAreKnown, NewsIsOfTheCandidate, News, NoEarlySuccess,
       ReportsAreMade, Shown, Succeeded, Told
  <2>. QED BY <2>3, <2>4, <2>5, <2>6, <2>7 DEF ReportInv
<1>7. CASE Crash
  <2>1. OnWire' = OnWire
    BY <1>7, WireIsSame DEF IInv, TypeOK, Crash
  <2>2. \/ link' = "none" /\ Ordered' = {}
        \/ Ordered' = Ordered /\ op' = op /\ (link' = "none" => link = "none")
    BY <1>7, OrdersAreCut, OrdersAreSame DEF IInv, TypeOK, Crash, Ended, Unplugged
  <2>3. SuccessIsHonest'
    BY <1>7, <2>1, <2>2, NoneAssumption DEF IInv, TypeOK, Crash, disk, history, Ended, Gone,
       Unplugged, Fault, Rollback, Transaction, DiskInv, OldBinarySurvives, InstallerIsOld,
       InstallationInOrder, RollbackHasAnOwner, CandidateRunsInPlace, ParentHasBackup,
       ReportInv, SuccessIsHonest, JobsAreKnown, NewsIsOfTheCandidate, News, NoEarlySuccess,
       ReportsAreMade, Shown, Succeeded, Told
  <2>4. JobsAreKnown'
    BY <1>7, <2>1, <2>2, NoneAssumption DEF IInv, TypeOK, Crash, disk, history, Ended, Gone,
       Unplugged, Fault, Rollback, Transaction, DiskInv, OldBinarySurvives, InstallerIsOld,
       InstallationInOrder, RollbackHasAnOwner, CandidateRunsInPlace, ParentHasBackup,
       ReportInv, SuccessIsHonest, JobsAreKnown, NewsIsOfTheCandidate, News, NoEarlySuccess,
       ReportsAreMade, Shown, Succeeded, Told
  <2>5. NewsIsOfTheCandidate'
    BY <1>7, <2>1, <2>2, NoneAssumption DEF IInv, TypeOK, Crash, disk, history, Ended, Gone,
       Unplugged, Fault, Rollback, Transaction, DiskInv, OldBinarySurvives, InstallerIsOld,
       InstallationInOrder, RollbackHasAnOwner, CandidateRunsInPlace, ParentHasBackup,
       ReportInv, SuccessIsHonest, JobsAreKnown, NewsIsOfTheCandidate, News, NoEarlySuccess,
       ReportsAreMade, Shown, Succeeded, Told
  <2>6. NoEarlySuccess'
    BY <1>7, <2>1, <2>2, NoneAssumption DEF IInv, TypeOK, Crash, disk, history, Ended, Gone,
       Unplugged, Fault, Rollback, Transaction, DiskInv, OldBinarySurvives, InstallerIsOld,
       InstallationInOrder, RollbackHasAnOwner, CandidateRunsInPlace, ParentHasBackup,
       ReportInv, SuccessIsHonest, JobsAreKnown, NewsIsOfTheCandidate, News, NoEarlySuccess,
       ReportsAreMade, Shown, Succeeded, Told
  <2>7. ReportsAreMade'
    BY <1>7, <2>1, <2>2, NoneAssumption DEF IInv, TypeOK, Crash, disk, history, Ended, Gone,
       Unplugged, Fault, Rollback, Transaction, DiskInv, OldBinarySurvives, InstallerIsOld,
       InstallationInOrder, RollbackHasAnOwner, CandidateRunsInPlace, ParentHasBackup,
       ReportInv, SuccessIsHonest, JobsAreKnown, NewsIsOfTheCandidate, News, NoEarlySuccess,
       ReportsAreMade, Shown, Succeeded, Told
  <2>. QED BY <2>3, <2>4, <2>5, <2>6, <2>7 DEF ReportInv
<1>. QED BY <1>1, <1>2, <1>3, <1>4, <1>5, <1>6, <1>7

-----------------------------------------------------------------------------
LEMMA StutteringKeepsReportInv == IInv /\ ReportInv /\ UNCHANGED vars => ReportInv'
<1>. SUFFICES ASSUME ReportInv, UNCHANGED vars PROVE ReportInv'
  OBVIOUS
<1>1. OnWire' = OnWire /\ Ordered' = Ordered
  BY WireIsSame, OrdersAreSame DEF vars
<1>. QED
  BY <1>1 DEF vars, ReportInv, SuccessIsHonest, JobsAreKnown, NewsIsOfTheCandidate, News,
     NoEarlySuccess, ReportsAreMade, Shown, Succeeded, Told

LEMMA NextKeepsReportInv == IInv /\ IInv' /\ ReportInv /\ [Next]_vars => ReportInv'
  BY ServerKeepsReportInv, ConnectionKeepsReportInv, TaskKeepsReportInv, TrialKeepsReportInv,
     ParentKeepsReportInv, StutteringKeepsReportInv
     DEF Next, Operators, Handshake, Install, RollBack

\* An upgrade the Server shows as succeeded is installed, or the report of its
\* rollback is to come, is lost with its connection, or names another job
\* (finish_job_inner, on_system_info, read_recovery_report).
THEOREM SuccessIsAlwaysHonest == Spec => []SuccessIsHonest
<1>1. ReportInv => SuccessIsHonest
  BY DEF ReportInv
<1>. QED BY <1>1, InitReportInv, NextKeepsReportInv, Invariance, PTL DEF Spec

=============================================================================
