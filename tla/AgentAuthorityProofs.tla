-------------------------- MODULE AgentAuthorityProofs --------------------------
(***************************************************************************)
(* Connection fencing, proved for every set of Servers, offers, tokens,    *)
(* sockets and concurrent requests.                                        *)
(***************************************************************************)
EXTENDS AgentAuthority, FiniteSetTheorems, NaturalsInduction, WellFoundedInduction, TLAPS

-----------------------------------------------------------------------------
(* The inductive invariant. *)

\* The lifecycle lock of a Server has one holder, and while a transaction that
\* nobody holds the lock for is still to land no other works on its rows.
LockInv ==
    /\ \A d \in Deleters : \A s \in del[d].held : job[s] = NoJob
    /\ \A d, e \in Deleters : \A s \in del[d].held : s \in del[e].held => d = e
    /\ \A s \in Servers : adrift[s] # NoJob => job[s] = NoJob
    /\ \A d \in Deleters : del[d].phase = "fenced" =>
            \A s \in del[d].held : adrift[s] = NoJob
    /\ \A d \in Deleters : del[d].phase = "dropped" =>
            \A s \in del[d].want : adrift[s] = NoJob /\ job[s] = NoJob

\* Whoever holds authority or an open offer has a servers row, and so has the
\* Server of a transition in progress.
RowInv ==
    /\ \A s \in Servers : Claimed(s) => status[s] = "present"
    /\ \A s \in Servers : job[s] # NoJob \/ adrift[s] # NoJob => status[s] = "present"
    /\ \A o \in Offers : outcome[o] = "open" =>
            target[o] \in Servers /\ status[target[o]] = "present"

\* A transition that takes authority away has fenced before it commits.
FenceInv ==
    /\ \A s \in Servers : job[s].op \in {"consume", "emergency"} => conn[s] = None
    /\ \A d \in Deleters : del[d].phase = "fenced" =>
            \A s \in Doomed(d) : conn[s] = None

\* The transition's own offer is still the open offer it read.
JobOk(s, j) ==
    /\ j.offer # None => outcome[j.offer] = "open" /\ target[j.offer] = s
    /\ j.offer # None <=> j.outcome # None
    /\ j.op = "consume" => j.offer # None

JobInv == \A s \in Servers : JobOk(s, job[s]) /\ JobOk(s, adrift[s])

\* Only a dropped request leaves a transaction adrift.
DropInv ==
    ~MayDropRequests => /\ \A s \in Servers : adrift[s] = NoJob
                        /\ \A d \in Deleters : del[d].phase # "dropped"

ConnInv ==
    \A s \in Servers : conn[s] # None =>
        /\ sock[conn[s]].pc = "live"
        /\ sock[conn[s]].server = s
        /\ status[s] # "absent"
        /\ ~MayDropRequests => /\ status[s] = "present"
                               /\ Claimed(s)
                               /\ sock[conn[s]].hash = hash[s]

IInv ==
    TypeOK /\ LockInv /\ RowInv /\ FenceInv /\ JobInv /\ DropInv /\ ConnInv

USE DEF Outcome, Terminal, Transition, Op

-----------------------------------------------------------------------------
(* Type correctness. *)

LEMMA TypeInit == Init => TypeOK
  <1>1. NoJob \in Job /\ ClosedSock \in Sock /\ NoClaim \in Claim /\ NoDelete \in Delete
    BY DEF NoJob, Job, ClosedSock, Sock, NoClaim, Claim, NoDelete, Delete
  <1> QED BY <1>1 DEF Init, TypeOK

LEMMA RowType ==
  ASSUME NEW t \in Transition, NEW o \in Offers \cup {None},
         NEW a \in BOOLEAN, NEW b \in BOOLEAN
  PROVE  Row(t, o, a, b) \in Event
  BY DEF Row, Event

LEMMA OneRowType ==
  ASSUME NEW r \in Event
  PROVE  << r >> \in Seq(Event)
  OBVIOUS

LEMMA RowsType ==
  ASSUME NEW r \in Event, NEW rows \in Seq(Event)
  PROVE  rows \o << r >> \in Seq(Event)
  OBVIOUS

LEMMA RecordType ==
  ASSUME TypeOK, NEW s \in Servers, NEW rows \in Seq(Event), Record(s, rows)
  PROVE  log' \in [Servers -> Seq(Event)]
  <1> DEFINE L == Seq(Event)
  <1>1. log[s] \o rows \in L
    BY DEF TypeOK
  <1>2. log \in [Servers -> L]
    BY DEF TypeOK
  <1> HIDE DEF L
  <1>3. log' \in [Servers -> L]
    BY <1>1, <1>2 DEF Record
  <1> QED BY <1>3 DEF L

LEMMA StartType ==
  ASSUME TypeOK, NEW s \in Servers, NEW op \in Op, NEW o \in Offers \cup {None},
         NEW out \in Terminal \cup {None}, NEW t \in Tokens \cup {None},
         Start(s, op, o, out, t)
  PROVE  job' \in [Servers -> Job]
  <1>1. [op |-> op, offer |-> o, outcome |-> out, token |-> t] \in Job
    BY DEF Job
  <1> QED BY <1>1 DEF Start, TypeOK

LEMMA TypeOperator ==
  ASSUME TypeOK, NEW s \in Servers, OperatorNext(s)
  PROVE  TypeOK'
  <1>0. ToExpire(s) \subseteq Offers \cup {None}
    BY DEF ToExpire, OpenOffers
  <1>1. CASE Onboard(s)
    <2>1. PICK o \in Offers : Record(s, << Row("initial_offer_issued", o, FALSE, FALSE) >>)
      BY <1>1 DEF Onboard, Fresh
    <2>2. log' \in [Servers -> Seq(Event)]
      <3>1. Row("initial_offer_issued", o, FALSE, FALSE) \in Event
        BY RowType
      <3>2. << Row("initial_offer_issued", o, FALSE, FALSE) >> \in Seq(Event)
        BY <3>1, OneRowType
      <3> QED BY <2>1, <3>2, RecordType
    <2>3. /\ status' \in [Servers -> {"absent", "present", "deleted"}]
          /\ outcome' \in [Offers -> Outcome]
          /\ target' \in [Offers -> Servers \cup {None}]
      BY <1>1 DEF Onboard, TypeOK, Fresh
    <2>4. UNCHANGED <<token, hash, successor, elapsed, adrift, runtime>>
      BY <1>1 DEF Onboard
    <2> QED BY <2>2, <2>3, <2>4 DEF TypeOK, runtime
  <1>2. CASE BeginIssue(s)
    <2>1. job' \in [Servers -> Job]
      BY <1>0, <1>2, StartType DEF BeginIssue, StartExpiring
    <2> QED BY <1>2, <2>1 DEF BeginIssue, TypeOK, database, tables
  <1>3. ASSUME NEW mode \in {"graceful", "emergency"}, BeginReenrollment(s, mode)
        PROVE  TypeOK'
    <2>1. job' \in [Servers -> Job]
      BY <1>0, <1>3, StartType DEF BeginReenrollment, StartExpiring
    <2> QED BY <1>3, <2>1 DEF BeginReenrollment, Fence, TypeOK, database, tables
  <1>4. ASSUME NEW o \in Offers, BeginReplace(s, o) \/ BeginRevokeOffer(s, o)
        PROVE  TypeOK'
    <2>1. job' \in [Servers -> Job]
      BY <1>4, StartType DEF BeginReplace, BeginRevokeOffer
    <2> QED BY <1>4, <2>1 DEF BeginReplace, BeginRevokeOffer, TypeOK, database, tables
  <1>5. CASE BeginRevokeAuthority(s)
    <2>1. job' \in [Servers -> Job]
      BY <1>0, <1>5, StartType DEF BeginRevokeAuthority
    <2> QED BY <1>5, <2>1 DEF BeginRevokeAuthority, TypeOK, database, tables
  <1> QED BY <1>1, <1>2, <1>3, <1>4, <1>5 DEF OperatorNext

LEMMA TypeClaim ==
  ASSUME TypeOK, RowInv, NEW k \in Claims, ClaimNext(k)
  PROVE  TypeOK'
  <1>0. NoClaim \in Claim /\ claim[k] \in Claim
    BY DEF NoClaim, Claim, TypeOK
  <1>1. ASSUME NEW o \in Offers, NEW t \in Tokens, LookupClaim(k, o, t)
        PROVE  TypeOK'
    <2>1. [offer |-> o, token |-> t] \in Claim
      BY DEF Claim
    <2> QED BY <1>1, <2>1 DEF LookupClaim, TypeOK, database, tables
  <1>2. CASE ClaimRejected(k)
    BY <1>0, <1>2 DEF ClaimRejected, TypeOK, database, tables
  <1>3. ASSUME ClaimExpired(k) \/ ClaimAccepted(k)
        PROVE  TypeOK'
    <2>1. claim[k].offer \in Offers /\ claim[k].token \in Tokens \cup {None}
      BY <1>0, <1>3 DEF ClaimExpired, ClaimAccepted, ClaimHasLock, Claim
    <2>2. target[claim[k].offer] \in Servers
      BY <1>3, <2>1 DEF ClaimExpired, ClaimAccepted, RowInv
    <2>3. job' \in [Servers -> Job]
      BY <1>3, <2>1, <2>2, StartType DEF ClaimExpired, ClaimAccepted
    <2>4. conn' \in [Servers -> Sockets \cup {None}]
      BY <1>3 DEF ClaimExpired, ClaimAccepted, Fence, TypeOK
    <2>5. claim' \in [Claims -> Claim]
      BY <1>0, <1>3 DEF ClaimExpired, ClaimAccepted, TypeOK
    <2>6. UNCHANGED <<database, sock, report, del>>
      BY <1>3 DEF ClaimExpired, ClaimAccepted
    <2> QED BY <2>3, <2>4, <2>5, <2>6 DEF TypeOK, database, tables
  <1> QED BY <1>1, <1>2, <1>3 DEF ClaimNext

LEMMA TypeDurable ==
  ASSUME TypeOK, NEW s \in Servers, NEW j \in Job, JobOk(s, j), Durable(s, j)
  PROVE  /\ token' \in [Servers -> Tokens \cup {None}]
         /\ hash' \in [Servers -> Offers \cup {None}]
         /\ outcome' \in [Offers -> Outcome]
         /\ target' \in [Offers -> Servers \cup {None}]
         /\ successor' \in [Offers -> Offers \cup {None}]
         /\ elapsed' \in SUBSET Offers
         /\ log' \in [Servers -> Seq(Event)]
         /\ UNCHANGED status
  <1>0. /\ j.offer \in Offers \cup {None}
        /\ j.token \in Tokens \cup {None}
        /\ j.offer # None => j.outcome \in Terminal
    BY DEF Job, JobOk
  <1>1. Terminalized(j) \in [Offers -> Outcome]
    BY <1>0 DEF Terminalized, TypeOK
  <1>2. Claimed(s) \in BOOLEAN
    BY DEF Claimed
  <1>3. OfferRows(s, j) \in Seq(Event)
    BY <1>0, <1>2, RowType DEF OfferRows
  <1>4. elapsed' \in SUBSET Offers /\ UNCHANGED status
    BY DEF Durable, ForgetExpiry, TypeOK
  <1>5. CASE WriteOutcome(s, j)
    BY <1>1, <1>3, <1>4, <1>5, RecordType DEF WriteOutcome, TypeOK
  <1>6. CASE WriteIssue(s, j)
    <2>1. PICK n \in Offers :
            /\ outcome' = [Terminalized(j) EXCEPT ![n] = "open"]
            /\ target' = [target EXCEPT ![n] = s]
            /\ Record(s, OfferRows(s, j) \o << Row("offer_issued", n, FALSE, FALSE) >>)
      BY <1>6 DEF WriteIssue, Fresh
    <2>2. Row("offer_issued", n, FALSE, FALSE) \in Event
      BY RowType
    <2>3. log' \in [Servers -> Seq(Event)]
      <3>1. OfferRows(s, j) \o << Row("offer_issued", n, FALSE, FALSE) >> \in Seq(Event)
        BY <1>3, <2>2, RowsType
      <3> QED BY <2>1, <3>1, RecordType
    <2>4. outcome' \in [Offers -> Outcome] /\ target' \in [Offers -> Servers \cup {None}]
      BY <1>1, <2>1 DEF TypeOK
    <2> QED BY <1>4, <1>6, <2>3, <2>4 DEF WriteIssue, TypeOK
  <1>7. CASE WriteReenrollment(s, j)
    <2>1. PICK n \in Offers :
            /\ outcome' = [Terminalized(j) EXCEPT ![n] = "open"]
            /\ target' = [target EXCEPT ![n] = s]
            /\ Record(s, OfferRows(s, j) \o
                  << Row("reenrollment_started", n, TRUE, ~(j.op = "emergency")) >>)
      BY <1>7 DEF WriteReenrollment, Fresh
    <2>2. Row("reenrollment_started", n, TRUE, ~(j.op = "emergency")) \in Event
      BY RowType
    <2>3. log' \in [Servers -> Seq(Event)]
      <3>1. OfferRows(s, j) \o << Row("reenrollment_started", n, TRUE, ~(j.op = "emergency")) >> \in Seq(Event)
        BY <1>3, <2>2, RowsType
      <3> QED BY <2>1, <3>1, RecordType
    <2>4. outcome' \in [Offers -> Outcome] /\ target' \in [Offers -> Servers \cup {None}]
      BY <1>1, <2>1 DEF TypeOK
    <2>5. /\ token' \in [Servers -> Tokens \cup {None}]
          /\ hash' \in [Servers -> Offers \cup {None}]
      BY <1>7 DEF WriteReenrollment, Unauthorize, TypeOK
    <2> QED BY <1>4, <1>7, <2>3, <2>4, <2>5 DEF WriteReenrollment, TypeOK
  <1>8. CASE WriteReplace(s, j)
    <2>1. log' \in [Servers -> Seq(Event)]
      BY <1>3, <1>8, RecordType DEF WriteReplace
    <2>2. PICK n \in Offers :
            /\ outcome' = [Terminalized(j) EXCEPT ![n] = "open"]
            /\ target' = [target EXCEPT ![n] = s]
            /\ successor' = [successor EXCEPT ![j.offer] = n]
      BY <1>8 DEF WriteReplace, Fresh
    <2>3. /\ outcome' \in [Offers -> Outcome]
          /\ target' \in [Offers -> Servers \cup {None}]
          /\ successor' \in [Offers -> Offers \cup {None}]
      BY <1>1, <2>2 DEF TypeOK
    <2> QED BY <1>4, <1>8, <2>1, <2>3 DEF WriteReplace, TypeOK
  <1>9. CASE j.op = "consume" /\ WriteClaim(s, j)
    <2>1. Row("consumed", j.offer, Claimed(s), TRUE) \in Event
      BY <1>0, <1>2, RowType
    <2>2. log' \in [Servers -> Seq(Event)]
      <3>1. << Row("consumed", j.offer, Claimed(s), TRUE) >> \in Seq(Event)
        BY <2>1, OneRowType
      <3> QED BY <1>9, <3>1, RecordType DEF WriteClaim
    <2> QED BY <1>0, <1>1, <1>4, <1>9, <2>2 DEF WriteClaim, TypeOK
  <1>10. CASE WriteRevokeAuthority(s, j)
    <2>1. Row("authority_revoked", None, TRUE, FALSE) \in Event
      BY RowType
    <2>2. log' \in [Servers -> Seq(Event)]
      <3>1. OfferRows(s, j) \o << Row("authority_revoked", None, TRUE, FALSE) >> \in Seq(Event)
        BY <1>3, <2>1, RowsType
      <3> QED BY <1>3, <1>10, <3>1, RecordType DEF WriteRevokeAuthority
    <2>3. /\ token' \in [Servers -> Tokens \cup {None}]
          /\ hash' \in [Servers -> Offers \cup {None}]
      BY <1>10 DEF WriteRevokeAuthority, Unauthorize, TypeOK
    <2> QED BY <1>1, <1>4, <1>10, <2>2, <2>3 DEF WriteRevokeAuthority, TypeOK
  <1>11. CASE UNCHANGED <<token, hash, outcome, target, successor, log>>
    BY <1>4, <1>11 DEF TypeOK
  <1> QED BY <1>5, <1>6, <1>7, <1>8, <1>9, <1>10, <1>11 DEF Durable

LEMMA TypeTransaction ==
  ASSUME TypeOK, JobInv, NEW s \in Servers, TransactionNext(s)
  PROVE  TypeOK'
  <1>0. NoJob \in Job
    BY DEF NoJob, Job
  <1>1. job[s] \in Job /\ adrift[s] \in Job /\ JobOk(s, job[s]) /\ JobOk(s, adrift[s])
    BY DEF TypeOK, JobInv
  <1>2. CASE Commit(s)
    <2>1. Durable(s, job[s])
      BY <1>2 DEF Commit
    <2>2. job' \in [Servers -> Job] /\ conn' \in [Servers -> Sockets \cup {None}]
      BY <1>0, <1>2 DEF Commit, Unlock, Fence, TypeOK
    <2>3. UNCHANGED <<adrift, sock, report, claim, del>>
      BY <1>2 DEF Commit
    <2> QED BY <1>1, <2>1, <2>2, <2>3, TypeDurable DEF TypeOK
  <1>3. CASE Land(s)
    <2>1. adrift' \in [Servers -> Job]
      BY <1>0, <1>3 DEF Land, TypeOK
    <2>2. CASE Durable(s, adrift[s])
      BY <1>1, <1>3, <2>1, <2>2, TypeDurable DEF Land, TypeOK, runtime
    <2>3. CASE UNCHANGED tables
      BY <1>3, <2>1, <2>3 DEF Land, TypeOK, tables, runtime
    <2> QED BY <1>3, <2>2, <2>3 DEF Land
  <1>4. CASE Abort(s)
    BY <1>0, <1>4 DEF Abort, Unlock, TypeOK, database, tables
  <1>5. CASE DropAtCommit(s)
    BY <1>0, <1>1, <1>5 DEF DropAtCommit, Unlock, TypeOK, tables
  <1> QED BY <1>2, <1>3, <1>4, <1>5 DEF TransactionNext

LEMMA TypeDelete ==
  ASSUME TypeOK, NEW d \in Deleters, DeleteNext(d)
  PROVE  TypeOK'
  <1>0. /\ NoDelete \in Delete
        /\ del[d] \in Delete
        /\ del[d].want \in SUBSET Servers
        /\ del[d].held \in SUBSET Servers
    BY DEF NoDelete, Delete, TypeOK
  <1>1. ASSUME NEW ids \in SUBSET Servers, BeginDelete(d, ids)
        PROVE  TypeOK'
    <2>1. [phase |-> "locking", want |-> ids, held |-> {}] \in Delete
      BY DEF Delete
    <2> QED BY <1>1, <2>1 DEF BeginDelete, TypeOK, database, tables
  <1>2. CASE TakeLock(d)
    <2>1. PICK s \in Servers :
            del' = [del EXCEPT ![d].want = @ \ {s}, ![d].held = @ \cup {s}]
      BY <1>0, <1>2 DEF TakeLock
    <2>2. [del[d] EXCEPT !.want = @ \ {s}, !.held = @ \cup {s}] \in Delete
      BY <1>0 DEF Delete
    <2>3. del' \in [Deleters -> Delete]
      BY <2>1, <2>2 DEF TypeOK
    <2> QED BY <1>2, <2>3 DEF TakeLock, TypeOK, database, tables
  <1>3. CASE FenceDoomed(d)
    <2>1. del' \in [Deleters -> Delete]
      BY <1>0, <1>3 DEF FenceDoomed, TypeOK, Delete
    <2>2. conn' \in [Servers -> Sockets \cup {None}]
      BY <1>3 DEF FenceDoomed, TypeOK
    <2> QED BY <1>3, <2>1, <2>2 DEF FenceDoomed, TypeOK, database, tables
  <1>4. ASSUME DeleteRows(d), UNCHANGED <<conn, sock, job, claim>>,
               report' \in [Servers -> Offers \cup {None}], del' \in [Deleters -> Delete]
        PROVE  TypeOK'
    <2>1. ASSUME NEW s \in Servers
          PROVE  log[s] \o << Row("server_deleted", None, Claimed(s), FALSE) >> \in Seq(Event)
      <3>1. Row("server_deleted", None, Claimed(s), FALSE) \in Event
        BY RowType DEF Claimed
      <3>2. log[s] \in Seq(Event)
        BY DEF TypeOK
      <3> QED BY <3>1, <3>2, RowsType
    <2>2. log' \in [Servers -> Seq(Event)]
      BY <1>4, <2>1 DEF DeleteRows, TypeOK
    <2>3. /\ status' \in [Servers -> {"absent", "present", "deleted"}]
          /\ token' \in [Servers -> Tokens \cup {None}]
          /\ hash' \in [Servers -> Offers \cup {None}]
          /\ outcome' \in [Offers -> Outcome]
          /\ successor' \in [Offers -> Offers \cup {None}]
          /\ elapsed' \in SUBSET Offers
      BY <1>4 DEF DeleteRows, TypeOK
    <2> QED BY <1>4, <2>2, <2>3 DEF DeleteRows, TypeOK
  <1>5. CASE CommitDelete(d)
    <2>1. report' \in [Servers -> Offers \cup {None}] /\ del' \in [Deleters -> Delete]
      BY <1>0, <1>5 DEF CommitDelete, TypeOK
    <2> QED BY <1>4, <1>5, <2>1 DEF CommitDelete
  <1>6. CASE LandDelete(d)
    <2>1. report' \in [Servers -> Offers \cup {None}] /\ del' \in [Deleters -> Delete]
      BY <1>0, <1>6 DEF LandDelete, TypeOK
    <2>2. CASE UNCHANGED database
      BY <1>6, <2>1, <2>2 DEF LandDelete, TypeOK, database, tables
    <2> QED BY <1>4, <1>6, <2>1, <2>2 DEF LandDelete
  <1>7. CASE AbortDelete(d)
    BY <1>0, <1>7 DEF AbortDelete, TypeOK, database, tables
  <1>8. CASE DropAtCommitDelete(d)
    <2>1. [phase |-> "dropped", want |-> Doomed(d), held |-> {}] \in Delete
      BY <1>0 DEF Doomed, Delete
    <2> QED BY <1>8, <2>1 DEF DropAtCommitDelete, TypeOK, database, tables
  <1> QED BY <1>1, <1>2, <1>3, <1>5, <1>6, <1>7, <1>8 DEF DeleteNext

LEMMA TypeSocket ==
  ASSUME TypeOK, NEW c \in Sockets, SocketNext(c)
  PROVE  TypeOK'
  <1>0. /\ ClosedSock \in Sock
        /\ sock[c] \in Sock
        /\ sock[c].hash \in Offers \cup {None}
    BY DEF ClosedSock, Sock, TypeOK
  <1>1. ASSUME NEW t \in Tokens, Preflight(c, t)
        PROVE  TypeOK'
    <2>1. PICK s \in Servers :
            sock' = [sock EXCEPT ![c] =
                [pc |-> "pending", server |-> s, token |-> t, hash |-> None]]
      BY <1>1 DEF Preflight, Holders
    <2>2. [pc |-> "pending", server |-> s, token |-> t, hash |-> None] \in Sock
      BY DEF Sock
    <2> QED BY <1>1, <2>1, <2>2 DEF Preflight, TypeOK, database, tables
  <1>2. CASE Admit(c)
    <2>1. sock[c].server \in Servers
      BY <1>2 DEF Admit, Holders
    <2>2. sock' = [sock EXCEPT ![c] =
                [sock[c] EXCEPT !.pc = "live", !.hash = hash[sock[c].server]]]
      BY <1>2 DEF Admit, TypeOK, Sock
    <2>3. [sock[c] EXCEPT !.pc = "live", !.hash = hash[sock[c].server]] \in Sock
      BY <1>0, <2>1 DEF Sock, TypeOK
    <2>4. sock' \in [Sockets -> Sock] /\ conn' \in [Servers -> Sockets \cup {None}]
      <3>1. sock' \in [Sockets -> Sock]
        BY <2>2, <2>3 DEF TypeOK
      <3>2. conn' \in [Servers -> Sockets \cup {None}]
        BY <1>2 DEF Admit, TypeOK
      <3> QED BY <3>1, <3>2
    <2> QED BY <1>2, <2>4 DEF Admit, TypeOK, database, tables
  <1>3. CASE Refuse(c)
    BY <1>0, <1>3 DEF Refuse, TypeOK, database, tables
  <1>4. CASE HandleReport(c)
    BY <1>0, <1>4 DEF HandleReport, TypeOK, database, tables
  <1>5. CASE Close(c)
    <2>1. conn' \in [Servers -> Sockets \cup {None}]
      BY <1>5 DEF Close, Fence, TypeOK
    <2> QED BY <1>0, <1>5, <2>1 DEF Close, TypeOK, database, tables
  <1> QED BY <1>1, <1>2, <1>3, <1>4, <1>5 DEF SocketNext

LEMMA TypeRestart == TypeOK /\ Restart => TypeOK'
  <1>1. NoJob \in Job /\ ClosedSock \in Sock /\ NoClaim \in Claim /\ NoDelete \in Delete
    BY DEF NoJob, Job, ClosedSock, Sock, NoClaim, Claim, NoDelete, Delete
  <1> QED BY <1>1 DEF Restart, TypeOK, database, tables

LEMMA TypeNext ==
  ASSUME TypeOK, RowInv, JobInv, [Next]_vars
  PROVE  TypeOK'
  <1>1. ASSUME NEW s \in Servers, MarkOffline(s)
        PROVE  TypeOK'
    BY <1>1 DEF MarkOffline, Fence, TypeOK, database, tables
  <1>2. ASSUME NEW o \in Offers, Elapse(o)
        PROVE  TypeOK'
    BY <1>2 DEF Elapse, TypeOK, runtime
  <1>3. CASE UNCHANGED vars
    BY <1>3 DEF vars, TypeOK
  <1> QED
    BY <1>1, <1>2, <1>3, TypeOperator, TypeTransaction, TypeClaim, TypeDelete,
       TypeSocket, TypeRestart DEF Next

-----------------------------------------------------------------------------
(* Forms the steps share: a transition that starts, one that commits. *)

\* Lock acquired, decision taken on the Server's own open offer, and the fence
\* made wherever the transition fences before it commits.
StartsAs(s, op, o, out, t) ==
    /\ Writable(s)
    /\ status[s] = "present"
    /\ UNCHANGED <<database, sock, report, del>>
    /\ conn' = conn \/ Fence(s)
    /\ Start(s, op, o, out, t)
    /\ op # "idle"
    /\ o # None => outcome[o] = "open" /\ target[o] = s
    /\ o # None <=> out # None
    /\ op = "consume" => o # None
    /\ op \in {"consume", "emergency"} => Fence(s)

Starts(s) ==
    \E op \in Op, o \in Offers \cup {None}, out \in Terminal \cup {None},
       t \in Tokens \cup {None} : StartsAs(s, op, o, out, t)

LEMMA OperatorStarts ==
  ASSUME IInv, NEW s \in Servers, OperatorNext(s), ~Onboard(s)
  PROVE  Starts(s)
  <1> USE NoneAssumption
  <1>0. \A o \in ToExpire(s) :
            /\ o \in Offers \cup {None}
            /\ o # None => outcome[o] = "open" /\ target[o] = s
    BY DEF ToExpire, OpenOffers
  <1>1. CASE BeginIssue(s)
    <2>1. PICK o \in ToExpire(s) :
            Start(s, "issue", o, IF o = None THEN None ELSE "expired", None)
      BY <1>1 DEF BeginIssue, StartExpiring
    <2> DEFINE out == IF o = None THEN None ELSE "expired"
    <2>0. o \in Offers \cup {None} /\ (o # None => outcome[o] = "open" /\ target[o] = s)
      BY <1>0
    <2>2. StartsAs(s, "issue", o, out, None)
      BY <1>1, <2>0, <2>1 DEF BeginIssue, StartsAs
    <2>3. out \in Terminal \cup {None}
      OBVIOUS
    <2> HIDE DEF out
    <2> QED BY <2>0, <2>2, <2>3 DEF Starts
  <1>2. ASSUME NEW mode \in {"graceful", "emergency"}, BeginReenrollment(s, mode)
        PROVE  Starts(s)
    <2>1. PICK o \in ToExpire(s) :
            Start(s, mode, o, IF o = None THEN None ELSE "expired", None)
      BY <1>2 DEF BeginReenrollment, StartExpiring
    <2> DEFINE out == IF o = None THEN None ELSE "expired"
    <2>0. o \in Offers \cup {None} /\ (o # None => outcome[o] = "open" /\ target[o] = s)
      BY <1>0
    <2>2. StartsAs(s, mode, o, out, None)
      BY <1>2, <2>0, <2>1 DEF BeginReenrollment, StartsAs
    <2>3. out \in Terminal \cup {None}
      OBVIOUS
    <2> HIDE DEF out
    <2> QED BY <2>0, <2>2, <2>3 DEF Starts
  <1>3. ASSUME NEW o \in Offers, BeginReplace(s, o) \/ BeginRevokeOffer(s, o)
        PROVE  Starts(s)
    <2>1. outcome[o] = "open" /\ target[o] = s /\ status[s] = "present"
      BY <1>3 DEF BeginReplace, BeginRevokeOffer, OpenOffers, IInv, RowInv
    <2>2. \/ StartsAs(s, "expire", o, "expired", None)
          \/ StartsAs(s, "replace", o, "replaced", None)
          \/ StartsAs(s, "revoke_offer", o, "revoked", None)
      BY <1>3, <2>1 DEF BeginReplace, BeginRevokeOffer, StartsAs
    <2> QED BY <2>2 DEF Starts
  <1>4. CASE BeginRevokeAuthority(s)
    <2>1. CASE Start(s, "fence_again", None, None, None)
      <3>1. StartsAs(s, "fence_again", None, None, None)
        BY <1>4, <2>1 DEF BeginRevokeAuthority, StartsAs
      <3> QED BY <3>1 DEF Starts
    <2>2. ASSUME NEW o \in ToExpire(s), NEW out \in {"expired", "revoked", None},
                 o # None <=> out # None, Start(s, "revoke_authority", o, out, None)
          PROVE  Starts(s)
      <3>1. o \in Offers \cup {None} /\ (o # None => outcome[o] = "open" /\ target[o] = s)
        BY <1>0
      <3>2. StartsAs(s, "revoke_authority", o, out, None)
        BY <1>4, <2>2, <3>1 DEF BeginRevokeAuthority, StartsAs
      <3> QED BY <3>1, <3>2 DEF Starts
    <2> QED BY <1>4, <2>1, <2>2 DEF BeginRevokeAuthority
  <1> QED BY <1>1, <1>2, <1>3, <1>4 DEF OperatorNext

LEMMA ClaimStarts ==
  ASSUME IInv, NEW k \in Claims, ClaimExpired(k) \/ ClaimAccepted(k)
  PROVE  /\ target[claim[k].offer] \in Servers
         /\ Starts(target[claim[k].offer])
  <1> USE NoneAssumption
  <1>1. claim[k].offer \in Offers /\ claim[k].token \in Tokens \cup {None}
    BY DEF IInv, TypeOK, Claim, ClaimExpired, ClaimAccepted, ClaimHasLock
  <1>2. /\ target[claim[k].offer] \in Servers
        /\ status[target[claim[k].offer]] = "present"
    BY <1>1 DEF IInv, RowInv, ClaimExpired, ClaimAccepted
  <1>3. CASE ClaimExpired(k)
    <2>1. StartsAs(target[claim[k].offer], "expire", claim[k].offer, "expired", None)
      BY <1>1, <1>2, <1>3 DEF ClaimExpired, ClaimHasLock, StartsAs
    <2> QED BY <1>1, <1>2, <2>1 DEF Starts
  <1>4. CASE ClaimAccepted(k)
    <2>1. StartsAs(target[claim[k].offer], "consume", claim[k].offer, "consumed", claim[k].token)
      BY <1>1, <1>2, <1>4 DEF ClaimAccepted, ClaimHasLock, StartsAs
    <2> QED BY <1>1, <1>2, <2>1 DEF Starts
  <1> QED BY <1>2, <1>3, <1>4

\* What the commit of j for s may change: only the authority and the offers of
\* s, and the authority only in a transition that fences.
CommitForm(s, j) ==
    /\ j.op # "idle"
    /\ UNCHANGED status
    /\ \A r \in Servers \ {s} : hash'[r] = hash[r] /\ token'[r] = token[r]
    /\ \A o \in Offers : target[o] # s /\ outcome[o] # "unminted" =>
            outcome'[o] = outcome[o] /\ target'[o] = target[o]
    /\ \A o \in Offers : outcome'[o] = "open" =>
            target'[o] = s \/ (outcome[o] = "open" /\ target'[o] = target[o])
    /\ hash'[s] # hash[s] => j.op \in {"consume", "emergency", "revoke_authority"}

LEMMA DurableForm ==
  ASSUME TypeOK, NEW s \in Servers, NEW j \in Job, JobOk(s, j), Durable(s, j)
  PROVE  CommitForm(s, j)
  <1> USE NoneAssumption
  <1>0. /\ j.offer \in Offers \cup {None}
        /\ j.offer # None => target[j.offer] = s /\ j.outcome \in Terminal
        /\ outcome \in [Offers -> Outcome]
        /\ target \in [Offers -> Servers \cup {None}]
        /\ hash \in [Servers -> Offers \cup {None}]
        /\ token \in [Servers -> Tokens \cup {None}]
    BY DEF TypeOK, JobOk, Job
  <1>1. /\ Terminalized(j) \in [Offers -> Outcome]
        /\ \A o \in Offers : target[o] # s => Terminalized(j)[o] = outcome[o]
        /\ \A o \in Offers : Terminalized(j)[o] = "open" => outcome[o] = "open"
    BY <1>0 DEF Terminalized
  <1>2. j.op # "idle" /\ UNCHANGED status
    BY DEF Durable
  <1>3. CASE j.op \in {"expire", "revoke_offer"} /\ WriteOutcome(s, j)
    BY <1>0, <1>1, <1>2, <1>3 DEF WriteOutcome, CommitForm
  <1>4. CASE j.op = "issue" /\ WriteIssue(s, j)
    BY <1>0, <1>1, <1>2, <1>4 DEF WriteIssue, Fresh, CommitForm
  <1>5. CASE j.op \in {"graceful", "emergency"} /\ WriteReenrollment(s, j)
    BY <1>0, <1>1, <1>2, <1>5 DEF WriteReenrollment, Unauthorize, Fresh, CommitForm
  <1>6. CASE j.op = "replace" /\ WriteReplace(s, j)
    BY <1>0, <1>1, <1>2, <1>6 DEF WriteReplace, Fresh, CommitForm
  <1>7. CASE j.op = "consume" /\ WriteClaim(s, j)
    BY <1>0, <1>1, <1>2, <1>7 DEF WriteClaim, CommitForm
  <1>8. CASE j.op = "revoke_authority" /\ WriteRevokeAuthority(s, j)
    BY <1>0, <1>1, <1>2, <1>8 DEF WriteRevokeAuthority, Unauthorize, CommitForm
  <1>9. CASE j.op = "fence_again" /\ UNCHANGED <<token, hash, outcome, target, successor, log>>
    BY <1>0, <1>2, <1>9 DEF CommitForm
  <1> QED BY <1>3, <1>4, <1>5, <1>6, <1>7, <1>8, <1>9 DEF Durable

\* The transition that becomes durable in this step, if it is one of s.
Lands(s, j) ==
    /\ j \in Job /\ j # NoJob /\ JobOk(s, j)
    /\ CommitForm(s, j)
    /\ \/ j = job[s] /\ Commit(s)
       \/ j = adrift[s] /\ Land(s)

\* A transaction step either makes its transition durable or writes nothing.
LEMMA TransactionForms ==
  ASSUME IInv, NEW s \in Servers, TransactionNext(s)
  PROVE  /\ (\E j \in Job : Lands(s, j)) \/ UNCHANGED tables
         /\ \/ /\ job' = [job EXCEPT ![s] = NoJob]
               /\ \/ UNCHANGED adrift
                  \/ adrift' = [adrift EXCEPT ![s] = job[s]] /\ MayDropRequests
            \/ adrift' = [adrift EXCEPT ![s] = NoJob] /\ UNCHANGED job
         /\ UNCHANGED <<sock, del>>
         /\ UNCHANGED conn \/ Fence(s)
  <1>1. job[s] \in Job /\ adrift[s] \in Job /\ JobOk(s, job[s]) /\ JobOk(s, adrift[s])
    BY DEF IInv, TypeOK, JobInv
  <1>2. CASE Commit(s)
    <2>1. CommitForm(s, job[s])
      BY <1>1, <1>2, DurableForm DEF IInv, Commit
    <2>2. job[s] # NoJob
      BY <2>1 DEF CommitForm, NoJob
    <2>3. Lands(s, job[s])
      BY <1>1, <1>2, <2>1, <2>2 DEF Lands
    <2> QED BY <1>1, <1>2, <2>3 DEF Commit, Unlock
  <1>3. CASE Land(s)
    <2>1. CASE Durable(s, adrift[s])
      <3>1. CommitForm(s, adrift[s])
        BY <1>1, <2>1, DurableForm DEF IInv
      <3>2. Lands(s, adrift[s])
        BY <1>1, <1>3, <3>1 DEF Lands, Land
      <3> QED BY <1>1, <1>3, <3>2 DEF Land, runtime
    <2> QED BY <1>3, <2>1 DEF Land, runtime
  <1>4. CASE Abort(s)
    BY <1>4 DEF Abort, Unlock, database
  <1>5. CASE DropAtCommit(s)
    BY <1>5 DEF DropAtCommit, Unlock
  <1> QED BY <1>2, <1>3, <1>4, <1>5 DEF TransactionNext

\* A deletion removes rows that it has the locks of, or that no one may touch.
LEMMA DeleteForms ==
  ASSUME IInv, NEW d \in Deleters, DeleteNext(d)
  PROVE  /\ \/ UNCHANGED tables
            \/ /\ DeleteRows(d) /\ UNCHANGED conn
               /\ \/ del[d].phase = "fenced"
                  \/ del[d].phase = "dropped" /\ MayDropRequests
               /\ \A s \in Doomed(d) : job[s] = NoJob /\ adrift[s] = NoJob
         /\ UNCHANGED <<adrift, job, sock>>
         /\ UNCHANGED conn \/ FenceDoomed(d)
  <1>1. CASE CommitDelete(d)
    <2>1. \A s \in Doomed(d) : job[s] = NoJob /\ adrift[s] = NoJob
      BY <1>1 DEF IInv, LockInv, Doomed, CommitDelete
    <2> QED BY <1>1, <2>1 DEF CommitDelete, DeleteRows
  <1>2. CASE LandDelete(d)
    <2>1. \A s \in Doomed(d) : job[s] = NoJob /\ adrift[s] = NoJob
      BY <1>2 DEF IInv, LockInv, Doomed, LandDelete
    <2>2. MayDropRequests
      BY <1>2, DropAssumption DEF IInv, DropInv, LandDelete
    <2> QED BY <1>2, <2>1, <2>2 DEF LandDelete, DeleteRows, database
  <1> QED
    BY <1>1, <1>2
    DEF DeleteNext, BeginDelete, TakeLock, FenceDoomed, AbortDelete, DropAtCommitDelete, database

\* Every step has one of these forms.
LEMMA StepForms ==
  ASSUME IInv, [Next]_vars
  PROVE  \/ \E s \in Servers : Onboard(s)
         \/ \E s \in Servers : Starts(s)
         \/ \E k \in Claims : (\E o \in Offers, t \in Tokens : LookupClaim(k, o, t))
                              \/ ClaimRejected(k)
         \/ \E s \in Servers : TransactionNext(s)
         \/ \E d \in Deleters : DeleteNext(d)
         \/ \E c \in Sockets : SocketNext(c)
         \/ \E s \in Servers : MarkOffline(s)
         \/ \E o \in Offers : Elapse(o)
         \/ Restart
         \/ UNCHANGED vars
  <1>1. ASSUME NEW s \in Servers, OperatorNext(s)
        PROVE  Onboard(s) \/ Starts(s)
    BY <1>1, OperatorStarts
  <1>2. ASSUME NEW k \in Claims, ClaimNext(k)
        PROVE  \/ (\E o \in Offers, t \in Tokens : LookupClaim(k, o, t)) \/ ClaimRejected(k)
               \/ \E s \in Servers : Starts(s)
    BY <1>2, ClaimStarts DEF ClaimNext
  <1> QED BY <1>1, <1>2 DEF Next

-----------------------------------------------------------------------------
(* The lifecycle lock. *)

LEMMA LockNext ==
  ASSUME IInv, [Next]_vars
  PROVE  LockInv'
  <1>0. LockInv /\ TypeOK
    BY DEF IInv
  <1>h. \A d \in Deleters : del[d].held \in SUBSET Servers /\ del[d].want \in SUBSET Servers
    BY <1>0 DEF TypeOK, Delete
  <1>1. ASSUME NEW s \in Servers, Starts(s)
        PROVE  LockInv'
    <2>1. /\ \A r \in Servers \ {s} : job'[r] = job[r]
          /\ adrift[s] = NoJob
          /\ \A d \in Deleters : s \notin del[d].held
          /\ \A d \in Deleters : del[d].phase = "dropped" => s \notin del[d].want
          /\ UNCHANGED <<adrift, del>>
      BY <1>0, <1>1
      DEF Starts, StartsAs, Start, Writable, Reserved, Free, database, TypeOK
    <2> QED BY <1>0, <1>h, <2>1 DEF LockInv
  <1>2. ASSUME NEW s \in Servers, TransactionNext(s)
        PROVE  LockInv'
    <2>0. /\ job \in [Servers -> Job] /\ adrift \in [Servers -> Job]
          /\ \/ /\ job' = [job EXCEPT ![s] = NoJob]
                /\ adrift' = adrift \/ adrift' = [adrift EXCEPT ![s] = job[s]]
             \/ adrift' = [adrift EXCEPT ![s] = NoJob] /\ job' = job
      <3>1. job \in [Servers -> Job] /\ adrift \in [Servers -> Job]
        BY <1>0 DEF TypeOK
      <3> QED BY <1>2, <3>1, TransactionForms
    <2>1. \A r \in Servers \ {s} : job'[r] = job[r] /\ adrift'[r] = adrift[r]
      BY <2>0
    <2>2. \/ job'[s] = NoJob /\ (adrift'[s] = adrift[s] \/ adrift'[s] = job[s])
          \/ job'[s] = job[s] /\ adrift'[s] = NoJob
      BY <2>0
    <2>3. UNCHANGED del
      BY <1>2, TransactionForms
    <2> QED BY <1>0, <1>h, <2>1, <2>2, <2>3 DEF LockInv
  <1>3. ASSUME NEW d \in Deleters, DeleteNext(d)
        PROVE  LockInv'
    <2>0. UNCHANGED <<job, adrift>>
      BY <1>3, DeleteForms
    <2>1. ASSUME NEW ids \in SUBSET Servers, BeginDelete(d, ids)
          PROVE  LockInv'
      BY <1>0, <2>0, <2>1 DEF BeginDelete, LockInv, TypeOK
    <2>2. CASE TakeLock(d)
      <3>1. PICK s \in del[d].want :
              /\ Free(s)
              /\ del' = [del EXCEPT ![d].want = @ \ {s}, ![d].held = @ \cup {s}]
        BY <2>2 DEF TakeLock
      <3>2. /\ del'[d].held = del[d].held \cup {s}
            /\ del'[d].phase = "locking"
            /\ \A e \in Deleters \ {d} : del'[e] = del[e]
        BY <1>0, <2>2, <3>1 DEF TakeLock, TypeOK, Delete
      <3>3. job[s] = NoJob /\ \A e \in Deleters : s \notin del[e].held
        BY <3>1 DEF Free
      <3>4. \A e \in Deleters : \A r \in del'[e].held : job'[r] = NoJob
        BY <1>0, <2>0, <3>2, <3>3 DEF LockInv
      <3>5. ASSUME NEW e \in Deleters, NEW f \in Deleters,
                   NEW r \in del'[e].held, r \in del'[f].held
            PROVE  e = f
        BY <1>0, <3>2, <3>3, <3>5 DEF LockInv
      <3>6. \A s2 \in Servers : adrift'[s2] # NoJob => job'[s2] = NoJob
        BY <1>0, <2>0 DEF LockInv
      <3>7. \A e \in Deleters : del'[e].phase # "locking" => del'[e] = del[e]
        BY <3>2
      <3>8. /\ \A e \in Deleters : del'[e].phase = "fenced" =>
                  \A r \in del'[e].held : adrift'[r] = NoJob
            /\ \A e \in Deleters : del'[e].phase = "dropped" =>
                  \A r \in del'[e].want : adrift'[r] = NoJob /\ job'[r] = NoJob
        BY <1>0, <2>0, <3>7 DEF LockInv
      <3> QED BY <3>4, <3>5, <3>6, <3>8 DEF LockInv
    <2>3. CASE FenceDoomed(d)
      <3>1. /\ \A e \in Deleters : del'[e].held = del[e].held
            /\ \A e \in Deleters : del'[e].want = del[e].want
            /\ \A e \in Deleters \ {d} : del'[e].phase = del[e].phase
            /\ del'[d].phase = "fenced"
            /\ \A s \in del[d].held : adrift[s] = NoJob
        BY <1>0, <2>3 DEF FenceDoomed, Reserved, TypeOK, Delete
      <3> QED BY <1>0, <2>0, <3>1 DEF LockInv
    <2>4. CASE del' = [del EXCEPT ![d] = NoDelete]
      BY <1>0, <2>0, <2>4 DEF NoDelete, LockInv, TypeOK
    <2>5. CASE DropAtCommitDelete(d)
      <3>1. /\ \A e \in Deleters \ {d} : del'[e] = del[e]
            /\ del'[d].phase = "dropped" /\ del'[d].held = {}
            /\ del'[d].want \subseteq del[d].held
            /\ del[d].phase = "fenced"
        BY <1>0, <2>5 DEF DropAtCommitDelete, Doomed, TypeOK
      <3> QED BY <1>0, <2>0, <3>1 DEF LockInv
    <2> QED
      BY <1>3, <2>1, <2>2, <2>3, <2>4, <2>5 DEF DeleteNext, CommitDelete, LandDelete, AbortDelete
  <1>4. CASE Restart
    BY <1>0, <1>4 DEF Restart, LockInv, NoJob, NoDelete
  <1>5. CASE UNCHANGED <<job, adrift, del>>
    BY <1>0, <1>5 DEF LockInv
  <1> QED
    BY <1>1, <1>2, <1>3, <1>4, <1>5, StepForms
    DEF Onboard, LookupClaim, ClaimRejected, SocketNext, Preflight, Admit, Refuse,
        HandleReport, Close, MarkOffline, Elapse, vars, runtime, database

\* A deletion step concerns its own delete_servers call.
LEMMA DeleteOwn ==
  ASSUME TypeOK, NEW d \in Deleters, NEW e \in Deleters \ {d}, DeleteNext(d)
  PROVE  del'[e] = del[e]
  <1>1. CASE TakeLock(d)
    BY <1>1 DEF TakeLock, TypeOK
  <1>2. ASSUME NEW ids \in SUBSET Servers, BeginDelete(d, ids)
        PROVE  del'[e] = del[e]
    BY <1>2 DEF BeginDelete, TypeOK
  <1>3. CASE FenceDoomed(d)
    BY <1>3 DEF FenceDoomed, TypeOK
  <1>4. CASE DropAtCommitDelete(d)
    BY <1>4 DEF DropAtCommitDelete, TypeOK
  <1>5. CASE del' = [del EXCEPT ![d] = NoDelete]
    BY <1>5 DEF TypeOK
  <1> QED
    BY <1>1, <1>2, <1>3, <1>4, <1>5 DEF DeleteNext, CommitDelete, AbortDelete, LandDelete

LEMMA StillLocking ==
  ASSUME TypeOK, NEW d \in Deleters, TakeLock(d)
  PROVE  del'[d].phase = "locking"
  <1>1. PICK s \in del[d].want :
          del' = [del EXCEPT ![d].want = @ \ {s}, ![d].held = @ \cup {s}]
    BY DEF TakeLock
  <1> QED BY <1>1 DEF TakeLock, TypeOK, Delete

LEMMA DropNext ==
  ASSUME IInv, [Next]_vars
  PROVE  DropInv'
  <1> SUFFICES ASSUME ~MayDropRequests
               PROVE  /\ \A s \in Servers : adrift'[s] = NoJob
                      /\ \A d \in Deleters : del'[d].phase # "dropped"
    BY DEF DropInv
  <1>0. /\ \A s \in Servers : adrift[s] = NoJob
        /\ \A d \in Deleters : del[d].phase # "dropped"
        /\ TypeOK
    BY DEF IInv, DropInv
  <1>1. ASSUME NEW s \in Servers, TransactionNext(s)
        PROVE  UNCHANGED del /\ \A r \in Servers : adrift'[r] = NoJob
    BY <1>0, <1>1, TransactionForms DEF TypeOK
  <1>2. ASSUME NEW d \in Deleters, DeleteNext(d)
        PROVE  UNCHANGED adrift /\ \A e \in Deleters : del'[e].phase # "dropped"
    <2>1. UNCHANGED adrift
      BY <1>2, DeleteForms
    <2>2. \A e \in Deleters \ {d} : del'[e] = del[e]
      BY <1>0, <1>2, DeleteOwn
    <2>3. CASE del' = [del EXCEPT ![d] = NoDelete]
      BY <1>0, <2>1, <2>3 DEF NoDelete, TypeOK
    <2>4. CASE TakeLock(d) \/ FenceDoomed(d)
      <3>1. del'[d].phase # "dropped"
        BY <1>0, <2>4, StillLocking DEF FenceDoomed, TypeOK, Delete
      <3> QED BY <1>0, <2>1, <2>2, <3>1
    <2>5. ASSUME NEW ids \in SUBSET Servers, BeginDelete(d, ids)
          PROVE  \A e \in Deleters : del'[e].phase # "dropped"
      BY <1>0, <2>2, <2>5 DEF BeginDelete, TypeOK
    <2> QED
      BY <1>0, <1>2, <2>1, <2>2, <2>3, <2>4, <2>5
      DEF DeleteNext, CommitDelete, AbortDelete, DropAtCommitDelete, LandDelete, NoDelete, TypeOK
  <1>3. CASE Restart
    BY <1>3 DEF Restart, NoDelete
  <1>4. CASE UNCHANGED <<adrift, del>>
    BY <1>0, <1>4
  <1>5. ASSUME NEW c \in Sockets, SocketNext(c)
        PROVE  UNCHANGED <<adrift, del>>
    BY <1>5 DEF SocketNext, Preflight, Admit, Refuse, HandleReport, Close, database
  <1>6. ASSUME NEW s \in Servers, Starts(s)
        PROVE  UNCHANGED <<adrift, del>>
    BY <1>6 DEF Starts, StartsAs, database
  <1> QED
    BY <1>0, <1>1, <1>2, <1>3, <1>4, <1>5, <1>6, StepForms
    DEF Onboard, LookupClaim, ClaimRejected, MarkOffline, Elapse, vars, runtime, database

-----------------------------------------------------------------------------
(* Rows. *)

LEMMA RowNext ==
  ASSUME IInv, [Next]_vars
  PROVE  RowInv'
  <1> USE NoneAssumption
  <1>0. RowInv /\ LockInv /\ TypeOK
    BY DEF IInv
  <1>1. ASSUME NEW s \in Servers, Onboard(s)
        PROVE  RowInv'
    <2>1. PICK n \in Offers : /\ outcome' = [outcome EXCEPT ![n] = "open"]
                              /\ target' = [target EXCEPT ![n] = s]
      BY <1>1 DEF Onboard, Fresh
    <2> QED BY <1>0, <1>1, <2>1 DEF Onboard, Claimed, RowInv, TypeOK, runtime
  <1>2. ASSUME NEW s \in Servers, Starts(s)
        PROVE  RowInv'
    BY <1>0, <1>2 DEF Starts, StartsAs, Start, RowInv, Claimed, TypeOK, database, tables
  <1>3. ASSUME NEW s \in Servers, TransactionNext(s)
        PROVE  RowInv'
    <2>0. \/ /\ job' = [job EXCEPT ![s] = NoJob]
             /\ adrift' = adrift \/ adrift' = [adrift EXCEPT ![s] = job[s]]
          \/ adrift' = [adrift EXCEPT ![s] = NoJob] /\ job' = job
      BY <1>3, TransactionForms
    <2>1. \A r \in Servers :
            job'[r] # NoJob \/ adrift'[r] # NoJob => job[r] # NoJob \/ adrift[r] # NoJob
      BY <1>0, <2>0 DEF TypeOK
    <2>2. ASSUME NEW j \in Job, Lands(s, j)
          PROVE  RowInv'
      <3>1. CommitForm(s, j) /\ (job[s] # NoJob \/ adrift[s] # NoJob)
        BY <2>2 DEF Lands
      <3>2. status[s] = "present" /\ UNCHANGED status
        BY <1>0, <3>1 DEF CommitForm, RowInv
      <3>3. \A r \in Servers : Claimed(r)' => status'[r] = "present"
        BY <1>0, <3>1, <3>2 DEF CommitForm, RowInv, Claimed
      <3>4. \A r \in Servers : job'[r] # NoJob \/ adrift'[r] # NoJob => status'[r] = "present"
        BY <1>0, <2>1, <3>2 DEF RowInv
      <3>5. \A o \in Offers : outcome'[o] = "open" =>
              target'[o] \in Servers /\ status'[target'[o]] = "present"
        BY <1>0, <3>1, <3>2 DEF CommitForm, RowInv
      <3> QED BY <3>3, <3>4, <3>5 DEF RowInv
    <2>3. CASE UNCHANGED tables
      BY <1>0, <2>1, <2>3 DEF RowInv, Claimed, tables
    <2> QED BY <1>3, <2>2, <2>3, TransactionForms
  <1>4. ASSUME NEW d \in Deleters, DeleteRows(d), UNCHANGED job,
               \A s \in Doomed(d) : job[s] = NoJob /\ adrift[s] = NoJob
        PROVE  RowInv'
    <2>1. Doomed(d) \subseteq Servers
      BY <1>0 DEF Doomed, TypeOK, Delete
    <2> QED BY <1>0, <1>4, <2>1 DEF DeleteRows, Claimed, RowInv, TypeOK
  <1>5. CASE Restart
    BY <1>0, <1>5 DEF Restart, RowInv, Claimed, tables
  <1>6. CASE UNCHANGED <<status, hash, outcome, target, job, adrift>>
    BY <1>0, <1>6 DEF RowInv, Claimed
  <1>7. ASSUME NEW d \in Deleters, DeleteNext(d)
        PROVE  RowInv'
    BY <1>4, <1>6, <1>7, DeleteForms DEF tables
  <1> QED
    BY <1>1, <1>2, <1>3, <1>5, <1>6, <1>7, StepForms
    DEF LookupClaim, ClaimRejected, SocketNext, Preflight, Admit,
        Refuse, HandleReport, Close, MarkOffline, Elapse, vars, runtime, database, tables

-----------------------------------------------------------------------------
(* The offer a transition works on stays the open offer it read. *)

LEMMA JobNext ==
  ASSUME IInv, [Next]_vars
  PROVE  JobInv'
  <1> USE NoneAssumption
  <1>0. JobInv /\ LockInv /\ TypeOK
    BY DEF IInv
  <1>j. \A r \in Servers : /\ job[r].offer \in Offers \cup {None}
                           /\ adrift[r].offer \in Offers \cup {None}
    BY <1>0 DEF TypeOK, Job
  <1>n. NoJob.offer = None /\ NoJob.outcome = None /\ NoJob.op = "idle"
    BY DEF NoJob
  <1>1. ASSUME NEW s \in Servers, Onboard(s)
        PROVE  JobInv'
    <2>1. PICK n \in Offers : /\ outcome[n] = "unminted"
                              /\ outcome' = [outcome EXCEPT ![n] = "open"]
                              /\ target' = [target EXCEPT ![n] = s]
      BY <1>1 DEF Onboard, Fresh
    <2>2. UNCHANGED <<job, adrift>>
      BY <1>1 DEF Onboard, runtime
    <2> QED BY <1>0, <1>j, <2>1, <2>2 DEF JobInv, JobOk, TypeOK
  <1>2. ASSUME NEW s \in Servers, Starts(s)
        PROVE  JobInv'
    <2>1. PICK op \in Op, o \in Offers \cup {None}, out \in Terminal \cup {None},
               t \in Tokens \cup {None} : StartsAs(s, op, o, out, t)
      BY <1>2 DEF Starts
    <2>2. /\ job'[s] = [op |-> op, offer |-> o, outcome |-> out, token |-> t]
          /\ \A r \in Servers \ {s} : job'[r] = job[r]
      BY <1>0, <2>1 DEF StartsAs, Start, TypeOK
    <2>3. UNCHANGED <<outcome, target, adrift>>
      BY <2>1 DEF StartsAs, database, tables
    <2>4. JobOk(s, job[s]') /\ \A r \in Servers \ {s} : JobOk(r, job[r])'
      BY <1>0, <2>1, <2>2, <2>3 DEF StartsAs, JobInv, JobOk
    <2>5. \A r \in Servers : JobOk(r, adrift[r])'
      BY <1>0, <2>3 DEF JobInv, JobOk
    <2> QED BY <2>1, <2>2, <2>3, <2>4, <2>5 DEF JobInv, JobOk, StartsAs
  <1>3. ASSUME NEW s \in Servers, TransactionNext(s)
        PROVE  JobInv'
    <2>0. \/ /\ job' = [job EXCEPT ![s] = NoJob]
             /\ adrift' = adrift \/ adrift' = [adrift EXCEPT ![s] = job[s]]
          \/ adrift' = [adrift EXCEPT ![s] = NoJob] /\ job' = job
      BY <1>3, TransactionForms
    <2>1. \A r \in Servers \ {s} : job'[r] = job[r] /\ adrift'[r] = adrift[r]
      BY <1>0, <2>0 DEF TypeOK
    <2>2. \A o \in Offers : target[o] # s /\ outcome[o] = "open" =>
            outcome'[o] = outcome[o] /\ target'[o] = target[o]
      <3>1. ASSUME NEW j \in Job, Lands(s, j)
            PROVE  \A o \in Offers : target[o] # s /\ outcome[o] = "open" =>
                     outcome'[o] = outcome[o] /\ target'[o] = target[o]
        BY <3>1 DEF Lands, CommitForm
      <3>2. CASE UNCHANGED tables
        BY <3>2 DEF tables
      <3> QED BY <1>3, <3>1, <3>2, TransactionForms
    <2>3. \A r \in Servers \ {s} : JobOk(r, job[r])' /\ JobOk(r, adrift[r])'
      BY <1>0, <1>j, <2>1, <2>2 DEF JobInv, JobOk
    <2>4. JobOk(s, job[s])' /\ JobOk(s, adrift[s])'
      <3>1. CASE Commit(s) \/ Land(s)
        <4>1. job'[s] = NoJob /\ adrift'[s] = NoJob
          <5>1. CASE Commit(s)
            <6>1. job[s] # NoJob
              BY <5>1 DEF Commit, Durable, NoJob
            <6> QED BY <1>0, <5>1, <6>1 DEF Commit, Unlock, LockInv, TypeOK
          <5>2. CASE Land(s)
            BY <1>0, <5>2 DEF Land, runtime, LockInv, TypeOK
          <5> QED BY <3>1, <5>1, <5>2
        <4> QED BY <1>n, <4>1 DEF JobOk
      <3>2. CASE Abort(s) \/ DropAtCommit(s)
        <4>1. /\ UNCHANGED <<outcome, target>>
              /\ job'[s] = NoJob
              /\ adrift'[s] = adrift[s] \/ adrift'[s] = job[s]
          BY <1>0, <3>2 DEF Abort, DropAtCommit, Unlock, TypeOK, database, tables
        <4> QED BY <1>0, <1>n, <4>1 DEF JobInv, JobOk
      <3> QED BY <1>3, <3>1, <3>2 DEF TransactionNext
    <2> QED BY <2>3, <2>4 DEF JobInv
  <1>4. ASSUME NEW d \in Deleters, DeleteRows(d), UNCHANGED job,
               \A s \in Doomed(d) : job[s] = NoJob /\ adrift[s] = NoJob
        PROVE  JobInv'
    <2>1. \A s \in Doomed(d) : job[s].offer = None /\ adrift[s].offer = None
      BY <1>4, <1>n
    <2>2. UNCHANGED <<job, adrift, target>>
      BY <1>4 DEF DeleteRows
    <2>3. \A o \in Offers : target[o] \notin Doomed(d) => outcome'[o] = outcome[o]
      BY <1>4 DEF DeleteRows
    <2> QED BY <1>0, <1>j, <2>1, <2>2, <2>3 DEF JobInv, JobOk
  <1>5. CASE Restart
    BY <1>n, <1>5 DEF Restart, JobInv, JobOk
  <1>6. CASE UNCHANGED <<outcome, target, job, adrift>>
    BY <1>0, <1>6 DEF JobInv, JobOk
  <1>7. ASSUME NEW d \in Deleters, DeleteNext(d)
        PROVE  JobInv'
    BY <1>4, <1>6, <1>7, DeleteForms DEF tables
  <1> QED
    BY <1>1, <1>2, <1>3, <1>5, <1>6, <1>7, StepForms
    DEF LookupClaim, ClaimRejected, SocketNext, Preflight, Admit, Refuse, HandleReport,
        Close, MarkOffline, Elapse, vars, runtime, database, tables

-----------------------------------------------------------------------------
(* Fences. *)

\* A connection appears only through Admit, under a free lock.
LEMMA ConnAppears ==
  ASSUME IInv, [Next]_vars, NEW s \in Servers, conn'[s] # conn[s], conn'[s] # None
  PROVE  \E c \in Sockets : Admit(c) /\ sock[c].server = s
  <1> USE NoneAssumption
  <1>0. TypeOK
    BY DEF IInv
  <1>1. ~UNCHANGED conn /\ \A r \in Servers : ~Fence(r)
    BY <1>0 DEF Fence, TypeOK
  <1>2. ~\E d \in Deleters : DeleteNext(d)
    BY <1>1, DeleteForms DEF FenceDoomed
  <1>3. ~Restart
    BY DEF Restart
  <1>4. ~\E r \in Servers : Starts(r) \/ TransactionNext(r) \/ MarkOffline(r) \/ Onboard(r)
    <2>1. ASSUME NEW r \in Servers PROVE ~Starts(r)
      BY <1>1 DEF Starts, StartsAs
    <2>2. ASSUME NEW r \in Servers PROVE ~TransactionNext(r)
      BY <1>1, TransactionForms
    <2>3. ASSUME NEW r \in Servers PROVE ~MarkOffline(r) /\ ~Onboard(r)
      BY <1>1 DEF MarkOffline, Onboard, runtime
    <2> QED BY <2>1, <2>2, <2>3
  <1>5. ~\E c \in Sockets : Close(c) /\ ~Current(c)
    BY <1>1 DEF Close
  <1>6. ASSUME NEW c \in Sockets, Close(c)
        PROVE  sock[c].server \in Servers
    <2>1. sock[c].server \in Servers \cup {None}
      BY <1>0 DEF TypeOK, Sock
    <2>2. CASE sock[c].server = None
      <3>1. conn' = conn
        BY <1>0, <1>5, <1>6, <2>2 DEF Close, Fence, TypeOK
      <3> QED BY <1>1, <3>1
    <2> QED BY <2>1, <2>2
  <1>7. ~\E c \in Sockets : Close(c)
    BY <1>1, <1>6 DEF Close
  <1>8. PICK c \in Sockets : Admit(c)
    BY <1>1, <1>2, <1>3, <1>4, <1>7, StepForms
    DEF LookupClaim, ClaimRejected, SocketNext, Preflight, Refuse, HandleReport, Elapse,
        vars, runtime
  <1> QED BY <1>0, <1>8 DEF Admit, TypeOK

\* While a lock is held, the connection of its Server can only go.
LEMMA HeldConn ==
  ASSUME IInv, [Next]_vars, NEW s \in Servers, ~Free(s), conn[s] = None
  PROVE  conn'[s] = None
  <1> SUFFICES ASSUME conn'[s] # None PROVE FALSE
    OBVIOUS
  <1>1. PICK c \in Sockets : Admit(c) /\ sock[c].server = s
    BY ConnAppears
  <1>2. Free(s)
    BY <1>1 DEF Admit
  <1> QED BY <1>2

LEMMA FenceNext ==
  ASSUME IInv, [Next]_vars
  PROVE  FenceInv'
  <1> USE NoneAssumption
  <1>0. FenceInv /\ TypeOK /\ LockInv /\ ConnInv
    BY DEF IInv
  <1>1. ASSUME NEW s \in Servers, job'[s].op \in {"consume", "emergency"}
        PROVE  conn'[s] = None
    <2>1. CASE job'[s] = job[s]
      <3>1. conn[s] = None /\ ~Free(s)
        BY <1>0, <1>1, <2>1 DEF FenceInv, Free, NoJob
      <3> QED BY <3>1, HeldConn
    <2>2. CASE job'[s] # job[s]
      <3>1. ASSUME NEW r \in Servers, Starts(r)
            PROVE  conn'[s] = None
        <4>1. PICK op \in Op, o \in Offers \cup {None}, out \in Terminal \cup {None},
                   t \in Tokens \cup {None} : StartsAs(r, op, o, out, t)
          BY <3>1 DEF Starts
        <4>2. r = s /\ op = job'[s].op
          BY <1>0, <2>2, <4>1 DEF StartsAs, Start, TypeOK
        <4> QED BY <1>0, <1>1, <4>1, <4>2 DEF StartsAs, Fence, TypeOK
      <3>2. ASSUME NEW r \in Servers, TransactionNext(r)
            PROVE  FALSE
        <4>1. job' = [job EXCEPT ![r] = NoJob] \/ UNCHANGED job
          BY <3>2, TransactionForms
        <4> QED BY <1>0, <1>1, <2>2, <4>1 DEF NoJob, TypeOK
      <3>3. ~Restart
        BY <1>1 DEF Restart, NoJob
      <3>4. ASSUME NEW d \in Deleters, DeleteNext(d)
            PROVE  FALSE
        BY <2>2, <3>4, DeleteForms
      <3> QED
        BY <2>2, <3>1, <3>2, <3>3, <3>4, StepForms
        DEF Onboard, LookupClaim, ClaimRejected, SocketNext, Preflight, Admit, Refuse,
            HandleReport, Close, MarkOffline, Elapse, vars, runtime
    <2> QED BY <2>1, <2>2
  <1>2. ASSUME NEW d \in Deleters, del'[d].phase = "fenced", NEW s \in Doomed(d)'
        PROVE  conn'[s] = None
    <2>1. s \in Servers /\ s \in del'[d].held /\ status'[s] = "present"
      <3>1. TypeOK'
        BY TypeNext DEF IInv
      <3> QED BY <1>2, <3>1 DEF Doomed, TypeOK, Delete
    <2>2. CASE FenceDoomed(d)
      <3>1. s \in Doomed(d)
        BY <1>0, <2>1, <2>2 DEF FenceDoomed, Doomed, TypeOK, Delete, database, tables
      <3> QED BY <2>1, <2>2, <3>1 DEF FenceDoomed
    <2>3. CASE ~FenceDoomed(d)
      <3>1. del'[d] = del[d]
        <4>1. ASSUME NEW e \in Deleters, DeleteNext(e)
              PROVE  del'[d] = del[d]
          <5>1. CASE e # d
            BY <1>0, <4>1, <5>1, DeleteOwn
          <5>2. CASE e = d
            <6>1. ~TakeLock(d)
              BY <1>0, <1>2, StillLocking
            <6>2. \A ids \in SUBSET Servers : ~BeginDelete(d, ids)
              BY <1>0, <1>2 DEF BeginDelete, TypeOK
            <6>3. ~DropAtCommitDelete(d)
              BY <1>0, <1>2 DEF DropAtCommitDelete, TypeOK
            <6>4. ~(del' = [del EXCEPT ![d] = NoDelete])
              BY <1>0, <1>2 DEF NoDelete, TypeOK
            <6> QED
              BY <2>3, <4>1, <5>2, <6>1, <6>2, <6>3, <6>4
              DEF DeleteNext, CommitDelete, AbortDelete, LandDelete
          <5> QED BY <5>1, <5>2
        <4>2. ASSUME NEW r \in Servers, TransactionNext(r)
              PROVE  del'[d] = del[d]
          BY <4>2, TransactionForms
        <4>3. ~Restart
          BY <1>2 DEF Restart, NoDelete
        <4> QED
          BY <4>1, <4>2, <4>3, StepForms
          DEF Onboard, Starts, StartsAs, LookupClaim, ClaimRejected, SocketNext, Preflight,
              Admit, Refuse, HandleReport, Close, MarkOffline, Elapse, vars, runtime
      <3>2. del[d].phase = "fenced" /\ s \in del[d].held /\ ~Free(s)
        BY <1>2, <2>1, <3>1 DEF Free
      <3>3. CASE status[s] = "present"
        <4>1. conn[s] = None
          BY <1>0, <3>2, <3>3 DEF FenceInv, Doomed
        <4> QED BY <2>1, <3>2, <4>1, HeldConn
      <3>4. CASE status[s] # "present"
        <4>1. Onboard(s)
          <5>1. ~UNCHANGED status
            BY <2>1, <3>4
          <5>2. ASSUME NEW e \in Deleters, DeleteNext(e)
                PROVE  FALSE
            <6>1. CASE UNCHANGED tables
              BY <5>1, <6>1 DEF tables
            <6>2. CASE DeleteRows(e)
              BY <1>0, <2>1, <3>4, <6>2 DEF DeleteRows, TypeOK
            <6> QED BY <5>2, <6>1, <6>2, DeleteForms
          <5>3. ASSUME NEW r \in Servers, TransactionNext(r)
                PROVE  FALSE
            BY <5>1, <5>3, TransactionForms DEF Lands, CommitForm, tables
          <5>4. PICK r \in Servers : Onboard(r)
            BY <5>1, <5>2, <5>3, StepForms
            DEF Starts, StartsAs, LookupClaim, ClaimRejected, SocketNext, Preflight, Admit,
                Refuse, HandleReport, Close, MarkOffline, Elapse, Restart, vars, database, tables
          <5>5. status' = [status EXCEPT ![r] = "present"]
            BY <5>4 DEF Onboard
          <5>6. r = s
            BY <1>0, <2>1, <3>4, <5>5 DEF TypeOK
          <5> QED BY <5>4, <5>6
        <4>2. UNCHANGED conn /\ conn[s] = None
          BY <1>0, <4>1, <2>1 DEF Onboard, runtime, ConnInv
        <4> QED BY <4>2
      <3> QED BY <3>3, <3>4
    <2> QED BY <2>2, <2>3
  <1> QED BY <1>1, <1>2 DEF FenceInv

LEMMA ConnNext ==
  ASSUME IInv, [Next]_vars
  PROVE  ConnInv'
  <1> USE NoneAssumption
  <1>0. ConnInv /\ FenceInv /\ LockInv /\ DropInv /\ TypeOK
    BY DEF IInv
  <1> SUFFICES ASSUME NEW s \in Servers, conn'[s] # None
               PROVE  /\ sock'[conn'[s]].pc = "live"
                      /\ sock'[conn'[s]].server = s
                      /\ status'[s] # "absent"
                      /\ ~MayDropRequests => /\ status'[s] = "present"
                                             /\ hash'[s] # None
                                             /\ sock'[conn'[s]].hash = hash'[s]
    BY DEF ConnInv, Claimed
  <1>1. CASE conn'[s] # conn[s]
    <2>1. PICK c \in Sockets : Admit(c) /\ sock[c].server = s
      BY <1>1, ConnAppears
    <2>2. /\ conn'[s] = c
          /\ sock'[c].pc = "live" /\ sock'[c].server = s /\ sock'[c].hash = hash[s]
      BY <1>0, <2>1 DEF Admit, TypeOK, Sock
    <2>3. hash[s] # None /\ status[s] = "present" /\ UNCHANGED <<hash, status>>
      BY <2>1 DEF Admit, Holders, Claimed, database, tables
    <2> QED BY <2>2, <2>3
  <1>2. CASE conn'[s] = conn[s]
    <2>0. /\ conn[s] \in Sockets
          /\ sock[conn[s]].pc = "live"
          /\ sock[conn[s]].server = s
          /\ status[s] # "absent"
          /\ ~MayDropRequests => /\ status[s] = "present"
                                 /\ hash[s] # None
                                 /\ sock[conn[s]].hash = hash[s]
      BY <1>0, <1>2 DEF ConnInv, Claimed, TypeOK
    <2>1. sock'[conn[s]] = sock[conn[s]]
      <3>1. ASSUME NEW c \in Sockets, SocketNext(c)
            PROVE  sock'[conn[s]] = sock[conn[s]]
        <4>1. CASE c # conn[s]
          <5>1. \/ sock' = sock
                \/ \E new \in Sock : sock' = [sock EXCEPT ![c] = new]
            <6>1. UNCHANGED sock \/ sock'= [sock EXCEPT ![c] = sock'[c]]
              BY <1>0, <3>1
              DEF SocketNext, Preflight, Admit, Refuse, HandleReport, Close, TypeOK
            <6>2. sock' \in [Sockets -> Sock]
              BY TypeNext DEF IInv, TypeOK
            <6> QED BY <6>1, <6>2
          <5> QED BY <1>0, <2>0, <4>1, <5>1 DEF TypeOK
        <4>2. CASE c = conn[s]
          <5>1. CASE Close(c)
            <6>1. Current(c) /\ sock[c].server = s
              BY <2>0, <4>2 DEF Current
            <6>2. Fence(s)
              BY <5>1, <6>1 DEF Close
            <6> QED BY <1>0, <6>2 DEF Fence, TypeOK
          <5>2. CASE HandleReport(c)
            BY <5>2 DEF HandleReport
          <5>3. ~Admit(c) /\ ~Refuse(c) /\ \A t \in Tokens : ~Preflight(c, t)
            BY <2>0, <4>2 DEF Preflight, Admit, Refuse, ClosedSock
          <5> QED BY <3>1, <5>1, <5>2, <5>3 DEF SocketNext
        <4> QED BY <4>1, <4>2
      <3>2. ~Restart
        BY DEF Restart
      <3>3. ASSUME NEW r \in Servers, TransactionNext(r)
            PROVE  UNCHANGED sock
        BY <3>3, TransactionForms
      <3>4. ASSUME NEW d \in Deleters, DeleteNext(d)
            PROVE  UNCHANGED sock
        BY <3>4, DeleteForms
      <3> QED
        BY <3>1, <3>2, <3>3, <3>4, StepForms
        DEF Onboard, Starts, StartsAs, LookupClaim, ClaimRejected, MarkOffline, Elapse,
            vars, runtime
    <2>2. /\ status'[s] # "absent"
          /\ ~MayDropRequests => status'[s] = "present" /\ hash'[s] = hash[s]
      <3>1. ASSUME NEW r \in Servers, NEW j \in Job, Lands(r, j)
            PROVE  /\ status' = status
                   /\ ~MayDropRequests => hash'[s] = hash[s]
        <4>1. CommitForm(r, j)
          BY <3>1 DEF Lands
        <4>2. ASSUME r = s, hash'[s] # hash[s], ~MayDropRequests
              PROVE  FALSE
          <5>1. j = job[s] /\ Commit(s)
            BY <1>0, <3>1, <4>2 DEF Lands, DropInv
          <5>2. j.op \in {"consume", "emergency", "revoke_authority"}
            BY <4>1, <4>2 DEF CommitForm
          <5>3. CASE j.op \in {"consume", "emergency"}
            BY <1>0, <1>2, <5>1, <5>3 DEF FenceInv
          <5>4. CASE j.op = "revoke_authority"
            BY <1>0, <5>1, <5>4 DEF Commit, FencesAfterCommit, Fence, TypeOK
          <5> QED BY <5>2, <5>3, <5>4
        <4> QED BY <4>1, <4>2 DEF CommitForm
      <3>2. ASSUME NEW d \in Deleters, DeleteRows(d), UNCHANGED conn,
                   del[d].phase = "fenced" \/ (del[d].phase = "dropped" /\ MayDropRequests)
            PROVE  /\ status'[s] # "absent"
                   /\ ~MayDropRequests => status'[s] = "present" /\ hash'[s] = hash[s]
        <4>1. ASSUME ~MayDropRequests PROVE s \notin Doomed(d)
          BY <1>0, <1>2, <3>2, <4>1 DEF FenceInv
        <4> QED BY <2>0, <3>2, <4>1 DEF DeleteRows
      <3>3. ASSUME NEW r \in Servers, Onboard(r)
            PROVE  /\ status'[s] # "absent"
                   /\ ~MayDropRequests => status'[s] = "present" /\ hash'[s] = hash[s]
        BY <1>0, <2>0, <3>3 DEF Onboard, TypeOK
      <3>4. CASE UNCHANGED <<status, hash>>
        BY <2>0, <3>4
      <3>5. ASSUME NEW r \in Servers, TransactionNext(r)
            PROVE  /\ status'[s] # "absent"
                   /\ ~MayDropRequests => status'[s] = "present" /\ hash'[s] = hash[s]
        BY <2>0, <3>1, <3>4, <3>5, TransactionForms DEF tables
      <3>6. ASSUME NEW d \in Deleters, DeleteNext(d)
            PROVE  /\ status'[s] # "absent"
                   /\ ~MayDropRequests => status'[s] = "present" /\ hash'[s] = hash[s]
        BY <3>2, <3>4, <3>6, DeleteForms DEF tables
      <3>7. ASSUME NEW c \in Sockets, SocketNext(c)
            PROVE  UNCHANGED <<status, hash>>
        BY <3>7 DEF SocketNext, Preflight, Admit, Refuse, HandleReport, Close, database, tables
      <3>8. ASSUME NEW r \in Servers, Starts(r)
            PROVE  UNCHANGED <<status, hash>>
        BY <3>8 DEF Starts, StartsAs, database, tables
      <3> QED
        BY <3>3, <3>4, <3>5, <3>6, <3>7, <3>8, StepForms
        DEF LookupClaim, ClaimRejected, MarkOffline, Elapse, Restart, vars, database, tables
    <2> QED BY <1>2, <2>0, <2>1, <2>2
  <1> QED BY <1>1, <1>2

-----------------------------------------------------------------------------
(* The theorems. *)

LEMMA IInvInit == Init => IInv
  <1> SUFFICES ASSUME Init PROVE IInv
    OBVIOUS
  <1>1. LockInv /\ FenceInv /\ DropInv
    BY DEF Init, LockInv, FenceInv, DropInv, NoJob, NoDelete
  <1>2. RowInv /\ JobInv /\ ConnInv
    BY DEF Init, RowInv, JobInv, JobOk, ConnInv, Claimed, NoJob
  <1> QED BY <1>1, <1>2, TypeInit DEF IInv

LEMMA IInvNext == IInv /\ [Next]_vars => IInv'
  BY TypeNext, LockNext, RowNext, FenceNext, JobNext, DropNext, ConnNext DEF IInv

\* The invariant the argument rests on.
THEOREM Invariance == Spec => []IInv
  BY IInvInit, IInvNext, PTL DEF Spec

\* Every state the server and its tables reach has its type.
THEOREM TypeCorrectness == Spec => []TypeOK
  <1>1. IInv => TypeOK
    BY DEF IInv
  <1> QED BY <1>1, Invariance, PTL

\* Connection fencing (transfer, revocation and admission in
\* service/agent_authority/mod.rs), for any number of Servers, agents and
\* operators, as long as no request is dropped while its COMMIT runs.
THEOREM Fencing == ~MayDropRequests => (Spec => []ConnectionFencing)
  <1> SUFFICES ASSUME ~MayDropRequests PROVE Spec => []ConnectionFencing
    OBVIOUS
  <1>1. IInv => ConnectionFencing
    BY DEF IInv, ConnInv, ConnectionFencing, Claimed
  <1> QED BY <1>1, Invariance, PTL

-----------------------------------------------------------------------------
(* Deletions do not wait on each other. *)

\* A finite set of numbers has a greatest one: of the cardinalities for which
\* that is false, there would be a least.
LEMMA Greatest ==
  ASSUME NEW S \in SUBSET Nat, IsFiniteSet(S), S # {}
  PROVE  \E m \in S : \A n \in S : n <= m
  <1> DEFINE HasGreatest(T) == \E m \in T : \A n \in T : n <= m
             Bad == {c \in Nat : \E T \in SUBSET Nat :
                        IsFiniteSet(T) /\ T # {} /\ Cardinality(T) = c /\ ~HasGreatest(T)}
  <1>1. SUFFICES Bad = {}
    BY FS_CardinalityType
  <1>2. SUFFICES ASSUME Bad # {} PROVE FALSE
    OBVIOUS
  <1>3. PICK c \in Bad : \A b \in Bad : <<b, c>> \notin OpToRel(<, Nat)
    <2>1. Bad \subseteq Nat
      OBVIOUS
    <2> HIDE DEF Bad
    <2> QED BY <1>2, <2>1, WFMin, NatLessThanWellFounded, Zenon
  <1>4. \A b \in Bad : ~(b < c)
    <2>1. \A b \in Bad : b \in Nat
      OBVIOUS
    <2> HIDE DEF Bad
    <2> QED BY <1>3, <2>1, Zenon DEF OpToRel
  <1>5. PICK T \in SUBSET Nat :
          IsFiniteSet(T) /\ T # {} /\ Cardinality(T) = c /\ ~HasGreatest(T)
    OBVIOUS
  <1>6. PICK x \in T : TRUE
    BY <1>5
  <1> DEFINE U == T \ {x}
  <1>7. IsFiniteSet(U) /\ Cardinality(U) = c - 1 /\ c \in Nat /\ c - 1 \in Nat
    <2>1. IsFiniteSet(U) /\ Cardinality(U) = c - 1
      BY <1>5, <1>6, FS_RemoveElement
    <2>2. c \in Nat /\ Cardinality(U) \in Nat
      BY <1>5, <2>1, FS_CardinalityType
    <2> QED BY <2>1, <2>2
  <1>8. U # {}
    <2>1. U = {} => HasGreatest(T)
      BY <1>6
    <2> QED BY <1>5, <2>1
  <1>9. HasGreatest(U)
    <2>1. c - 1 \notin Bad
      BY <1>4, <1>7
    <2> QED BY <1>7, <1>8, <2>1
  <1>10. PICK m \in U : \A n \in U : n <= m
    BY <1>9
  <1>11. HasGreatest(T)
    <2>1. CASE m <= x
      BY <1>6, <1>10, <2>1
    <2>2. CASE x <= m
      BY <1>6, <1>10, <2>2
    <2> QED BY <1>6, <1>10, <2>1, <2>2
  <1> QED BY <1>5, <1>11

\* ids.sort(): the locks a deletion holds are those of lesser Servers than the
\* ones it still wants.
OrderInv == \A d \in Deleters : \A s \in del[d].held, r \in del[d].want : s < r

LEMMA OrderNext == TypeOK /\ OrderInv /\ [Next]_vars => OrderInv'
  <1> SUFFICES ASSUME TypeOK, OrderInv, [Next]_vars PROVE OrderInv'
    OBVIOUS
  <1>1. ASSUME NEW d \in Deleters, DeleteNext(d) PROVE OrderInv'
    <2>1. ASSUME NEW ids \in SUBSET Servers, BeginDelete(d, ids) PROVE OrderInv'
      BY <2>1 DEF BeginDelete, OrderInv, TypeOK
    <2>2. CASE TakeLock(d)
      <3>1. PICK s \in del[d].want :
              /\ NextLock(d, s)
              /\ del' = [del EXCEPT ![d].want = @ \ {s}, ![d].held = @ \cup {s}]
        BY <2>2 DEF TakeLock
      <3>2. /\ del'[d].want = del[d].want \ {s} /\ del'[d].held = del[d].held \cup {s}
            /\ del'[d].phase = "locking"
            /\ \A e \in Deleters \ {d} : del'[e] = del[e]
        BY <2>2, <3>1 DEF TakeLock, TypeOK, Delete
      <3>3. \A r \in del[d].want \ {s} : s < r
        <4>1. del[d].want \subseteq Nat
          BY ServersAssumption DEF TypeOK, Delete
        <4> QED BY <3>1, <4>1 DEF NextLock
      <3>4. \A h \in del[d].held, r \in del[d].want : h < r
        BY <2>2 DEF OrderInv, TakeLock
      <3> QED BY <3>2, <3>3, <3>4 DEF OrderInv
    <2>3. CASE FenceDoomed(d)
      BY <2>3 DEF FenceDoomed, OrderInv, TypeOK, Delete
    <2>4. CASE CommitDelete(d) \/ AbortDelete(d) \/ LandDelete(d)
      <3>1. del' = [del EXCEPT ![d] = NoDelete]
        BY <2>4 DEF CommitDelete, AbortDelete, LandDelete
      <3> QED BY <3>1 DEF OrderInv, TypeOK, NoDelete
    <2>5. CASE DropAtCommitDelete(d)
      BY <2>5 DEF DropAtCommitDelete, OrderInv, TypeOK
    <2> QED BY <1>1, <2>1, <2>2, <2>3, <2>4, <2>5 DEF DeleteNext
  <1>2. CASE Restart
    BY <1>2 DEF Restart, OrderInv, NoDelete
  <1>3. ASSUME UNCHANGED del PROVE OrderInv'
    BY <1>3 DEF OrderInv
  <1>4. ASSUME NEW c \in Sockets, SocketNext(c) PROVE UNCHANGED del
    BY <1>4 DEF SocketNext, Preflight, Admit, Refuse, HandleReport, Close
  <1>5. ASSUME NEW k \in Claims, ClaimNext(k) PROVE UNCHANGED del
    BY <1>5 DEF ClaimNext, LookupClaim, ClaimRejected, ClaimExpired, ClaimAccepted
  <1>6. ASSUME NEW s \in Servers, OperatorNext(s) PROVE UNCHANGED del
    BY <1>6 DEF OperatorNext, Onboard, BeginIssue, BeginReenrollment, BeginReplace,
                BeginRevokeOffer, BeginRevokeAuthority, runtime
  <1>7. ASSUME NEW s \in Servers, TransactionNext(s) \/ MarkOffline(s) PROVE UNCHANGED del
    BY <1>7 DEF TransactionNext, Commit, Abort, DropAtCommit, Land, MarkOffline, runtime
  <1>8. ASSUME NEW o \in Offers, Elapse(o) PROVE UNCHANGED del
    BY <1>8 DEF Elapse, runtime
  <1>9. CASE UNCHANGED vars
    BY <1>3, <1>9 DEF vars
  <1> QED BY <1>1, <1>2, <1>3, <1>4, <1>5, <1>6, <1>7, <1>8, <1>9 DEF Next

\* delete_servers takes the locks in the order of the ids: no set of deletions
\* ever waits for locks of its own, for any finite table of Servers and any
\* number of deletions, finite or not.
THEOREM DeletionsNeverDeadlock == IsFiniteSet(Servers) => (Spec => []NoDeadlock)
  <1> SUFFICES ASSUME IsFiniteSet(Servers) PROVE Spec => []NoDeadlock
    OBVIOUS
  <1>1. Init => OrderInv
    BY DEF Init, OrderInv, NoDelete
  <1>2. TypeOK /\ OrderInv => NoDeadlock
    <2> SUFFICES ASSUME TypeOK, OrderInv,
                        NEW set \in (SUBSET Deleters) \ {{}},
                        \A d \in set : WaitsWithin(d, set)
                 PROVE  FALSE
      BY DEF NoDeadlock
    <2> DEFINE Awaited == {s \in Servers : \E d \in set : s \in del[d].want /\ NextLock(d, s)}
    <2>1. Awaited # {}
      BY DEF WaitsWithin, TypeOK, Delete
    <2>2. Awaited \in SUBSET Nat /\ IsFiniteSet(Awaited)
      BY ServersAssumption, FS_Subset
    <2>3. PICK m \in Awaited : \A n \in Awaited : n <= m
      <3> HIDE DEF Awaited
      <3> QED BY <2>1, <2>2, Greatest
    <2>4. PICK d \in set : m \in del[d].want /\ NextLock(d, m)
      OBVIOUS
    <2>5. PICK e \in set : m \in del[e].held
      <3>1. PICK s \in del[d].want : NextLock(d, s) /\ \E e \in set : s \in del[e].held
        BY DEF WaitsWithin
      <3>2. s = m
        <4>1. s \in Nat /\ m \in Nat
          BY ServersAssumption DEF TypeOK, Delete
        <4>2. s <= m /\ m <= s
          BY <2>4, <3>1 DEF NextLock
        <4> QED BY <4>1, <4>2
      <3> QED BY <3>1, <3>2
    <2>6. PICK n \in del[e].want : NextLock(e, n)
      BY DEF WaitsWithin
    <2>7. n \in Awaited
      BY <2>6 DEF TypeOK, Delete
    <2>8. m < n
      BY <2>5, <2>6 DEF OrderInv
    <2> QED
      BY <2>2, <2>3, <2>7, <2>8
  <1>3. IInv => TypeOK
    BY DEF IInv
  <1> QED BY <1>1, <1>2, <1>3, OrderNext, Invariance, PTL DEF Spec
=============================================================================
