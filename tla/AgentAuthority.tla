---------------------------- MODULE AgentAuthority ----------------------------
(***************************************************************************)
(* The Agent Authority of the server (service/agent_authority/mod.rs): who *)
(* may speak for a Server, the single-use Enrollment offers that transfer  *)
(* that right, and the WebSocket connections admitted under it.            *)
(*                                                                         *)
(* Every transition runs under the Server's lifecycle lock and in one      *)
(* SQLite transaction.  It is modelled in two steps, because other tasks,  *)
(* a failing database and a dropped request get between them:              *)
(*   Begin...  lock acquired, rows read, decision taken, and the runtime   *)
(*             fence where the code fences BEFORE it commits;              *)
(*   Commit    the writes become database, the fence where the code fences  *)
(*             AFTER the commit, lock released.                            *)
(* A client that hangs up drops its request's future at any await, and     *)
(* with it the lock.  At the await of COMMIT the statement is already with *)
(* the database thread: it lands later, and nothing after it is executed.  *)
(* Early returns that change nothing are the absence of a step.            *)
(***************************************************************************)
EXTENDS Naturals, Sequences

CONSTANTS
    Servers,          \* server ids; ordered, as delete_servers sorts them
    Offers,           \* enrollment offers, each with its secret code
    Tokens,           \* run tokens that agents generate and propose
    Sockets,          \* connection ids
    Claims,           \* concurrent POST /api/agent/register requests
    Deleters,         \* concurrent delete_servers calls
    None,             \* SQL NULL, Option::None
    MayDropRequests   \* may a client hang up on a request in progress?

ASSUME ServersAssumption == Servers \subseteq Nat
ASSUME DropAssumption == MayDropRequests \in BOOLEAN

\* The outcomes an offer ends in.
Terminal == {"consumed", "revoked", "replaced", "expired"}

ASSUME NoneAssumption ==
    /\ None \notin Servers
    /\ None \notin Offers
    /\ None \notin Tokens
    /\ None \notin Sockets
    /\ None \notin Terminal

VARIABLES
    \* durable: the rows of servers, enrollment_offers, agent_authority_events
    status,      \* [Servers -> absent | present | deleted]
    token,       \* run token whose hash the servers row holds
    hash,        \* that salted hash, named by the offer whose claim wrote it
    outcome,     \* enrollment_offers.outcome ("open" is SQL NULL)
    target,      \* enrollment_offers.target_server_id
    successor,   \* enrollment_offers.successor_offer_id
    elapsed,     \* open offers whose expires_at has passed
    log,         \* agent_authority_events, per Server, oldest first
    adrift,      \* the transition whose COMMIT was sent by a dropped request
    \* runtime: AgentManager and the tasks of the server process
    conn,        \* AgentManager.connections: the current connection id
    sock,        \* one task per WebSocket
    report,      \* latest_reports, named by the authority that sent it
    job,         \* the single-Server transition that holds the lifecycle lock
    claim,       \* claims between their unlocked lookup and the lock
    del          \* delete_servers calls and the locks they hold

tables == <<status, token, hash, outcome, target, successor, elapsed, log>>
database == <<tables, adrift>>
runtime == <<conn, sock, report, job, claim, del>>
vars == <<status, token, hash, outcome, target, successor, elapsed, log, adrift,
          conn, sock, report, job, claim, del>>

Outcome == {"unminted", "open", "deleted"} \cup Terminal

Transition == {"initial_offer_issued", "offer_issued", "reenrollment_started",
               "authority_revoked", "server_deleted"} \cup Terminal

\* A row of agent_authority_events, reduced to what history must explain.
Event == [transition : Transition, offer : Offers \cup {None},
          before : BOOLEAN, after : BOOLEAN]

Op == {"idle", "expire", "issue", "graceful", "emergency", "replace",
       "revoke_offer", "revoke_authority", "fence_again", "consume"}

\* The transition in progress: the operation it decided on, the offer it
\* terminalizes with which outcome (None: it terminalizes none), and the run
\* token a claim proposes.
Job == [op : Op, offer : Offers \cup {None}, outcome : Terminal \cup {None},
        token : Tokens \cup {None}]
NoJob == [op |-> "idle", offer |-> None, outcome |-> None, token |-> None]

\* A WebSocket task: before admission it knows the Server its token verified
\* for, after it the authority the connection was admitted under.
Sock == [pc : {"closed", "pending", "live"}, server : Servers \cup {None},
         token : Tokens \cup {None}, hash : Offers \cup {None}]
ClosedSock == [pc |-> "closed", server |-> None, token |-> None, hash |-> None]

\* A claim that looked up its offer, with the run token it proposes.
Claim == [offer : Offers \cup {None}, token : Tokens \cup {None}]
NoClaim == [offer |-> None, token |-> None]

\* A delete_servers call: ids it still has to lock, locks it holds.  When it
\* was dropped at its commit it holds none, and "want" are the rows that go.
Delete == [phase : {"idle", "locking", "fenced", "dropped"},
           want : SUBSET Servers, held : SUBSET Servers]
NoDelete == [phase |-> "idle", want |-> {}, held |-> {}]

TypeOK ==
    /\ status \in [Servers -> {"absent", "present", "deleted"}]
    /\ token \in [Servers -> Tokens \cup {None}]
    /\ hash \in [Servers -> Offers \cup {None}]
    /\ outcome \in [Offers -> Outcome]
    /\ target \in [Offers -> Servers \cup {None}]
    /\ successor \in [Offers -> Offers \cup {None}]
    /\ elapsed \in SUBSET Offers
    /\ log \in [Servers -> Seq(Event)]
    /\ adrift \in [Servers -> Job]
    /\ conn \in [Servers -> Sockets \cup {None}]
    /\ sock \in [Sockets -> Sock]
    /\ report \in [Servers -> Offers \cup {None}]
    /\ job \in [Servers -> Job]
    /\ claim \in [Claims -> Claim]
    /\ del \in [Deleters -> Delete]

Init ==
    /\ status = [s \in Servers |-> "absent"]
    /\ token = [s \in Servers |-> None]
    /\ hash = [s \in Servers |-> None]
    /\ outcome = [o \in Offers |-> "unminted"]
    /\ target = [o \in Offers |-> None]
    /\ successor = [o \in Offers |-> None]
    /\ elapsed = {}
    /\ log = [s \in Servers |-> <<>>]
    /\ adrift = [s \in Servers |-> NoJob]
    /\ conn = [s \in Servers |-> None]
    /\ sock = [c \in Sockets |-> ClosedSock]
    /\ report = [s \in Servers |-> None]
    /\ job = [s \in Servers |-> NoJob]
    /\ claim = [k \in Claims |-> NoClaim]
    /\ del = [d \in Deleters |-> NoDelete]

-----------------------------------------------------------------------------
(* What the rows say. *)

Claimed(s) == hash[s] # None
OpenOffers(s) == {o \in Offers : target[o] = s /\ outcome[o] = "open"}
Outstanding(s) == OpenOffers(s) \ elapsed
Fresh == {o \in Offers : outcome[o] = "unminted"}

\* Mutant of ToExpire: expire_elapsed_outstanding is forgotten.
ExpireNothing(s) == {None}

\* The elapsed offer a transition expires on its way, None if there is none.
ToExpire(s) == IF OpenOffers(s) = {} THEN {None} ELSE OpenOffers(s)

\* The servers whose stored hash verifies a presented run token.
Holders(t) == {s \in Servers : status[s] = "present" /\ Claimed(s) /\ token[s] = t}

\* server_lifecycle_lock(s) is free.
Free(s) == job[s] = NoJob /\ \A d \in Deleters : s \notin del[d].held

\* begin_write takes SQLite's write reservation before the first read, so it
\* also waits for a transaction on these rows that nobody holds the lock for.
Reserved(s) ==
    \/ adrift[s] # NoJob
    \/ \E d \in Deleters : del[d].phase = "dropped" /\ s \in del[d].want

\* Mutant of Writable: the rows are read before the reservation is taken.
WithoutReservation(s) == Free(s)

Writable(s) == Free(s) /\ ~Reserved(s)

Start(s, op, o, out, t) ==
    job' = [job EXCEPT ![s] = [op |-> op, offer |-> o, outcome |-> out, token |-> t]]

\* Mutant of StartExpiring: the expiry is written with no outcome.
StartUndecided(s, op) == \E o \in ToExpire(s) : Start(s, op, o, None, None)

\* A transition that first expires an elapsed open offer, if there is one.
StartExpiring(s, op) ==
    \E o \in ToExpire(s) :
        Start(s, op, o, IF o = None THEN None ELSE "expired", None)

\* insert_event, in the transaction of the transition.
Row(t, o, before, after) ==
    [transition |-> t, offer |-> o, before |-> before, after |-> after]

Record(s, rows) == log' = [log EXCEPT ![s] = @ \o rows]

\* AgentManager::remove_connection: the entry goes, its socket task lives on
\* until it notices.
Fence(s) == conn' = [conn EXCEPT ![s] = None]

-----------------------------------------------------------------------------
(* Operator requests: lock, read, decide. *)

\* ServerOnboarding commits a new Server together with its initial offer.
Onboard(s) ==
    /\ status[s] = "absent"
    /\ \E o \in Fresh :
        /\ outcome' = [outcome EXCEPT ![o] = "open"]
        /\ target' = [target EXCEPT ![o] = s]
        /\ Record(s, << Row("initial_offer_issued", o, FALSE, FALSE) >>)
    /\ status' = [status EXCEPT ![s] = "present"]
    /\ UNCHANGED <<token, hash, successor, elapsed, adrift, runtime>>

BeginIssue(s) ==
    /\ Writable(s)
    /\ status[s] = "present"
    /\ ~Claimed(s)
    /\ Outstanding(s) = {}
    /\ StartExpiring(s, "issue")
    /\ UNCHANGED <<database, conn, sock, report, claim, del>>

\* The emergency mode fences inside the transaction, before it commits.
BeginReenrollment(s, mode) ==
    /\ Writable(s)
    /\ status[s] = "present"
    /\ Claimed(s)
    /\ Outstanding(s) = {}
    /\ StartExpiring(s, mode)
    /\ IF mode = "emergency" THEN Fence(s) ELSE UNCHANGED conn
    /\ UNCHANGED <<database, sock, report, claim, del>>

\* replace_offer and revoke_offer name one exact offer of the Server; when
\* it has elapsed they only materialize the Expired outcome.
BeginReplace(s, o) ==
    /\ Writable(s)
    /\ o \in OpenOffers(s)
    /\ IF o \in elapsed
       THEN Start(s, "expire", o, "expired", None)
       ELSE Start(s, "replace", o, "replaced", None)
    /\ UNCHANGED <<database, conn, sock, report, claim, del>>

\* Mutant of BeginRevokeOffer: a settled offer is revoked again.
RevokeSettledOffer(s, o) ==
    /\ Writable(s)
    /\ status[s] = "present" /\ target[o] = s
    /\ Start(s, "revoke_offer", o, "revoked", None)
    /\ UNCHANGED <<database, conn, sock, report, claim, del>>

BeginRevokeOffer(s, o) ==
    /\ Writable(s)
    /\ o \in OpenOffers(s)
    /\ IF o \in elapsed
       THEN Start(s, "expire", o, "expired", None)
       ELSE Start(s, "revoke_offer", o, "revoked", None)
    /\ UNCHANGED <<database, conn, sock, report, claim, del>>

\* revoke_authority fences only after its commit; with nothing to revoke it
\* still fences again.
BeginRevokeAuthority(s) ==
    /\ Writable(s)
    /\ status[s] = "present"
    /\ IF ~Claimed(s) /\ OpenOffers(s) = {}
       THEN Start(s, "fence_again", None, None, None)
       ELSE \E o \in ToExpire(s) :
              Start(s, "revoke_authority", o,
                    IF o = None THEN None
                    ELSE IF o \in elapsed THEN "expired" ELSE "revoked", None)
    /\ UNCHANGED <<database, conn, sock, report, claim, del>>

-----------------------------------------------------------------------------
(* An agent's claim: the code is looked up without the lock, and the offer  *)
(* is read again under it.                                                  *)

LookupClaim(k, o, t) ==
    /\ claim[k] = NoClaim
    /\ outcome[o] = "open"
    /\ claim' = [claim EXCEPT ![k] = [offer |-> o, token |-> t]]
    /\ UNCHANGED <<database, conn, sock, report, job, del>>

\* The lookup found an offer, and its Server's lock and rows are free.
ClaimHasLock(k) == claim[k].offer # None /\ Writable(target[claim[k].offer])

\* Mutant of ClaimRejected: a row that vanished is not an answer.
ClaimRejectedIfPresent(k) ==
    /\ ClaimHasLock(k)
    /\ outcome[claim[k].offer] \in Terminal
    /\ claim' = [claim EXCEPT ![k] = NoClaim]
    /\ UNCHANGED <<database, conn, sock, report, job, del>>

\* Between lookup and lock the offer was consumed, revoked, replaced, expired
\* or deleted with its Server.
ClaimRejected(k) ==
    /\ ClaimHasLock(k)
    /\ outcome[claim[k].offer] # "open"
    /\ claim' = [claim EXCEPT ![k] = NoClaim]
    /\ UNCHANGED <<database, conn, sock, report, job, del>>

ClaimExpired(k) ==
    /\ ClaimHasLock(k)
    /\ outcome[claim[k].offer] = "open"
    /\ claim[k].offer \in elapsed
    /\ Start(target[claim[k].offer], "expire", claim[k].offer, "expired", None)
    /\ claim' = [claim EXCEPT ![k] = NoClaim]
    /\ UNCHANGED <<database, conn, sock, report, del>>

\* Mutant of ClaimAccepted: expires_at is not compared with now.
ClaimAnyOpen(k) ==
    /\ ClaimHasLock(k)
    /\ outcome[claim[k].offer] = "open"
    /\ Fence(target[claim[k].offer])
    /\ Start(target[claim[k].offer], "consume", claim[k].offer, "consumed", claim[k].token)
    /\ claim' = [claim EXCEPT ![k] = NoClaim]
    /\ UNCHANGED <<database, sock, report, del>>

\* The previous agent is fenced before the transfer is written.
ClaimAccepted(k) ==
    /\ ClaimHasLock(k)
    /\ outcome[claim[k].offer] = "open"
    /\ claim[k].offer \notin elapsed
    /\ Fence(target[claim[k].offer])
    /\ Start(target[claim[k].offer], "consume", claim[k].offer, "consumed", claim[k].token)
    /\ claim' = [claim EXCEPT ![k] = NoClaim]
    /\ UNCHANGED <<database, sock, report, del>>

-----------------------------------------------------------------------------
(* What each transition writes in its transaction. *)

\* The outcomes once the transition's own offer is terminalized.
Terminalized(j) ==
    IF j.offer = None THEN outcome
    ELSE [outcome EXCEPT ![j.offer] = j.outcome]

\* Mutant of OfferRows: the outcome is written without its event.
NoOfferRows(s, j) == <<>>

\* The event terminalize_offer inserts with the outcome.
OfferRows(s, j) ==
    IF j.offer = None THEN <<>>
    ELSE << Row(j.outcome, j.offer, Claimed(s), Claimed(s)) >>

Unauthorize(s) ==
    /\ token' = [token EXCEPT ![s] = None]
    /\ hash' = [hash EXCEPT ![s] = None]

\* expires_at matters only while the row is open.
ForgetExpiry(j) == elapsed' = elapsed \ {j.offer}

\* revoke_offer, and every path that only materializes an expiry.
WriteOutcome(s, j) ==
    /\ outcome' = Terminalized(j)
    /\ Record(s, OfferRows(s, j))
    /\ UNCHANGED <<token, hash, target, successor>>

WriteIssue(s, j) ==
    /\ \E n \in Fresh :
        /\ outcome' = [Terminalized(j) EXCEPT ![n] = "open"]
        /\ target' = [target EXCEPT ![n] = s]
        /\ Record(s, OfferRows(s, j) \o << Row("offer_issued", n, FALSE, FALSE) >>)
    /\ UNCHANGED <<token, hash, successor>>

WriteReenrollment(s, j) ==
    LET emergency == j.op = "emergency" IN
    /\ \E n \in Fresh :
        /\ outcome' = [Terminalized(j) EXCEPT ![n] = "open"]
        /\ target' = [target EXCEPT ![n] = s]
        /\ Record(s, OfferRows(s, j) \o
                     << Row("reenrollment_started", n, TRUE, ~emergency) >>)
    /\ IF emergency THEN Unauthorize(s) ELSE UNCHANGED <<token, hash>>
    /\ UNCHANGED successor

WriteReplace(s, j) ==
    /\ \E n \in Fresh :
        /\ outcome' = [Terminalized(j) EXCEPT ![n] = "open"]
        /\ target' = [target EXCEPT ![n] = s]
        /\ successor' = [successor EXCEPT ![j.offer] = n]
    /\ Record(s, OfferRows(s, j))
    /\ UNCHANGED <<token, hash>>

WriteClaim(s, j) ==
    /\ outcome' = Terminalized(j)
    /\ token' = [token EXCEPT ![s] = j.token]
    /\ hash' = [hash EXCEPT ![s] = j.offer]
    /\ Record(s, << Row("consumed", j.offer, Claimed(s), TRUE) >>)
    /\ UNCHANGED <<target, successor>>

\* Mutant of WriteRevokeAuthority: the revocation leaves no event.
RevokeSilently(s, j) ==
    /\ outcome' = Terminalized(j)
    /\ Unauthorize(s)
    /\ Record(s, OfferRows(s, j))
    /\ UNCHANGED <<target, successor>>

WriteRevokeAuthority(s, j) ==
    /\ outcome' = Terminalized(j)
    /\ IF Claimed(s)
       THEN /\ Unauthorize(s)
            /\ Record(s, OfferRows(s, j) \o
                         << Row("authority_revoked", None, TRUE, FALSE) >>)
       ELSE /\ Record(s, OfferRows(s, j))
            /\ UNCHANGED <<token, hash>>
    /\ UNCHANGED <<target, successor>>

\* COMMIT: the writes of transition j become durable.
Durable(s, j) ==
    /\ \/ j.op \in {"expire", "revoke_offer"} /\ WriteOutcome(s, j)
       \/ j.op = "issue" /\ WriteIssue(s, j)
       \/ j.op \in {"graceful", "emergency"} /\ WriteReenrollment(s, j)
       \/ j.op = "replace" /\ WriteReplace(s, j)
       \/ j.op = "consume" /\ WriteClaim(s, j)
       \/ j.op = "revoke_authority" /\ WriteRevokeAuthority(s, j)
       \/ j.op = "fence_again" /\ UNCHANGED <<token, hash, outcome, target, successor, log>>
    /\ ForgetExpiry(j)
    /\ UNCHANGED status

\* Mutant of FencesAfterCommit: revoke_authority does not fence.
NeverFencesAfter(s) == FALSE

FencesAfterCommit(s) == job[s].op \in {"revoke_authority", "fence_again"}

Unlock(s) == job' = [job EXCEPT ![s] = NoJob]

Commit(s) ==
    /\ Durable(s, job[s])
    /\ IF FencesAfterCommit(s) THEN Fence(s) ELSE UNCHANGED conn
    /\ Unlock(s)
    /\ UNCHANGED <<adrift, sock, report, claim, del>>

\* The database fails, or the request is dropped before its COMMIT is sent:
\* the transaction rolls back; a fence already made stays.
Abort(s) ==
    /\ job[s] # NoJob
    /\ Unlock(s)
    /\ UNCHANGED <<database, conn, sock, report, claim, del>>

\* The client hangs up while COMMIT runs on the database thread.
DropAtCommit(s) ==
    /\ MayDropRequests
    /\ job[s] # NoJob
    /\ adrift' = [adrift EXCEPT ![s] = job[s]]
    /\ Unlock(s)
    /\ UNCHANGED <<tables, conn, sock, report, claim, del>>

Land(s) ==
    /\ adrift[s] # NoJob
    /\ Durable(s, adrift[s]) \/ UNCHANGED tables
    /\ adrift' = [adrift EXCEPT ![s] = NoJob]
    /\ UNCHANGED runtime

-----------------------------------------------------------------------------
(* delete_servers: every lock in id order, then one transaction. *)

BeginDelete(d, ids) ==
    /\ del[d] = NoDelete
    /\ ids # {} /\ \A s \in ids : status[s] # "absent"
    /\ del' = [del EXCEPT ![d] = [phase |-> "locking", want |-> ids, held |-> {}]]
    /\ UNCHANGED <<database, conn, sock, report, job, claim>>

\* Mutant of NextLock: the ids are locked in the order they were given.
AnyLockNext(d, s) == TRUE

\* ids.sort(): the next lock to await is that of the least id left.
NextLock(d, s) == \A r \in del[d].want : s <= r

TakeLock(d) ==
    /\ del[d].phase = "locking"
    /\ \E s \in del[d].want :
        /\ NextLock(d, s)
        /\ Free(s)
        /\ del' = [del EXCEPT ![d].want = @ \ {s}, ![d].held = @ \cup {s}]
    /\ UNCHANGED <<database, conn, sock, report, job, claim>>

\* The rows that are still there, read under all the locks.
Doomed(d) ==
    {s \in IF del[d].phase = "dropped" THEN del[d].want ELSE del[d].held :
        status[s] = "present"}

\* Mutant of FenceDoomed: connections survive the deletion.
DoomUnfenced(d) ==
    /\ del[d].phase = "locking"
    /\ del[d].want = {}
    /\ \A s \in del[d].held : ~Reserved(s)
    /\ del' = [del EXCEPT ![d].phase = "fenced"]
    /\ UNCHANGED <<database, conn, sock, report, job, claim>>

FenceDoomed(d) ==
    /\ del[d].phase = "locking"
    /\ del[d].want = {}
    /\ \A s \in del[d].held : ~Reserved(s)
    /\ conn' = [s \in Servers |-> IF s \in Doomed(d) THEN None ELSE conn[s]]
    /\ del' = [del EXCEPT ![d].phase = "fenced"]
    /\ UNCHANGED <<database, sock, report, job, claim>>

DeleteRows(d) ==
    /\ status' = [s \in Servers |-> IF s \in Doomed(d) THEN "deleted" ELSE status[s]]
    /\ token' = [s \in Servers |-> IF s \in Doomed(d) THEN None ELSE token[s]]
    /\ hash' = [s \in Servers |-> IF s \in Doomed(d) THEN None ELSE hash[s]]
    /\ outcome' = [o \in Offers |-> IF target[o] \in Doomed(d) THEN "deleted" ELSE outcome[o]]
    /\ successor' = [o \in Offers |-> IF target[o] \in Doomed(d) THEN None ELSE successor[o]]
    /\ elapsed' = {o \in elapsed : target[o] \notin Doomed(d)}
    /\ log' = [s \in Servers |->
                 IF s \in Doomed(d)
                 THEN log[s] \o << Row("server_deleted", None, Claimed(s), FALSE) >>
                 ELSE log[s]]
    /\ UNCHANGED <<target, adrift>>

CommitDelete(d) ==
    /\ del[d].phase = "fenced"
    /\ DeleteRows(d)
    /\ report' = [s \in Servers |-> IF s \in Doomed(d) THEN None ELSE report[s]]
    /\ del' = [del EXCEPT ![d] = NoDelete]
    /\ UNCHANGED <<conn, sock, job, claim>>

\* The transaction fails, or the request is dropped at an earlier await.
AbortDelete(d) ==
    /\ \/ del[d].phase = "fenced"
       \/ del[d].phase = "locking" /\ MayDropRequests
    /\ del' = [del EXCEPT ![d] = NoDelete]
    /\ UNCHANGED <<database, conn, sock, report, job, claim>>

DropAtCommitDelete(d) ==
    /\ MayDropRequests
    /\ del[d].phase = "fenced"
    /\ del' = [del EXCEPT ![d] = [phase |-> "dropped", want |-> Doomed(d), held |-> {}]]
    /\ UNCHANGED <<database, conn, sock, report, job, claim>>

LandDelete(d) ==
    /\ del[d].phase = "dropped"
    /\ DeleteRows(d) \/ UNCHANGED database
    /\ del' = [del EXCEPT ![d] = NoDelete]
    /\ UNCHANGED <<conn, sock, report, job, claim>>

-----------------------------------------------------------------------------
(* WebSocket admission and the read loop of each connection. *)

\* agent_ws_handler checks the token without the lock, before the upgrade.
Preflight(c, t) ==
    /\ sock[c] = ClosedSock
    /\ \E s \in Holders(t) :
        sock' = [sock EXCEPT ![c] =
                    [pc |-> "pending", server |-> s, token |-> t, hash |-> None]]
    /\ UNCHANGED <<database, conn, report, job, claim, del>>

\* Mutant of Admit: the preflight is trusted.
AdmitOnPreflight(c) ==
    LET s == sock[c].server IN
    /\ sock[c].pc = "pending"
    /\ Free(s)
    /\ conn' = [conn EXCEPT ![s] = c]
    /\ sock' = [sock EXCEPT ![c].pc = "live", ![c].hash = hash[s]]
    /\ UNCHANGED <<database, report, job, claim, del>>

\* Under the lock the token must still verify, for the same Server; the new
\* entry replaces whatever connection the Server had.
Admit(c) ==
    LET s == sock[c].server IN
    /\ sock[c].pc = "pending"
    /\ Free(s)
    /\ s \in Holders(sock[c].token)
    /\ conn' = [conn EXCEPT ![s] = c]
    /\ sock' = [sock EXCEPT ![c].pc = "live", ![c].hash = hash[s]]
    /\ UNCHANGED <<database, report, job, claim, del>>

\* The token no longer verifies, or another Server that holds it came first.
Refuse(c) ==
    LET s == sock[c].server IN
    /\ sock[c].pc = "pending"
    /\ Free(s)
    /\ Holders(sock[c].token) # {s}
    /\ sock' = [sock EXCEPT ![c] = ClosedSock]
    /\ UNCHANGED <<database, conn, report, job, claim, del>>

Current(c) == conn[sock[c].server] = c

\* Mutant of HandleReport: superseded connections are not turned away.
HandleAnyReport(c) ==
    /\ sock[c].pc = "live"
    /\ Free(sock[c].server)
    /\ report' = [report EXCEPT ![sock[c].server] = sock[c].hash]
    /\ UNCHANGED <<database, conn, sock, job, claim, del>>

\* A frame of the current connection is handled under the lock.
HandleReport(c) ==
    /\ sock[c].pc = "live"
    /\ Free(sock[c].server)
    /\ Current(c)
    /\ report' = [report EXCEPT ![sock[c].server] = sock[c].hash]
    /\ UNCHANGED <<database, conn, sock, job, claim, del>>

\* The read loop ends - the peer closed, the socket failed, Welcome could not
\* be sent, or a frame found the connection superseded - and the task removes
\* its own connection entry, and only its own.
Close(c) ==
    LET s == sock[c].server IN
    /\ sock[c].pc = "live"
    /\ Free(s)
    /\ IF Current(c) THEN Fence(s) ELSE UNCHANGED conn
    /\ sock' = [sock EXCEPT ![c] = ClosedSock]
    /\ UNCHANGED <<database, report, job, claim, del>>

\* task/offline_checker.rs takes a silent connection off the map.
MarkOffline(s) ==
    /\ Free(s)
    /\ conn[s] # None
    /\ Fence(s)
    /\ UNCHANGED <<database, sock, report, job, claim, del>>

-----------------------------------------------------------------------------
(* The environment. *)

\* expires_at passes; no task runs.
Elapse(o) ==
    /\ outcome[o] = "open"
    /\ elapsed' = elapsed \cup {o}
    /\ UNCHANGED <<status, token, hash, outcome, target, successor, log, adrift, runtime>>

\* The server process restarts: open transactions and all runtime state go.
Restart ==
    /\ adrift' = [s \in Servers |-> NoJob]
    /\ conn' = [s \in Servers |-> None]
    /\ sock' = [c \in Sockets |-> ClosedSock]
    /\ report' = [s \in Servers |-> None]
    /\ job' = [s \in Servers |-> NoJob]
    /\ claim' = [k \in Claims |-> NoClaim]
    /\ del' = [d \in Deleters |-> NoDelete]
    /\ UNCHANGED tables

OperatorNext(s) ==
    \/ Onboard(s)
    \/ BeginIssue(s)
    \/ \E mode \in {"graceful", "emergency"} : BeginReenrollment(s, mode)
    \/ \E o \in Offers : BeginReplace(s, o) \/ BeginRevokeOffer(s, o)
    \/ BeginRevokeAuthority(s)

ClaimNext(k) ==
    \/ \E o \in Offers, t \in Tokens : LookupClaim(k, o, t)
    \/ ClaimRejected(k)
    \/ ClaimExpired(k)
    \/ ClaimAccepted(k)

TransactionNext(s) == Commit(s) \/ Abort(s) \/ DropAtCommit(s) \/ Land(s)

DeleteNext(d) ==
    \/ \E ids \in SUBSET Servers : BeginDelete(d, ids)
    \/ TakeLock(d)
    \/ FenceDoomed(d)
    \/ CommitDelete(d)
    \/ AbortDelete(d)
    \/ DropAtCommitDelete(d)
    \/ LandDelete(d)

SocketNext(c) ==
    \/ \E t \in Tokens : Preflight(c, t)
    \/ Admit(c)
    \/ Refuse(c)
    \/ HandleReport(c)
    \/ Close(c)

Next ==
    \/ \E c \in Sockets : SocketNext(c)
    \/ \E k \in Claims : ClaimNext(k)
    \/ \E s \in Servers : OperatorNext(s) \/ TransactionNext(s) \/ MarkOffline(s)
    \/ \E d \in Deleters : DeleteNext(d)
    \/ \E o \in Offers : Elapse(o)
    \/ Restart

Spec == Init /\ [][Next]_vars

\* tokio::sync::Mutex queues its waiters in order of arrival, so a task that
\* keeps asking for a lock gets it: strong fairness.  A transaction ends
\* within the bounded busy wait, one way or the other: weak fairness.
Fairness ==
    /\ \A s \in Servers : WF_vars(Commit(s) \/ Abort(s)) /\ WF_vars(Land(s))
    /\ \A d \in Deleters :
        /\ SF_vars(TakeLock(d))
        /\ WF_vars(FenceDoomed(d))
        /\ WF_vars(CommitDelete(d) \/ AbortDelete(d))
        /\ WF_vars(LandDelete(d))
    /\ \A k \in Claims : SF_vars(ClaimRejected(k) \/ ClaimExpired(k) \/ ClaimAccepted(k))

FairSpec == Spec /\ Fairness

-----------------------------------------------------------------------------
(* Safety. *)

\* Connection fencing: the connection a Server has was admitted under the
\* authority its row holds now, so no agent stays connected once its authority
\* was transferred or revoked, and none enters through a handshake that raced
\* with the transition (claim, begin_reenrollment, revoke_authority, admit).
ConnectionFencing ==
    \A s \in Servers : conn[s] # None =>
        Claimed(s) /\ sock[conn[s]].server = s /\ sock[conn[s]].hash = hash[s]

\* At most one offer of a Server is open, whichever operators replace, reissue
\* and expire offers concurrently; the unique index of the table would turn a
\* second one into a failed request.
OneOpenOffer ==
    \A s \in Servers : \A o, p \in OpenOffers(s) : o = p

\* The event history is a gapless account of the authority: each event starts
\* where the one before it ended, and the last one ends in the present state.
HistoryExplainsAuthority ==
    \A s \in Servers :
        /\ \A i \in 1..(Len(log[s]) - 1) : log[s][i].after = log[s][i+1].before
        /\ log[s] # <<>> => log[s][Len(log[s])].after = Claimed(s)

\* Exactly one terminal event is on record for an offer with an outcome, the
\* event of that outcome, and none for an offer without.
HistoryTellsOutcomes ==
    \A o \in Offers : target[o] # None =>
        LET told == {i \in 1..Len(log[target[o]]) :
                        /\ log[target[o]][i].offer = o
                        /\ log[target[o]][i].transition \in Terminal}
        IN /\ \A i, j \in told : i = j
           /\ outcome[o] = "open" => told = {}
           /\ outcome[o] \in Terminal =>
                \E i \in told : log[target[o]][i].transition = outcome[o]

\* A deleted Server leaves no connection, no claimable offer and no cached
\* report, whatever handshakes, claims and reports raced with delete_servers.
DeletedLeavesNothing ==
    \A s \in Servers : status[s] = "deleted" =>
        /\ conn[s] = None
        /\ OpenOffers(s) = {}
        /\ report[s] = None

\* The lock d waits for is held by a deletion of the set.
WaitsWithin(d, set) ==
    \E s \in del[d].want : NextLock(d, s) /\ \E e \in set : s \in del[e].held

\* However many delete_servers calls overlap in whichever Servers, no set of
\* them waits for locks of its own: one in every set waits for a lock that is
\* free, or held by somebody who is not in the set, or has all its locks.
NoDeadlock ==
    \A set \in (SUBSET Deleters) \ {{}} : \E d \in set : ~WaitsWithin(d, set)

\* Action properties.

\* An outcome is immutable and so is the successor link: only the deletion of
\* the whole Server takes the row away.
TerminalOffersImmutable ==
    [][\A o \in Offers : outcome[o] \in Terminal =>
            \/ outcome'[o] = outcome[o] /\ successor'[o] = successor[o]
            \/ outcome'[o] = "deleted" /\ status'[target[o]] = "deleted"]_vars

\* A claim has decided to consume o.
Decided(o) ==
    \E s \in Servers : \E j \in {job[s], adrift[s]} : j.op = "consume" /\ j.offer = o

\* Expiry takes effect at expires_at without a background task: an offer that
\* elapsed before a claim got to decide on it is never consumed.
ElapsedNeverConsumed ==
    [][\A o \in elapsed :
            Decided(o) \/ (~Decided(o)' /\ outcome'[o] # "consumed")]_vars

\* The server accepts data only from the agent that holds the authority at
\* that moment: no report of a fenced connection is ever applied.
ReportsOnlyUnderAuthority ==
    [][\A s \in Servers :
            report'[s] \notin {None, report[s]} => report'[s] = hash[s]]_vars

-----------------------------------------------------------------------------
(* The contract it implements, when no request is dropped at its commit: the
   authority of a Server is the claim that wrote its hash, its connection is
   the authority the current socket was admitted under. *)

LiveUnder == [s \in Servers |-> IF conn[s] = None THEN None ELSE sock[conn[s]].hash]

Contract == INSTANCE AuthorityContract WITH authority <- hash, live <- LiveUnder

ImplementsContract == Contract!Spec

-----------------------------------------------------------------------------
(* Liveness. *)

\* delete_servers calls with overlapping sets never wait on each other for
\* ever, whatever single-Server transitions compete for the same locks.
DeletesFinish == \A d \in Deleters : del[d] # NoDelete ~> del[d] = NoDelete

\* A claim that found its offer gets the lock and a decision.
ClaimsAreDecided == \A k \in Claims : claim[k] # NoClaim ~> claim[k] = NoClaim
=============================================================================
