------------------------------ MODULE PushOutbox ------------------------------
(***************************************************************************)
(* The push outbox (service/mobile_push_outbox.rs): rows that wait to be   *)
(* sent to one phone, the registration of that phone                       *)
(* (router/api/mobile_push.rs, router/api/mobile.rs) and the workers that  *)
(* lease rows, send them to the relay and settle them.                     *)
(*                                                                         *)
(* A worker reads the clock, queues for SQLite's writer lock, claims a row *)
(* in one transaction, sends, reads the clock again and settles in another *)
(* transaction.  Any time may pass between those steps, so a lease can     *)
(* lapse under the worker that holds it, and the clock it reads can be old *)
(* when it is used.  Registrations change at any time in transactions of   *)
(* their own.  The phone keeps one mobile session throughout: rows of      *)
(* another session are not eligible by a comparison like that of revisions. *)
(***************************************************************************)
EXTENDS Naturals, FiniteSets

CONSTANTS
    Events,        \* event ids: the rows of this installation
    Tokens,        \* device tokens, each with the content key the phone made for it
    Workers,       \* the delivery workers (4)
    None,
    Window,        \* how long a row may be sent: 1800 s
    Lease,         \* LEASE_SECONDS
    Backoff,       \* the wait before a retry: min(2 ^ attempts, 300) s
    MaxTime,       \* the clock's last value
    MaxRevision,   \* changes of a registration
    MaxFailures    \* transactions of workers that fail, or restarts

ASSUME TimeAssumption ==
    \A n \in {Window, Lease, Backoff, MaxTime, MaxRevision, MaxFailures} : n \in Nat

VARIABLES
    clock,
    reg,        \* the row of mobile_push_registrations, or None
    entitled,   \* session and account may receive: role, expiry, password
    rows,       \* mobile_push_outbox
    wk,         \* the workers
    failures,   \* of workers, so far
    bound       \* history: the token a row was encrypted for, None once the
                \* registration was deleted

vars == <<clock, reg, entitled, rows, wk, failures, bound>>

\* "on" is enabled, with the category of the rows.  Enabled without it differs
\* from disabled in keeping the token only; the new revision fences rows alike.
Registration == [rev : 1..MaxRevision + 1, on : BOOLEAN, token : Tokens \cup {None}]

\* "ineligible" is the permanent outcome with the reason Ineligible.
OutboxRow == [outcome : {"pending", "retryable", "accepted", "permanent", "expired", "ineligible"},
              rev : 1..MaxRevision + 1, envelope : {"ciphertext", "null"},
              next : 0..MaxTime, expires : 0..MaxTime,
              lease : Workers \cup {None}, until : 0..MaxTime]

\* "at" is the clock as the worker last read it; "token" and "rev" are of the
\* registration it sends to, None and 0 if the row had no envelope to send.
Worker == [pc : {"idle", "claiming", "sending", "answered"},
           at : 0..MaxTime, event : Events \cup {None}, until : 0..MaxTime,
           token : Tokens \cup {None}, rev : 0..MaxRevision + 1,
           verdict : {"none", "accepted", "retryable", "permanent", "unregistered", "expired"}]

ASSUME NoneAssumption ==
    /\ None \notin Events /\ None \notin Tokens /\ None \notin Workers
    /\ None \notin Registration /\ None \notin OutboxRow
    /\ None \notin [event : Events, token : Tokens]

TypeOK ==
    /\ clock \in 0..MaxTime
    /\ reg \in Registration \cup {None}
    /\ entitled \in BOOLEAN
    /\ rows \in [Events -> OutboxRow \cup {None}]
    /\ wk \in [Workers -> Worker]
    /\ failures \in 0..MaxFailures
    /\ bound \in [Events -> Tokens \cup {None}]

Idle == [pc |-> "idle", at |-> 0, event |-> None, until |-> 0, token |-> None,
         rev |-> 0, verdict |-> "none"]

Init ==
    /\ clock = 0
    /\ reg = None
    /\ entitled = TRUE
    /\ rows = [e \in Events |-> None]
    /\ wk = [w \in Workers |-> Idle]
    /\ failures = 0
    /\ bound = [e \in Events |-> None]

Unsettled(row) == row # None /\ row.outcome \in {"pending", "retryable"}

-----------------------------------------------------------------------------
(* The registration.                                                       *)

\* save_preferences: every save is a new revision, and disabling takes the token.
SavePreferences(on) ==
    /\ reg # None => reg.rev < MaxRevision
    /\ reg' = IF reg = None THEN [rev |-> 1, on |-> on, token |-> None]
              ELSE [rev |-> reg.rev + 1, on |-> on, token |-> IF on THEN reg.token ELSE None]
    /\ UNCHANGED <<clock, entitled, rows, wk, failures, bound>>

\* encrypted_register: the token and key the row has already are no change.
Register(t) ==
    /\ reg # None /\ reg.on
    /\ reg.token # t /\ reg.rev < MaxRevision
    /\ reg' = [reg EXCEPT !.rev = @ + 1, !.token = t]
    /\ UNCHANGED <<clock, entitled, rows, wk, failures, bound>>

\* push_unregister: the row goes, and its revision with it.
Unregister ==
    /\ reg # None
    /\ reg' = None
    /\ bound' = [e \in Events |-> None]
    /\ UNCHANGED <<clock, entitled, rows, wk, failures>>

\* The owner's role or password changes, the session ends; or the role comes back.
Entitle ==
    /\ entitled' = ~entitled
    /\ UNCHANGED <<clock, reg, rows, wk, failures, bound>>

\* Mutant of Eligible: the revision is not compared.
EligibleAnyRevision(rev) ==
    /\ reg # None
    /\ reg.token # None /\ reg.on
    /\ entitled

\* eligible
Eligible(rev) ==
    /\ reg # None /\ reg.rev = rev
    /\ reg.token # None /\ reg.on
    /\ entitled

\* finish_run, enqueue_security, enqueue_alert, test_notification: a row for the
\* registration as it is, once for each event.  The window of a task's run counts
\* from the end of the run, so part of it may be over.
Admit(e) ==
    /\ rows[e] = None
    /\ clock + Window + Lease <= MaxTime
    /\ reg # None /\ Eligible(reg.rev)
    /\ \E left \in 1..Window :
         rows' = [rows EXCEPT ![e] =
                   [outcome |-> "pending", rev |-> reg.rev, envelope |-> "ciphertext", next |-> clock,
                    expires |-> clock + left, lease |-> None, until |-> 0]]
    /\ bound' = [bound EXCEPT ![e] = reg.token]
    /\ UNCHANGED <<clock, reg, entitled, wk, failures>>

-----------------------------------------------------------------------------
(* deliver_next                                                            *)

\* Mutant of Ready: only rows without a lease are looked at.
ReadyUnleased(row, now) ==
    /\ Unsettled(row)
    /\ row.lease = None
    /\ row.next <= now \/ row.expires <= now

Ready(row, now) ==
    /\ Unsettled(row)
    /\ row.until <= now
    /\ row.next <= now \/ row.expires <= now

\* The read without the lock; "now" is taken before it.
Poll(w) ==
    /\ wk[w].pc = "idle"
    /\ \E e \in Events : Ready(rows[e], clock)
    /\ wk' = [wk EXCEPT ![w].pc = "claiming", ![w].at = clock]
    /\ UNCHANGED <<clock, reg, entitled, rows, failures, bound>>

\* A settled row without its envelope; when it was to be sent next is not read
\* any more, and 0 here.
Closed(row, outcome) == [row EXCEPT !.outcome = outcome, !.envelope = "null", !.next = 0]

\* Mutant of Expired: rows out of time are not closed before the claim.
ExpiredNever(row, now) == FALSE

Expired(row, now) == Unsettled(row) /\ row.expires <= now /\ row.until <= now

\* Rows that were not delivered in time, unless somebody holds a lease on them.
Swept(now) ==
    [e \in Events |-> IF Expired(rows[e], now)
                        THEN [Closed(rows[e], "expired") EXCEPT !.lease = None, !.until = 0]
                        ELSE rows[e]]

\* Mutant of Due: rows under a lease are taken as well.
DueLeased(now) == {e \in Events : Unsettled(rows[e]) /\ ~Expired(rows[e], now) /\ rows[e].next <= now}

\* The rows to take, the one that waited longest first.
Due(now) ==
    {e \in Events : Unsettled(rows[e]) /\ ~Expired(rows[e], now)
                      /\ rows[e].next <= now /\ rows[e].until <= now}

First(due) == {e \in due : \A f \in due : rows[e].next <= rows[f].next}

\* The claim found nothing left to take.
ClaimNothing(w) ==
    /\ wk[w].pc = "claiming"
    /\ Due(wk[w].at) = {}
    /\ rows' = Swept(wk[w].at)
    /\ wk' = [wk EXCEPT ![w] = Idle]
    /\ UNCHANGED <<clock, reg, entitled, failures, bound>>

\* A row nobody may receive any more is closed.  Its lease id stays.
ClaimIneligible(w) ==
    /\ wk[w].pc = "claiming"
    /\ \E e \in First(Due(wk[w].at)) :
         /\ ~Eligible(rows[e].rev)
         /\ rows' = [Swept(wk[w].at) EXCEPT ![e] = Closed(@, "ineligible")]
    /\ wk' = [wk EXCEPT ![w] = Idle]
    /\ UNCHANGED <<clock, reg, entitled, failures, bound>>

\* A lease is taken on the row, counted from the clock the worker read; without
\* an envelope the answer is known at once.
Claim(w) ==
    /\ wk[w].pc = "claiming"
    /\ LET now == wk[w].at IN
       \E e \in First(Due(now)) :
         /\ Eligible(rows[e].rev)
         /\ rows' = [Swept(now) EXCEPT ![e].lease = w, ![e].until = now + Lease]
         /\ wk' = [wk EXCEPT ![w] =
              IF rows[e].envelope = "ciphertext"
                THEN [pc |-> "sending", at |-> 0, event |-> e, until |-> now + Lease,
                      token |-> reg.token, rev |-> reg.rev, verdict |-> "none"]
                ELSE [pc |-> "answered", at |-> 0, event |-> e, until |-> now + Lease,
                      token |-> None, rev |-> 0, verdict |-> "permanent"]]
    /\ UNCHANGED <<clock, reg, entitled, failures, bound>>

\* The relay's verdict, a refusal, or no answer in time; then "finished" is read,
\* which matters for a retry.
Respond(w) ==
    /\ wk[w].pc = "sending"
    /\ \E verdict \in {"accepted", "retryable", "permanent", "unregistered", "expired"} :
         wk' = [wk EXCEPT ![w].pc = "answered", ![w].verdict = verdict,
                          ![w].at = IF verdict = "retryable" THEN clock ELSE 0]
    /\ UNCHANGED <<clock, reg, entitled, rows, failures, bound>>

Holds(w) == rows[wk[w].event].lease = w

\* The token the send went to is erased, unless anything about it has changed.
Erases(w) ==
    /\ wk[w].verdict = "unregistered"
    /\ reg # None /\ reg.token = wk[w].token /\ reg.rev = wk[w].rev

Earlier(m, n) == IF m < n THEN m ELSE n

\* "at" is the clock after the answer: a retry that would come too late is none.
Outcome(w) ==
    IF wk[w].verdict = "retryable" /\ wk[w].at >= rows[wk[w].event].expires THEN "expired"
    ELSE IF wk[w].verdict = "unregistered" THEN "permanent"
    ELSE wk[w].verdict

\* What becomes of the row when its sender's answer is written.
Answered(row, w) ==
    LET again == Outcome(w) = "retryable"
    IN [row EXCEPT !.outcome = Outcome(w),
                   !.envelope = IF again THEN @ ELSE "null",
                   !.next = IF again THEN Earlier(wk[w].at + Backoff, row.expires) ELSE 0,
                   !.lease = None, !.until = 0]

\* The answer is written if the row still carries this worker's lease.
Settle(w) ==
    /\ wk[w].pc = "answered" /\ Holds(w)
    /\ rows' = [rows EXCEPT ![wk[w].event] = Answered(@, w)]
    /\ reg' = IF Erases(w) THEN [reg EXCEPT !.token = None, !.rev = @ + 1] ELSE reg
    /\ wk' = [wk EXCEPT ![w] = Idle]
    /\ UNCHANGED <<clock, entitled, failures, bound>>

\* The row was taken over or expired meanwhile: the answer is dropped.
Drop(w) ==
    /\ wk[w].pc = "answered" /\ ~Holds(w)
    /\ wk' = [wk EXCEPT ![w] = Idle]
    /\ UNCHANGED <<clock, reg, entitled, rows, failures, bound>>

\* The settling transaction fails, or the process dies and another takes its
\* place; the lease stays in the row until it lapses.
Fail(w) ==
    /\ wk[w].pc \in {"sending", "answered"} /\ failures < MaxFailures
    /\ failures' = failures + 1
    /\ wk' = [wk EXCEPT ![w] = Idle]
    /\ UNCHANGED <<clock, reg, entitled, rows, bound>>

Tick ==
    /\ clock < MaxTime
    /\ clock' = clock + 1
    /\ UNCHANGED <<reg, entitled, rows, wk, failures, bound>>

-----------------------------------------------------------------------------
Deliver(w) ==
    \/ Poll(w) \/ ClaimNothing(w) \/ ClaimIneligible(w) \/ Claim(w)
    \/ Respond(w) \/ Settle(w) \/ Drop(w)

Next ==
    \/ \E on \in BOOLEAN : SavePreferences(on)
    \/ \E t \in Tokens : Register(t)
    \/ Unregister
    \/ Entitle
    \/ \E e \in Events : Admit(e)
    \/ \E w \in Workers : Deliver(w) \/ Fail(w)
    \/ Tick

\* Time passes, and the workers poll for ever; a send ends by its timeout.
Spec == Init /\ [][Next]_vars /\ WF_vars(Tick) /\ \A w \in Workers : WF_vars(Deliver(w))

-----------------------------------------------------------------------------
(* Properties.                                                             *)

\* A lease is exclusive while it lasts: the row of a worker whose lease has not
\* lapsed carries that worker's lease, so no second worker sends it meanwhile.
LeaseIsExclusive ==
    \A w \in Workers :
        wk[w].pc \in {"sending", "answered"} /\ wk[w].until > clock => Holds(w)

\* The contract, for which a row whose envelope is gone is withdrawn.
Fate(row) ==
    IF row = None THEN "unknown"
    ELSE IF row.outcome = "ineligible" THEN "withdrawn"
    ELSE IF Unsettled(row) THEN (IF row.envelope = "null" THEN "withdrawn" ELSE "open")
    ELSE row.outcome

InFlight(w) ==
    IF wk[w].token = None THEN None ELSE [event |-> wk[w].event, token |-> wk[w].token]

Contract == INSTANCE PushContract WITH
    Channels <- Workers,
    token <- IF reg = None THEN None ELSE reg.token,
    fate <- [e \in Events |-> Fate(rows[e])],
    flight <- [w \in Workers |-> InFlight(w)]

\* deliver_next, with leases that lapse and answers that come late, keeps what
\* PushContract promises: no send but to the token a row is for, one final fate,
\* no token lost to an answer about another.
ImplementsContract == Contract!Spec

\* Every admitted row comes to an outcome, whoever fails in between: a lease that
\* a dead worker left lapses, and a row out of time is expired.
RowsSettle == \A e \in Events : (rows[e] # None) ~> (rows[e] # None /\ ~Unsettled(rows[e]))
===============================================================================
