-------------------------- MODULE PushOutboxProofs --------------------------
(***************************************************************************)
(* The push outbox, for any numbers of rows, tokens and workers and any    *)
(* length of window, lease and backoff: leases are exclusive, and the      *)
(* outbox implements PushContract.                                         *)
(***************************************************************************)
EXTENDS PushOutbox, TLAPS

\* A worker that sends or has an answer has claimed a row.
Active(w) == wk[w].pc \in {"sending", "answered"}

ActiveHasRow ==
    \A w \in Workers :
      /\ Active(w) => wk[w].event \in Events /\ rows[wk[w].event] # None
      /\ ~Active(w) => wk[w].token = None

\* No worker is ahead of the clock.
ClocksAreRead == \A w \in Workers : wk[w].at <= clock

\* Only a worker that sends to a token is told that it is not registered.
TokensAreKnown ==
    \A w \in Workers :
      wk[w].pc = "sending" \/ wk[w].verdict = "unregistered" => wk[w].token # None

AnswersAreVerdicts == \A w \in Workers : wk[w].pc = "answered" => wk[w].verdict # "none"

WorkerInv == ActiveHasRow /\ ClocksAreRead /\ TokensAreKnown /\ AnswersAreVerdicts

\* While a lease lasts, the row says so.
LeaseIsWritten ==
    \A w \in Workers :
      Active(w) /\ wk[w].until > clock
        => rows[wk[w].event].lease = w /\ rows[wk[w].event].until = wk[w].until

\* The bounds of clock and revisions are never met by a row or an erasure.
RowsAreEarly == \A e \in Events : rows[e] # None => rows[e].expires + Lease <= MaxTime

TokensAreEarly == reg # None /\ reg.token # None => reg.rev <= MaxRevision

\* A row with the registration's revision is for the registration's token, unless
\* it is older than the registration.
RevisionsTellTokens ==
    \A e \in Events :
      bound[e] # None =>
        /\ reg # None /\ rows[e] # None
        /\ rows[e].rev <= reg.rev
        /\ rows[e].rev = reg.rev /\ reg.token # None => bound[e] = reg.token

\* A row under a lease is not settled, but perhaps ineligible.
LeasedRowsAreOpen ==
    \A e \in Events :
      rows[e] # None =>
        /\ rows[e].lease # None => rows[e].outcome \in {"pending", "retryable", "ineligible"}
        /\ rows[e].outcome = "ineligible" => rows[e].envelope = "null"

\* A worker without a token has found its row without an envelope.
NothingToSend ==
    \A w \in Workers :
      Active(w) /\ wk[w].token = None
        => /\ rows[wk[w].event].envelope = "null"
           /\ wk[w].verdict = "permanent" /\ wk[w].pc = "answered"

RowInv ==
    LeaseIsWritten /\ RowsAreEarly /\ RevisionsTellTokens /\ LeasedRowsAreOpen /\ NothingToSend

IInv == TypeOK /\ WorkerInv /\ TokensAreEarly /\ RowInv

-----------------------------------------------------------------------------
(* Rows.                                                                   *)

LEMMA Numbers ==
    /\ Window \in Nat /\ Lease \in Nat /\ Backoff \in Nat /\ MaxTime \in Nat
    /\ MaxRevision \in Nat /\ MaxFailures \in Nat /\ 0 \in 0..MaxTime
  BY TimeAssumption

LEMMA IdleIsWorker == Idle \in Worker
  BY Numbers DEF Idle, Worker

LEMMA RowFields ==
    ASSUME NEW row \in OutboxRow
    PROVE  /\ row.rev \in Nat /\ row.expires \in 0..MaxTime /\ row.until \in 0..MaxTime
           /\ row.next \in 0..MaxTime /\ row.lease \in Workers \cup {None}
           /\ row.envelope \in {"ciphertext", "null"} /\ row # None
  BY Numbers, NoneAssumption DEF OutboxRow

\* The row of e is closed, which needs that no lease on it lasts.
Closes(e) ==
    /\ rows[e] \in OutboxRow /\ Unsettled(rows[e]) /\ rows[e].until <= clock
    /\ rows'[e] \in OutboxRow
    /\ rows'[e].outcome \in {"expired", "ineligible"} /\ rows'[e].envelope = "null"
    /\ rows'[e].rev = rows[e].rev /\ rows'[e].expires = rows[e].expires
    /\ rows'[e].lease # None => rows'[e].outcome = "ineligible"

LEMMA ClosedIsRow ==
    ASSUME NEW row \in OutboxRow, NEW outcome \in {"expired", "ineligible"}
    PROVE  LET closed == Closed(row, outcome) IN
           /\ closed \in OutboxRow
           /\ closed.outcome = outcome /\ closed.envelope = "null"
           /\ closed.rev = row.rev /\ closed.expires = row.expires
  BY Numbers DEF Closed, OutboxRow

LEMMA ExpiredIsRow ==
    ASSUME NEW row \in OutboxRow
    PROVE  LET gone == [Closed(row, "expired") EXCEPT !.lease = None, !.until = 0] IN
           /\ gone \in OutboxRow
           /\ gone.outcome = "expired" /\ gone.envelope = "null" /\ gone.lease = None
           /\ gone.rev = row.rev /\ gone.expires = row.expires
  BY Numbers DEF Closed, OutboxRow

LEMMA SweptRows ==
    ASSUME TypeOK, NEW now
    PROVE  /\ Swept(now) \in [Events -> OutboxRow \cup {None}]
           /\ \A e \in Events :
                /\ ~Expired(rows[e], now) => Swept(now)[e] = rows[e]
                /\ Expired(rows[e], now) =>
                     /\ rows[e] \in OutboxRow /\ Unsettled(rows[e]) /\ rows[e].until <= now
                     /\ Swept(now)[e] \in OutboxRow
                     /\ Swept(now)[e].outcome = "expired" /\ Swept(now)[e].envelope = "null"
                     /\ Swept(now)[e].rev = rows[e].rev /\ Swept(now)[e].expires = rows[e].expires
                     /\ Swept(now)[e].lease = None
<1>1. ASSUME NEW e \in Events, Expired(rows[e], now) PROVE rows[e] \in OutboxRow
  BY <1>1 DEF TypeOK, Expired, Unsettled
<1>. QED BY <1>1, ExpiredIsRow DEF TypeOK, Swept, Expired

\* What a claim sweeps, it closes: the clock it read is not ahead.
LEMMA SweepCloses ==
    ASSUME IInv, NEW w \in Workers, NEW e \in Events, rows'[e] = Swept(wk[w].at)[e]
    PROVE  \/ rows'[e] = rows[e]
           \/ Closes(e) /\ rows'[e].outcome = "expired" /\ Expired(rows[e], wk[w].at)
<1>1. wk[w].at \in Nat /\ clock \in Nat /\ wk[w].at <= clock
  BY Numbers DEF IInv, TypeOK, Worker, WorkerInv, ClocksAreRead
<1>2. CASE Expired(rows[e], wk[w].at)
  <2>1. rows[e] \in OutboxRow /\ rows[e].until \in Nat
    BY <1>2, SweptRows, RowFields, Numbers DEF IInv
  <2>. QED BY <1>1, <1>2, <2>1, SweptRows DEF IInv, Closes
<1>3. CASE ~Expired(rows[e], wk[w].at)
  BY <1>3, SweptRows DEF IInv
<1>. QED BY <1>2, <1>3

-----------------------------------------------------------------------------
(* Workers and rows that a step leaves alone, or nearly so.                *)

LEMMA InitIInv == Init => IInv
<1>. SUFFICES ASSUME Init PROVE IInv
  OBVIOUS
<1>1. TypeOK
  BY IdleIsWorker, Numbers DEF Init, TypeOK
<1>2. WorkerInv
  BY DEF Init, Idle, WorkerInv, ActiveHasRow, Active, ClocksAreRead, TokensAreKnown,
     AnswersAreVerdicts
<1>3. TokensAreEarly /\ RowInv
  BY DEF Init, Idle, Active, TokensAreEarly, RowInv, LeaseIsWritten, RowsAreEarly,
     RevisionsTellTokens, LeasedRowsAreOpen, NothingToSend
<1>. QED BY <1>1, <1>2, <1>3 DEF IInv

LEMMA NoWorkerMoves ==
    ASSUME IInv, UNCHANGED <<clock, rows, wk>>
    PROVE  WorkerInv' /\ LeaseIsWritten' /\ RowsAreEarly' /\ LeasedRowsAreOpen' /\ NothingToSend'
  BY DEF IInv, WorkerInv, ActiveHasRow, Active, ClocksAreRead, TokensAreKnown,
     AnswersAreVerdicts, RowInv, LeaseIsWritten, RowsAreEarly, LeasedRowsAreOpen, NothingToSend

LEMMA WorkerRests ==
    ASSUME IInv, NEW w \in Workers, wk' = [wk EXCEPT ![w] = Idle], clock' = clock,
           \A e \in Events : rows[e] # None => rows'[e] # None
    PROVE  wk' \in [Workers -> Worker] /\ WorkerInv'
<1>1. wk' \in [Workers -> Worker]
  BY IdleIsWorker DEF IInv, TypeOK
<1>2. wk'[w] = Idle /\ \A v \in Workers : v # w => wk'[v] = wk[v]
  BY DEF IInv, TypeOK
<1>3. clock \in Nat
  BY Numbers DEF IInv, TypeOK
<1>4. ActiveHasRow' /\ ClocksAreRead'
  BY <1>2, <1>3 DEF IInv, WorkerInv, ActiveHasRow, Active, ClocksAreRead, Idle
<1>5. TokensAreKnown' /\ AnswersAreVerdicts'
  BY <1>2 DEF IInv, WorkerInv, TokensAreKnown, AnswersAreVerdicts, Idle
<1>. QED BY <1>1, <1>4, <1>5 DEF WorkerInv

\* Rows that are closed are of no worker whose lease lasts.
LEMMA ClosingKeepsRows ==
    ASSUME IInv, NEW w \in Workers, wk' = [wk EXCEPT ![w] = Idle],
           UNCHANGED <<clock, reg, bound>>,
           \A e \in Events : rows'[e] = rows[e] \/ Closes(e)
    PROVE  RowInv'
<1>1. wk'[w] = Idle /\ \A v \in Workers : v # w => wk'[v] = wk[v]
  BY DEF IInv, TypeOK
<1>2. LeaseIsWritten'
  <2>. SUFFICES ASSUME NEW v \in Workers, Active(v)', wk'[v].until > clock
                PROVE  rows'[wk[v].event] = rows[wk[v].event] /\ wk'[v] = wk[v] /\ Active(v)
    BY DEF IInv, RowInv, LeaseIsWritten
  <2>1. v # w /\ wk'[v] = wk[v] /\ Active(v)
    BY <1>1 DEF Active, Idle
  <2>2. /\ wk[v].event \in Events /\ rows[wk[v].event].until = wk[v].until
        /\ wk[v].until \in Nat /\ clock \in Nat
    BY <2>1, Numbers DEF IInv, TypeOK, Worker, WorkerInv, ActiveHasRow, RowInv, LeaseIsWritten
  <2>3. ~Closes(wk[v].event)
    BY <2>1, <2>2 DEF Closes
  <2>. QED BY <2>1, <2>2, <2>3
<1>3. RowsAreEarly'
  BY NoneAssumption DEF IInv, RowInv, RowsAreEarly, Closes
<1>4. RevisionsTellTokens'
  BY NoneAssumption DEF IInv, RowInv, RevisionsTellTokens, Closes
<1>5. LeasedRowsAreOpen'
  BY DEF IInv, RowInv, LeasedRowsAreOpen, Closes
<1>6. NothingToSend'
  BY <1>1 DEF IInv, WorkerInv, ActiveHasRow, RowInv, NothingToSend, Active, Idle, Closes
<1>. QED BY <1>2, <1>3, <1>4, <1>5, <1>6 DEF RowInv

-----------------------------------------------------------------------------
(* Every step preserves the invariant: the registration, admission, time.  *)

LEMMA SavePreferencesKeepsIInv ==
    ASSUME IInv, NEW on \in BOOLEAN, SavePreferences(on)
    PROVE  IInv'
<1>1. /\ reg' \in Registration
      /\ reg'.token = IF reg # None /\ on THEN reg.token ELSE None
      /\ reg # None => reg.rev \in Nat /\ reg.rev < MaxRevision /\ reg'.rev = reg.rev + 1
  <2>1. CASE reg = None
    BY <2>1, Numbers DEF SavePreferences, Registration
  <2>2. CASE reg # None
    <3>1. reg.rev \in 1..MaxRevision + 1 /\ reg.token \in Tokens \cup {None}
      BY <2>2 DEF IInv, TypeOK, Registration
    <3>2. reg' = [rev |-> reg.rev + 1, on |-> on, token |-> IF on THEN reg.token ELSE None]
      BY <2>2 DEF SavePreferences
    <3>. QED BY <2>2, <3>1, <3>2, Numbers DEF SavePreferences, Registration
  <2>. QED BY <2>1, <2>2
<1>2. TypeOK'
  BY <1>1 DEF IInv, TypeOK, SavePreferences
<1>3. TokensAreEarly'
  BY <1>1, Numbers DEF TokensAreEarly
<1>4. RevisionsTellTokens'
  <2>1. \A e \in Events : rows[e] # None => rows[e].rev \in Nat
    BY RowFields DEF IInv, TypeOK
  <2>. QED BY <1>1, <2>1, NoneAssumption
           DEF IInv, RowInv, RevisionsTellTokens, SavePreferences
<1>. QED BY <1>2, <1>3, <1>4, NoWorkerMoves DEF SavePreferences, IInv, RowInv

LEMMA RegisterKeepsIInv ==
    ASSUME IInv, NEW t \in Tokens, Register(t)
    PROVE  IInv'
<1>1. reg \in Registration /\ reg.rev \in Nat /\ reg.rev < MaxRevision
  BY DEF IInv, TypeOK, Register, Registration
<1>2. reg' \in Registration /\ reg'.rev = reg.rev + 1
  <2>1. reg' = [reg EXCEPT !.rev = reg.rev + 1, !.token = t]
    BY DEF Register
  <2>2. reg.rev + 1 \in 1..MaxRevision + 1
    BY <1>1, Numbers
  <2>. QED BY <1>1, <2>1, <2>2 DEF Registration
<1>3. TypeOK'
  BY <1>2 DEF IInv, TypeOK, Register
<1>4. TokensAreEarly'
  BY <1>1, <1>2, Numbers DEF TokensAreEarly
<1>5. RevisionsTellTokens'
  <2>1. \A e \in Events : rows[e] # None => rows[e].rev \in Nat
    BY RowFields DEF IInv, TypeOK
  <2>. QED BY <1>1, <1>2, <2>1, NoneAssumption DEF IInv, RowInv, RevisionsTellTokens, Register
<1>. QED BY <1>3, <1>4, <1>5, NoWorkerMoves DEF Register, IInv, RowInv

LEMMA UnregisterKeepsIInv ==
    ASSUME IInv, Unregister
    PROVE  IInv'
<1>1. TypeOK' /\ TokensAreEarly' /\ RevisionsTellTokens'
  BY DEF IInv, TypeOK, Unregister, TokensAreEarly, RevisionsTellTokens
<1>. QED BY <1>1, NoWorkerMoves DEF Unregister, IInv, RowInv

LEMMA EntitleKeepsIInv ==
    ASSUME IInv, Entitle
    PROVE  IInv'
<1>1. TypeOK' /\ TokensAreEarly' /\ RevisionsTellTokens'
  BY DEF IInv, TypeOK, Entitle, TokensAreEarly, RowInv, RevisionsTellTokens
<1>. QED BY <1>1, NoWorkerMoves DEF Entitle, IInv, RowInv

LEMMA AdmitWritesOneRow ==
    ASSUME IInv, NEW e \in Events, Admit(e)
    PROVE  /\ reg \in Registration /\ reg.token \in Tokens /\ rows[e] = None
           /\ rows'[e] \in OutboxRow /\ rows'[e].rev = reg.rev
           /\ rows'[e].expires + Lease <= MaxTime
           /\ rows'[e].outcome = "pending" /\ rows'[e].envelope = "ciphertext"
           /\ rows'[e].lease = None
           /\ \A f \in Events : f # e => rows'[f] = rows[f]
           /\ rows' \in [Events -> OutboxRow \cup {None}]
           /\ bound'[e] = reg.token /\ \A f \in Events : f # e => bound'[f] = bound[f]
           /\ bound' \in [Events -> Tokens \cup {None}]
<1>1. PICK left \in 1..Window :
        rows' = [rows EXCEPT ![e] =
                  [outcome |-> "pending", rev |-> reg.rev, envelope |-> "ciphertext",
                   next |-> clock, expires |-> clock + left, lease |-> None, until |-> 0]]
  BY DEF Admit
<1>2. reg \in Registration /\ reg.rev \in 1..MaxRevision + 1 /\ reg.token \in Tokens
  BY DEF Admit, Eligible, IInv, TypeOK, Registration
<1>3. clock + left \in 0..MaxTime /\ clock + left + Lease <= MaxTime /\ clock \in 0..MaxTime
  BY Numbers DEF Admit, IInv, TypeOK
<1>. DEFINE row == [outcome |-> "pending", rev |-> reg.rev, envelope |-> "ciphertext",
                    next |-> clock, expires |-> clock + left, lease |-> None, until |-> 0]
<1>4. row \in OutboxRow
  BY <1>2, <1>3, Numbers DEF OutboxRow
<1>5. rows'[e] = row /\ \A f \in Events : f # e => rows'[f] = rows[f]
  BY <1>1 DEF IInv, TypeOK
<1>6. rows' \in [Events -> OutboxRow \cup {None}]
  BY <1>1, <1>4 DEF IInv, TypeOK
<1>7. /\ bound'[e] = reg.token /\ \A f \in Events : f # e => bound'[f] = bound[f]
      /\ bound' \in [Events -> Tokens \cup {None}]
  BY <1>2 DEF Admit, IInv, TypeOK
<1>. QED BY <1>2, <1>3, <1>4, <1>5, <1>6, <1>7 DEF Admit

LEMMA AdmitKeepsIInv ==
    ASSUME IInv, NEW e \in Events, Admit(e)
    PROVE  IInv'
<1>1. TypeOK'
  BY AdmitWritesOneRow DEF IInv, TypeOK, Admit
<1>2. \A w \in Workers : Active(w) => wk[w].event # e
  BY AdmitWritesOneRow DEF IInv, WorkerInv, ActiveHasRow
<1>3. WorkerInv'
  BY <1>2, AdmitWritesOneRow DEF Admit, IInv, WorkerInv, ActiveHasRow, Active, ClocksAreRead,
     TokensAreKnown, AnswersAreVerdicts
<1>4. LeaseIsWritten' /\ NothingToSend'
  BY <1>2, AdmitWritesOneRow DEF Admit, IInv, WorkerInv, ActiveHasRow, RowInv, LeaseIsWritten,
     NothingToSend, Active
<1>5. RowsAreEarly' /\ LeasedRowsAreOpen'
  <2>1. ASSUME NEW f \in Events, f # e PROVE rows'[f] = rows[f]
    BY <2>1, AdmitWritesOneRow
  <2>2. rows'[e].expires + Lease <= MaxTime /\ rows'[e].lease = None /\ rows'[e].outcome = "pending"
    BY AdmitWritesOneRow
  <2>. QED BY <2>1, <2>2 DEF IInv, RowInv, RowsAreEarly, LeasedRowsAreOpen
<1>6. TokensAreEarly'
  BY DEF Admit, IInv, TokensAreEarly
<1>7. RevisionsTellTokens'
  <2>1. ASSUME NEW f \in Events, f # e PROVE rows'[f] = rows[f] /\ bound'[f] = bound[f]
    BY <2>1, AdmitWritesOneRow
  <2>2. reg' = reg /\ reg # None /\ reg.rev \in Nat
    <3>1. reg \in Registration /\ reg' = reg
      BY AdmitWritesOneRow DEF Admit
    <3>2. reg # None
      BY <3>1, NoneAssumption
    <3>. QED BY <3>1, <3>2, Numbers DEF Registration
  <2>3. rows'[e] # None /\ rows'[e].rev = reg.rev /\ bound'[e] = reg.token
    BY AdmitWritesOneRow, RowFields
  <2>. QED BY <2>1, <2>2, <2>3 DEF IInv, RowInv, RevisionsTellTokens
<1>. QED BY <1>1, <1>3, <1>4, <1>5, <1>6, <1>7 DEF IInv, RowInv

LEMMA TickKeepsIInv ==
    ASSUME IInv, Tick
    PROVE  IInv'
<1>1. clock \in Nat /\ clock' = clock + 1 /\ \A w \in Workers : wk[w].at \in Nat /\ wk[w].until \in Nat
  BY Numbers DEF IInv, TypeOK, Tick, Worker
<1>2. TypeOK'
  BY Numbers DEF IInv, TypeOK, Tick
<1>3. WorkerInv'
  BY <1>1 DEF Tick, IInv, WorkerInv, ActiveHasRow, Active, ClocksAreRead, TokensAreKnown,
     AnswersAreVerdicts
<1>4. RowInv' /\ TokensAreEarly'
  BY <1>1 DEF Tick, IInv, TokensAreEarly, RowInv, LeaseIsWritten, RowsAreEarly,
     RevisionsTellTokens, LeasedRowsAreOpen, NothingToSend, Active
<1>. QED BY <1>2, <1>3, <1>4 DEF IInv

-----------------------------------------------------------------------------
(* Every step preserves the invariant: deliver_next.                       *)

LEMMA PollKeepsIInv ==
    ASSUME IInv, NEW w \in Workers, Poll(w)
    PROVE  IInv'
<1>1. wk' = [wk EXCEPT ![w] = [wk[w] EXCEPT !.pc = "claiming", !.at = clock]]
  BY DEF Poll
<1>2. wk[w] \in Worker /\ clock \in 0..MaxTime
  BY DEF IInv, TypeOK
<1>3. [wk[w] EXCEPT !.pc = "claiming", !.at = clock] \in Worker
  BY <1>2 DEF Worker
<1>4. wk' \in [Workers -> Worker]
  BY <1>1, <1>3 DEF IInv, TypeOK
<1>5. /\ wk'[w].pc = "claiming" /\ wk'[w].at = clock
      /\ wk'[w].token = wk[w].token /\ wk'[w].verdict = wk[w].verdict
      /\ \A v \in Workers : v # w => wk'[v] = wk[v]
  BY <1>1, <1>2 DEF IInv, TypeOK, Worker
<1>6. clock \in Nat
  BY <1>2, Numbers
<1>7. ActiveHasRow' /\ ClocksAreRead'
  <2>1. ~Active(w) /\ ~Active(w)' /\ rows' = rows /\ clock' = clock
    BY <1>5 DEF Poll, Active
  <2>2. ASSUME NEW v \in Workers, v # w PROVE wk'[v] = wk[v] /\ (Active(v)' <=> Active(v))
    BY <1>5, <2>2 DEF Active
  <2>. QED BY <1>5, <1>6, <2>1, <2>2 DEF IInv, WorkerInv, ActiveHasRow, ClocksAreRead
<1>8. TokensAreKnown' /\ AnswersAreVerdicts'
  BY <1>5 DEF IInv, WorkerInv, TokensAreKnown, AnswersAreVerdicts
<1>9. RowInv' /\ TokensAreEarly'
  <2>1. UNCHANGED <<clock, reg, rows, bound>> /\ ~Active(w)'
    BY <1>5 DEF Poll, Active
  <2>2. ASSUME NEW v \in Workers, v # w PROVE wk'[v] = wk[v] /\ (Active(v)' <=> Active(v))
    BY <1>5, <2>2 DEF Active
  <2>3. LeaseIsWritten' /\ NothingToSend'
    BY <2>1, <2>2 DEF IInv, RowInv, LeaseIsWritten, NothingToSend
  <2>. QED BY <2>1, <2>3 DEF IInv, TokensAreEarly, RowInv, RowsAreEarly, RevisionsTellTokens,
           LeasedRowsAreOpen
<1>. QED BY <1>4, <1>7, <1>8, <1>9 DEF Poll, IInv, TypeOK, WorkerInv

LEMMA ClaimNothingKeepsIInv ==
    ASSUME IInv, NEW w \in Workers, ClaimNothing(w)
    PROVE  IInv'
<1>1. \A e \in Events : rows'[e] = rows[e] \/ Closes(e)
  BY SweepCloses DEF ClaimNothing
<1>2. \A e \in Events : rows[e] # None => rows'[e] # None
  BY <1>1, NoneAssumption DEF Closes
<1>3. RowInv' /\ WorkerInv' /\ wk' \in [Workers -> Worker]
  BY <1>1, <1>2, ClosingKeepsRows, WorkerRests DEF ClaimNothing
<1>4. TypeOK'
  BY <1>3, SweptRows DEF ClaimNothing, IInv, TypeOK
<1>. QED BY <1>3, <1>4 DEF ClaimNothing, IInv, TokensAreEarly

LEMMA ClaimIneligibleKeepsIInv ==
    ASSUME IInv, NEW w \in Workers, ClaimIneligible(w)
    PROVE  IInv'
<1>1. PICK e \in First(Due(wk[w].at)) :
        rows' = [Swept(wk[w].at) EXCEPT ![e] = Closed(@, "ineligible")]
  BY DEF ClaimIneligible
<1>. DEFINE swept == Swept(wk[w].at)
<1>2. e \in Events /\ swept[e] = rows[e] /\ swept \in [Events -> OutboxRow \cup {None}]
  BY SweptRows DEF First, Due, IInv
<1>3. rows' = [swept EXCEPT ![e] = Closed(rows[e], "ineligible")]
  BY <1>1, <1>2
<1>. HIDE DEF swept
<1>4. Closes(e) /\ rows' \in [Events -> OutboxRow \cup {None}]
  <2>1. rows[e] \in OutboxRow /\ Unsettled(rows[e]) /\ rows[e].until <= wk[w].at
    BY <1>2 DEF First, Due, Unsettled, IInv, TypeOK
  <2>2. wk[w].at \in Nat /\ clock \in Nat /\ wk[w].at <= clock /\ rows[e].until \in Nat
    BY <2>1, RowFields, Numbers DEF IInv, TypeOK, Worker, WorkerInv, ClocksAreRead
  <2>3. rows'[e] = Closed(rows[e], "ineligible")
    BY <1>2, <1>3
  <2>. QED BY <1>2, <1>3, <2>1, <2>2, <2>3, ClosedIsRow DEF Closes
<1>5. \A f \in Events : rows'[f] = rows[f] \/ Closes(f)
  <2>. SUFFICES ASSUME NEW f \in Events, f # e PROVE rows'[f] = rows[f] \/ Closes(f)
    BY <1>4
  <2>1. rows'[f] = Swept(wk[w].at)[f]
    BY <1>2, <1>3 DEF swept
  <2>. QED BY <2>1, SweepCloses
<1>6. \A f \in Events : rows[f] # None => rows'[f] # None
  BY <1>5, NoneAssumption DEF Closes
<1>7. RowInv' /\ WorkerInv' /\ wk' \in [Workers -> Worker]
  BY <1>5, <1>6, ClosingKeepsRows, WorkerRests DEF ClaimIneligible
<1>. QED BY <1>4, <1>7 DEF ClaimIneligible, IInv, TypeOK, TokensAreEarly

\* A claim by worker w takes row e and sweeps the others.
Taken(w, e) ==
    /\ rows[e] \in OutboxRow /\ Unsettled(rows[e]) /\ rows[e].until <= wk[w].at
    /\ ~Expired(rows[e], wk[w].at) /\ Eligible(rows[e].rev)
    /\ wk[w].at + Lease \in 0..MaxTime
    /\ rows' \in [Events -> OutboxRow \cup {None}]
    /\ rows'[e] = [rows[e] EXCEPT !.lease = w, !.until = wk[w].at + Lease]
    /\ \A f \in Events : f # e => rows'[f] = Swept(wk[w].at)[f]
    /\ wk' = [wk EXCEPT ![w] =
              IF rows[e].envelope = "ciphertext"
                THEN [pc |-> "sending", at |-> 0, event |-> e, until |-> wk[w].at + Lease,
                      token |-> reg.token, rev |-> reg.rev, verdict |-> "none"]
                ELSE [pc |-> "answered", at |-> 0, event |-> e, until |-> wk[w].at + Lease,
                      token |-> None, rev |-> 0, verdict |-> "permanent"]]

LEMMA ClaimTakesOneRow ==
    ASSUME IInv, NEW w \in Workers, Claim(w)
    PROVE  \E e \in Events : Taken(w, e)
<1>. DEFINE now == wk[w].at
            swept == Swept(now)
<1>1. PICK e \in First(Due(now)) :
        /\ Eligible(rows[e].rev)
        /\ rows' = [swept EXCEPT ![e].lease = w, ![e].until = now + Lease]
        /\ wk' = [wk EXCEPT ![w] =
             IF rows[e].envelope = "ciphertext"
               THEN [pc |-> "sending", at |-> 0, event |-> e, until |-> now + Lease,
                     token |-> reg.token, rev |-> reg.rev, verdict |-> "none"]
               ELSE [pc |-> "answered", at |-> 0, event |-> e, until |-> now + Lease,
                     token |-> None, rev |-> 0, verdict |-> "permanent"]]
  BY DEF Claim
<1>2. /\ e \in Events /\ Unsettled(rows[e]) /\ ~Expired(rows[e], now)
      /\ rows[e].until <= now
  BY DEF First, Due
<1>3. rows[e] \in OutboxRow /\ now \in 0..MaxTime
  BY <1>2 DEF IInv, TypeOK, Unsettled, Worker
<1>4. rows[e].expires \in 0..MaxTime /\ rows[e].until \in 0..MaxTime
  BY <1>3, RowFields
<1>5. now < rows[e].expires /\ rows[e].expires + Lease <= MaxTime
  BY <1>2, <1>3, <1>4 DEF Expired, Unsettled, IInv, RowInv, RowsAreEarly
<1>6. now + Lease \in 0..MaxTime
  BY <1>3, <1>4, <1>5, Numbers
<1>7. swept[e] = rows[e] /\ swept \in [Events -> OutboxRow \cup {None}]
  BY <1>2, SweptRows DEF IInv
<1>. HIDE DEF now, swept
<1>8. [rows[e] EXCEPT !.lease = w, !.until = now + Lease] \in OutboxRow
  BY <1>3, <1>6 DEF OutboxRow
<1>9. rows' = [swept EXCEPT ![e] = [rows[e] EXCEPT !.lease = w, !.until = now + Lease]]
  BY <1>1, <1>2, <1>7
<1>10. /\ rows'[e] = [rows[e] EXCEPT !.lease = w, !.until = now + Lease]
       /\ \A f \in Events : f # e => rows'[f] = swept[f]
       /\ rows' \in [Events -> OutboxRow \cup {None}]
  BY <1>2, <1>7, <1>8, <1>9
<1>. QED BY <1>1, <1>2, <1>3, <1>6, <1>10 DEF now, swept, Taken

\* The row stays as it was but for its lease, and the worker knows it.
LEMMA TakenRow ==
    ASSUME IInv, NEW w \in Workers, NEW e \in Events, Taken(w, e)
    PROVE  /\ rows'[e] \in OutboxRow
           /\ rows'[e].outcome = rows[e].outcome /\ rows'[e].envelope = rows[e].envelope
           /\ rows'[e].rev = rows[e].rev /\ rows'[e].expires = rows[e].expires
           /\ rows'[e].lease = w /\ rows'[e].until = wk[w].at + Lease
           /\ \A f \in Events : f # e => rows'[f] = rows[f] \/ Closes(f)
           /\ \A f \in Events : rows[f] # None => rows'[f] # None
<1>1. /\ rows'[e].outcome = rows[e].outcome /\ rows'[e].envelope = rows[e].envelope
      /\ rows'[e].rev = rows[e].rev /\ rows'[e].expires = rows[e].expires
      /\ rows'[e].lease = w /\ rows'[e].until = wk[w].at + Lease
  BY DEF Taken, OutboxRow
<1>2. rows'[e] \in OutboxRow
  <2>1. rows'[e] = [rows[e] EXCEPT !.lease = w, !.until = wk[w].at + Lease]
    BY DEF Taken
  <2>. QED BY <2>1 DEF Taken, OutboxRow
<1>3. \A f \in Events : f # e => rows'[f] = rows[f] \/ Closes(f)
  BY SweepCloses DEF Taken
<1>4. \A f \in Events : rows[f] # None => rows'[f] # None
  BY <1>2, <1>3, NoneAssumption DEF Closes
<1>. QED BY <1>1, <1>2, <1>3, <1>4

LEMMA TakenWorker ==
    ASSUME IInv, NEW w \in Workers, NEW e \in Events, Taken(w, e)
    PROVE  /\ wk' \in [Workers -> Worker] /\ Active(w)'
           /\ wk'[w].at = 0 /\ wk'[w].event = e /\ wk'[w].until = wk[w].at + Lease
           /\ \/ /\ rows[e].envelope = "ciphertext" /\ wk'[w].pc = "sending"
                 /\ wk'[w].token = reg.token /\ reg.token # None /\ wk'[w].verdict = "none"
              \/ /\ rows[e].envelope = "null" /\ wk'[w].pc = "answered"
                 /\ wk'[w].token = None /\ wk'[w].verdict = "permanent"
           /\ \A v \in Workers : v # w => wk'[v] = wk[v] /\ (Active(v)' <=> Active(v))
<1>. DEFINE until == wk[w].at + Lease
            sending == [pc |-> "sending", at |-> 0, event |-> e, until |-> until,
                        token |-> reg.token, rev |-> reg.rev, verdict |-> "none"]
            answered == [pc |-> "answered", at |-> 0, event |-> e, until |-> until,
                         token |-> None, rev |-> 0, verdict |-> "permanent"]
<1>1. wk \in [Workers -> Worker] /\ until \in 0..MaxTime
      /\ wk' = [wk EXCEPT ![w] = IF rows[e].envelope = "ciphertext" THEN sending ELSE answered]
  BY DEF IInv, TypeOK, Taken
<1>2. reg.token \in Tokens /\ reg.token # None /\ reg.rev \in 0..MaxRevision + 1
  BY NoneAssumption, Numbers DEF Taken, Eligible, IInv, TypeOK, Registration
<1>. HIDE DEF until
<1>3. sending \in Worker
  BY <1>1, <1>2, Numbers DEF Worker
<1>4. answered \in Worker
  <2>1. 0 \in 0..MaxRevision + 1
    BY Numbers
  <2>. QED BY <1>1, <2>1, Numbers DEF Worker
<1>5. rows[e].envelope \in {"ciphertext", "null"}
  BY RowFields DEF Taken
<1>6. wk' \in [Workers -> Worker] /\ \A v \in Workers : v # w => wk'[v] = wk[v]
  BY <1>1, <1>3, <1>4
<1>7. CASE rows[e].envelope = "ciphertext"
  <2>1. wk'[w] = sending
    BY <1>1, <1>7
  <2>. QED BY <1>2, <1>6, <1>7, <2>1 DEF Active, until
<1>8. CASE rows[e].envelope = "null"
  <2>1. wk'[w] = answered
    BY <1>1, <1>8
  <2>. QED BY <1>6, <1>8, <2>1 DEF Active, until
<1>. QED BY <1>5, <1>7, <1>8

LEMMA ClaimKeepsIInv ==
    ASSUME IInv, NEW w \in Workers, Claim(w)
    PROVE  IInv'
<1>1. PICK e \in Events : Taken(w, e)
  BY ClaimTakesOneRow
<1>0. UNCHANGED <<clock, reg, entitled, failures, bound>>
  BY DEF Claim
<1>2. TypeOK'
  <2>1. wk' \in [Workers -> Worker] /\ rows' \in [Events -> OutboxRow \cup {None}]
    BY <1>1, TakenWorker DEF Taken
  <2>. QED BY <1>0, <2>1 DEF IInv, TypeOK
<1>3. ActiveHasRow' /\ ClocksAreRead'
  <2>1. clock' = clock /\ clock \in Nat
    BY <1>0, Numbers DEF IInv, TypeOK
  <2>2. Active(w)' /\ wk'[w].at = 0 /\ wk'[w].event = e /\ rows'[e] # None
    BY <1>1, TakenWorker, TakenRow, RowFields
  <2>3. ASSUME NEW v \in Workers, v # w PROVE wk'[v] = wk[v] /\ (Active(v)' <=> Active(v))
    BY <1>1, <2>3, TakenWorker
  <2>4. \A f \in Events : rows[f] # None => rows'[f] # None
    BY <1>1, TakenRow
  <2>. QED BY <2>1, <2>2, <2>3, <2>4 DEF IInv, WorkerInv, ActiveHasRow, ClocksAreRead
<1>4. TokensAreKnown' /\ AnswersAreVerdicts'
  BY <1>1, TakenWorker DEF IInv, WorkerInv, TokensAreKnown, AnswersAreVerdicts
<1>5. \A v \in Workers : v # w /\ Active(v) /\ wk[v].until > clock
        => /\ wk[v].event # e /\ ~Closes(wk[v].event)
           /\ wk[v].event \in Events
  <2>. SUFFICES ASSUME NEW v \in Workers, v # w, Active(v), wk[v].until > clock
                PROVE  /\ wk[v].event # e /\ ~Closes(wk[v].event) /\ wk[v].event \in Events
    OBVIOUS
  <2>1. /\ wk[v].event \in Events /\ rows[wk[v].event].until = wk[v].until
        /\ rows[wk[v].event].until > clock
    BY DEF IInv, WorkerInv, ActiveHasRow, RowInv, LeaseIsWritten
  <2>2. /\ clock \in Nat /\ wk[v].until \in Nat /\ wk[w].at \in Nat /\ wk[w].at <= clock
    BY Numbers DEF IInv, TypeOK, Worker, WorkerInv, ClocksAreRead
  <2>. QED BY <1>1, <2>1, <2>2 DEF Closes, Taken
<1>6. LeaseIsWritten'
  <2>1. ASSUME NEW v \in Workers, v # w, Active(v)', wk'[v].until > clock'
        PROVE  rows'[wk'[v].event].lease = v /\ rows'[wk'[v].event].until = wk'[v].until
    <3>1. wk'[v] = wk[v] /\ Active(v) /\ wk[v].until > clock
      BY <1>0, <1>1, <2>1, TakenWorker
    <3>2. rows'[wk[v].event] = rows[wk[v].event]
      BY <1>1, <1>5, <2>1, <3>1, TakenRow
    <3>. QED BY <3>1, <3>2 DEF IInv, RowInv, LeaseIsWritten
  <2>2. rows'[wk'[w].event].lease = w /\ rows'[wk'[w].event].until = wk'[w].until
    BY <1>1, TakenWorker, TakenRow
  <2>. QED BY <2>1, <2>2 DEF LeaseIsWritten
<1>7. RowsAreEarly' /\ LeasedRowsAreOpen'
  <2>1. ASSUME NEW f \in Events, f # e
        PROVE  rows'[f] = rows[f] \/ Closes(f)
    BY <1>1, <2>1, TakenRow
  <2>2. rows[e] # None /\ rows'[e].expires = rows[e].expires
        /\ rows'[e].outcome \in {"pending", "retryable"}
    <3>1. rows[e] # None /\ rows[e].outcome \in {"pending", "retryable"}
      BY <1>1 DEF Taken, Unsettled
    <3>2. rows'[e].outcome = rows[e].outcome /\ rows'[e].expires = rows[e].expires
      BY <1>1, TakenRow
    <3>. QED BY <3>1, <3>2
  <2>3. RowsAreEarly'
    <3>1. ASSUME NEW f \in Events, rows'[f] # None
          PROVE  rows[f] # None /\ rows'[f].expires = rows[f].expires
      BY <2>1, <2>2, <3>1, NoneAssumption DEF Closes
    <3>. QED BY <3>1 DEF IInv, RowInv, RowsAreEarly
  <2>4. LeasedRowsAreOpen'
    BY <2>1, <2>2, NoneAssumption DEF IInv, RowInv, LeasedRowsAreOpen, Closes
  <2>. QED BY <2>3, <2>4
<1>8. RevisionsTellTokens' /\ TokensAreEarly'
  <2>1. ASSUME NEW f \in Events, rows[f] # None
        PROVE  rows'[f] # None /\ rows'[f].rev = rows[f].rev
    BY <1>1, <2>1, TakenRow DEF Closes
  <2>. QED BY <1>0, <2>1 DEF IInv, TokensAreEarly, RowInv, RevisionsTellTokens
<1>9. NothingToSend'
  <2>1. \A f \in Events : rows[f] # None /\ rows[f].envelope = "null" => rows'[f].envelope = "null"
    BY <1>1, TakenRow DEF Closes
  <2>2. ASSUME NEW v \in Workers, v # w, Active(v)', wk'[v].token = None
        PROVE  /\ rows'[wk'[v].event].envelope = "null"
               /\ wk'[v].verdict = "permanent" /\ wk'[v].pc = "answered"
    BY <1>1, <2>1, <2>2, TakenWorker DEF IInv, WorkerInv, ActiveHasRow, RowInv, NothingToSend
  <2>3. wk'[w].token = None => /\ rows'[wk'[w].event].envelope = "null"
                               /\ wk'[w].verdict = "permanent" /\ wk'[w].pc = "answered"
    BY <1>1, <2>1, TakenWorker, TakenRow
  <2>. QED BY <2>2, <2>3 DEF NothingToSend
<1>. QED BY <1>2, <1>3, <1>4, <1>6, <1>7, <1>8, <1>9 DEF IInv, WorkerInv, RowInv

LEMMA RespondKeepsIInv ==
    ASSUME IInv, NEW w \in Workers, Respond(w)
    PROVE  IInv'
<1>1. PICK verdict \in {"accepted", "retryable", "permanent", "unregistered", "expired"} :
         wk' = [wk EXCEPT ![w].pc = "answered", ![w].verdict = verdict,
                          ![w].at = IF verdict = "retryable" THEN clock ELSE 0]
  BY DEF Respond
<1>. DEFINE at == IF verdict = "retryable" THEN clock ELSE 0
            new == [wk[w] EXCEPT !.pc = "answered", !.verdict = verdict, !.at = at]
<1>2. wk[w] \in Worker /\ at \in 0..MaxTime /\ at <= clock
  BY Numbers DEF IInv, TypeOK
<1>3. UNCHANGED <<clock, reg, entitled, rows, failures, bound>> /\ wk[w].pc = "sending"
  BY DEF Respond
<1>4. wk' = [wk EXCEPT ![w] = new]
  BY <1>1
<1>. HIDE DEF at
<1>5. new \in Worker
  BY <1>2 DEF Worker
<1>6. /\ new.pc = "answered" /\ new.at = at /\ new.verdict = verdict
      /\ new.token = wk[w].token /\ new.event = wk[w].event /\ new.until = wk[w].until
  BY <1>2 DEF Worker
<1>. HIDE DEF new
<1>7. wk'[w] = new /\ wk' \in [Workers -> Worker]
  BY <1>4, <1>5 DEF IInv, TypeOK
<1>8. ASSUME NEW v \in Workers, v # w PROVE wk'[v] = wk[v] /\ (Active(v)' <=> Active(v))
  BY <1>4, <1>8 DEF Active, IInv, TypeOK
<1>9. Active(w) /\ Active(w)' /\ wk[w].token # None
  BY <1>3, <1>6, <1>7 DEF Active, IInv, WorkerInv, TokensAreKnown
<1>10. WorkerInv'
  <2>1. ActiveHasRow' /\ ClocksAreRead'
    BY <1>2, <1>3, <1>6, <1>7, <1>8, <1>9 DEF IInv, WorkerInv, ActiveHasRow, ClocksAreRead
  <2>2. TokensAreKnown' /\ AnswersAreVerdicts'
    BY <1>6, <1>7, <1>8, <1>9 DEF IInv, WorkerInv, TokensAreKnown, AnswersAreVerdicts
  <2>. QED BY <2>1, <2>2 DEF WorkerInv
<1>11. LeaseIsWritten' /\ NothingToSend'
  BY <1>3, <1>6, <1>7, <1>8, <1>9 DEF IInv, RowInv, LeaseIsWritten, NothingToSend
<1>. QED BY <1>3, <1>7, <1>10, <1>11 DEF IInv, TypeOK, TokensAreEarly, RowInv, RowsAreEarly,
         RevisionsTellTokens, LeasedRowsAreOpen

\* Worker w writes its answer into its row.
Written(w, e) ==
    /\ e = wk[w].event /\ rows[e] \in OutboxRow /\ rows[e].lease = w
    /\ rows' = [rows EXCEPT ![e] = Answered(rows[e], w)]
    /\ rows' \in [Events -> OutboxRow \cup {None}]
    /\ rows'[e] \in OutboxRow /\ rows'[e].outcome = Outcome(w) /\ rows'[e].lease = None
    /\ rows'[e].rev = rows[e].rev /\ rows'[e].expires = rows[e].expires
    /\ rows'[e].envelope = IF Outcome(w) = "retryable" THEN rows[e].envelope ELSE "null"
    /\ \A f \in Events : f # e => rows'[f] = rows[f]

LEMMA OutcomesAreVerdicts ==
    ASSUME IInv, NEW w \in Workers, Settle(w)
    PROVE  /\ Outcome(w) \in {"accepted", "retryable", "permanent", "expired"}
           /\ wk[w].verdict \in {"permanent", "unregistered"} => Outcome(w) = "permanent"
           /\ wk[w].verdict # "retryable" => Outcome(w) # "retryable"
<1>1. wk[w].verdict \in {"accepted", "retryable", "permanent", "unregistered", "expired"}
  BY DEF Settle, IInv, TypeOK, WorkerInv, AnswersAreVerdicts, Worker
<1>. QED BY <1>1 DEF Outcome

LEMMA SettleWritesOneRow ==
    ASSUME IInv, NEW w \in Workers, Settle(w)
    PROVE  \E e \in Events : Written(w, e)
<1>. DEFINE e == wk[w].event
            envelope == IF Outcome(w) = "retryable" THEN rows[e].envelope ELSE "null"
            next == IF Outcome(w) = "retryable"
                      THEN Earlier(wk[w].at + Backoff, rows[e].expires) ELSE 0
            row == [rows[e] EXCEPT !.outcome = Outcome(w), !.envelope = envelope,
                                   !.next = next, !.lease = None, !.until = 0]
<1>1. e \in Events /\ rows[e] \in OutboxRow /\ rows[e].lease = w /\ wk[w] \in Worker
  BY DEF Settle, Holds, IInv, TypeOK, WorkerInv, ActiveHasRow, Active
<1>2. envelope \in {"ciphertext", "null"}
  BY <1>1, RowFields
<1>3. next \in 0..MaxTime
  BY <1>1, RowFields, Numbers DEF Earlier, Worker
<1>4. rows' = [rows EXCEPT ![e] = Answered(rows[e], w)]
  BY DEF Settle
<1>5. Answered(rows[e], w) = row
  BY DEF Answered
<1>. HIDE DEF envelope, next
<1>6. row \in OutboxRow
  BY <1>1, <1>2, <1>3, OutcomesAreVerdicts, Numbers DEF OutboxRow
<1>7. /\ row.outcome = Outcome(w) /\ row.envelope = envelope /\ row.lease = None
      /\ row.rev = rows[e].rev /\ row.expires = rows[e].expires
  BY <1>1 DEF OutboxRow
<1>. HIDE DEF row
<1>8. /\ rows'[e] = row /\ rows' \in [Events -> OutboxRow \cup {None}]
      /\ \A f \in Events : f # e => rows'[f] = rows[f]
  BY <1>1, <1>4, <1>5, <1>6 DEF IInv, TypeOK
<1>. QED BY <1>1, <1>4, <1>6, <1>7, <1>8 DEF Written, envelope

\* The token goes, or the registration stays.
LEMMA SettleErases ==
    ASSUME IInv, NEW w \in Workers, Settle(w)
    PROVE  \/ reg' = reg /\ ~Erases(w)
           \/ /\ Erases(w) /\ reg \in Registration /\ reg.token = wk[w].token /\ reg.token # None
              /\ reg' \in Registration /\ reg'.token = None
              /\ reg.rev \in Nat /\ reg'.rev = reg.rev + 1
<1>1. CASE Erases(w)
  <2>1. reg \in Registration /\ reg.token # None /\ reg.token = wk[w].token
    BY <1>1 DEF Erases, IInv, TypeOK, WorkerInv, TokensAreKnown
  <2>2. reg.rev \in 1..MaxRevision + 1 /\ reg.rev <= MaxRevision
    BY <1>1, <2>1, Numbers DEF Registration, IInv, TokensAreEarly, Erases
  <2>3. reg' = [reg EXCEPT !.token = None, !.rev = reg.rev + 1]
    BY <1>1 DEF Settle
  <2>4. reg.rev + 1 \in 1..MaxRevision + 1 /\ None \in Tokens \cup {None}
    BY <2>2, Numbers
  <2>5. reg' \in Registration /\ reg'.rev = reg.rev + 1
    BY <2>1, <2>3, <2>4 DEF Registration
  <2>6. reg'.token = None
    BY <2>1, <2>3 DEF Registration
  <2>. QED BY <1>1, <2>1, <2>2, <2>5, <2>6
<1>2. CASE ~Erases(w)
  BY <1>2 DEF Settle
<1>. QED BY <1>1, <1>2

LEMMA SettleKeepsIInv ==
    ASSUME IInv, NEW w \in Workers, Settle(w)
    PROVE  IInv'
<1>1. PICK e \in Events : Written(w, e)
  BY SettleWritesOneRow
<1>2. UNCHANGED <<clock, entitled, failures, bound>> /\ wk' = [wk EXCEPT ![w] = Idle]
  BY DEF Settle
<1>3. ASSUME NEW f \in Events, rows[f] # None
      PROVE  /\ rows'[f] # None /\ rows'[f].rev = rows[f].rev
             /\ rows'[f].expires = rows[f].expires
             /\ rows[f].envelope = "null" => rows'[f].envelope = "null"
  BY <1>1, <1>3, NoneAssumption DEF Written
<1>4. WorkerInv' /\ wk' \in [Workers -> Worker]
  BY <1>2, <1>3, WorkerRests
<1>5. TypeOK'
  BY <1>1, <1>2, <1>4, SettleErases DEF Written, IInv, TypeOK
<1>6. TokensAreEarly'
  BY SettleErases DEF IInv, TokensAreEarly
<1>7. wk'[w] = Idle /\ ~Active(w)'
      /\ \A v \in Workers : v # w => wk'[v] = wk[v] /\ (Active(v)' <=> Active(v))
  BY <1>2 DEF IInv, TypeOK, Active, Idle
<1>8. LeaseIsWritten'
  <2>. SUFFICES ASSUME NEW v \in Workers, Active(v)', wk'[v].until > clock'
                PROVE  rows'[wk'[v].event].lease = v /\ rows'[wk'[v].event].until = wk'[v].until
    BY DEF LeaseIsWritten
  <2>1. v # w /\ wk'[v] = wk[v] /\ Active(v) /\ wk[v].until > clock
    BY <1>2, <1>7
  <2>2. wk[v].event \in Events /\ rows[wk[v].event].lease = v /\ rows[wk[v].event].until = wk[v].until
    BY <2>1 DEF IInv, WorkerInv, ActiveHasRow, RowInv, LeaseIsWritten
  <2>. QED BY <1>1, <2>1, <2>2 DEF Written
<1>9. RowsAreEarly' /\ LeasedRowsAreOpen'
  <2>1. ASSUME NEW f \in Events, f # e PROVE rows'[f] = rows[f]
    BY <1>1, <2>1 DEF Written
  <2>2. /\ rows[e] # None /\ rows'[e].expires = rows[e].expires
        /\ rows'[e].lease = None /\ rows'[e].outcome # "ineligible"
    BY <1>1, RowFields, OutcomesAreVerdicts DEF Written
  <2>. QED BY <2>1, <2>2 DEF IInv, RowInv, RowsAreEarly, LeasedRowsAreOpen
<1>10. RevisionsTellTokens'
  <2>. SUFFICES ASSUME NEW f \in Events, bound[f] # None
                PROVE  /\ reg' # None /\ rows'[f] # None /\ rows'[f].rev <= reg'.rev
                       /\ rows'[f].rev = reg'.rev /\ reg'.token # None => bound[f] = reg'.token
    BY <1>2 DEF RevisionsTellTokens
  <2>1. /\ reg # None /\ rows[f] # None /\ rows[f].rev <= reg.rev /\ rows[f].rev \in Nat
        /\ rows[f].rev = reg.rev /\ reg.token # None => bound[f] = reg.token
    BY RowFields DEF IInv, TypeOK, RowInv, RevisionsTellTokens
  <2>2. rows'[f] # None /\ rows'[f].rev = rows[f].rev
    BY <1>3, <2>1
  <2>. QED BY <2>1, <2>2, SettleErases, NoneAssumption
<1>11. NothingToSend'
  BY <1>3, <1>7 DEF IInv, WorkerInv, ActiveHasRow, RowInv, NothingToSend
<1>. QED BY <1>4, <1>5, <1>6, <1>8, <1>9, <1>10, <1>11 DEF IInv, RowInv

\* The worker gives up: its answer is dropped, or it failed.
LEMMA RestKeepsIInv ==
    ASSUME IInv, NEW w \in Workers, Drop(w) \/ Fail(w)
    PROVE  IInv'
<1>1. UNCHANGED <<clock, reg, entitled, rows, bound>> /\ wk' = [wk EXCEPT ![w] = Idle]
  BY DEF Drop, Fail
<1>2. failures' \in 0..MaxFailures
  BY Numbers DEF Drop, Fail, IInv, TypeOK
<1>3. RowInv' /\ WorkerInv' /\ wk' \in [Workers -> Worker]
  BY <1>1, ClosingKeepsRows, WorkerRests
<1>. QED BY <1>1, <1>2, <1>3 DEF IInv, TypeOK, TokensAreEarly

LEMMA StutteringKeepsIInv == ASSUME IInv, UNCHANGED vars PROVE IInv'
  BY NoWorkerMoves DEF vars, IInv, TypeOK, TokensAreEarly, RowInv, RevisionsTellTokens

LEMMA NextKeepsIInv == IInv /\ [Next]_vars => IInv'
  BY SavePreferencesKeepsIInv, RegisterKeepsIInv, UnregisterKeepsIInv, EntitleKeepsIInv,
     AdmitKeepsIInv, PollKeepsIInv, ClaimNothingKeepsIInv, ClaimIneligibleKeepsIInv,
     ClaimKeepsIInv, RespondKeepsIInv, SettleKeepsIInv, RestKeepsIInv, TickKeepsIInv,
     StutteringKeepsIInv
     DEF Next, Deliver

\* The invariant: rows, workers and the registration fit together as IInv says.
THEOREM Invariance == Spec => []IInv
<1>. QED BY InitIInv, NextKeepsIInv, PTL DEF Spec

\* Rows, registrations and workers keep their types, the clock its bound.
THEOREM Typing == Spec => []TypeOK
<1>1. IInv => TypeOK
  BY DEF IInv
<1>. QED BY <1>1, Invariance, PTL

\* While a worker's lease lasts, its row carries that lease: nobody else has
\* claimed, settled or expired the row meanwhile (deliver_next).
THEOREM LeasesAreExclusive == Spec => []LeaseIsExclusive
<1>1. IInv => LeaseIsExclusive
  BY DEF IInv, RowInv, LeaseIsWritten, Active, LeaseIsExclusive, Holds
<1>. QED BY <1>1, Invariance, PTL

-----------------------------------------------------------------------------
(* Every step is one of the contract, or none.                             *)

\* What the contract sees of the rows and the workers.
Fates == [e \in Events |-> Fate(rows[e])]
Flights == [w \in Workers |-> InFlight(w)]
Token == IF reg = None THEN None ELSE reg.token

LEMMA InitRefines == Init => Contract!Init
  BY DEF Init, Idle, Contract!Init, Fate, InFlight

LEMMA SameFlights ==
    ASSUME \A w \in Workers : wk'[w].token = wk[w].token /\ wk'[w].event = wk[w].event
    PROVE  Flights' = Flights
  BY DEF Flights, InFlight

LEMMA LandedFlights ==
    ASSUME IInv, NEW w \in Workers, wk' = [wk EXCEPT ![w] = Idle]
    PROVE  /\ Flights' = [Flights EXCEPT ![w] = None]
           /\ wk[w].token = None => Flights' = Flights
           /\ wk[w].token # None =>
                Flights[w] = [event |-> wk[w].event, token |-> wk[w].token] /\ Flights[w] # None
<1>1. wk'[w].token = None /\ \A v \in Workers : v # w => wk'[v] = wk[v]
  BY DEF IInv, TypeOK, Idle
<1>2. ASSUME wk[w].token # None
      PROVE  Flights[w] = [event |-> wk[w].event, token |-> wk[w].token] /\ Flights[w] # None
  <2>1. wk[w].token \in Tokens /\ wk[w].event \in Events
    BY <1>2 DEF IInv, TypeOK, Worker, WorkerInv, ActiveHasRow
  <2>2. Flights[w] = [event |-> wk[w].event, token |-> wk[w].token]
    BY <1>2 DEF Flights, InFlight
  <2>. QED BY <2>1, <2>2, NoneAssumption
<1>. QED BY <1>1, <1>2 DEF Flights, InFlight

LEMMA RegistrationRefines ==
    ASSUME IInv, Next,
           \/ \E on \in BOOLEAN : SavePreferences(on)
           \/ \E t \in Tokens : Register(t)
           \/ Unregister
           \/ Entitle \/ Tick
    PROVE  Contract!Next \/ UNCHANGED Contract!vars
<1>1. IInv'
  BY NextKeepsIInv
<1>2. Token' \in Tokens \cup {None}
  BY <1>1 DEF Token, IInv, TypeOK, Registration
<1>3. ASSUME UNCHANGED <<rows, wk, bound>> PROVE Contract!Register(Token')
  BY <1>3 DEF Contract!Register, Token, InFlight
<1>4. ASSUME Unregister PROVE Contract!Forget
  BY <1>4 DEF Unregister, Contract!Forget, InFlight
<1>. QED BY <1>2, <1>3, <1>4 DEF Contract!Next, SavePreferences, Register, Entitle, Tick

LEMMA AdmitRefines ==
    ASSUME IInv, NEW e \in Events, Admit(e)
    PROVE  Contract!Next
<1>1. UNCHANGED <<reg, wk>> /\ reg # None /\ bound' = [bound EXCEPT ![e] = reg.token]
  BY DEF Admit
<1>2. Fates[e] = "unknown" /\ Fates' = [Fates EXCEPT ![e] = "open"]
  <2>1. rows[e] = None /\ rows'[e] \in OutboxRow /\ rows'[e].outcome = "pending"
        /\ rows'[e].envelope = "ciphertext" /\ \A f \in Events : f # e => rows'[f] = rows[f]
    BY AdmitWritesOneRow
  <2>2. rows'[e] # None
    BY <2>1, RowFields
  <2>3. Fate(rows[e]) = "unknown"
    BY <2>1 DEF Fate
  <2>4. Fate(rows'[e]) = "open"
    BY <2>1, <2>2 DEF Fate, Unsettled
  <2>. QED BY <2>1, <2>3, <2>4 DEF Fates
<1>3. Token = reg.token /\ Token # None /\ Token' = Token
  BY <1>1, AdmitWritesOneRow, NoneAssumption DEF Token
<1>4. Contract!Admit(e)
  BY <1>1, <1>2, <1>3 DEF Contract!Admit, Fates, Token, InFlight
<1>. QED BY <1>4 DEF Contract!Next

\* What a claim expires the contract may expire.
Late(w) == {e \in Events : Expired(rows[e], wk[w].at)}

LEMMA SweepRefines ==
    ASSUME IInv, NEW w \in Workers
    PROVE  /\ Late(w) \in SUBSET Contract!Unsettled
           /\ \A e \in Events : rows'[e] = Swept(wk[w].at)[e]
                => Fate(rows'[e]) = Contract!Swept(Late(w))[e]
<1>1. ASSUME NEW e \in Late(w) PROVE e \in Contract!Unsettled
  BY <1>1 DEF Late, Expired, Unsettled, Fate, Contract!Unsettled
<1>2. ASSUME NEW e \in Events, rows'[e] = Swept(wk[w].at)[e]
      PROVE  Fate(rows'[e]) = Contract!Swept(Late(w))[e]
  <2>1. CASE e \in Late(w)
    <3>1. rows'[e] \in OutboxRow /\ rows'[e].outcome = "expired"
      BY <1>2, <2>1, SweptRows DEF Late, IInv
    <3>2. Fate(rows'[e]) = "expired"
      BY <3>1, NoneAssumption DEF Fate, Unsettled
    <3>. QED BY <2>1, <3>2 DEF Contract!Swept
  <2>2. CASE e \notin Late(w)
    BY <1>2, <2>2, SweptRows DEF Late, IInv, Contract!Swept
  <2>. QED BY <2>1, <2>2
<1>. QED BY <1>1, <1>2

LEMMA ClaimNothingRefines ==
    ASSUME IInv, NEW w \in Workers, ClaimNothing(w)
    PROVE  Contract!Next
<1>1. Fates' = Contract!Swept(Late(w))
  BY SweepRefines DEF ClaimNothing, Fates, Contract!Swept
<1>2. Flights' = Flights
  <2>1. wk[w].token = None
    BY DEF ClaimNothing, IInv, WorkerInv, ActiveHasRow, Active
  <2>. QED BY <2>1, LandedFlights DEF ClaimNothing
<1>3. Contract!GiveUp(Late(w))
  BY <1>1, <1>2 DEF ClaimNothing, Contract!GiveUp, Fates, Flights
<1>. QED BY <1>3, SweepRefines DEF Contract!Next

LEMMA ClaimIneligibleRefines ==
    ASSUME IInv, NEW w \in Workers, ClaimIneligible(w)
    PROVE  Contract!Next
<1>1. PICK e \in First(Due(wk[w].at)) :
        rows' = [Swept(wk[w].at) EXCEPT ![e] = Closed(@, "ineligible")]
  BY DEF ClaimIneligible
<1>2. /\ e \in Events /\ e \notin Late(w) /\ Unsettled(rows[e])
      /\ Swept(wk[w].at)[e] = rows[e] /\ Swept(wk[w].at) \in [Events -> OutboxRow \cup {None}]
  BY SweptRows DEF First, Due, IInv, Late
<1>3. /\ rows'[e] = Closed(rows[e], "ineligible")
      /\ \A f \in Events : f # e => rows'[f] = Swept(wk[w].at)[f]
  BY <1>1, <1>2
<1>4. Fate(rows'[e]) = "withdrawn"
  <2>1. rows[e] \in OutboxRow
    BY <1>2 DEF Unsettled, IInv, TypeOK
  <2>. QED BY <1>3, <2>1, ClosedIsRow, NoneAssumption DEF Fate
<1>5. Fates' = [Contract!Swept(Late(w)) EXCEPT ![e] = "withdrawn"]
  BY <1>2, <1>3, <1>4, SweepRefines DEF Fates, Contract!Swept
<1>6. e \in Contract!Unsettled \ Late(w)
  BY <1>2 DEF Contract!Unsettled, Fate, Unsettled
<1>7. Flights' = Flights
  <2>1. wk[w].token = None
    BY DEF ClaimIneligible, IInv, WorkerInv, ActiveHasRow, Active
  <2>. QED BY <2>1, LandedFlights DEF ClaimIneligible
<1>8. Contract!GiveUp(Late(w))
  BY <1>5, <1>6, <1>7 DEF ClaimIneligible, Contract!GiveUp, Fates, Flights
<1>. QED BY <1>8, SweepRefines DEF Contract!Next

LEMMA ClaimRefines ==
    ASSUME IInv, NEW w \in Workers, Claim(w)
    PROVE  Contract!Next
<1>1. PICK e \in Events : Taken(w, e)
  BY ClaimTakesOneRow
<1>2. UNCHANGED <<reg, bound>> /\ wk[w].token = None /\ e \notin Late(w)
  BY <1>1 DEF Claim, Taken, Late, IInv, WorkerInv, ActiveHasRow, Active
<1>3. Fates' = Contract!Swept(Late(w))
  <2>1. Fate(rows'[e]) = Fate(rows[e])
    <3>1. rows'[e] # None /\ rows[e] # None
          /\ rows'[e].outcome = rows[e].outcome /\ rows'[e].envelope = rows[e].envelope
      <4>1. rows[e] \in OutboxRow
        BY <1>1 DEF Taken
      <4>2. rows'[e] \in OutboxRow
            /\ rows'[e].outcome = rows[e].outcome /\ rows'[e].envelope = rows[e].envelope
        BY <1>1, TakenRow
      <4>. QED BY <4>1, <4>2, RowFields
    <3>. QED BY <3>1 DEF Fate, Unsettled
  <2>2. ASSUME NEW f \in Events, f # e PROVE Fate(rows'[f]) = Contract!Swept(Late(w))[f]
    BY <1>1, <2>2, SweepRefines DEF Taken
  <2>. QED BY <1>2, <2>1, <2>2 DEF Fates, Contract!Swept
<1>4. CASE rows[e].envelope = "ciphertext"
  <2>1. wk'[w].token = reg.token /\ reg.token # None /\ wk'[w].event = e
    BY <1>1, <1>4, TakenWorker
  <2>2. Flights[w] = None /\ Flights' = [Flights EXCEPT ![w] = [event |-> e, token |-> reg.token]]
    <3>1. \A v \in Workers : v # w => wk'[v] = wk[v]
      BY <1>1, TakenWorker
    <3>. QED BY <1>2, <2>1, <3>1 DEF Flights, InFlight
  <2>3. Fates[e] = "open"
    <3>1. Unsettled(rows[e])
      BY <1>1 DEF Taken
    <3>. QED BY <3>1, <1>4 DEF Fates, Fate, Unsettled
  <2>4. Token = reg.token /\ Token' = Token /\ bound[e] \in {reg.token, None}
    BY <1>1, <1>2, <2>1 DEF Token, Taken, Eligible, IInv, RowInv, RevisionsTellTokens
  <2>5. Contract!Send(w, Late(w))
    BY <1>2, <1>3, <2>1, <2>2, <2>3, <2>4 DEF Contract!Send, Fates, Flights, Token
  <2>. QED BY <2>5, SweepRefines DEF Contract!Next
<1>5. CASE rows[e].envelope # "ciphertext"
  <2>1. wk'[w].token = None
    BY <1>1, <1>5, TakenWorker
  <2>2. Flights' = Flights
    BY <1>1, <1>2, <2>1, TakenWorker DEF Flights, InFlight
  <2>3. Contract!GiveUp(Late(w))
    BY <1>2, <1>3, <2>2 DEF Contract!GiveUp, Fates, Flights
  <2>. QED BY <2>3, SweepRefines DEF Contract!Next
<1>. QED BY <1>4, <1>5

\* A worker looks for work, or gets its answer.
LEMMA WorkRefines ==
    ASSUME IInv, NEW w \in Workers, Poll(w) \/ Respond(w)
    PROVE  UNCHANGED Contract!vars
<1>1. \A v \in Workers : wk'[v].token = wk[v].token /\ wk'[v].event = wk[v].event
  BY DEF Poll, Respond, IInv, TypeOK, Worker
<1>. QED BY <1>1, SameFlights DEF Poll, Respond, Flights, Contract!vars

LEMMA SettleRefines ==
    ASSUME IInv, NEW w \in Workers, Settle(w)
    PROVE  Contract!Next
<1>1. PICK e \in Events : Written(w, e)
  BY SettleWritesOneRow
<1>2. bound' = bound /\ wk' = [wk EXCEPT ![w] = Idle] /\ Active(w) /\ wk[w].pc = "answered"
  BY DEF Settle, Active
<1>3. /\ rows[e] # None /\ rows[e].outcome \in {"pending", "retryable", "ineligible"}
      /\ rows[e].outcome = "ineligible" => rows[e].envelope = "null"
  BY <1>1, RowFields, NoneAssumption DEF Written, IInv, RowInv, LeasedRowsAreOpen
<1>4. e \in Contract!Unsettled /\ (rows[e].envelope = "null" => Fates[e] = "withdrawn")
  BY <1>3 DEF Contract!Unsettled, Fates, Fate, Unsettled
<1>5. /\ \A f \in Events : f # e => Fate(rows'[f]) = Fate(rows[f])
      /\ Fates' = [Fates EXCEPT ![e] = Fate(rows'[e])]
  BY <1>1 DEF Written, Fates
<1>6. Outcome(w) # "retryable" => Fate(rows'[e]) = Outcome(w)
  BY <1>1, RowFields, OutcomesAreVerdicts DEF Written, Fate, Unsettled
<1>7. Outcome(w) = "retryable" => Fates' = Fates
  <2>. SUFFICES ASSUME Outcome(w) = "retryable" PROVE Fate(rows'[e]) = Fate(rows[e])
    BY <1>5 DEF Fates
  <2>1. /\ rows'[e] # None /\ rows'[e].outcome = "retryable"
        /\ rows'[e].envelope = rows[e].envelope
    BY <1>1, RowFields DEF Written
  <2>. QED BY <1>3, <2>1 DEF Fate, Unsettled
<1>8. CASE wk[w].token = None
  <2>1. /\ wk[w].verdict = "permanent" /\ rows[e].envelope = "null"
        /\ Outcome(w) = "permanent" /\ reg' = reg
    BY <1>1, <1>2, <1>8, OutcomesAreVerdicts, SettleErases
       DEF Written, Erases, IInv, RowInv, NothingToSend
  <2>2. Flights' = Flights
    BY <1>2, <1>8, LandedFlights
  <2>3. Contract!Discard(e)
    BY <1>2, <1>4, <1>5, <1>6, <2>1, <2>2 DEF Contract!Discard, Fates, Flights
  <2>. QED BY <2>3 DEF Contract!Next
<1>9. CASE wk[w].token # None
  <2>1. /\ Flights[w] = [event |-> e, token |-> wk[w].token] /\ Flights[w] # None
        /\ Flights' = [Flights EXCEPT ![w] = None]
    BY <1>1, <1>2, <1>9, LandedFlights DEF Written
  <2>2. Flights[w].event = e /\ Flights[w].token = wk[w].token
    BY <2>1
  <2>3. \/ reg' = reg /\ Token' = Token
        \/ Outcome(w) = "permanent" /\ Token = wk[w].token /\ Token' = None
    BY SettleErases, OutcomesAreVerdicts, NoneAssumption DEF Erases, Token
  <2>4. \/ Fates' = Fates /\ Token' = Token
        \/ /\ \E to \in {"accepted", "permanent", "expired"} : Fates' = [Fates EXCEPT ![e] = to]
           /\ Token' = Token
        \/ /\ Token = wk[w].token /\ Token' = None
           /\ Fates' = [Fates EXCEPT ![e] = "permanent"]
    BY <1>5, <1>6, <1>7, <2>3, OutcomesAreVerdicts
  <2>5. Contract!Answer(w)
    BY <1>2, <1>4, <2>1, <2>2, <2>4 DEF Contract!Answer, Fates, Flights, Token
  <2>. QED BY <2>5 DEF Contract!Next
<1>. QED BY <1>8, <1>9

\* An answer that is dropped or lost changes nothing but that it was awaited.
LEMMA RestRefines ==
    ASSUME IInv, NEW w \in Workers, Drop(w) \/ Fail(w)
    PROVE  Contract!Next \/ UNCHANGED Contract!vars
<1>1. UNCHANGED <<reg, rows, bound>> /\ wk' = [wk EXCEPT ![w] = Idle]
  BY DEF Drop, Fail
<1>2. CASE wk[w].token = None
  BY <1>1, <1>2, LandedFlights DEF Flights, Contract!vars
<1>3. CASE wk[w].token # None
  <2>1. Flights[w] # None /\ Flights' = [Flights EXCEPT ![w] = None]
    BY <1>1, <1>3, LandedFlights
  <2>2. Contract!Answer(w)
    BY <1>1, <2>1 DEF Contract!Answer, Flights
  <2>. QED BY <2>2 DEF Contract!Next
<1>. QED BY <1>2, <1>3

LEMMA NextRefines == IInv /\ [Next]_vars => [Contract!Next]_Contract!vars
<1>1. ASSUME IInv, Next PROVE Contract!Next \/ UNCHANGED Contract!vars
  BY <1>1, RegistrationRefines, AdmitRefines, ClaimNothingRefines, ClaimIneligibleRefines,
     ClaimRefines, WorkRefines, SettleRefines, RestRefines DEF Next, Deliver
<1>2. ASSUME UNCHANGED vars PROVE UNCHANGED Contract!vars
  BY <1>2 DEF vars, Contract!vars, InFlight
<1>. QED BY <1>1, <1>2

\* deliver_next and the handlers of the registration keep the contract: no send
\* but to the token a row is for, one final fate for each, no token lost to an
\* answer about another.
THEOREM OutboxImplementsContract == Spec => ImplementsContract
<1>. QED BY InitRefines, Invariance, NextRefines, PTL DEF Spec, ImplementsContract, Contract!Spec

=============================================================================
