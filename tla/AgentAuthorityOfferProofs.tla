---------------------- MODULE AgentAuthorityOfferProofs ----------------------
(***************************************************************************)
(* Offers, their history, deletions and reports, proved for every set of   *)
(* Servers, offers, tokens, sockets and concurrent requests, and that      *)
(* Agent Authority implements its contract when no request is dropped at   *)
(* its COMMIT.                                                             *)
(***************************************************************************)
EXTENDS AgentAuthorityProofs, SequenceTheorems

Minting == {"issue", "graceful", "emergency", "replace"}

\* What the transition j of s has read of the rows still holds when it writes.
ReadOk(s, j) ==
    /\ j.op \in Minting \cup {"revoke_authority"} => OpenOffers(s) \subseteq {j.offer}
    /\ j.op = "issue" => ~Claimed(s)
    /\ j.op \in {"graceful", "emergency"} => Claimed(s)
    /\ j.op = "consume" <=> j.outcome = "consumed"
    /\ j.op = "fence_again" => j.offer = None

ReadInv == \A s \in Servers : ReadOk(s, job[s]) /\ ReadOk(s, adrift[s])

\* An offer elapses while it is open.
ElapsedInv == \A o \in elapsed : outcome[o] = "open"

\* A cached report belongs to a Server that is there.
ReportInv == ~MayDropRequests => \A s \in Servers : report[s] # None => status[s] = "present"

OfferInv == OneOpenOffer /\ ReadInv /\ ElapsedInv /\ ReportInv

USE DEF Outcome, Terminal, Transition, Op, Minting

-----------------------------------------------------------------------------
(* Decisions are taken on the rows as they are. *)

LEMMA OperatorReads ==
  ASSUME IInv, OneOpenOffer, NEW s \in Servers, OperatorNext(s), ~Onboard(s)
  PROVE  ReadOk(s, job'[s]) /\ job'[s].op # "consume"
  <1> USE NoneAssumption
  <1>0. job \in [Servers -> Job]
    BY DEF IInv, TypeOK
  <1>1. \A o \in ToExpire(s) : OpenOffers(s) \subseteq {o}
    BY DEF ToExpire, OneOpenOffer
  <1>2. CASE BeginIssue(s)
    <2>1. PICK o \in ToExpire(s) :
            Start(s, "issue", o, IF o = None THEN None ELSE "expired", None)
      BY <1>2 DEF BeginIssue, StartExpiring
    <2>2. /\ job'[s].op = "issue" /\ job'[s].offer = o
          /\ job'[s].outcome \in {None, "expired"}
      BY <1>0, <2>1 DEF Start
    <2> QED BY <1>1, <1>2, <2>1, <2>2 DEF BeginIssue, ReadOk
  <1>3. ASSUME NEW mode \in {"graceful", "emergency"}, BeginReenrollment(s, mode)
        PROVE  ReadOk(s, job'[s]) /\ job'[s].op # "consume"
    <2>1. PICK o \in ToExpire(s) :
            Start(s, mode, o, IF o = None THEN None ELSE "expired", None)
      BY <1>3 DEF BeginReenrollment, StartExpiring
    <2>2. /\ job'[s].op = mode /\ job'[s].offer = o
          /\ job'[s].outcome \in {None, "expired"}
      BY <1>0, <2>1 DEF Start
    <2> QED BY <1>1, <1>3, <2>1, <2>2 DEF BeginReenrollment, ReadOk
  <1>4. ASSUME NEW o \in Offers, BeginReplace(s, o) \/ BeginRevokeOffer(s, o)
        PROVE  ReadOk(s, job'[s]) /\ job'[s].op # "consume"
    <2>1. OpenOffers(s) \subseteq {o}
      BY <1>4 DEF BeginReplace, BeginRevokeOffer, OneOpenOffer
    <2>2. /\ job'[s].op \in {"expire", "replace", "revoke_offer"} /\ job'[s].offer = o
          /\ job'[s].outcome \in {"expired", "replaced", "revoked"}
      BY <1>0, <1>4 DEF BeginReplace, BeginRevokeOffer, Start
    <2> QED BY <2>1, <2>2 DEF ReadOk
  <1>5. CASE BeginRevokeAuthority(s)
    <2>1. CASE Start(s, "fence_again", None, None, None)
      <3>1. /\ job'[s].op = "fence_again"
            /\ job'[s].offer = None /\ job'[s].outcome = None
        BY <1>0, <2>1 DEF Start
      <3> QED BY <3>1 DEF ReadOk
    <2>2. ASSUME NEW o \in ToExpire(s), NEW out \in {"expired", "revoked", None},
                 Start(s, "revoke_authority", o, out, None)
          PROVE  ReadOk(s, job'[s]) /\ job'[s].op # "consume"
      <3>1. /\ job'[s].op = "revoke_authority" /\ job'[s].offer = o
            /\ job'[s].outcome = out
        BY <1>0, <2>2 DEF Start
      <3> QED BY <1>1, <3>1 DEF ReadOk
    <2> QED BY <1>5, <2>1, <2>2 DEF BeginRevokeAuthority
  <1> QED BY <1>2, <1>3, <1>4, <1>5 DEF OperatorNext

LEMMA ClaimReads ==
  ASSUME IInv, NEW k \in Claims, ClaimExpired(k) \/ ClaimAccepted(k)
  PROVE  ReadOk(target[claim[k].offer], job'[target[claim[k].offer]])
  <1> DEFINE s == target[claim[k].offer]
  <1>1. s \in Servers /\ job \in [Servers -> Job]
    BY ClaimStarts DEF IInv, TypeOK
  <1>2. \/ job'[s].op = "expire" /\ job'[s].outcome = "expired"
        \/ job'[s].op = "consume" /\ job'[s].outcome = "consumed"
    BY <1>1 DEF ClaimExpired, ClaimAccepted, Start
  <1> QED BY <1>2 DEF ReadOk

-----------------------------------------------------------------------------
(* What a COMMIT does to the offers.                                       *)

Keeps(j) == outcome' = Terminalized(j) /\ UNCHANGED <<target, successor>>

Mints(s, j, n) ==
    /\ outcome' = [Terminalized(j) EXCEPT ![n] = "open"]
    /\ target' = [target EXCEPT ![n] = s]
    /\ UNCHANGED successor \/ successor' = [successor EXCEPT ![j.offer] = n]

OfferForm(s, j) ==
    \/ j.op \in {"expire", "revoke_offer", "consume", "revoke_authority"} /\ Keeps(j)
    \/ j.op \in Minting /\ \E n \in Fresh : Mints(s, j, n)
    \/ j.op = "fence_again" /\ UNCHANGED <<outcome, target, successor>>

LEMMA OfferForms ==
  ASSUME NEW s \in Servers, NEW j \in Job, Durable(s, j)
  PROVE  OfferForm(s, j)
  <1>1. CASE j.op \in {"expire", "revoke_offer"} /\ WriteOutcome(s, j)
    BY <1>1 DEF WriteOutcome, OfferForm, Keeps
  <1>2. CASE j.op = "issue" /\ WriteIssue(s, j)
    BY <1>2 DEF WriteIssue, OfferForm, Mints
  <1>3. CASE j.op \in {"graceful", "emergency"} /\ WriteReenrollment(s, j)
    BY <1>3 DEF WriteReenrollment, OfferForm, Mints
  <1>4. CASE j.op = "replace" /\ WriteReplace(s, j)
    BY <1>4 DEF WriteReplace, OfferForm, Mints
  <1>5. CASE j.op = "consume" /\ WriteClaim(s, j)
    BY <1>5 DEF WriteClaim, OfferForm, Keeps
  <1>6. CASE j.op = "revoke_authority" /\ WriteRevokeAuthority(s, j)
    BY <1>6 DEF WriteRevokeAuthority, OfferForm, Keeps
  <1>7. CASE j.op = "fence_again" /\ UNCHANGED <<token, hash, outcome, target, successor, log>>
    BY <1>7 DEF OfferForm
  <1> QED BY <1>1, <1>2, <1>3, <1>4, <1>5, <1>6, <1>7 DEF Durable

\* The offer it settles, and nothing else, leaves the open ones; one may join them.
OfferEffect(s, j) ==
    /\ OpenOffers(s)' \subseteq OpenOffers(s) \/ \E n \in Fresh : OpenOffers(s)' = {n}
    /\ \A r \in Servers \ {s} : OpenOffers(r)' = OpenOffers(r)
    /\ \A o \in Offers : outcome[o] \in Terminal =>
            outcome'[o] = outcome[o] /\ successor'[o] = successor[o]
    /\ \A o \in Offers : outcome[o] = "open" /\ o # j.offer => outcome'[o] = "open"
    /\ \A o \in Offers : outcome[o] # "consumed" /\ outcome'[o] = "consumed" =>
            j.op = "consume" /\ j.offer = o

LEMMA OfferEffects ==
  ASSUME TypeOK, NEW s \in Servers, NEW j \in Job, JobOk(s, j), ReadOk(s, j), Durable(s, j)
  PROVE  OfferEffect(s, j)
  <1> USE NoneAssumption
  <1>0. /\ outcome \in [Offers -> Outcome]
        /\ target \in [Offers -> Servers \cup {None}]
        /\ successor \in [Offers -> Offers \cup {None}]
        /\ j.offer # None =>
             /\ j.offer \in Offers /\ j.outcome \in Terminal
             /\ outcome[j.offer] = "open" /\ target[j.offer] = s
    BY DEF TypeOK, JobOk, Job
  <1>1. /\ \A o \in Offers : Terminalized(j)[o] = IF o = j.offer THEN j.outcome ELSE outcome[o]
        /\ Terminalized(j) \in [Offers -> Outcome]
    BY <1>0 DEF Terminalized
  <1>2. CASE Keeps(j)
    <2>1. \A o \in Offers : outcome'[o] = IF o = j.offer THEN j.outcome ELSE outcome[o]
      BY <1>1, <1>2 DEF Keeps
    <2>2. UNCHANGED <<target, successor>>
      BY <1>2 DEF Keeps
    <2> QED BY <1>0, <2>1, <2>2 DEF OfferEffect, OpenOffers, ReadOk
  <1>3. ASSUME j.op \in Minting, NEW n \in Fresh, Mints(s, j, n)
        PROVE  OfferEffect(s, j)
    <2>0. n \in Offers /\ outcome[n] = "unminted" /\ n # j.offer
      BY <1>0, <1>3 DEF Fresh
    <2>1. \A o \in Offers :
            /\ outcome'[o] = IF o = n THEN "open"
                             ELSE IF o = j.offer THEN j.outcome ELSE outcome[o]
            /\ target'[o] = IF o = n THEN s ELSE target[o]
            /\ o # j.offer => successor'[o] = successor[o]
      BY <1>0, <1>1, <1>3 DEF Mints
    <2>2. OpenOffers(s) \subseteq {j.offer}
      BY <1>3 DEF ReadOk
    <2>3. OpenOffers(s)' = {n}
      BY <1>0, <2>0, <2>1, <2>2 DEF OpenOffers
    <2>4. \A r \in Servers \ {s} : OpenOffers(r)' = OpenOffers(r)
      BY <1>0, <2>0, <2>1 DEF OpenOffers
    <2>5. \A o \in Offers : outcome[o] \in Terminal =>
            outcome'[o] = outcome[o] /\ successor'[o] = successor[o]
      BY <1>0, <2>0, <2>1
    <2>6. \A o \in Offers : outcome[o] = "open" /\ o # j.offer => outcome'[o] = "open"
      BY <2>0, <2>1
    <2>7. \A o \in Offers : outcome'[o] = "consumed" => outcome[o] = "consumed"
      BY <1>0, <1>3, <2>0, <2>1 DEF ReadOk
    <2> QED BY <2>3, <2>4, <2>5, <2>6, <2>7 DEF OfferEffect
  <1>4. CASE UNCHANGED <<outcome, target, successor>>
    BY <1>4 DEF OfferEffect, OpenOffers
  <1> QED BY <1>2, <1>3, <1>4, OfferForms DEF OfferForm

\* What a transaction step can do: make its transition durable, which is then
\* in nobody's hands any more, or leave the tables alone.
LEMMA TransactionEnds ==
  ASSUME IInv, ReadInv, NEW s \in Servers, TransactionNext(s)
  PROVE  \/ /\ UNCHANGED tables
            /\ \A r \in Servers : job'[r] \in {job[r], adrift[r], NoJob}
                                  /\ adrift'[r] \in {job[r], adrift[r], NoJob}
         \/ /\ job'[s] = NoJob /\ adrift'[s] = NoJob
            /\ \A r \in Servers \ {s} : job'[r] = job[r] /\ adrift'[r] = adrift[r]
            /\ \E j \in Job :
                 /\ j \in {job[s], adrift[s]} /\ j # NoJob
                 /\ JobOk(s, j) /\ ReadOk(s, j)
                 /\ Durable(s, j)
  <1>0. /\ job \in [Servers -> Job] /\ adrift \in [Servers -> Job]
        /\ adrift[s] # NoJob => job[s] = NoJob
        /\ JobOk(s, job[s]) /\ JobOk(s, adrift[s])
        /\ ReadOk(s, job[s]) /\ ReadOk(s, adrift[s])
    BY DEF IInv, TypeOK, LockInv, JobInv, ReadInv
  <1>1. CASE Commit(s)
    <2>1. job[s] # NoJob
      BY <1>1 DEF Commit, Durable, NoJob
    <2> QED BY <1>0, <1>1, <2>1 DEF Commit, Unlock
  <1>2. CASE Land(s)
    BY <1>0, <1>2 DEF Land, runtime
  <1>3. CASE Abort(s)
    BY <1>0, <1>3 DEF Abort, Unlock, database
  <1>4. CASE DropAtCommit(s)
    BY <1>0, <1>4 DEF DropAtCommit, Unlock
  <1> QED BY <1>1, <1>2, <1>3, <1>4 DEF TransactionNext

-----------------------------------------------------------------------------
(* One open offer.                                                         *)

LEMMA OpenNext ==
  ASSUME IInv, OneOpenOffer, ReadInv, [Next]_vars
  PROVE  OneOpenOffer' /\ ReadInv'
  <1> USE NoneAssumption
  <1>0. TypeOK /\ RowInv /\ LockInv
    BY DEF IInv
  <1>t. job \in [Servers -> Job] /\ adrift \in [Servers -> Job]
    BY <1>0 DEF TypeOK
  <1>n. NoJob.op = "idle" /\ NoJob.outcome = None
    BY DEF NoJob
  <1>1. ASSUME UNCHANGED <<outcome, target, hash>>,
               \A r \in Servers :
                 \/ /\ job'[r] \in {job[r], adrift[r], NoJob}
                    /\ adrift'[r] \in {job[r], adrift[r], NoJob}
                 \/ ReadOk(r, job'[r]) /\ adrift'[r] = adrift[r]
        PROVE  OneOpenOffer' /\ ReadInv'
    <2>1. \A r \in Servers : OpenOffers(r)' = OpenOffers(r) /\ Claimed(r)' = Claimed(r)
      BY <1>1 DEF OpenOffers, Claimed
    <2>2. OneOpenOffer'
      BY <2>1 DEF OneOpenOffer
    <2>3. \A r \in Servers : ReadOk(r, job'[r]) /\ ReadOk(r, adrift'[r])
      BY <1>n, <1>1 DEF ReadInv, ReadOk
    <2>4. ReadInv'
      BY <2>1, <2>3 DEF ReadInv, ReadOk
    <2> QED BY <2>2, <2>4
  <1>2. ASSUME UNCHANGED <<outcome, target, hash, job, adrift>>
        PROVE  OneOpenOffer' /\ ReadInv'
    BY <1>1, <1>2
  <1>3. ASSUME NEW s \in Servers, OperatorNext(s)
        PROVE  OneOpenOffer' /\ ReadInv'
    <2>1. CASE Onboard(s)
      <3>1. PICK n \in Fresh : /\ outcome' = [outcome EXCEPT ![n] = "open"]
                               /\ target' = [target EXCEPT ![n] = s]
        BY <2>1 DEF Onboard
      <3>2. /\ n \in Offers /\ outcome[n] = "unminted"
            /\ OpenOffers(s) = {} /\ job[s] = NoJob /\ adrift[s] = NoJob
        BY <1>0, <2>1 DEF Onboard, Fresh, RowInv, OpenOffers
      <3>3. OpenOffers(s)' \subseteq {n}
        BY <1>0, <3>1, <3>2 DEF OpenOffers, TypeOK
      <3>4. \A r \in Servers \ {s} : OpenOffers(r)' = OpenOffers(r)
        BY <1>0, <3>1, <3>2 DEF OpenOffers, TypeOK
      <3>5. UNCHANGED <<job, adrift, hash>>
        BY <2>1 DEF Onboard, runtime
      <3>6. OneOpenOffer'
        BY <3>3, <3>4 DEF OneOpenOffer
      <3>7. ASSUME NEW r \in Servers
            PROVE  ReadOk(r, job[r])' /\ ReadOk(r, adrift[r])'
        <4>1. CASE r = s
          BY <1>n, <3>2, <3>5, <4>1 DEF ReadOk
        <4>2. CASE r # s
          BY <3>4, <3>5, <4>2 DEF ReadInv, ReadOk, Claimed
        <4> QED BY <4>1, <4>2
      <3> QED BY <3>6, <3>7 DEF ReadInv
    <2>2. CASE ~Onboard(s)
      <3>1. ReadOk(s, job'[s])
        BY <1>3, <2>2, OperatorReads
      <3>2. PICK op, o, out, t : StartsAs(s, op, o, out, t)
        BY <1>3, <2>2, OperatorStarts DEF Starts
      <3>3. UNCHANGED <<outcome, target, hash, adrift>> /\ \A r \in Servers \ {s} : job'[r] = job[r]
        BY <1>t, <3>2 DEF StartsAs, Start, database, tables
      <3> QED BY <1>1, <3>1, <3>3
    <2> QED BY <2>1, <2>2
  <1>4. ASSUME NEW k \in Claims, ClaimNext(k)
        PROVE  OneOpenOffer' /\ ReadInv'
    <2>1. CASE ClaimExpired(k) \/ ClaimAccepted(k)
      <3> DEFINE s == target[claim[k].offer]
      <3>1. ReadOk(s, job'[s]) /\ s \in Servers
        BY <2>1, ClaimReads, ClaimStarts
      <3>2. PICK op, o, out, t : StartsAs(s, op, o, out, t)
        BY <2>1, ClaimStarts DEF Starts
      <3>3. UNCHANGED <<outcome, target, hash, adrift>> /\ \A r \in Servers \ {s} : job'[r] = job[r]
        BY <1>t, <3>2 DEF StartsAs, Start, database, tables
      <3> QED BY <1>1, <3>1, <3>3
    <2> QED BY <1>2, <1>4, <2>1 DEF ClaimNext, LookupClaim, ClaimRejected, database, tables
  <1>5. ASSUME NEW s \in Servers, TransactionNext(s)
        PROVE  OneOpenOffer' /\ ReadInv'
    <2>1. ASSUME job'[s] = NoJob, adrift'[s] = NoJob,
                 \A r \in Servers \ {s} : job'[r] = job[r] /\ adrift'[r] = adrift[r],
                 NEW j \in Job, JobOk(s, j), ReadOk(s, j), Durable(s, j)
          PROVE  OneOpenOffer' /\ ReadInv'
      <3>1. OfferEffect(s, j) /\ CommitForm(s, j)
        BY <1>0, <2>1, OfferEffects, DurableForm
      <3>2. OneOpenOffer'
        BY <3>1 DEF OfferEffect, OneOpenOffer
      <3>3. ASSUME NEW r \in Servers
            PROVE  ReadOk(r, job[r])' /\ ReadOk(r, adrift[r])'
        <4>1. CASE r = s
          BY <1>n, <2>1, <4>1 DEF ReadOk
        <4>2. CASE r # s
          <5>1. OpenOffers(r)' = OpenOffers(r) /\ hash'[r] = hash[r]
            BY <3>1, <4>2 DEF OfferEffect, CommitForm
          <5> QED BY <2>1, <4>2, <5>1 DEF ReadInv, ReadOk, Claimed
        <4> QED BY <4>1, <4>2
      <3> QED BY <3>2, <3>3 DEF ReadInv
    <2> QED BY <1>1, <1>5, <2>1, TransactionEnds DEF tables
  <1>6. ASSUME NEW d \in Deleters, DeleteNext(d)
        PROVE  OneOpenOffer' /\ ReadInv'
    <2>1. UNCHANGED <<job, adrift>>
      BY <1>6, DeleteForms
    <2>2. CASE UNCHANGED tables
      BY <1>2, <2>1, <2>2 DEF tables
    <2>3. ASSUME DeleteRows(d), \A s \in Doomed(d) : job[s] = NoJob /\ adrift[s] = NoJob
          PROVE  OneOpenOffer' /\ ReadInv'
      <3>1. \A r \in Servers : OpenOffers(r)' \subseteq OpenOffers(r)
        BY <2>3 DEF DeleteRows, OpenOffers
      <3>2. OneOpenOffer'
        BY <3>1 DEF OneOpenOffer
      <3>3. ASSUME NEW r \in Servers
            PROVE  ReadOk(r, job[r])' /\ ReadOk(r, adrift[r])'
        <4>1. CASE r \in Doomed(d)
          BY <1>n, <2>1, <2>3, <4>1 DEF ReadOk
        <4>2. CASE r \notin Doomed(d)
          <5>1. hash'[r] = hash[r]
            BY <2>3, <4>2 DEF DeleteRows
          <5> QED BY <2>1, <3>1, <5>1 DEF ReadInv, ReadOk, Claimed
        <4> QED BY <4>1, <4>2
      <3> QED BY <3>2, <3>3 DEF ReadInv
    <2> QED BY <1>6, <2>2, <2>3, DeleteForms
  <1>7. CASE Restart
    BY <1>1, <1>7 DEF Restart, tables
  <1>8. ASSUME NEW c \in Sockets, SocketNext(c)
        PROVE  OneOpenOffer' /\ ReadInv'
    BY <1>2, <1>8 DEF SocketNext, Preflight, Admit, Refuse, HandleReport, Close, database, tables
  <1>9. ASSUME NEW s \in Servers, MarkOffline(s)
        PROVE  OneOpenOffer' /\ ReadInv'
    BY <1>2, <1>9 DEF MarkOffline, database, tables
  <1>10. ASSUME NEW o \in Offers, Elapse(o)
         PROVE  OneOpenOffer' /\ ReadInv'
    BY <1>2, <1>10 DEF Elapse, runtime
  <1>11. CASE UNCHANGED vars
    BY <1>2, <1>11 DEF vars
  <1> QED
    BY <1>3, <1>4, <1>5, <1>6, <1>7, <1>8, <1>9, <1>10, <1>11 DEF Next

-----------------------------------------------------------------------------
(* Elapsed offers and cached reports.                                      *)

\* The steps that write tables.
LEMMA TableSteps ==
  ASSUME IInv, ReadInv, [Next]_vars
  PROVE  \/ UNCHANGED tables
         \/ \E s \in Servers : Onboard(s)
         \/ \E s \in Servers, j \in Job :
               /\ j \in {job[s], adrift[s]}
               /\ JobOk(s, j) /\ ReadOk(s, j) /\ Durable(s, j)
         \/ \E d \in Deleters : DeleteRows(d)
         \/ \E o \in Offers : Elapse(o)
  <1>1. ASSUME NEW s \in Servers, Starts(s)
        PROVE  UNCHANGED tables
    BY <1>1 DEF Starts, StartsAs, database
  <1>2. ASSUME NEW c \in Sockets, SocketNext(c)
        PROVE  UNCHANGED tables
    BY <1>2 DEF SocketNext, Preflight, Admit, Refuse, HandleReport, Close, database
  <1>3. ASSUME NEW d \in Deleters, DeleteNext(d)
        PROVE  UNCHANGED tables \/ DeleteRows(d)
    BY <1>3, DeleteForms
  <1>4. ASSUME \/ \E k \in Claims : (\E o \in Offers, t \in Tokens : LookupClaim(k, o, t))
                                    \/ ClaimRejected(k)
               \/ \E s \in Servers : MarkOffline(s)
               \/ Restart \/ UNCHANGED vars
        PROVE  UNCHANGED tables
    BY <1>4 DEF LookupClaim, ClaimRejected, MarkOffline, Restart, vars, database, tables
  <1>5. ASSUME NEW s \in Servers, TransactionNext(s), ~UNCHANGED tables
        PROVE  \E j \in Job : /\ j \in {job[s], adrift[s]}
                              /\ JobOk(s, j) /\ ReadOk(s, j) /\ Durable(s, j)
    BY <1>5, TransactionEnds
  <1> QED BY <1>1, <1>2, <1>3, <1>4, <1>5, StepForms

LEMMA ElapsedNext ==
  ASSUME IInv, ReadInv, ElapsedInv, [Next]_vars
  PROVE  ElapsedInv'
  <1>0. TypeOK
    BY DEF IInv
  <1>1. CASE UNCHANGED tables
    BY <1>1 DEF tables, ElapsedInv
  <1>2. ASSUME NEW s \in Servers, Onboard(s)
        PROVE  ElapsedInv'
    BY <1>0, <1>2 DEF Onboard, Fresh, ElapsedInv, TypeOK
  <1>3. ASSUME NEW s \in Servers, NEW j \in Job, JobOk(s, j), ReadOk(s, j), Durable(s, j)
        PROVE  ElapsedInv'
    <2>1. elapsed' = elapsed \ {j.offer}
      BY <1>3 DEF Durable, ForgetExpiry
    <2>2. OfferEffect(s, j)
      BY <1>0, <1>3, OfferEffects
    <2> QED BY <1>0, <2>1, <2>2 DEF OfferEffect, ElapsedInv, TypeOK
  <1>4. ASSUME NEW d \in Deleters, DeleteRows(d)
        PROVE  ElapsedInv'
    BY <1>0, <1>4 DEF DeleteRows, ElapsedInv, TypeOK
  <1>5. ASSUME NEW o \in Offers, Elapse(o)
        PROVE  ElapsedInv'
    BY <1>5 DEF Elapse, ElapsedInv
  <1> QED BY <1>1, <1>2, <1>3, <1>4, <1>5, TableSteps

\* A report is cached from the current connection of its Server only.
LEMMA ReportAppears ==
  ASSUME IInv, [Next]_vars, NEW s \in Servers, report'[s] \notin {None, report[s]}
  PROVE  \E c \in Sockets : HandleReport(c) /\ sock[c].server = s
  <1> USE NoneAssumption
  <1>0. TypeOK
    BY DEF IInv
  <1>1. ASSUME NEW c \in Sockets, SocketNext(c)
        PROVE  HandleReport(c) /\ sock[c].server = s
    <2>1. HandleReport(c)
      BY <1>1 DEF SocketNext, Preflight, Admit, Refuse, Close
    <2> QED BY <1>0, <2>1 DEF HandleReport, TypeOK
  <1>2. ~\E d \in Deleters : DeleteNext(d)
    BY DEF DeleteNext, BeginDelete, TakeLock, FenceDoomed, CommitDelete, AbortDelete,
           DropAtCommitDelete, LandDelete
  <1>3. ASSUME NEW r \in Servers
        PROVE  ~Starts(r) /\ ~Onboard(r) /\ ~MarkOffline(r) /\ ~TransactionNext(r)
    <2>1. ~Starts(r)
      BY DEF Starts, StartsAs
    <2>2. ~Onboard(r) /\ ~MarkOffline(r)
      BY DEF Onboard, MarkOffline, runtime
    <2>3. ~TransactionNext(r)
      BY DEF TransactionNext, Commit, Abort, DropAtCommit, Land, runtime
    <2> QED BY <2>1, <2>2, <2>3
  <1>4. ~Restart /\ ~UNCHANGED vars
    BY DEF Restart, vars
  <1> QED
    BY <1>1, <1>2, <1>3, <1>4, StepForms DEF LookupClaim, ClaimRejected, Elapse, runtime

LEMMA ReportNext ==
  ASSUME IInv, ReadInv, ReportInv, [Next]_vars
  PROVE  ReportInv'
  <1> USE NoneAssumption
  <1> SUFFICES ASSUME ~MayDropRequests, NEW s \in Servers, report'[s] # None
               PROVE  status'[s] = "present"
    BY DEF ReportInv
  <1>0. TypeOK /\ ConnInv /\ DropInv
    BY DEF IInv
  <1>1. status[s] = "present"
    <2>1. CASE report'[s] = report[s]
      BY <2>1 DEF ReportInv
    <2>2. CASE report'[s] # report[s]
      <3>1. PICK c \in Sockets : HandleReport(c) /\ sock[c].server = s
        BY <2>2, ReportAppears
      <3> QED BY <1>0, <3>1 DEF HandleReport, Current, ConnInv
    <2> QED BY <2>1, <2>2
  <1>2. ASSUME NEW d \in Deleters, DeleteNext(d)
        PROVE  status'[s] = "present"
    <2>1. CASE CommitDelete(d)
      BY <1>1, <2>1 DEF CommitDelete, DeleteRows
    <2>2. ~LandDelete(d)
      BY <1>0 DEF LandDelete, DropInv
    <2> QED
      BY <1>1, <1>2, <2>1, <2>2
      DEF DeleteNext, BeginDelete, TakeLock, FenceDoomed, AbortDelete, DropAtCommitDelete,
          database, tables
  <1>3. ASSUME NEW r \in Servers, TransactionNext(r)
        PROVE  status'[s] = "present"
    BY <1>1, <1>3, TransactionForms DEF Lands, CommitForm, tables
  <1>4. ASSUME NEW r \in Servers, Onboard(r)
        PROVE  status'[s] = "present"
    BY <1>0, <1>1, <1>4 DEF Onboard, TypeOK
  <1>5. ASSUME NEW r \in Servers, Starts(r)
        PROVE  status'[s] = "present"
    BY <1>1, <1>5 DEF Starts, StartsAs, database, tables
  <1>6. ASSUME NEW c \in Sockets, SocketNext(c)
        PROVE  status'[s] = "present"
    BY <1>1, <1>6 DEF SocketNext, Preflight, Admit, Refuse, HandleReport, Close, database, tables
  <1> QED
    BY <1>1, <1>2, <1>3, <1>4, <1>5, <1>6, StepForms
    DEF LookupClaim, ClaimRejected, MarkOffline, Elapse, Restart, vars, database, tables

-----------------------------------------------------------------------------
(* The theorems.                                                           *)

LEMMA OfferInit == Init => OfferInv
  BY NoneAssumption
  DEF Init, OfferInv, OneOpenOffer, OpenOffers, ReadInv, ReadOk, NoJob, ElapsedInv, ReportInv

LEMMA OfferNext == IInv /\ OfferInv /\ [Next]_vars => OfferInv'
  BY OpenNext, ElapsedNext, ReportNext DEF OfferInv

\* What the properties of offers rest on.
THEOREM OfferInvariance == Spec => [](IInv /\ OfferInv)
  <1>1. Init => OfferInv
    BY OfferInit
  <1>2. IInv /\ OfferInv /\ [Next]_vars => OfferInv'
    BY OfferNext
  <1> QED BY <1>1, <1>2, Invariance, PTL DEF Spec

\* A Server has one open offer at most, whoever issues, replaces and expires
\* offers at the same time, with requests dropped at their COMMIT or not.
THEOREM OffersAreSingle == Spec => []OneOpenOffer
  <1>1. OfferInv => OneOpenOffer
    BY DEF OfferInv
  <1> QED BY <1>1, OfferInvariance, PTL

\* delete_servers leaves no connection, open offer or report, if no request is
\* dropped at its COMMIT.
THEOREM DeletionIsClean == ~MayDropRequests => (Spec => []DeletedLeavesNothing)
  <1> SUFFICES ASSUME ~MayDropRequests PROVE Spec => []DeletedLeavesNothing
    OBVIOUS
  <1>1. IInv /\ OfferInv => DeletedLeavesNothing
    <2> SUFFICES ASSUME IInv, OfferInv, NEW s \in Servers, status[s] = "deleted"
                 PROVE  conn[s] = None /\ OpenOffers(s) = {} /\ report[s] = None
      BY DEF DeletedLeavesNothing
    <2> QED BY DEF IInv, ConnInv, RowInv, OfferInv, ReportInv, OpenOffers
  <1> QED BY <1>1, OfferInvariance, PTL

\* A settled offer keeps its outcome and its successor until its Server is deleted.
THEOREM SettledOffersStay == Spec => TerminalOffersImmutable
  <1> DEFINE Immutable == \A o \in Offers : outcome[o] \in Terminal =>
                            \/ outcome'[o] = outcome[o] /\ successor'[o] = successor[o]
                            \/ outcome'[o] = "deleted" /\ status'[target[o]] = "deleted"
  <1>1. IInv /\ OfferInv /\ [Next]_vars => [Immutable]_vars
    <2> SUFFICES ASSUME IInv, OfferInv, [Next]_vars PROVE Immutable
      OBVIOUS
    <2>0. TypeOK /\ ReadInv
      BY DEF IInv, OfferInv
    <2>1. CASE UNCHANGED tables
      BY <2>1 DEF tables
    <2>2. ASSUME NEW s \in Servers, Onboard(s)
          PROVE  Immutable
      BY <2>0, <2>2 DEF Onboard, Fresh, TypeOK
    <2>3. ASSUME NEW s \in Servers, NEW j \in Job, JobOk(s, j), ReadOk(s, j), Durable(s, j)
          PROVE  Immutable
      BY <2>0, <2>3, OfferEffects DEF OfferEffect
    <2>4. ASSUME NEW d \in Deleters, DeleteRows(d)
          PROVE  Immutable
      <3>1. Doomed(d) \subseteq Servers
        BY <2>0 DEF Doomed, TypeOK, Delete
      <3> QED BY <2>4, <3>1 DEF DeleteRows
    <2>5. ASSUME NEW o \in Offers, Elapse(o)
          PROVE  Immutable
      BY <2>5 DEF Elapse
    <2> QED BY <2>0, <2>1, <2>2, <2>3, <2>4, <2>5, TableSteps
  <1> QED BY <1>1, OfferInvariance, PTL DEF Spec, TerminalOffersImmutable

\* A claim decides to consume an offer only while it has not elapsed.
LEMMA OnlyClaimsDecide ==
  ASSUME IInv, OfferInv, [Next]_vars, NEW o \in elapsed, Decided(o)'
  PROVE  Decided(o)
  <1> USE NoneAssumption
  <1>0. job \in [Servers -> Job] /\ adrift \in [Servers -> Job] /\ NoJob.op = "idle"
    BY DEF IInv, TypeOK, NoJob
  <1>1. PICK s \in Servers :
          \E j \in {job'[s], adrift'[s]} : j.op = "consume" /\ j.offer = o
    BY DEF Decided
  <1>2. CASE \E j \in {job[s], adrift[s]} : j \in {job'[s], adrift'[s]}
                                            /\ j.op = "consume" /\ j.offer = o
    BY <1>2 DEF Decided
  <1>3. ASSUME NEW r \in Servers, OperatorNext(r), ~Onboard(r)
        PROVE  Decided(o)
    <2>1. job'[r].op # "consume"
      BY <1>3, OperatorReads DEF OfferInv
    <2>2. UNCHANGED adrift /\ \A q \in Servers \ {r} : job'[q] = job[q]
      BY <1>0, <1>3, OperatorStarts DEF Starts, StartsAs, Start, database
    <2> QED BY <1>1, <1>2, <2>1, <2>2
  <1>4. ASSUME NEW k \in Claims, ClaimExpired(k) \/ ClaimAccepted(k)
        PROVE  Decided(o)
    <2> DEFINE r == target[claim[k].offer]
    <2>1. r \in Servers
      BY <1>4, ClaimStarts
    <2>2. \/ job'[r].op # "consume"
          \/ job'[r].offer # o
      BY <1>0, <1>4, <2>1 DEF ClaimExpired, ClaimAccepted, Start
    <2>3. UNCHANGED adrift /\ \A q \in Servers \ {r} : job'[q] = job[q]
      BY <1>0, <1>4, <2>1 DEF ClaimExpired, ClaimAccepted, Start, database
    <2> QED BY <1>1, <1>2, <2>2, <2>3
  <1>5. ASSUME NEW r \in Servers, TransactionNext(r)
        PROVE  Decided(o)
    <2>1. \A q \in Servers : /\ job'[q] \in {job[q], adrift[q], NoJob}
                             /\ adrift'[q] \in {job[q], adrift[q], NoJob}
      BY <1>5, TransactionEnds DEF OfferInv
    <2> QED BY <1>0, <1>1, <1>2, <2>1
  <1>6. ASSUME NEW d \in Deleters, DeleteNext(d)
        PROVE  Decided(o)
    BY <1>1, <1>2, <1>6, DeleteForms
  <1>7. ASSUME NEW c \in Sockets, SocketNext(c)
        PROVE  Decided(o)
    BY <1>1, <1>2, <1>7 DEF SocketNext, Preflight, Admit, Refuse, HandleReport, Close, database
  <1>8. ~Restart
    BY <1>0, <1>1 DEF Restart
  <1>9. ASSUME UNCHANGED <<job, adrift>>
        PROVE  Decided(o)
    BY <1>1, <1>2, <1>9
  <1> QED
    BY <1>3, <1>4, <1>5, <1>6, <1>7, <1>8, <1>9
    DEF Next, OperatorNext, ClaimNext, LookupClaim, ClaimRejected, Onboard, MarkOffline, Elapse,
        vars, runtime, database

\* An offer that elapsed before a claim decided on it is not consumed.
THEOREM ElapsedOffersAreLost == Spec => ElapsedNeverConsumed
  <1> DEFINE Lost == \A o \in elapsed :
                       Decided(o) \/ (~Decided(o)' /\ outcome'[o] # "consumed")
  <1>1. IInv /\ OfferInv /\ [Next]_vars => [Lost]_vars
    <2> SUFFICES ASSUME IInv, OfferInv, [Next]_vars, NEW o \in elapsed, ~Decided(o)
                 PROVE  ~Decided(o)' /\ outcome'[o] # "consumed"
      OBVIOUS
    <2>0. TypeOK /\ ReadInv /\ o \in Offers /\ outcome[o] = "open"
      BY DEF IInv, OfferInv, TypeOK, ElapsedInv
    <2>1. ~Decided(o)'
      BY OnlyClaimsDecide
    <2>2. CASE UNCHANGED tables
      BY <2>0, <2>1, <2>2 DEF tables
    <2>3. ASSUME NEW s \in Servers, Onboard(s)
          PROVE  outcome'[o] # "consumed"
      BY <2>0, <2>3 DEF Onboard, Fresh, TypeOK
    <2>4. ASSUME NEW s \in Servers, NEW j \in Job, j \in {job[s], adrift[s]},
                 JobOk(s, j), ReadOk(s, j), Durable(s, j)
          PROVE  outcome'[o] # "consumed"
      <3>1. OfferEffect(s, j)
        BY <2>0, <2>4, OfferEffects
      <3> QED BY <2>0, <2>4, <3>1 DEF OfferEffect, Decided
    <2>5. ASSUME NEW d \in Deleters, DeleteRows(d)
          PROVE  outcome'[o] # "consumed"
      BY <2>0, <2>5 DEF DeleteRows
    <2>6. ASSUME NEW p \in Offers, Elapse(p)
          PROVE  outcome'[o] # "consumed"
      BY <2>0, <2>6 DEF Elapse
    <2> QED BY <2>0, <2>1, <2>2, <2>3, <2>4, <2>5, <2>6, TableSteps
  <1> QED BY <1>1, OfferInvariance, PTL DEF Spec, ElapsedNeverConsumed

\* A report is taken only from the agent that holds the authority at that moment,
\* if no request is dropped at its COMMIT.
THEOREM ReportsAreAuthorized == ~MayDropRequests => (Spec => ReportsOnlyUnderAuthority)
  <1> SUFFICES ASSUME ~MayDropRequests PROVE Spec => ReportsOnlyUnderAuthority
    OBVIOUS
  <1> DEFINE Authorized == \A s \in Servers :
                             report'[s] \notin {None, report[s]} => report'[s] = hash[s]
  <1>1. IInv /\ [Next]_vars => [Authorized]_vars
    <2> SUFFICES ASSUME IInv, [Next]_vars, NEW s \in Servers, report'[s] \notin {None, report[s]}
                 PROVE  report'[s] = hash[s]
      OBVIOUS
    <2>1. PICK c \in Sockets : HandleReport(c) /\ sock[c].server = s
      BY ReportAppears
    <2>2. conn[s] = c /\ report'[s] = sock[c].hash
      BY <2>1 DEF HandleReport, Current, IInv, TypeOK
    <2> QED BY <2>2, NoneAssumption DEF IInv, ConnInv
  <1> QED BY <1>1, Invariance, PTL DEF Spec, ReportsOnlyUnderAuthority

-----------------------------------------------------------------------------
(* The contract.  Nothing is adrift here: no request is dropped.           *)

\* A connection goes, or all of a set, and nothing else changes.
LEMMA Disconnects ==
  ASSUME TypeOK, NEW S \in SUBSET Servers, UNCHANGED <<hash, outcome, target>>,
         LiveUnder' = [s \in Servers |-> IF s \in S THEN None ELSE LiveUnder[s]]
  PROVE  Contract!Next
  BY DEF Contract!Next, Contract!Disconnect

\* What fences one Server.
LEMMA FenceDisconnects ==
  ASSUME TypeOK, NEW s \in Servers, Fence(s), UNCHANGED sock
  PROVE  LiveUnder' = [LiveUnder EXCEPT ![s] = None]
  BY DEF TypeOK, Fence, LiveUnder

\* The open offer of s is the one that j settles, if any is.
LEMMA SettlesOwn ==
  ASSUME TypeOK, OneOpenOffer, NEW s \in Servers, NEW j \in Job, JobOk(s, j), ReadOk(s, j),
         j.op \in Minting \cup {"expire", "revoke_offer", "revoke_authority"}
  PROVE  \/ Terminalized(j) = outcome
         \/ \E fate \in {"revoked", "replaced", "expired"} :
               Terminalized(j) = Contract!Settled(s, fate)
  <1> USE NoneAssumption
  <1>1. CASE j.offer = None
    BY <1>1 DEF Terminalized
  <1>2. CASE j.offer # None
    <2>1. /\ j.offer \in OpenOffers(s) /\ j.outcome \in {"revoked", "replaced", "expired"}
          /\ OpenOffers(s) = Contract!OpenFor(s)
      BY <1>2 DEF JobOk, ReadOk, Job, OpenOffers, Contract!OpenFor
    <2>2. \A o \in Offers : o \in Contract!OpenFor(s) <=> o = j.offer
      BY <2>1 DEF OneOpenOffer, OpenOffers
    <2>3. Terminalized(j) = Contract!Settled(s, j.outcome)
      BY <1>2, <2>1, <2>2 DEF Terminalized, Contract!Settled, TypeOK
    <2> QED BY <2>1, <2>3
  <1> QED BY <1>1, <1>2

\* A transition that settles without minting or granting, and one that mints.
LEMMA SettlesOrOpens ==
  ASSUME TypeOK, OneOpenOffer, NEW s \in Servers, NEW j \in Job, JobOk(s, j), ReadOk(s, j),
         j.op \in Minting \cup {"expire", "revoke_offer", "revoke_authority"},
         OfferForm(s, j)
  PROVE  \/ j.op \in {"expire", "revoke_offer"} /\ UNCHANGED <<outcome, target>>
         \/ \E fate \in {"revoked", "replaced", "expired"} :
               \/ outcome' = Contract!Settled(s, fate) /\ UNCHANGED target
               \/ Contract!Open(s, Contract!Settled(s, fate))
  <1> USE NoneAssumption
  <1>1. ASSUME j.op \in Minting \cup {"revoke_authority"}
        PROVE  \E fate \in {"revoked", "replaced", "expired"} :
                 Terminalized(j) = Contract!Settled(s, fate)
    <2>1. CASE j.offer = None
      <3>1. OpenOffers(s) = {}
        BY <1>1, <2>1 DEF ReadOk, OpenOffers
      <3>2. Contract!Settled(s, "expired") = outcome
        BY <3>1 DEF Contract!Settled, Contract!OpenFor, OpenOffers, TypeOK
      <3> QED BY <2>1, <3>2 DEF Terminalized
    <2>2. CASE j.offer # None
      <3>1. j.offer \in Offers /\ outcome[j.offer] = "open" /\ j.outcome \in Terminal
        BY <2>2 DEF JobOk, Job
      <3>2. Terminalized(j) # outcome
        BY <2>2, <3>1 DEF Terminalized, TypeOK
      <3> QED BY <3>2, SettlesOwn
    <2> QED BY <2>1, <2>2
  <1>2. CASE Keeps(j)
    BY <1>1, <1>2, SettlesOwn DEF Keeps
  <1>3. ASSUME j.op \in Minting, NEW n \in Fresh, Mints(s, j, n)
        PROVE  \E fate \in {"revoked", "replaced", "expired"} :
                 Contract!Open(s, Contract!Settled(s, fate))
    BY <1>1, <1>3 DEF Mints, Fresh, Contract!Open
  <1> QED BY <1>2, <1>3 DEF OfferForm

\* Whose authority a COMMIT changes, and to what.
LEMMA AuthorityForms ==
  ASSUME TypeOK, NEW s \in Servers, NEW j \in Job, Durable(s, j)
  PROVE  \/ j.op = "consume" /\ hash' = [hash EXCEPT ![s] = j.offer] /\ Keeps(j)
         \/ j.op \in {"emergency", "revoke_authority"} /\ hash' = [hash EXCEPT ![s] = None]
         \/ j.op = "fence_again" /\ UNCHANGED <<hash, outcome, target>>
         \/ /\ j.op \in {"expire", "revoke_offer", "issue", "graceful", "replace"}
            /\ UNCHANGED hash
  <1>1. CASE j.op \in {"expire", "revoke_offer"} /\ WriteOutcome(s, j)
    BY <1>1 DEF WriteOutcome
  <1>2. CASE j.op = "issue" /\ WriteIssue(s, j)
    BY <1>2 DEF WriteIssue
  <1>3. CASE j.op \in {"graceful", "emergency"} /\ WriteReenrollment(s, j)
    BY <1>3 DEF WriteReenrollment, Unauthorize
  <1>4. CASE j.op = "replace" /\ WriteReplace(s, j)
    BY <1>4 DEF WriteReplace
  <1>5. CASE j.op = "consume" /\ WriteClaim(s, j)
    BY <1>5 DEF WriteClaim, Keeps
  <1>6. CASE j.op = "revoke_authority" /\ WriteRevokeAuthority(s, j)
    BY <1>6 DEF WriteRevokeAuthority, Unauthorize, Claimed, TypeOK
  <1>7. CASE j.op = "fence_again" /\ UNCHANGED <<token, hash, outcome, target, successor, log>>
    BY <1>7
  <1> QED BY <1>1, <1>2, <1>3, <1>4, <1>5, <1>6, <1>7 DEF Durable

\* A step of the contract, or of nobody it knows of.
ContractStep == Contract!Next \/ UNCHANGED Contract!vars

LEMMA CommitImplements ==
  ASSUME IInv, OfferInv, NEW s \in Servers, Commit(s)
  PROVE  ContractStep
  <1> USE NoneAssumption
  <1> DEFINE j == job[s]
  <1>0. /\ TypeOK /\ OneOpenOffer /\ FenceInv
        /\ j \in Job /\ JobOk(s, j) /\ ReadOk(s, j) /\ Durable(s, j)
    BY DEF IInv, TypeOK, JobInv, OfferInv, ReadInv, Commit
  <1>1. OfferForm(s, j)
    BY <1>0, OfferForms
  <1>2. UNCHANGED sock
    BY DEF Commit
  <1>3. CASE j.op = "consume" /\ hash' = [hash EXCEPT ![s] = j.offer] /\ Keeps(j)
    <2>1. j.offer \in Contract!OpenFor(s) /\ j.outcome = "consumed"
      BY <1>0, <1>3 DEF JobOk, ReadOk, Job, Contract!OpenFor
    <2>2. outcome' = [outcome EXCEPT ![j.offer] = "consumed"] /\ UNCHANGED target
      BY <1>3, <2>1 DEF Keeps, Terminalized, Contract!OpenFor
    <2>3. UNCHANGED conn /\ conn[s] = None
      BY <1>0, <1>3 DEF Commit, FencesAfterCommit, FenceInv
    <2>4. LiveUnder' = [LiveUnder EXCEPT ![s] = None]
      BY <1>2, <2>3 DEF LiveUnder
    <2>5. Contract!Grant(s)
      BY <1>3, <2>1, <2>2, <2>4 DEF Contract!Grant
    <2> QED BY <2>5 DEF ContractStep, Contract!Next
  <1>4. CASE j.op \in {"emergency", "revoke_authority"} /\ hash' = [hash EXCEPT ![s] = None]
    <2>1. LiveUnder' = [LiveUnder EXCEPT ![s] = None]
      <3>1. CASE j.op = "emergency"
        <4>1. UNCHANGED conn /\ conn[s] = None
          BY <1>0, <3>1 DEF Commit, FencesAfterCommit, FenceInv
        <4> QED BY <1>2, <4>1 DEF LiveUnder
      <3>2. CASE j.op = "revoke_authority"
        <4>1. Fence(s)
          BY <3>2 DEF Commit, FencesAfterCommit
        <4> QED BY <1>0, <1>2, <4>1, FenceDisconnects
      <3> QED BY <1>4, <3>1, <3>2
    <2>2. \E fate \in {"revoked", "replaced", "expired"} :
            \/ outcome' = Contract!Settled(s, fate) /\ UNCHANGED target
            \/ Contract!Open(s, Contract!Settled(s, fate))
      BY <1>0, <1>1, <1>4, SettlesOrOpens
    <2>3. Contract!Settle(s)
      BY <1>4, <2>1, <2>2 DEF Contract!Settle, Contract!Withdraw
    <2> QED BY <2>3 DEF ContractStep, Contract!Next
  <1>5. CASE j.op = "fence_again" /\ UNCHANGED <<hash, outcome, target>>
    <2>1. Fence(s)
      BY <1>5 DEF Commit, FencesAfterCommit
    <2>2. LiveUnder' = [LiveUnder EXCEPT ![s] = None]
      BY <1>0, <1>2, <2>1, FenceDisconnects
    <2>3. LiveUnder' = [r \in Servers |-> IF r \in {s} THEN None ELSE LiveUnder[r]]
      BY <2>2 DEF LiveUnder
    <2> QED BY <1>0, <1>5, <2>3, Disconnects DEF ContractStep
  <1>6. CASE /\ j.op \in {"expire", "revoke_offer", "issue", "graceful", "replace"}
             /\ UNCHANGED hash
    <2>1. UNCHANGED conn
      BY <1>6 DEF Commit, FencesAfterCommit
    <2>2. UNCHANGED LiveUnder
      BY <1>2, <2>1 DEF LiveUnder
    <2>3. CASE UNCHANGED <<outcome, target>>
      BY <1>6, <2>2, <2>3 DEF ContractStep, Contract!vars
    <2>4. CASE \E fate \in {"revoked", "replaced", "expired"} :
                 \/ outcome' = Contract!Settled(s, fate) /\ UNCHANGED target
                 \/ Contract!Open(s, Contract!Settled(s, fate))
      BY <1>6, <2>2, <2>4 DEF ContractStep, Contract!Next, Contract!Settle
    <2> QED BY <1>0, <1>1, <1>6, <2>3, <2>4, SettlesOrOpens
  <1> QED BY <1>0, <1>3, <1>4, <1>5, <1>6, AuthorityForms
LEMMA DeleteImplements ==
  ASSUME IInv, ~MayDropRequests, NEW d \in Deleters, DeleteNext(d)
  PROVE  ContractStep
  <1> USE NoneAssumption
  <1>0. TypeOK /\ FenceInv /\ DropInv /\ Doomed(d) \in SUBSET Servers
    BY DEF IInv, Doomed, TypeOK, Delete
  <1>1. CASE FenceDoomed(d)
    <2>1. UNCHANGED <<hash, outcome, target, sock>>
      BY <1>1 DEF FenceDoomed, database, tables
    <2>2. LiveUnder' = [s \in Servers |-> IF s \in Doomed(d) THEN None ELSE LiveUnder[s]]
      BY <1>1, <2>1 DEF FenceDoomed, LiveUnder
    <2> QED BY <1>0, <2>1, <2>2, Disconnects DEF ContractStep
  <1>2. CASE CommitDelete(d)
    <2>1. \A s \in Doomed(d) : conn[s] = None
      BY <1>0, <1>2 DEF CommitDelete, FenceInv
    <2>2. UNCHANGED <<conn, sock>>
      BY <1>2 DEF CommitDelete
    <2>3. LiveUnder' = [s \in Servers |-> IF s \in Doomed(d) THEN None ELSE LiveUnder[s]]
      BY <2>1, <2>2 DEF LiveUnder
    <2>4. Contract!Delete(Doomed(d))
      BY <1>2, <2>3 DEF CommitDelete, DeleteRows, Contract!Delete
    <2> QED BY <1>0, <2>4 DEF ContractStep, Contract!Next
  <1>3. ~LandDelete(d)
    BY <1>0 DEF LandDelete, DropInv
  <1>4. CASE UNCHANGED <<database, conn, sock>>
    BY <1>4 DEF ContractStep, Contract!vars, LiveUnder, database, tables
  <1> QED
    BY <1>1, <1>2, <1>3, <1>4
    DEF DeleteNext, BeginDelete, TakeLock, AbortDelete, DropAtCommitDelete

\* Whatever happens to a socket that is not the current one is no business of
\* the contract.
LEMMA SocketImplements ==
  ASSUME IInv, ~MayDropRequests, NEW c \in Sockets, SocketNext(c)
  PROVE  ContractStep
  <1> USE NoneAssumption
  <1>0. TypeOK /\ ConnInv
    BY DEF IInv
  <1>1. UNCHANGED <<hash, outcome, target>>
    BY DEF SocketNext, Preflight, Admit, Refuse, HandleReport, Close, database, tables
  <1>2. ASSUME UNCHANGED conn, \A e \in Sockets \ {c} : sock'[e] = sock[e],
               \A s \in Servers : conn[s] # c
        PROVE  ContractStep
    <2>1. UNCHANGED LiveUnder
      BY <1>0, <1>2 DEF LiveUnder, TypeOK
    <2> QED BY <1>1, <2>1 DEF ContractStep, Contract!vars
  <1>3. CASE Admit(c)
    <2> DEFINE s == sock[c].server
    <2>1. /\ s \in Servers /\ hash[s] # None
          /\ conn' = [conn EXCEPT ![s] = c]
          /\ sock'[c].hash = hash[s]
          /\ \A e \in Sockets \ {c} : sock'[e] = sock[e]
          /\ sock[c].pc = "pending"
      BY <1>0, <1>3 DEF Admit, Holders, Claimed, TypeOK, Sock
    <2>2. \A r \in Servers : conn[r] # c
      BY <1>0, <2>1 DEF ConnInv
    <2>3. LiveUnder' = [LiveUnder EXCEPT ![s] = hash[s]]
      BY <1>0, <2>1, <2>2 DEF LiveUnder, TypeOK
    <2>4. Contract!Connect(s)
      BY <1>1, <2>1, <2>3 DEF Contract!Connect
    <2> QED BY <2>1, <2>4 DEF ContractStep, Contract!Next
  <1>4. CASE Close(c)
    <2> DEFINE s == sock[c].server
    <2>1. \A e \in Sockets \ {c} : sock'[e] = sock[e]
      BY <1>0, <1>4 DEF Close, TypeOK
    <2>2. \A r \in Servers : conn[r] = c => r = s
      BY <1>0 DEF ConnInv
    <2>3. CASE s \in Servers /\ conn[s] = c
      <3>1. conn' = [conn EXCEPT ![s] = None]
        BY <1>4, <2>3 DEF Close, Current, Fence
      <3>2. LiveUnder' = [r \in Servers |-> IF r \in {s} THEN None ELSE LiveUnder[r]]
        BY <1>0, <2>1, <2>2, <2>3, <3>1 DEF LiveUnder, TypeOK
      <3> QED BY <1>0, <1>1, <2>3, <3>2, Disconnects DEF ContractStep
    <2>4. CASE ~(s \in Servers /\ conn[s] = c)
      <3>1. UNCHANGED conn
        BY <1>0, <1>4, <2>4 DEF Close, Current, Fence, TypeOK
      <3> QED BY <1>2, <2>1, <2>2, <2>4, <3>1
    <2> QED BY <2>3, <2>4
  <1>5. CASE HandleReport(c)
    BY <1>1, <1>5 DEF HandleReport, ContractStep, Contract!vars, LiveUnder
  <1>6. ASSUME Refuse(c) \/ \E t \in Tokens : Preflight(c, t)
        PROVE  ContractStep
    <2>1. sock[c].pc \in {"pending", "closed"}
      BY <1>6 DEF Refuse, Preflight, ClosedSock
    <2>2. ASSUME NEW s \in Servers, conn[s] = c
          PROVE  FALSE
      <3>1. conn[s] # None
        BY <2>2
      <3>2. sock[conn[s]].pc = "live"
        BY <1>0, <3>1 DEF ConnInv
      <3> QED BY <2>1, <2>2, <3>2
    <2>3. UNCHANGED conn /\ \A e \in Sockets \ {c} : sock'[e] = sock[e]
      BY <1>0, <1>6 DEF Refuse, Preflight, TypeOK
    <2> QED BY <1>2, <2>2, <2>3
  <1> QED BY <1>3, <1>4, <1>5, <1>6 DEF SocketNext

LEMMA OtherImplement ==
  ASSUME IInv, OfferInv, ~MayDropRequests, NEW s \in Servers,
         Onboard(s) \/ Starts(s) \/ TransactionNext(s) \/ MarkOffline(s)
  PROVE  ContractStep
  <1> USE NoneAssumption
  <1>0. TypeOK /\ RowInv /\ DropInv
    BY DEF IInv
  <1>1. CASE Onboard(s)
    <2>1. PICK n \in Fresh : /\ outcome' = [outcome EXCEPT ![n] = "open"]
                             /\ target' = [target EXCEPT ![n] = s]
      BY <1>1 DEF Onboard
    <2>2. Contract!OpenFor(s) = {}
      BY <1>0, <1>1 DEF Onboard, RowInv, Contract!OpenFor
    <2>3. Contract!Settled(s, "expired") = outcome
      BY <1>0, <2>2 DEF Contract!Settled, TypeOK
    <2>4. Contract!Open(s, Contract!Settled(s, "expired"))
      BY <2>1, <2>3 DEF Contract!Open, Fresh
    <2>5. UNCHANGED <<hash, LiveUnder>>
      BY <1>1 DEF Onboard, runtime, LiveUnder
    <2>6. Contract!Settle(s)
      BY <2>4, <2>5 DEF Contract!Settle
    <2> QED BY <2>6 DEF ContractStep, Contract!Next
  <1>2. ASSUME UNCHANGED <<hash, outcome, target, sock>>, UNCHANGED conn \/ Fence(s)
        PROVE  ContractStep
    <2>1. CASE UNCHANGED conn
      BY <1>2, <2>1 DEF ContractStep, Contract!vars, LiveUnder
    <2>2. CASE Fence(s)
      <3>1. LiveUnder' = [LiveUnder EXCEPT ![s] = None]
        BY <1>0, <1>2, <2>2, FenceDisconnects
      <3>2. LiveUnder' = [r \in Servers |-> IF r \in {s} THEN None ELSE LiveUnder[r]]
        BY <3>1 DEF LiveUnder
      <3> QED BY <1>0, <1>2, <3>2, Disconnects DEF ContractStep
    <2> QED BY <1>2, <2>1, <2>2
  <1>3. CASE Starts(s)
    BY <1>2, <1>3 DEF Starts, StartsAs, database, tables
  <1>4. CASE MarkOffline(s)
    BY <1>2, <1>4 DEF MarkOffline, database, tables
  <1>5. CASE TransactionNext(s)
    <2>1. CASE Commit(s)
      BY <2>1, CommitImplements
    <2>2. ~DropAtCommit(s) /\ ~Land(s)
      BY <1>0 DEF DropAtCommit, Land, DropInv
    <2>3. CASE Abort(s)
      BY <1>2, <2>3 DEF Abort, database, tables
    <2> QED BY <1>5, <2>1, <2>2, <2>3 DEF TransactionNext
  <1> QED BY <1>1, <1>3, <1>4, <1>5

\* Agent Authority keeps what AuthorityContract promises, for any number of
\* Servers, agents and operators, if no request is dropped at its COMMIT: the
\* locks, the two steps of a transition, aborts and handshakes are not visible.
THEOREM Refinement == ~MayDropRequests => (Spec => ImplementsContract)
  <1> SUFFICES ASSUME ~MayDropRequests PROVE Spec => ImplementsContract
    OBVIOUS
  <1>1. Init => Contract!Init
    BY DEF Init, Contract!Init, LiveUnder
  <1>2. IInv /\ OfferInv /\ [Next]_vars => [Contract!Next]_(Contract!vars)
    <2> SUFFICES ASSUME IInv, OfferInv, [Next]_vars PROVE ContractStep
      BY DEF ContractStep
    <2>1. CASE Restart
      <3>1. UNCHANGED <<hash, outcome, target>>
        BY <2>1 DEF Restart, tables
      <3>2. LiveUnder' = [s \in Servers |-> IF s \in Servers THEN None ELSE LiveUnder[s]]
        BY <2>1 DEF Restart, LiveUnder
      <3> QED BY <3>1, <3>2, Disconnects DEF ContractStep, IInv
    <2>2. CASE UNCHANGED vars
      BY <2>2 DEF vars, ContractStep, Contract!vars, LiveUnder
    <2>3. ASSUME NEW o \in Offers, Elapse(o)
          PROVE  ContractStep
      BY <2>3 DEF Elapse, runtime, ContractStep, Contract!vars, LiveUnder
    <2>4. ASSUME NEW k \in Claims,
                 (\E o \in Offers, t \in Tokens : LookupClaim(k, o, t)) \/ ClaimRejected(k)
          PROVE  ContractStep
      BY <2>4 DEF LookupClaim, ClaimRejected, database, tables, ContractStep, Contract!vars,
                  LiveUnder
    <2> QED
      BY <2>1, <2>2, <2>3, <2>4, StepForms, OtherImplement, DeleteImplements, SocketImplements
  <1> QED BY <1>1, <1>2, OfferInvariance, PTL DEF Spec, ImplementsContract, Contract!Spec

-----------------------------------------------------------------------------
(* The event history of a Server accounts for its authority and for the
   outcome of every offer, with requests dropped at their COMMIT or not. *)

\* Each event of a history starts where the one before it ended, and the last
\* one ends in a state where the Server is claimed or not.
Chained(l) == \A i \in 1..(Len(l) - 1) : l[i].after = l[i+1].before
EndsAt(l, c) == l # <<>> => l[Len(l)].after = c

\* The terminal events of o in a history.
Told(l, o) == {i \in 1..Len(l) : l[i].offer = o /\ l[i].transition \in Terminal}

\* The only terminal event of an offer is that of its outcome, on its Server's
\* history, and no history tells anything of an offer without an outcome.
TellsOf(o) ==
    /\ \A s \in Servers : \A i, j \in Told(log[s], o) : i = j
    /\ outcome[o] \in {"unminted", "open"} => \A s \in Servers : Told(log[s], o) = {}
    /\ outcome[o] \in Terminal =>
         /\ target[o] \in Servers
         /\ \E i \in Told(log[target[o]], o) : log[target[o]][i].transition = outcome[o]

TellsInv == \A o \in Offers : TellsOf(o)

HistoryInv == HistoryExplainsAuthority /\ TellsInv

-----------------------------------------------------------------------------
(* One more event.                                                         *)

LEMMA OneMore ==
  ASSUME NEW l \in Seq(Event), NEW r \in Event
  PROVE  /\ l \o <<r>> \in Seq(Event)
         /\ Len(l \o <<r>>) = Len(l) + 1
         /\ \A i \in 1..Len(l) : (l \o <<r>>)[i] = l[i]
         /\ (l \o <<r>>)[Len(l) + 1] = r
  <1> DEFINE E == Event
  <1> HIDE DEF E
  <1>1. l \in Seq(E) /\ r \in E /\ <<r>> \in Seq(E)
    BY DEF E
  <1>2. /\ l \o <<r>> \in Seq(E)
        /\ Len(l \o <<r>>) = Len(l) + 1
        /\ \A i \in 1..Len(l) : (l \o <<r>>)[i] = l[i]
        /\ (l \o <<r>>)[Len(l) + 1] = r
    BY <1>1
  <1> QED BY <1>2 DEF E

LEMMA ChainGrows ==
  ASSUME NEW l \in Seq(Event), NEW r \in Event, Chained(l), EndsAt(l, r.before)
  PROVE  Chained(l \o <<r>>) /\ EndsAt(l \o <<r>>, r.after)
  <1> DEFINE m == l \o <<r>>
  <1>0. Len(l) \in Nat
    OBVIOUS
  <1>1. /\ Len(m) = Len(l) + 1
        /\ \A i \in 1..Len(l) : m[i] = l[i]
        /\ m[Len(l) + 1] = r
    BY OneMore
  <1> HIDE DEF m
  <1>2. ASSUME NEW i \in 1..(Len(m) - 1)
        PROVE  m[i].after = m[i+1].before
    <2>1. CASE i = Len(l)
      <3>1. l # <<>> /\ m[i] = l[Len(l)]
        BY <1>0, <1>1, <1>2, <2>1
      <3> QED BY <1>1, <2>1, <3>1 DEF EndsAt
    <2>2. CASE i # Len(l)
      <3>1. i \in 1..(Len(l) - 1) /\ i \in 1..Len(l) /\ i + 1 \in 1..Len(l)
        BY <1>0, <1>1, <1>2, <2>2
      <3> QED BY <1>1, <3>1 DEF Chained
    <2> QED BY <2>1, <2>2
  <1>3. EndsAt(m, r.after)
    BY <1>1 DEF EndsAt
  <1> QED BY <1>2, <1>3 DEF Chained, m

LEMMA QuietEvent ==
  ASSUME NEW l \in Seq(Event), NEW r \in Event, NEW o,
         r.transition \notin Terminal \/ r.offer # o
  PROVE  /\ Told(l \o <<r>>, o) = Told(l, o)
         /\ \A i \in Told(l, o) : (l \o <<r>>)[i] = l[i]
  <1> DEFINE m == l \o <<r>>
  <1>0. Len(l) \in Nat
    OBVIOUS
  <1>1. /\ Len(m) = Len(l) + 1
        /\ \A i \in 1..Len(l) : m[i] = l[i]
        /\ m[Len(l) + 1] = r
    BY OneMore
  <1> HIDE DEF m
  <1>2. \A i \in 1..Len(m) : i \in 1..Len(l) \/ i = Len(l) + 1
    BY <1>0, <1>1
  <1>3. \A i \in 1..Len(l) : i \in 1..Len(m)
    BY <1>0, <1>1
  <1>4. Told(m, o) = Told(l, o)
    BY <1>1, <1>2, <1>3 DEF Told
  <1>5. \A i \in Told(l, o) : m[i] = l[i]
    BY <1>1 DEF Told
  <1> QED BY <1>4, <1>5 DEF m

LEMMA TellingEvent ==
  ASSUME NEW l \in Seq(Event), NEW r \in Event, Told(l, r.offer) = {},
         r.transition \in Terminal
  PROVE  /\ Told(l \o <<r>>, r.offer) = {Len(l) + 1}
         /\ (l \o <<r>>)[Len(l) + 1] = r
  <1> DEFINE m == l \o <<r>>
  <1>0. Len(l) \in Nat
    OBVIOUS
  <1>1. /\ Len(m) = Len(l) + 1
        /\ \A i \in 1..Len(l) : m[i] = l[i]
        /\ m[Len(l) + 1] = r
    BY OneMore
  <1> HIDE DEF m
  <1>2. \A i \in 1..Len(m) : i \in 1..Len(l) \/ i = Len(l) + 1
    BY <1>0, <1>1
  <1>3. Len(l) + 1 \in 1..Len(m)
    BY <1>0, <1>1
  <1>4. Told(m, r.offer) = {Len(l) + 1}
    BY <1>1, <1>2, <1>3 DEF Told
  <1> QED BY <1>1, <1>4 DEF m

-----------------------------------------------------------------------------
(* What a COMMIT adds to a history.                                        *)

\* The history of s with the terminal event of j's own offer, if j settles one.
Own(s, j, after) ==
    IF j.offer = None THEN log[s]
    ELSE log[s] \o << Row(j.outcome, j.offer, Claimed(s), after) >>

LogForm(s, j) ==
    /\ \A r \in Servers \ {s} : log'[r] = log[r]
    /\ \/ /\ log'[s] = Own(s, j, Claimed(s)')
          /\ j.offer = None => Claimed(s)' = Claimed(s)
       \/ \E r \in Event :
            /\ r.transition \notin Terminal
            /\ r.before = Claimed(s) /\ r.after = Claimed(s)'
            /\ log'[s] = Own(s, j, Claimed(s)) \o <<r>>

\* The terminal event alone, or followed by that of the transition.
LEMMA RowsForm ==
  ASSUME TypeOK, NEW s \in Servers, NEW j \in Job, JobOk(s, j), Claimed(s) \in BOOLEAN
  PROVE  /\ OfferRows(s, j) \in Seq(Event)
         /\ log[s] \in Seq(Event)
         /\ log[s] \o OfferRows(s, j) = Own(s, j, Claimed(s))
         /\ \A r \in Event : log[s] \o (OfferRows(s, j) \o <<r>>) = Own(s, j, Claimed(s)) \o <<r>>
  <1> DEFINE E == Event
  <1>1. log[s] \in Seq(E)
    BY DEF TypeOK
  <1>2. OfferRows(s, j) \in Seq(E)
    <2>1. CASE j.offer = None
      BY <2>1 DEF OfferRows
    <2>2. CASE j.offer # None
      <3>1. Row(j.outcome, j.offer, Claimed(s), Claimed(s)) \in Event
        <4>1. j.outcome \in Transition /\ j.offer \in Offers
          BY <2>2 DEF JobOk, Job
        <4> QED BY <4>1, RowType
      <3> QED BY <2>2, <3>1, OneRowType DEF OfferRows
    <2> QED BY <2>1, <2>2
  <1> HIDE DEF E
  <1>3. log[s] \o OfferRows(s, j) = Own(s, j, Claimed(s))
    BY <1>1, ConcatEmptySeq DEF OfferRows, Own
  <1>4. ASSUME NEW r \in E
        PROVE  log[s] \o (OfferRows(s, j) \o <<r>>) = Own(s, j, Claimed(s)) \o <<r>>
    <2>1. \A a, b \in Seq(E) : (a \o b) \o <<r>> = a \o (b \o <<r>>)
      OBVIOUS
    <2>2. (log[s] \o OfferRows(s, j)) \o <<r>> = log[s] \o (OfferRows(s, j) \o <<r>>)
      BY <1>1, <1>2, <2>1
    <2> QED BY <1>3, <2>2
  <1> QED BY <1>1, <1>2, <1>3, <1>4 DEF E

LEMMA LogForms ==
  ASSUME TypeOK, NEW s \in Servers, NEW j \in Job, JobOk(s, j), ReadOk(s, j), Durable(s, j)
  PROVE  LogForm(s, j)
  <1> USE NoneAssumption
  <1>0. /\ log \in [Servers -> Seq(Event)]
        /\ hash \in [Servers -> Offers \cup {None}]
        /\ Claimed(s) \in BOOLEAN
    BY DEF TypeOK, Claimed
  <1>1. ASSUME Record(s, OfferRows(s, j)), UNCHANGED hash
        PROVE  LogForm(s, j)
    <2>1. /\ log'[s] = log[s] \o OfferRows(s, j)
          /\ \A r \in Servers \ {s} : log'[r] = log[r]
      BY <1>0, <1>1 DEF Record
    <2>2. Claimed(s)' = Claimed(s)
      BY <1>1 DEF Claimed
    <2> QED BY <1>0, <2>1, <2>2, RowsForm DEF LogForm
  <1>2. ASSUME NEW r \in Event, r.transition \notin Terminal,
               r.before = Claimed(s), r.after = Claimed(s)',
               Record(s, OfferRows(s, j) \o <<r>>)
        PROVE  LogForm(s, j)
    <2>1. /\ log'[s] = log[s] \o (OfferRows(s, j) \o <<r>>)
          /\ \A q \in Servers \ {s} : log'[q] = log[q]
      BY <1>0, <1>2 DEF Record
    <2> QED BY <1>0, <1>2, <2>1, RowsForm DEF LogForm
  <1>3. CASE j.op \in {"expire", "revoke_offer"} /\ WriteOutcome(s, j)
    BY <1>1, <1>3 DEF WriteOutcome
  <1>4. CASE j.op = "issue" /\ WriteIssue(s, j)
    <2>1. PICK n \in Offers : Record(s, OfferRows(s, j) \o << Row("offer_issued", n, FALSE, FALSE) >>)
      BY <1>4 DEF WriteIssue, Fresh
    <2> DEFINE r == Row("offer_issued", n, FALSE, FALSE)
    <2>2. r \in Event
      BY RowType
    <2>3. r.transition \notin Terminal /\ r.before = FALSE /\ r.after = FALSE
      BY DEF Row
    <2>4. Claimed(s) = FALSE /\ Claimed(s)' = FALSE
      BY <1>0, <1>4 DEF ReadOk, WriteIssue, Claimed
    <2> HIDE DEF r
    <2>5. Record(s, OfferRows(s, j) \o <<r>>)
      BY <2>1 DEF r
    <2> QED BY <1>2, <2>2, <2>3, <2>4, <2>5
  <1>5. CASE j.op \in {"graceful", "emergency"} /\ WriteReenrollment(s, j)
    <2>1. PICK n \in Offers :
            Record(s, OfferRows(s, j) \o
                      << Row("reenrollment_started", n, TRUE, ~(j.op = "emergency")) >>)
      BY <1>5 DEF WriteReenrollment, Fresh
    <2> DEFINE r == Row("reenrollment_started", n, TRUE, ~(j.op = "emergency"))
    <2>2. r \in Event
      BY RowType
    <2>3. r.transition \notin Terminal /\ r.before = TRUE /\ r.after = ~(j.op = "emergency")
      BY DEF Row
    <2>4. Claimed(s) = TRUE
      BY <1>0, <1>5 DEF ReadOk
    <2>5. Claimed(s)' = ~(j.op = "emergency")
      <3>1. CASE j.op = "emergency"
        BY <1>0, <1>5, <3>1 DEF WriteReenrollment, Unauthorize, Claimed
      <3>2. CASE j.op # "emergency"
        BY <1>5, <2>4, <3>2 DEF WriteReenrollment, Claimed
      <3> QED BY <3>1, <3>2
    <2> HIDE DEF r
    <2>6. Record(s, OfferRows(s, j) \o <<r>>)
      BY <2>1 DEF r
    <2> QED BY <1>2, <2>2, <2>3, <2>4, <2>5, <2>6
  <1>6. CASE j.op = "replace" /\ WriteReplace(s, j)
    BY <1>1, <1>6 DEF WriteReplace
  <1>7. CASE j.op = "consume" /\ WriteClaim(s, j)
    <2>1. j.offer \in Offers /\ j.outcome = "consumed"
      BY <1>7 DEF JobOk, ReadOk, Job
    <2>2. Claimed(s)' = TRUE
      BY <1>0, <1>7, <2>1 DEF WriteClaim, Claimed
    <2>3. /\ log'[s] = log[s] \o << Row("consumed", j.offer, Claimed(s), TRUE) >>
          /\ \A r \in Servers \ {s} : log'[r] = log[r]
      BY <1>0, <1>7 DEF WriteClaim, Record
    <2> QED BY <2>1, <2>2, <2>3 DEF LogForm, Own
  <1>8. CASE j.op = "revoke_authority" /\ WriteRevokeAuthority(s, j)
    <2>1. CASE Claimed(s)
      <3> DEFINE r == Row("authority_revoked", None, TRUE, FALSE)
      <3>1. r \in Event
        BY RowType
      <3>2. r.transition \notin Terminal /\ r.before = TRUE /\ r.after = FALSE
        BY DEF Row
      <3>3. Claimed(s) = TRUE /\ Claimed(s)' = FALSE
        BY <1>0, <1>8, <2>1 DEF WriteRevokeAuthority, Unauthorize, Claimed
      <3> HIDE DEF r
      <3>4. Record(s, OfferRows(s, j) \o <<r>>)
        BY <1>8, <2>1 DEF WriteRevokeAuthority, r
      <3> QED BY <1>2, <3>1, <3>2, <3>3, <3>4
    <2>2. CASE ~Claimed(s)
      BY <1>1, <1>8, <2>2 DEF WriteRevokeAuthority
    <2> QED BY <2>1, <2>2
  <1>9. CASE j.op = "fence_again" /\ UNCHANGED <<token, hash, outcome, target, successor, log>>
    BY <1>9 DEF ReadOk, LogForm, Own, Claimed
  <1> QED BY <1>3, <1>4, <1>5, <1>6, <1>7, <1>8, <1>9 DEF Durable

-----------------------------------------------------------------------------
(* The history accounts for the authority.                                 *)

LEMMA OwnRow ==
  ASSUME TypeOK, NEW s \in Servers, NEW j \in Job, JobOk(s, j), j.offer # None,
         NEW after \in BOOLEAN
  PROVE  /\ Row(j.outcome, j.offer, Claimed(s), after) \in Event
         /\ j.offer \in Offers /\ j.outcome \in Terminal
  <1>1. j.outcome \in Terminal /\ j.offer \in Offers
    BY DEF JobOk, Job
  <1>2. j.outcome \in Transition /\ Claimed(s) \in BOOLEAN
    BY <1>1 DEF Claimed
  <1> QED BY <1>1, <1>2, RowType

LEMMA OwnChained ==
  ASSUME TypeOK, HistoryExplainsAuthority, NEW s \in Servers, NEW j \in Job, JobOk(s, j),
         NEW after \in BOOLEAN
  PROVE  /\ Own(s, j, after) \in Seq(Event)
         /\ Chained(Own(s, j, after))
         /\ EndsAt(Own(s, j, after), IF j.offer = None THEN Claimed(s) ELSE after)
  <1>0. log[s] \in Seq(Event) /\ Chained(log[s]) /\ EndsAt(log[s], Claimed(s))
    BY DEF TypeOK, HistoryExplainsAuthority, Chained, EndsAt
  <1>1. CASE j.offer = None
    BY <1>0, <1>1 DEF Own
  <1>2. CASE j.offer # None
    <2> DEFINE r == Row(j.outcome, j.offer, Claimed(s), after)
    <2>1. r \in Event
      BY <1>2, OwnRow
    <2>2. r.before = Claimed(s) /\ r.after = after
      BY DEF Row
    <2>3. Own(s, j, after) = log[s] \o <<r>>
      BY <1>2 DEF Own
    <2> HIDE DEF r
    <2> QED BY <1>0, <1>2, <2>1, <2>2, <2>3, OneMore, ChainGrows
  <1> QED BY <1>1, <1>2

\* The history of s, and no other, goes on.
LEMMA ChainCommit ==
  ASSUME TypeOK, HistoryExplainsAuthority, NEW s \in Servers, NEW j \in Job,
         JobOk(s, j), ReadOk(s, j), Durable(s, j)
  PROVE  HistoryExplainsAuthority'
  <1>1. LogForm(s, j) /\ CommitForm(s, j)
    BY LogForms, DurableForm
  <1>2. Claimed(s) \in BOOLEAN /\ Claimed(s)' \in BOOLEAN
    BY DEF Claimed
  <1>3. Chained(log'[s]) /\ EndsAt(log'[s], Claimed(s)')
    <2>1. CASE /\ log'[s] = Own(s, j, Claimed(s)')
               /\ j.offer = None => Claimed(s)' = Claimed(s)
      BY <1>2, <2>1, OwnChained
    <2>2. CASE \E r \in Event :
                 /\ r.transition \notin Terminal
                 /\ r.before = Claimed(s) /\ r.after = Claimed(s)'
                 /\ log'[s] = Own(s, j, Claimed(s)) \o <<r>>
      <3>1. PICK r \in Event : /\ r.before = Claimed(s) /\ r.after = Claimed(s)'
                               /\ log'[s] = Own(s, j, Claimed(s)) \o <<r>>
        BY <2>2
      <3>2. /\ Own(s, j, Claimed(s)) \in Seq(Event)
            /\ Chained(Own(s, j, Claimed(s)))
            /\ EndsAt(Own(s, j, Claimed(s)), r.before)
        BY <1>2, <3>1, OwnChained
      <3> QED BY <3>1, <3>2, ChainGrows
    <2> QED BY <1>1, <2>1, <2>2 DEF LogForm
  <1>4. ASSUME NEW r \in Servers \ {s}
        PROVE  Chained(log'[r]) /\ EndsAt(log'[r], Claimed(r)')
    <2>1. log'[r] = log[r] /\ Claimed(r)' = Claimed(r)
      BY <1>1 DEF LogForm, CommitForm, Claimed
    <2>2. Chained(log[r]) /\ EndsAt(log[r], Claimed(r))
      BY DEF HistoryExplainsAuthority, Chained, EndsAt
    <2> QED BY <2>1, <2>2
  <1> QED BY <1>3, <1>4 DEF HistoryExplainsAuthority, Chained, EndsAt

LEMMA ChainOnboard ==
  ASSUME TypeOK, RowInv, HistoryExplainsAuthority, NEW s \in Servers, Onboard(s)
  PROVE  HistoryExplainsAuthority'
  <1>1. PICK n \in Offers : Record(s, << Row("initial_offer_issued", n, FALSE, FALSE) >>)
    BY DEF Onboard, Fresh
  <1> DEFINE r == Row("initial_offer_issued", n, FALSE, FALSE)
  <1>2. r \in Event
    BY RowType
  <1>3. r.before = FALSE /\ r.after = FALSE
    BY DEF Row
  <1> HIDE DEF r
  <1>4. /\ log'[s] = log[s] \o <<r>>
        /\ \A q \in Servers \ {s} : log'[q] = log[q]
    BY <1>1 DEF Record, TypeOK, r
  <1>5. UNCHANGED hash /\ Claimed(s) = FALSE /\ Claimed(s)' = FALSE
    BY DEF Onboard, RowInv, Claimed
  <1>6. \A q \in Servers : /\ Claimed(q)' = Claimed(q)
                           /\ Chained(log[q]) /\ EndsAt(log[q], Claimed(q))
    BY <1>5 DEF HistoryExplainsAuthority, Chained, EndsAt, Claimed
  <1>7. log[s] \in Seq(Event)
    BY DEF TypeOK
  <1>8. Chained(log'[s]) /\ EndsAt(log'[s], Claimed(s)')
    BY <1>2, <1>3, <1>4, <1>5, <1>6, <1>7, ChainGrows
  <1>9. \A q \in Servers : Chained(log'[q]) /\ EndsAt(log'[q], Claimed(q)')
    BY <1>4, <1>6, <1>8
  <1> QED BY <1>9 DEF HistoryExplainsAuthority, Chained, EndsAt

LEMMA ChainDelete ==
  ASSUME TypeOK, HistoryExplainsAuthority, NEW d \in Deleters, DeleteRows(d)
  PROVE  HistoryExplainsAuthority'
  <1> SUFFICES ASSUME NEW s \in Servers
               PROVE  Chained(log'[s]) /\ EndsAt(log'[s], Claimed(s)')
    BY DEF HistoryExplainsAuthority, Chained, EndsAt
  <1>0. log[s] \in Seq(Event) /\ Chained(log[s]) /\ EndsAt(log[s], Claimed(s))
    BY DEF TypeOK, HistoryExplainsAuthority, Chained, EndsAt
  <1>1. CASE s \in Doomed(d)
    <2> DEFINE r == Row("server_deleted", None, Claimed(s), FALSE)
    <2>1. r \in Event
      <3>1. Claimed(s) \in BOOLEAN
        BY DEF Claimed
      <3> QED BY <3>1, RowType
    <2>2. r.before = Claimed(s) /\ r.after = FALSE
      BY DEF Row
    <2> HIDE DEF r
    <2>3. log'[s] = log[s] \o <<r>> /\ Claimed(s)' = FALSE
      BY <1>1 DEF DeleteRows, Claimed, r
    <2> QED BY <1>0, <2>1, <2>2, <2>3, ChainGrows
  <1>2. CASE s \notin Doomed(d)
    <2>1. log'[s] = log[s] /\ Claimed(s)' = Claimed(s)
      BY <1>2 DEF DeleteRows, Claimed
    <2> QED BY <1>0, <2>1
  <1> QED BY <1>1, <1>2

-----------------------------------------------------------------------------
(* The history tells outcomes.                                             *)

\* What a COMMIT makes of each offer.
LEMMA OfferPoints ==
  ASSUME TypeOK, NEW s \in Servers, NEW j \in Job, JobOk(s, j), ReadOk(s, j), Durable(s, j),
         NEW o \in Offers
  PROVE  \/ o # j.offer /\ outcome'[o] = outcome[o] /\ target'[o] = target[o]
         \/ o # j.offer /\ outcome[o] = "unminted" /\ outcome'[o] = "open"
         \/ /\ o = j.offer /\ outcome[o] = "open" /\ target[o] = s
            /\ outcome'[o] = j.outcome /\ j.outcome \in Terminal
            /\ target'[o] = s
  <1> USE NoneAssumption
  <1>0. /\ outcome \in [Offers -> Outcome]
        /\ target \in [Offers -> Servers \cup {None}]
        /\ j.offer # None =>
             /\ j.offer \in Offers /\ j.outcome \in Terminal
             /\ outcome[j.offer] = "open" /\ target[j.offer] = s
    BY DEF TypeOK, JobOk, Job
  <1>1. Terminalized(j)[o] = IF o = j.offer THEN j.outcome ELSE outcome[o]
    BY <1>0 DEF Terminalized
  <1>2. Terminalized(j) \in [Offers -> Outcome]
    BY <1>0 DEF Terminalized
  <1>3. CASE Keeps(j)
    BY <1>0, <1>1, <1>3 DEF Keeps
  <1>4. ASSUME NEW n \in Fresh, Mints(s, j, n)
        PROVE  \/ o # j.offer /\ outcome'[o] = outcome[o] /\ target'[o] = target[o]
               \/ o # j.offer /\ outcome[o] = "unminted" /\ outcome'[o] = "open"
               \/ /\ o = j.offer /\ outcome[o] = "open" /\ target[o] = s
                  /\ outcome'[o] = j.outcome /\ j.outcome \in Terminal
                  /\ target'[o] = s
    <2>1. outcome[n] = "unminted" /\ n \in Offers
      BY <1>4 DEF Fresh
    <2>2. /\ outcome'[o] = IF o = n THEN "open" ELSE Terminalized(j)[o]
          /\ target'[o] = IF o = n THEN s ELSE target[o]
      BY <1>0, <1>2, <1>4 DEF Mints
    <2> QED BY <1>0, <1>1, <2>1, <2>2
  <1>5. CASE j.op = "fence_again" /\ UNCHANGED <<outcome, target, successor>>
    BY <1>0, <1>5 DEF ReadOk
  <1> QED BY <1>3, <1>4, <1>5, OfferForms DEF OfferForm

\* What it adds to a history about each offer.
LEMMA QuietCommit ==
  ASSUME TypeOK, NEW s \in Servers, NEW j \in Job, JobOk(s, j), LogForm(s, j),
         NEW o \in Offers, o # j.offer, NEW r \in Servers
  PROVE  /\ Told(log'[r], o) = Told(log[r], o)
         /\ \A i \in Told(log[r], o) : log'[r][i] = log[r][i]
  <1>1. CASE r # s
    BY <1>1 DEF LogForm
  <1>2. CASE r = s
    <2>0. log[s] \in Seq(Event) /\ Claimed(s) \in BOOLEAN /\ Claimed(s)' \in BOOLEAN
      BY DEF TypeOK, Claimed
    <2>1. ASSUME NEW after \in BOOLEAN
          PROVE  /\ Own(s, j, after) \in Seq(Event)
                 /\ Told(Own(s, j, after), o) = Told(log[s], o)
                 /\ \A i \in Told(log[s], o) : Own(s, j, after)[i] = log[s][i]
      <3>1. CASE j.offer = None
        BY <2>0, <3>1 DEF Own
      <3>2. CASE j.offer # None
        <4> DEFINE e == Row(j.outcome, j.offer, Claimed(s), after)
        <4>1. e \in Event
          BY <3>2, OwnRow
        <4>2. e.offer # o
          BY DEF Row
        <4>3. Own(s, j, after) = log[s] \o <<e>>
          BY <3>2 DEF Own
        <4> HIDE DEF e
        <4>4. Told(log[s] \o <<e>>, o) = Told(log[s], o)
          BY <2>0, <4>1, <4>2, QuietEvent
        <4>5. \A i \in Told(log[s], o) : (log[s] \o <<e>>)[i] = log[s][i]
          BY <2>0, <4>1, <4>2, QuietEvent
        <4>6. log[s] \o <<e>> \in Seq(Event)
          BY <2>0, <4>1, OneMore
        <4> QED BY <4>3, <4>4, <4>5, <4>6
      <3> QED BY <3>1, <3>2
    <2>2. CASE log'[s] = Own(s, j, Claimed(s)')
      BY <1>2, <2>0, <2>1, <2>2
    <2>3. ASSUME NEW e \in Event, e.transition \notin Terminal,
                 log'[s] = Own(s, j, Claimed(s)) \o <<e>>
          PROVE  /\ Told(log'[s], o) = Told(log[s], o)
                 /\ \A i \in Told(log[s], o) : log'[s][i] = log[s][i]
      <3> DEFINE m == Own(s, j, Claimed(s))
      <3>1. /\ m \in Seq(Event)
            /\ Told(m, o) = Told(log[s], o)
            /\ \A i \in Told(log[s], o) : m[i] = log[s][i]
        BY <2>0, <2>1
      <3>2. log'[s] = m \o <<e>>
        BY <2>3
      <3> HIDE DEF m
      <3>3. Told(m \o <<e>>, o) = Told(m, o) /\ \A i \in Told(m, o) : (m \o <<e>>)[i] = m[i]
        BY <2>3, <3>1, QuietEvent
      <3> QED BY <3>1, <3>2, <3>3
    <2> QED BY <1>2, <2>2, <2>3 DEF LogForm
  <1> QED BY <1>1, <1>2

LEMMA TellingCommit ==
  ASSUME TypeOK, NEW s \in Servers, NEW j \in Job, JobOk(s, j), LogForm(s, j),
         j.offer # None, Told(log[s], j.offer) = {}
  PROVE  \E k : /\ Told(log'[s], j.offer) = {k}
                /\ log'[s][k].transition = j.outcome
  <1>0. log[s] \in Seq(Event) /\ Claimed(s) \in BOOLEAN /\ Claimed(s)' \in BOOLEAN
    BY DEF TypeOK, Claimed
  <1> DEFINE k == Len(log[s]) + 1
  <1>1. ASSUME NEW after \in BOOLEAN
        PROVE  /\ Own(s, j, after) \in Seq(Event)
               /\ Told(Own(s, j, after), j.offer) = {k}
               /\ Own(s, j, after)[k].transition = j.outcome
    <2> DEFINE e == Row(j.outcome, j.offer, Claimed(s), after)
    <2>1. e \in Event /\ j.outcome \in Terminal
      BY OwnRow
    <2>2. e.offer = j.offer /\ e.transition = j.outcome
      BY DEF Row
    <2>3. Own(s, j, after) = log[s] \o <<e>>
      BY DEF Own
    <2> HIDE DEF e
    <2>4. Told(log[s], e.offer) = {} /\ e.transition \in Terminal
      BY <2>1, <2>2
    <2>5. Told(log[s] \o <<e>>, j.offer) = {k} /\ (log[s] \o <<e>>)[k] = e
      <3>1. /\ Told(log[s] \o <<e>>, e.offer) = {Len(log[s]) + 1}
            /\ (log[s] \o <<e>>)[Len(log[s]) + 1] = e
        BY <1>0, <2>1, <2>4, TellingEvent
      <3> QED BY <2>2, <3>1
    <2>6. log[s] \o <<e>> \in Seq(Event)
      BY <1>0, <2>1, OneMore
    <2> QED BY <2>2, <2>3, <2>5, <2>6
  <1> HIDE DEF k
  <1>2. CASE log'[s] = Own(s, j, Claimed(s)')
    BY <1>0, <1>1, <1>2
  <1>3. ASSUME NEW e \in Event, e.transition \notin Terminal,
               log'[s] = Own(s, j, Claimed(s)) \o <<e>>
        PROVE  Told(log'[s], j.offer) = {k} /\ log'[s][k].transition = j.outcome
    <2> DEFINE m == Own(s, j, Claimed(s))
    <2>1. /\ m \in Seq(Event)
          /\ Told(m, j.offer) = {k}
          /\ m[k].transition = j.outcome
      BY <1>0, <1>1
    <2>2. log'[s] = m \o <<e>>
      BY <1>3
    <2> HIDE DEF m
    <2>3. /\ Told(m \o <<e>>, j.offer) = Told(m, j.offer)
          /\ \A i \in Told(m, j.offer) : (m \o <<e>>)[i] = m[i]
      BY <1>3, <2>1, QuietEvent
    <2> QED BY <2>1, <2>2, <2>3
  <1> QED BY <1>2, <1>3 DEF LogForm

\* An offer that keeps its outcome and target, is minted or deleted, and of which
\* no history tells anything new.
LEMMA TellsNothingNew ==
  ASSUME NEW o \in Offers, TellsOf(o),
         \/ outcome'[o] = outcome[o] /\ target'[o] = target[o]
         \/ outcome[o] = "unminted" /\ outcome'[o] = "open"
         \/ outcome'[o] = "deleted",
         \A r \in Servers : /\ Told(log'[r], o) = Told(log[r], o)
                            /\ \A i \in Told(log[r], o) : log'[r][i] = log[r][i]
  PROVE  TellsOf(o)'
  BY DEF TellsOf

LEMMA TellsCommit ==
  ASSUME TypeOK, NEW s \in Servers, NEW j \in Job, JobOk(s, j), ReadOk(s, j), Durable(s, j),
         NEW o \in Offers, TellsOf(o)
  PROVE  TellsOf(o)'
  <1>0. LogForm(s, j)
    BY LogForms
  <1>1. CASE o # j.offer
    <2>1. \A r \in Servers : /\ Told(log'[r], o) = Told(log[r], o)
                             /\ \A i \in Told(log[r], o) : log'[r][i] = log[r][i]
      BY <1>0, <1>1, QuietCommit
    <2>2. \/ outcome'[o] = outcome[o] /\ target'[o] = target[o]
          \/ outcome[o] = "unminted" /\ outcome'[o] = "open"
      BY <1>1, OfferPoints
    <2> QED BY <2>1, <2>2, TellsNothingNew
  <1>2. CASE o = j.offer
    <2>1. /\ outcome[o] = "open" /\ target'[o] = s
          /\ outcome'[o] = j.outcome /\ j.outcome \in Terminal
      BY <1>2, OfferPoints
    <2>2. \A r \in Servers : Told(log[r], o) = {}
      BY <2>1 DEF TellsOf
    <2>3. o # None
      BY NoneAssumption
    <2>4. PICK k : Told(log'[s], o) = {k} /\ log'[s][k].transition = j.outcome
      BY <1>0, <1>2, <2>2, <2>3, TellingCommit
    <2>5. \A r \in Servers \ {s} : Told(log'[r], o) = {}
      BY <1>0, <2>2 DEF LogForm
    <2> QED BY <2>1, <2>4, <2>5 DEF TellsOf
  <1> QED BY <1>1, <1>2

LEMMA TellsOnboard ==
  ASSUME TypeOK, NEW s \in Servers, Onboard(s), NEW o \in Offers, TellsOf(o)
  PROVE  TellsOf(o)'
  <1>1. PICK n \in Fresh : /\ outcome' = [outcome EXCEPT ![n] = "open"]
                           /\ target' = [target EXCEPT ![n] = s]
                           /\ Record(s, << Row("initial_offer_issued", n, FALSE, FALSE) >>)
    BY DEF Onboard
  <1>2. \/ outcome'[o] = outcome[o] /\ target'[o] = target[o]
        \/ outcome[o] = "unminted" /\ outcome'[o] = "open"
    BY <1>1 DEF Fresh, TypeOK
  <1> DEFINE e == Row("initial_offer_issued", n, FALSE, FALSE)
  <1>3. e \in Event
    BY RowType DEF Fresh
  <1>4. e.transition \notin Terminal
    BY DEF Row
  <1> HIDE DEF e
  <1>5. ASSUME NEW r \in Servers
        PROVE  /\ Told(log'[r], o) = Told(log[r], o)
               /\ \A i \in Told(log[r], o) : log'[r][i] = log[r][i]
    <2>1. CASE r = s
      <3>1. log'[r] = log[r] \o <<e>> /\ log[r] \in Seq(Event)
        BY <1>1, <2>1 DEF Record, TypeOK, e
      <3>2. /\ Told(log[r] \o <<e>>, o) = Told(log[r], o)
            /\ \A i \in Told(log[r], o) : (log[r] \o <<e>>)[i] = log[r][i]
        BY <1>3, <1>4, <3>1, QuietEvent
      <3> QED BY <3>1, <3>2
    <2>2. CASE r # s
      <3>1. log'[r] = log[r]
        BY <1>1, <2>2 DEF Record, TypeOK
      <3> QED BY <3>1
    <2> QED BY <2>1, <2>2
  <1> QED BY <1>2, <1>5, TellsNothingNew

LEMMA TellsDelete ==
  ASSUME TypeOK, NEW d \in Deleters, DeleteRows(d), NEW o \in Offers, TellsOf(o)
  PROVE  TellsOf(o)'
  <1>1. \/ outcome'[o] = outcome[o] /\ target'[o] = target[o]
        \/ outcome'[o] = "deleted"
    BY DEF DeleteRows
  <1>2. ASSUME NEW r \in Servers
        PROVE  /\ Told(log'[r], o) = Told(log[r], o)
               /\ \A i \in Told(log[r], o) : log'[r][i] = log[r][i]
    <2>1. CASE r \in Doomed(d)
      <3> DEFINE e == Row("server_deleted", None, Claimed(r), FALSE)
      <3>1. e \in Event
        <4>1. Claimed(r) \in BOOLEAN
          BY DEF Claimed
        <4> QED BY <4>1, RowType
      <3>2. e.transition \notin Terminal
        BY DEF Row
      <3> HIDE DEF e
      <3>3. log'[r] = log[r] \o <<e>> /\ log[r] \in Seq(Event)
        BY <2>1 DEF DeleteRows, TypeOK, e
      <3>4. /\ Told(log[r] \o <<e>>, o) = Told(log[r], o)
            /\ \A i \in Told(log[r], o) : (log[r] \o <<e>>)[i] = log[r][i]
        BY <3>1, <3>2, <3>3, QuietEvent
      <3> QED BY <3>3, <3>4
    <2>2. CASE r \notin Doomed(d)
      <3>1. log'[r] = log[r]
        BY <2>2 DEF DeleteRows
      <3> QED BY <3>1
    <2> QED BY <2>1, <2>2
  <1> QED BY <1>1, <1>2, TellsNothingNew

-----------------------------------------------------------------------------
(* The theorems.                                                           *)

LEMMA HistoryInit == Init => HistoryInv
  <1> SUFFICES ASSUME Init PROVE HistoryInv
    OBVIOUS
  <1>1. \A s \in Servers : log[s] = <<>> /\ Len(log[s]) = 0
    BY DEF Init
  <1>2. HistoryExplainsAuthority
    <2>1. \A i \in 1..(0 - 1) : FALSE
      OBVIOUS
    <2> QED BY <1>1, <2>1 DEF HistoryExplainsAuthority
  <1>3. \A o \in Offers : outcome[o] = "unminted" /\ \A s \in Servers : Told(log[s], o) = {}
    BY <1>1 DEF Init, Told
  <1>4. TellsInv
    BY <1>3 DEF TellsInv, TellsOf
  <1> QED BY <1>2, <1>4 DEF HistoryInv

LEMMA HistoryNext == IInv /\ ReadInv /\ HistoryInv /\ [Next]_vars => HistoryInv'
  <1> SUFFICES ASSUME IInv, ReadInv, HistoryInv, [Next]_vars PROVE HistoryInv'
    OBVIOUS
  <1>0. TypeOK /\ RowInv /\ HistoryExplainsAuthority /\ \A o \in Offers : TellsOf(o)
    BY DEF IInv, HistoryInv, TellsInv
  <1>1. ASSUME UNCHANGED <<hash, outcome, target, log>>
        PROVE  HistoryInv'
    <2>1. HistoryExplainsAuthority'
      BY <1>0, <1>1 DEF HistoryExplainsAuthority, Claimed
    <2>2. TellsInv'
      BY <1>0, <1>1 DEF TellsInv, TellsOf
    <2> QED BY <2>1, <2>2 DEF HistoryInv
  <1>2. ASSUME NEW s \in Servers, Onboard(s)
        PROVE  HistoryInv'
    BY <1>0, <1>2, ChainOnboard, TellsOnboard DEF HistoryInv, TellsInv
  <1>3. ASSUME NEW s \in Servers, NEW j \in Job, JobOk(s, j), ReadOk(s, j), Durable(s, j)
        PROVE  HistoryInv'
    BY <1>0, <1>3, ChainCommit, TellsCommit DEF HistoryInv, TellsInv
  <1>4. ASSUME NEW d \in Deleters, DeleteRows(d)
        PROVE  HistoryInv'
    BY <1>0, <1>4, ChainDelete, TellsDelete DEF HistoryInv, TellsInv
  <1> QED BY <1>1, <1>2, <1>3, <1>4, TableSteps DEF tables, Elapse

LEMMA HistoryInvariance == Spec => []HistoryInv
  <1>1. Init => HistoryInv
    BY HistoryInit
  <1>2. IInv /\ OfferInv /\ HistoryInv /\ [Next]_vars => HistoryInv'
    BY HistoryNext DEF OfferInv
  <1> QED BY <1>1, <1>2, OfferInvariance, PTL DEF Spec

\* The event history of a Server is a gapless account of its authority: every
\* transition is recorded with the states it led from and to (insert_event).
THEOREM HistoriesExplain == Spec => []HistoryExplainsAuthority
  <1>1. HistoryInv => HistoryExplainsAuthority
    BY DEF HistoryInv
  <1> QED BY <1>1, HistoryInvariance, PTL

\* It tells the outcome of every offer, once, and nothing of an offer without
\* one (terminalize_offer writes both in one transaction).
THEOREM HistoriesTell == Spec => []HistoryTellsOutcomes
  <1>1. IInv /\ HistoryInv => HistoryTellsOutcomes
    <2> SUFFICES ASSUME IInv, HistoryInv, NEW o \in Offers, target[o] # None
                 PROVE  LET told == {i \in 1..Len(log[target[o]]) :
                                       /\ log[target[o]][i].offer = o
                                       /\ log[target[o]][i].transition \in Terminal}
                        IN /\ \A i, j \in told : i = j
                           /\ outcome[o] = "open" => told = {}
                           /\ outcome[o] \in Terminal =>
                                \E i \in told : log[target[o]][i].transition = outcome[o]
      BY DEF HistoryTellsOutcomes
    <2>1. target[o] \in Servers /\ TellsOf(o)
      BY DEF IInv, TypeOK, HistoryInv, TellsInv
    <2> QED BY <2>1 DEF TellsOf, Told
  <1>2. Spec => [](IInv /\ HistoryInv)
    BY Invariance, HistoryInvariance, PTL
  <1> QED BY <1>1, <1>2, PTL
=============================================================================
