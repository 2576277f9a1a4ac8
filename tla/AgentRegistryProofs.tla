-------------------------- MODULE AgentRegistryProofs --------------------------
(***************************************************************************)
(* The safety of AgentRegistry, proved for every set of Servers,           *)
(* connections and requests.                                               *)
(***************************************************************************)
EXTENDS AgentRegistry, TLAPS

\* The types and the answers are inductive together.
IInv == TypeOK /\ AnswersComeFromTheirServer

-----------------------------------------------------------------------------
(* The parts that several actions share. *)

\* remove_connection leaves a well-typed registry.
LEMMA RemoveKeepsTypes ==
    ASSUME TypeOK, NEW s \in Servers, Remove(s)
    PROVE  /\ entry' \in [Servers -> Conns \cup {None}]
           /\ silent' \in SUBSET {r \in Servers : entry'[r] # None}
           /\ slots' \in SUBSET Requests
           /\ aged' \in SUBSET slots'
  BY DEF TypeOK, Remove, DropSlots

\* remove_connection_if_current removes for a Server of the registry, if at all.
LEMMA RemoveIfCurrentKeepsTypes ==
    ASSUME TypeOK, NEW c \in Conns, RemoveIfCurrent(c)
    PROVE  /\ entry' \in [Servers -> Conns \cup {None}]
           /\ silent' \in SUBSET {r \in Servers : entry'[r] # None}
           /\ slots' \in SUBSET Requests
           /\ aged' \in SUBSET slots'
<1>1. CASE Current(c)
  <2>1. ServerOf(c) \in Servers /\ Remove(ServerOf(c))
    BY <1>1 DEF RemoveIfCurrent, Current
  <2>. QED BY <2>1, RemoveKeepsTypes
<1>2. CASE ~Current(c)
  BY <1>2 DEF TypeOK, RemoveIfCurrent
<1>. QED BY <1>1, <1>2

LEMMA InitIInv == Init => IInv
  BY DEF Init, IInv, TypeOK, AnswersComeFromTheirServer, Task, Request, Checker

-----------------------------------------------------------------------------
(* Every step preserves the invariant.  The actions fall into those of the
   connections, those of the requests and those of the checker. *)

LEMMA ConnKeepsIInv ==
    ASSUME IInv, NEW c \in Conns, ConnNext(c)
    PROVE  IInv'
<1>. USE DEF IInv
<1>1. ASSUME NEW s \in Servers, Admit(c, s) PROVE IInv'
  BY <1>1, NoneAssumption
     DEF Admit, TypeOK, Task, AnswersComeFromTheirServer
<1>2. CASE Welcome(c)
  BY <1>2 DEF Welcome, Advance, TypeOK, Task, AnswersComeFromTheirServer
<1>3. CASE Touch(c)
  BY <1>3 DEF Touch, TypeOK, AnswersComeFromTheirServer
<1>4. ASSUME NEW q \in Requests, Reply(c, q) PROVE IInv'
  <2>1. ServerOf(c) \in Servers
    BY <1>4 DEF Reply, Current
  <2>2. req' \in [Requests -> Request]
    <3>1. /\ [req[q] EXCEPT !.phase = "answered", !.by = ServerOf(c)] \in Request
          /\ [req[q] EXCEPT !.phase = "replied", !.by = ServerOf(c)] \in Request
      BY <2>1 DEF TypeOK, Request
    <3>. QED BY <1>4, <3>1 DEF Reply, TypeOK
  <2>3. TypeOK'
    BY <1>4, <2>2 DEF Reply, TypeOK
  <2>4. AnswersComeFromTheirServer'
    BY <1>4, <2>2 DEF Reply, Addressed, TypeOK, Request, AnswersComeFromTheirServer
  <2>. QED BY <2>3, <2>4
<1>5. CASE StopReading(c)
  BY <1>5 DEF StopReading, Advance, TypeOK, Task, AnswersComeFromTheirServer
<1>6. CASE WriterEnds(c)
  BY <1>6 DEF WriterEnds, TypeOK, AnswersComeFromTheirServer
<1>7. CASE Cleanup(c)
  <2>1. /\ entry' \in [Servers -> Conns \cup {None}]
        /\ silent' \in SUBSET {s \in Servers : entry'[s] # None}
        /\ slots' \in SUBSET Requests
        /\ aged' \in SUBSET slots'
    BY <1>7, RemoveIfCurrentKeepsTypes DEF Cleanup
  <2>. QED BY <1>7, <2>1 DEF Cleanup, Advance, TypeOK, Task, AnswersComeFromTheirServer
<1>. QED
  BY <1>1, <1>2, <1>3, <1>4, <1>5, <1>6, <1>7 DEF ConnNext

LEMMA RequestKeepsIInv ==
    ASSUME IInv, NEW q \in Requests, RequestNext(q)
    PROVE  IInv'
<1>. USE DEF IInv
<1>1. ASSUME NEW s \in Servers, Resolve(q, s) PROVE IInv'
  <2>. DEFINE r == [req[q] EXCEPT !.phase = "resolved", !.server = s, !.via = entry[s]]
  <2>1. r \in Request /\ r.phase = "resolved"
    BY <1>1 DEF TypeOK, Request
  <2>2. req' = [req EXCEPT ![q] = r]
    BY <1>1 DEF Resolve, TypeOK
  <2>. HIDE DEF r
  <2>3. TypeOK'
    <3>1. req' \in [Requests -> Request]
      BY <2>1, <2>2 DEF TypeOK
    <3>2. UNCHANGED <<entry, task, deaf, silent, slots, aged, checker>>
      BY <1>1 DEF Resolve
    <3>. QED BY <3>1, <3>2 DEF TypeOK
  <2>4. AnswersComeFromTheirServer'
    BY <2>1, <2>2 DEF TypeOK, AnswersComeFromTheirServer
  <2>. QED BY <2>3, <2>4
<1>2. CASE Register(q)
  BY <1>2 DEF Register, TypeOK, Request, AnswersComeFromTheirServer
<1>3. CASE Send(q)
  <2>1. CASE Listening(req[q].via)
    <3>1. PICK slow \in BOOLEAN :
            req' = [req EXCEPT ![q].phase = "waiting", ![q].slow = slow]
      BY <1>3, <2>1 DEF Send
    <3>. DEFINE r == [req[q] EXCEPT !.phase = "waiting", !.slow = slow]
    <3>2. r \in Request /\ r.phase = "waiting"
      BY DEF TypeOK, Request
    <3>3. req' = [req EXCEPT ![q] = r]
      BY <3>1 DEF TypeOK
    <3>. HIDE DEF r
    <3>4. TypeOK'
      BY <1>3, <2>1, <3>2, <3>3 DEF Send, TypeOK
    <3>5. AnswersComeFromTheirServer'
      BY <3>2, <3>3 DEF TypeOK, AnswersComeFromTheirServer
    <3>. QED BY <3>4, <3>5
  <2>2. CASE ~Listening(req[q].via)
    BY <1>3, <2>2 DEF Send, TypeOK, Request, AnswersComeFromTheirServer
  <2>. QED BY <2>1, <2>2
<1>4. CASE Disconnected(q)
  BY <1>4 DEF Disconnected, TypeOK, Request, AnswersComeFromTheirServer
<1>5. CASE Timeout(q)
  BY <1>5 DEF Timeout, TypeOK, Request, AnswersComeFromTheirServer
<1>6. CASE HangUp(q)
  BY <1>6 DEF HangUp, TypeOK, Request, AnswersComeFromTheirServer
<1>7. CASE Age(q)
  BY <1>7 DEF Age, TypeOK, AnswersComeFromTheirServer
<1>8. CASE Resume(q)
  BY <1>8 DEF Resume, TypeOK, Request, AnswersComeFromTheirServer
<1>. QED
  BY <1>1, <1>2, <1>3, <1>4, <1>5, <1>6, <1>7, <1>8 DEF RequestNext

LEMMA RestKeepsIInv ==
    ASSUME IInv,
           \/ \E c \in Conns : Evict(c)
           \/ \E s \in Servers : Fence(s) \/ GoSilent(s)
           \/ Snapshot
           \/ Sweep
    PROVE  IInv'
<1>. USE DEF IInv
<1>1. ASSUME NEW c \in Conns, Evict(c) PROVE IInv'
  <2>1. /\ entry' \in [Servers -> Conns \cup {None}]
        /\ silent' \in SUBSET {s \in Servers : entry'[s] # None}
        /\ slots' \in SUBSET Requests
        /\ aged' \in SUBSET slots'
    BY <1>1, RemoveIfCurrentKeepsTypes DEF Evict
  <2>. QED BY <1>1, <2>1 DEF Evict, TypeOK, Checker, AnswersComeFromTheirServer
<1>2. ASSUME NEW s \in Servers, Fence(s) PROVE IInv'
  <2>1. /\ entry' \in [Servers -> Conns \cup {None}]
        /\ silent' \in SUBSET {r \in Servers : entry'[r] # None}
        /\ slots' \in SUBSET Requests
        /\ aged' \in SUBSET slots'
    BY <1>2, RemoveKeepsTypes DEF Fence
  <2>. QED BY <1>2, <2>1 DEF Fence, TypeOK, AnswersComeFromTheirServer
<1>3. ASSUME NEW s \in Servers, GoSilent(s) PROVE IInv'
  BY <1>3 DEF GoSilent, TypeOK, AnswersComeFromTheirServer
<1>4. CASE Snapshot
  BY <1>4 DEF Snapshot, TypeOK, Checker, AnswersComeFromTheirServer
<1>5. CASE Sweep
  BY <1>5 DEF Sweep, TypeOK, Checker, AnswersComeFromTheirServer
<1>. QED BY <1>1, <1>2, <1>3, <1>4, <1>5

\* The inductive invariant holds in every reachable state.
THEOREM Invariance == Spec => []IInv
<1>1. IInv /\ [Next]_vars => IInv'
  <2>. SUFFICES ASSUME IInv, [Next]_vars PROVE IInv'
    OBVIOUS
  <2>1. CASE Next
    BY <2>1, ConnKeepsIInv, RequestKeepsIInv, RestKeepsIInv DEF Next
  <2>2. CASE UNCHANGED vars
    BY <2>2 DEF vars, IInv, TypeOK, AnswersComeFromTheirServer
  <2>. QED BY <2>1, <2>2
<1>. QED BY InitIInv, <1>1, PTL DEF Spec

\* Every variable of the registry keeps its type: in particular an entry only
\* ever names a connection, and only Servers on the map count as silent.
THEOREM TypesHold == Spec => []TypeOK
<1>1. IInv => TypeOK
  BY DEF IInv
<1>. QED BY Invariance, <1>1, PTL

\* No answer crosses Servers: whoever names a correlation id, on whichever
\* connection, a caller hears only from the Server it asked.
THEOREM AnswersAreAuthentic == Spec => []AnswersComeFromTheirServer
<1>1. IInv => AnswersComeFromTheirServer
  BY DEF IInv
<1>. QED BY Invariance, <1>1, PTL

-----------------------------------------------------------------------------
(* The action properties follow from the types alone, step by step. *)

\* remove_connection_if_current takes nothing but the connection it names.
LEMMA RemovesOnlyItsOwn ==
    ASSUME TypeOK, NEW c \in Conns, NEW d \in Conns,
           Current(c), entry'[ServerOf(c)] = None, RemoveIfCurrent(d)
    PROVE  c = d
<1>1. ServerOf(c) \in Servers /\ entry[ServerOf(c)] = c /\ c # None
  BY NoneAssumption DEF Current
<1>2. entry' # entry
  BY <1>1
<1>3. Current(d) /\ Remove(ServerOf(d))
  BY <1>2 DEF RemoveIfCurrent
<1>4. ServerOf(d) = ServerOf(c)
  BY <1>1, <1>3 DEF Remove, TypeOK
<1>. QED BY <1>1, <1>3, <1>4 DEF Current

\* A connection leaves the map through its own cleanup, as a candidate of the
\* checker, or by a fence: the end of another one never takes it.
THEOREM SuccessorsAreSafe == Spec => SuccessorsSurvive
<1>1. ASSUME IInv, [Next]_vars, NEW c \in Conns,
             Current(c), entry'[ServerOf(c)] = None
      PROVE  task[c].pc = "closing" \/ c \in checker.todo \/ Fence(ServerOf(c))
  <2>1. ServerOf(c) \in Servers /\ entry[ServerOf(c)] = c /\ c # None /\ TypeOK
    BY <1>1, NoneAssumption DEF Current, IInv
  <2>2. entry' # entry
    BY <1>1, <2>1
  <2>3. ASSUME NEW d \in Conns, NEW s \in Servers, Admit(d, s) PROVE FALSE
    BY <1>1, <2>1, <2>3, NoneAssumption DEF Admit, TypeOK
  <2>4. ASSUME NEW d \in Conns, Cleanup(d) PROVE task[c].pc = "closing"
    BY <1>1, <2>1, <2>4, RemovesOnlyItsOwn DEF Cleanup
  <2>5. ASSUME NEW d \in Conns, Evict(d) PROVE c \in checker.todo
    BY <1>1, <2>1, <2>5, RemovesOnlyItsOwn DEF Evict
  <2>6. ASSUME NEW s \in Servers, Fence(s) PROVE Fence(ServerOf(c))
    <3>1. s = ServerOf(c)
      BY <1>1, <2>1, <2>6 DEF Fence, Remove, TypeOK
    <3>. QED BY <2>6, <3>1
  <2>7. ASSUME \/ \E d \in Conns : \/ Welcome(d) \/ Touch(d) \/ StopReading(d)
                                    \/ WriterEnds(d)
                                    \/ \E q \in Requests : Reply(d, q)
               \/ \E q \in Requests : RequestNext(q)
               \/ \E s \in Servers : GoSilent(s)
               \/ Snapshot \/ Sweep \/ UNCHANGED vars
        PROVE  FALSE
    <3>1. entry' = entry
      BY <2>7 DEF Welcome, Touch, StopReading, WriterEnds, Reply, RequestNext, Resolve,
                  Register, Send, Resume, Disconnected, Timeout, HangUp, Age, GoSilent,
                  Snapshot, Sweep, vars
    <3>. QED BY <2>2, <3>1
  <2>. QED
    BY <1>1, <2>3, <2>4, <2>5, <2>6, <2>7 DEF Next, ConnNext
<1>2. IInv /\ [Next]_vars =>
        [\A c \in Conns :
            Current(c) /\ entry'[ServerOf(c)] = None =>
                \/ task[c].pc = "closing"
                \/ c \in checker.todo
                \/ Fence(ServerOf(c))]_vars
  BY <1>1
<1>. QED BY Invariance, <1>2, PTL DEF Spec, SuccessorsSurvive

-----------------------------------------------------------------------------
(* Who has a slot. *)

\* A slot belongs to a request in progress or to one whose caller hung up, the
\* TTL of a waiting request only passes when its send was slow, and no send was
\* slow before it was done.
SlotInv ==
    /\ \A q \in slots : req[q].phase \in {"sending", "waiting", "hung_up"}
    /\ \A q \in aged : req[q].phase = "waiting" => req[q].slow
    /\ \A q \in Requests :
         req[q].phase \in {"idle", "resolved", "sending"} => ~req[q].slow

\* remove_connection fails the requests of its Server and no others.
Removes(s) ==
    /\ s \in Servers /\ entry[s] # None
    /\ Remove(s)

LEMMA RemoveIfCurrentRemoves ==
    ASSUME TypeOK, NEW c \in Conns, RemoveIfCurrent(c)
    PROVE  UNCHANGED <<entry, silent, slots, aged>> \/ \E s \in Servers : Removes(s)
  BY NoneAssumption DEF RemoveIfCurrent, Removes, Current

\* Every step has one of these forms.
LEMMA StepForms ==
    ASSUME TypeOK, [Next]_vars
    PROVE  \/ \E c \in Conns, s \in Servers : Admit(c, s)
           \/ \E c \in Conns, q \in Requests : Reply(c, q)
           \/ req' = req /\ \E s \in Servers : Removes(s)
           \/ \E q \in Requests : RequestNext(q)
           \/ Sweep
           \/ UNCHANGED <<entry, slots, aged, req>>
<1>1. ASSUME NEW c \in Conns, ConnNext(c)
      PROVE  \/ \E s \in Servers : Admit(c, s)
             \/ \E q \in Requests : Reply(c, q)
             \/ req' = req /\ \E s \in Servers : Removes(s)
             \/ UNCHANGED <<entry, slots, aged, req>>
  <2>1. CASE Cleanup(c)
    BY <2>1, RemoveIfCurrentRemoves DEF Cleanup
  <2>. QED BY <1>1, <2>1 DEF ConnNext, Welcome, Touch, StopReading, WriterEnds
<1>2. ASSUME NEW c \in Conns, Evict(c)
      PROVE  \/ req' = req /\ \E s \in Servers : Removes(s)
             \/ UNCHANGED <<entry, slots, aged, req>>
  BY <1>2, RemoveIfCurrentRemoves DEF Evict
<1>3. ASSUME NEW s \in Servers, Fence(s) PROVE req' = req /\ Removes(s)
  BY <1>3 DEF Fence, Removes
<1>4. ASSUME NEW s \in Servers, GoSilent(s) PROVE UNCHANGED <<entry, slots, aged, req>>
  BY <1>4 DEF GoSilent
<1>5. CASE Snapshot \/ UNCHANGED vars
  BY <1>5 DEF Snapshot, vars
<1>. QED BY <1>1, <1>2, <1>3, <1>4, <1>5 DEF Next

\* Only the request that moves changes.
LEMMA RequestForms ==
    ASSUME TypeOK, SlotInv, NEW q \in Requests, RequestNext(q)
    PROVE  /\ \A p \in Requests \ {q} : req'[p] = req[p]
           /\ slots' \subseteq slots \cup {q} /\ slots \subseteq slots' \cup {q}
           /\ aged' \subseteq aged \cup {q}
           /\ entry' = entry
           /\ q \in slots' => req'[q].phase \in {"sending", "waiting", "hung_up"}
           /\ q \in aged' => (req'[q].phase = "waiting" => req'[q].slow)
           /\ req'[q].phase \in {"idle", "resolved", "sending"} => ~req'[q].slow
<1>. q \in aged => q \in slots
  BY DEF TypeOK
<1>1. ASSUME NEW s \in Servers, Resolve(q, s)
      PROVE  q \notin slots' /\ ~req'[q].slow
  BY <1>1 DEF Resolve, SlotInv, TypeOK, Request
<1>2. CASE Register(q)
  <2>1. q \notin aged' /\ req'[q].phase = "sending" /\ ~req'[q].slow
    BY <1>2 DEF Register, SlotInv, TypeOK, Request
  <2>. QED BY <1>2, <2>1 DEF Register, TypeOK
<1>3. CASE Send(q)
  <2>1. CASE Listening(req[q].via)
    <3>1. PICK slow \in BOOLEAN :
            /\ q \in aged => slow
            /\ req' = [req EXCEPT ![q].phase = "waiting", ![q].slow = slow]
      BY <1>3, <2>1 DEF Send
    <3>2. req'[q].phase = "waiting" /\ req'[q].slow = slow
      BY <3>1 DEF TypeOK, Request
    <3>. QED BY <1>3, <2>1, <3>1, <3>2 DEF Send, TypeOK
  <2>2. CASE ~Listening(req[q].via)
    BY <1>3, <2>2 DEF Send, TypeOK, Request
  <2>. QED BY <2>1, <2>2
<1>4. CASE Disconnected(q)
  BY <1>4 DEF Disconnected, TypeOK, Request
<1>5. CASE Timeout(q)
  BY <1>5 DEF Timeout, TypeOK, Request
<1>6. CASE HangUp(q)
  BY <1>6 DEF HangUp, TypeOK, Request
<1>7. CASE Age(q)
  BY <1>7 DEF Age, SlotInv, TypeOK, Request
<1>8. ASSUME NEW s \in Servers, Resolve(q, s)
      PROVE  /\ \A p \in Requests \ {q} : req'[p] = req[p]
             /\ UNCHANGED <<slots, aged, entry>>
  BY <1>8 DEF Resolve, TypeOK
<1>9. CASE Resume(q)
  BY <1>9 DEF Resume, SlotInv, TypeOK, Request
<1>. QED BY <1>1, <1>2, <1>3, <1>4, <1>5, <1>6, <1>7, <1>8, <1>9 DEF RequestNext

LEMMA SlotNext ==
    ASSUME TypeOK, SlotInv, [Next]_vars
    PROVE  SlotInv'
<1>1. ASSUME NEW c \in Conns, NEW s \in Servers, Admit(c, s) PROVE SlotInv'
  BY <1>1 DEF Admit, SlotInv
<1>2. ASSUME NEW c \in Conns, NEW q \in Requests, Reply(c, q) PROVE SlotInv'
  <2>1. q \in slots /\ slots' = slots \ {q} /\ aged' = aged \ {q}
    BY <1>2 DEF Reply, Addressed
  <2>2. \A p \in Requests \ {q} : req'[p] = req[p]
    BY <1>2 DEF Reply, TypeOK
  <2>3. \/ req' = req
        \/ req'[q].phase \in {"answered", "replied"}
    BY <1>2 DEF Reply, TypeOK, Request
  <2>. QED BY <2>1, <2>2, <2>3 DEF SlotInv, TypeOK
<1>3. ASSUME req' = req, NEW s \in Servers, Removes(s) PROVE SlotInv'
  BY <1>3 DEF Removes, Remove, DropSlots, SlotInv
<1>4. ASSUME NEW q \in Requests, RequestNext(q) PROVE SlotInv'
  <2>1. /\ \A p \in Requests \ {q} : req'[p] = req[p]
        /\ slots' \subseteq slots \cup {q}
        /\ aged' \subseteq aged \cup {q}
        /\ q \in slots' => req'[q].phase \in {"sending", "waiting", "hung_up"}
        /\ q \in aged' => (req'[q].phase = "waiting" => req'[q].slow)
        /\ req'[q].phase \in {"idle", "resolved", "sending"} => ~req'[q].slow
    BY <1>4, RequestForms
  <2>2. slots \subseteq Requests /\ aged \subseteq Requests
    BY DEF TypeOK
  <2>. QED BY <2>1, <2>2 DEF SlotInv
<1>5. CASE Sweep
  BY <1>5 DEF Sweep, SlotInv
<1>6. CASE UNCHANGED <<entry, slots, aged, req>>
  BY <1>6 DEF SlotInv
<1>. QED BY <1>1, <1>2, <1>3, <1>4, <1>5, <1>6, StepForms

-----------------------------------------------------------------------------
(* The contract of the relay. *)

RelayStep == Relay!Next \/ UNCHANGED Relay!vars

\* A request that moves to another phase moves so in the contract.
LEMMA Becomes ==
    ASSUME TypeOK, NEW q \in Requests, NEW to,
           req'[q].phase = to, req'[q].server = req[q].server,
           req' \in [Requests -> Request],
           \A p \in Requests \ {q} : req'[p] = req[p]
    PROVE  Relay!Become(q, to) /\ Asked' = Asked
<1>1. Phase' = [Phase EXCEPT ![q] = to]
  BY DEF Phase
<1>2. Asked' = Asked
  BY DEF Asked
<1>. QED BY <1>1, <1>2 DEF Relay!Become

LEMMA ConnectionImplements ==
    ASSUME TypeOK, NEW s \in Servers, req' = req, slots' = slots,
           NEW c \in Conns, entry' = [entry EXCEPT ![s] = c]
    PROVE  RelayStep
<1>1. Online' = Online \cup {s}
  BY NoneAssumption DEF Online, TypeOK
<1>2. UNCHANGED <<Phase, Asked, Slow, Doomed>>
  BY DEF Phase, Asked, Slow, Doomed
<1>3. Relay!Connect(s)
  BY <1>1, <1>2 DEF Relay!Connect
<1>. QED BY <1>3 DEF RelayStep, Relay!Next

LEMMA RemovalImplements ==
    ASSUME TypeOK, NEW s \in Servers, req' = req, Removes(s)
    PROVE  RelayStep
<1>1. s \in Online /\ Online' = Online \ {s}
  BY DEF Removes, Remove, Online, TypeOK
<1>2. UNCHANGED <<Phase, Asked, Slow>>
  BY DEF Phase, Asked, Slow
<1>3. Doomed' = Doomed \cup {q \in Requests : Relay!Registered(q) /\ Asked[q] = s}
  BY DEF Removes, Remove, DropSlots, Doomed, Relay!Registered, Phase, Asked
<1>4. Relay!Lose(s)
  BY <1>1, <1>2, <1>3 DEF Relay!Lose
<1>. QED BY <1>4 DEF RelayStep, Relay!Next

LEMMA ReplyImplements ==
    ASSUME TypeOK, TypeOK', SlotInv, NEW c \in Conns, NEW q \in Requests, Reply(c, q)
    PROVE  RelayStep
<1>0. /\ \A p \in Requests \ {q} : req'[p] = req[p]
      /\ slots' = slots \ {q} /\ entry' = entry /\ q \in slots
      /\ req'[q].server = req[q].server /\ req'[q].slow = req[q].slow
  BY DEF Reply, Addressed, TypeOK, Request
<1>1. Online' = Online /\ Slow' = Slow
  BY <1>0 DEF Online, Slow
<1>2. CASE req[q].phase = "waiting"
  <2>1. req'[q].phase = "answered"
    BY <1>2 DEF Reply, TypeOK, Request
  <2>2. Relay!Become(q, "answered") /\ Asked' = Asked
    BY <1>0, <2>1, Becomes DEF TypeOK
  <2>3. Doomed' = Doomed /\ q \notin Doomed
    BY <1>0, <1>2, <2>1 DEF Doomed
  <2>4. Phase[q] = "waiting" /\ Asked[q] \in Online
    <3>1. ServerOf(c) \in Servers /\ entry[ServerOf(c)] # None
      BY NoneAssumption DEF Reply, Current
    <3>2. req[q].server = ServerOf(c)
      BY DEF Reply, Addressed
    <3>. QED BY <1>2, <3>1, <3>2 DEF Phase, Asked, Online
  <2>5. Relay!Answer(q)
    BY <1>1, <2>2, <2>3, <2>4 DEF Relay!Answer
  <2>. QED BY <2>5 DEF RelayStep, Relay!Next
<1>3. CASE req[q].phase = "sending"
  <2>1. req'[q].phase = "replied"
    BY <1>3 DEF Reply, TypeOK, Request
  <2>2. Relay!Become(q, "replied") /\ Asked' = Asked
    BY <1>0, <2>1, Becomes DEF TypeOK
  <2>3. Doomed' = Doomed /\ q \notin Doomed
    BY <1>0, <1>3, <2>1 DEF Doomed
  <2>4. Phase[q] = "sending" /\ Asked[q] \in Online
    <3>1. ServerOf(c) \in Servers /\ entry[ServerOf(c)] # None
      BY NoneAssumption DEF Reply, Current
    <3>2. req[q].server = ServerOf(c)
      BY DEF Reply, Addressed
    <3>. QED BY <1>3, <3>1, <3>2 DEF Phase, Asked, Online
  <2>5. Relay!Answer(q)
    BY <1>1, <2>2, <2>3, <2>4 DEF Relay!Answer
  <2>. QED BY <2>5 DEF RelayStep, Relay!Next
<1>4. CASE req[q].phase \notin {"waiting", "sending"}
  <2>1. req' = req /\ req[q].phase = "hung_up"
    BY <1>4 DEF Reply
  <2>2. UNCHANGED <<Phase, Asked, Doomed>>
    BY <1>0, <2>1 DEF Phase, Asked, Doomed
  <2>. QED BY <1>1, <2>2 DEF RelayStep, Relay!vars
<1>. QED BY <1>2, <1>3, <1>4

LEMMA RequestImplements ==
    ASSUME TypeOK, TypeOK', SlotInv, NEW q \in Requests, RequestNext(q)
    PROVE  RelayStep
<1>0. /\ \A p \in Requests \ {q} : req'[p] = req[p]
      /\ slots' \subseteq slots \cup {q} /\ slots \subseteq slots' \cup {q}
      /\ Online' = Online
  BY RequestForms DEF Online
<1>1. \A p \in Requests \ {q} : p \in Doomed' <=> p \in Doomed
  BY <1>0 DEF Doomed
<1>2. \A p \in Requests \ {q} : p \in Slow' <=> p \in Slow
  BY <1>0 DEF Slow
<1>3. Doomed \subseteq Requests /\ Doomed' \subseteq Requests
  BY DEF Doomed
<1>4. Slow \subseteq Requests /\ Slow' \subseteq Requests
  BY DEF Slow
<1>5. Phase[q] = req[q].phase /\ Asked[q] = req[q].server
  BY DEF Phase, Asked
<1>6. ASSUME NEW s \in Servers, Resolve(q, s) PROVE RelayStep
  <2>1. /\ req[q].phase = "idle" /\ req'[q].phase = "resolved" /\ req'[q].server = s
        /\ req'[q].slow = req[q].slow /\ s \in Online
    BY <1>6 DEF Resolve, Online, TypeOK, Request
  <2>2. Phase' = [Phase EXCEPT ![q] = "resolved"]
    BY <1>0, <2>1 DEF Phase
  <2>3. Asked' = [Asked EXCEPT ![q] = s]
    BY <1>0, <2>1 DEF Asked
  <2>4. Slow' = Slow /\ Doomed' = Doomed
    BY <1>0, <2>1 DEF Slow, Doomed
  <2>5. Relay!Resolve(q, s)
    BY <1>0, <1>5, <2>1, <2>2, <2>3, <2>4 DEF Relay!Resolve, Relay!Become
  <2>. QED BY <2>5 DEF RelayStep, Relay!Next
<1>7. CASE Register(q)
  <2>1. /\ req[q].phase = "resolved" /\ req'[q].phase = "sending" /\ q \in slots'
        /\ req'[q].server = req[q].server /\ req'[q].slow = req[q].slow
    BY <1>7 DEF Register, TypeOK, Request
  <2>2. Relay!Become(q, "sending") /\ Asked' = Asked
    BY <1>0, <2>1, Becomes DEF TypeOK
  <2>3. q \notin Doomed /\ q \notin Doomed'
    BY <2>1 DEF Doomed
  <2>4. Slow' = Slow /\ Doomed' = Doomed
    BY <1>0, <1>1, <1>3, <2>1, <2>3 DEF Slow
  <2>5. Relay!Register(q)
    BY <1>0, <1>5, <2>1, <2>2, <2>4 DEF Relay!Register
  <2>. QED BY <2>5 DEF RelayStep, Relay!Next
<1>8. CASE Send(q) /\ Listening(req[q].via)
  <2>1. PICK slow \in BOOLEAN :
          req' = [req EXCEPT ![q].phase = "waiting", ![q].slow = slow]
    BY <1>8 DEF Send
  <2>2. /\ req[q].phase = "sending" /\ req'[q].phase = "waiting" /\ slots' = slots
        /\ req'[q].server = req[q].server
    <3>1. req[q].phase = "sending" /\ slots' = slots
      BY <1>8 DEF Send
    <3>2. req'[q].phase = "waiting" /\ req'[q].server = req[q].server
      BY <2>1 DEF TypeOK, Request
    <3>. QED BY <3>1, <3>2
  <2>3. Relay!Become(q, "waiting") /\ Asked' = Asked
    BY <1>0, <2>2, Becomes DEF TypeOK
  <2>4. Doomed' = Doomed
    BY <1>0, <2>2 DEF Doomed
  <2>5. ~req[q].slow /\ req'[q].slow = slow
    BY <2>1, <2>2 DEF SlotInv, TypeOK, Request
  <2>6. Slow' = IF slow THEN Slow \cup {q} ELSE Slow
    BY <1>0, <2>5 DEF Slow
  <2>7. Relay!Sent(q)
    BY <1>0, <1>5, <2>2, <2>3, <2>4, <2>6 DEF Relay!Sent
  <2>. QED BY <2>7 DEF RelayStep, Relay!Next
<1>9. CASE Send(q) /\ ~Listening(req[q].via)
  <2>1. /\ req[q].phase = "sending" /\ req'[q].phase = "send_failed"
        /\ req'[q].server = req[q].server /\ req'[q].slow = req[q].slow
    BY <1>9 DEF Send, TypeOK, Request
  <2>2. Relay!Become(q, "send_failed") /\ Asked' = Asked
    BY <1>0, <2>1, Becomes DEF TypeOK
  <2>3. Slow' = Slow /\ Doomed' = Doomed \ {q}
    BY <1>0, <1>1, <1>3, <2>1 DEF Slow, Doomed
  <2>4. Relay!Unsent(q)
    BY <1>0, <1>5, <2>1, <2>2, <2>3 DEF Relay!Unsent
  <2>. QED BY <2>4 DEF RelayStep, Relay!Next
<1>10. CASE Disconnected(q)
  <2>1. /\ req[q].phase = "waiting" /\ req'[q].phase = "disconnected" /\ q \notin slots
        /\ req'[q].server = req[q].server /\ req'[q].slow = req[q].slow
    BY <1>10 DEF Disconnected, TypeOK, Request
  <2>2. Relay!Become(q, "disconnected") /\ Asked' = Asked
    BY <1>0, <2>1, Becomes DEF TypeOK
  <2>3. Slow' = Slow /\ Doomed' = Doomed \ {q} /\ q \in Doomed
    BY <1>0, <1>1, <1>3, <2>1 DEF Slow, Doomed
  <2>4. Relay!Disconnected(q)
    BY <1>0, <1>5, <2>1, <2>2, <2>3 DEF Relay!Disconnected
  <2>. QED BY <2>4 DEF RelayStep, Relay!Next
<1>11. CASE Timeout(q)
  <2>1. /\ req[q].phase = "waiting" /\ req'[q].phase = "timeout" /\ q \in slots
        /\ req'[q].server = req[q].server /\ req'[q].slow = req[q].slow
    BY <1>11 DEF Timeout, TypeOK, Request
  <2>2. Relay!Become(q, "timeout") /\ Asked' = Asked
    BY <1>0, <2>1, Becomes DEF TypeOK
  <2>3. Slow' = Slow /\ Doomed' = Doomed /\ q \notin Doomed
    BY <1>0, <1>1, <1>3, <2>1 DEF Slow, Doomed
  <2>4. Relay!Timeout(q)
    BY <1>0, <1>5, <2>1, <2>2, <2>3 DEF Relay!Timeout
  <2>. QED BY <2>4 DEF RelayStep, Relay!Next
<1>12. CASE HangUp(q)
  <2>1. /\ req[q].phase \in {"resolved", "sending", "replied", "waiting"}
        /\ req'[q].phase = "hung_up"
        /\ req'[q].server = req[q].server /\ req'[q].slow = req[q].slow
    BY <1>12 DEF HangUp, TypeOK, Request
  <2>2. Relay!Become(q, "hung_up") /\ Asked' = Asked
    BY <1>0, <2>1, Becomes DEF TypeOK
  <2>3. Slow' = Slow /\ Doomed' = Doomed \ {q}
    BY <1>0, <1>1, <1>3, <2>1 DEF Slow, Doomed
  <2>4. Relay!HangUp(q)
    BY <1>0, <1>5, <2>1, <2>2, <2>3 DEF Relay!HangUp
  <2>. QED BY <2>4 DEF RelayStep, Relay!Next
<1>13. CASE Age(q)
  <2>1. req' = req /\ slots' = slots
    BY <1>13 DEF Age
  <2>2. UNCHANGED <<Phase, Asked, Slow, Doomed>>
    BY <2>1 DEF Phase, Asked, Slow, Doomed
  <2>. QED BY <1>0, <2>2 DEF RelayStep, Relay!vars
<1>14. CASE Resume(q)
  <2>1. /\ req[q].phase = "replied" /\ req'[q].phase \in {"answered", "send_failed"}
        /\ req'[q].server = req[q].server /\ req'[q].slow = req[q].slow
    BY <1>14 DEF Resume, TypeOK, Request
  <2>2. Relay!Become(q, req'[q].phase) /\ Asked' = Asked
    BY <1>0, <2>1, Becomes DEF TypeOK
  <2>3. q \notin Doomed /\ q \notin Doomed'
    BY <2>1 DEF Doomed
  <2>4. Slow' = Slow /\ Doomed' = Doomed /\ Doomed' = Doomed \ {q}
    BY <1>0, <1>1, <1>3, <2>1, <2>3 DEF Slow
  <2>5. Relay!Collect(q) \/ Relay!Unsent(q)
    BY <1>0, <1>5, <2>1, <2>2, <2>4 DEF Relay!Collect, Relay!Unsent
  <2>. QED BY <2>5 DEF RelayStep, Relay!Next
<1>. QED
  BY <1>6, <1>7, <1>8, <1>9, <1>10, <1>11, <1>12, <1>13, <1>14 DEF RequestNext

\* The end of a pass of the checker fails the requests whose TTL has passed.
LEMMA SweepImplements ==
    ASSUME TypeOK, SlotInv, Sweep
    PROVE  RelayStep
<1>. DEFINE late == {q \in aged : req[q].phase \in {"sending", "waiting"}}
<1>1. late \in SUBSET Requests
  BY DEF TypeOK
<1>2. \A q \in late : Phase[q] = "sending" \/ (Phase[q] = "waiting" /\ q \in Slow)
  BY <1>1 DEF Phase, Slow, SlotInv
<1>3. Doomed' = Doomed \cup late
  BY DEF Sweep, Doomed, TypeOK
<1>4. UNCHANGED <<Online, Phase, Asked, Slow>>
  BY DEF Sweep, Online, Phase, Asked, Slow
<1>. HIDE DEF late
<1>5. Relay!Expire(late)
  BY <1>2, <1>3, <1>4 DEF Relay!Expire
<1>. QED BY <1>1, <1>5 DEF RelayStep, Relay!Next

LEMMA StepImplements ==
    ASSUME TypeOK, TypeOK', SlotInv, [Next]_vars
    PROVE  RelayStep
<1>1. ASSUME NEW c \in Conns, NEW s \in Servers, Admit(c, s) PROVE RelayStep
  <2>1. req' = req /\ slots' = slots /\ entry' = [entry EXCEPT ![s] = c]
    BY <1>1 DEF Admit
  <2>. QED BY <2>1, ConnectionImplements
<1>2. ASSUME NEW c \in Conns, NEW q \in Requests, Reply(c, q) PROVE RelayStep
  BY <1>2, ReplyImplements
<1>3. ASSUME req' = req, NEW s \in Servers, Removes(s) PROVE RelayStep
  BY <1>3, RemovalImplements
<1>4. ASSUME NEW q \in Requests, RequestNext(q) PROVE RelayStep
  BY <1>4, RequestImplements
<1>5. CASE Sweep
  BY <1>5, SweepImplements
<1>6. CASE UNCHANGED <<entry, slots, aged, req>>
  <2>1. UNCHANGED <<Online, Phase, Asked, Slow, Doomed>>
    BY <1>6 DEF Online, Phase, Asked, Slow, Doomed
  <2>. QED BY <2>1 DEF RelayStep, Relay!vars
<1>. QED BY <1>1, <1>2, <1>3, <1>4, <1>5, <1>6, StepForms

LEMMA InitImplements == Init => SlotInv /\ Relay!Init
<1>. SUFFICES ASSUME Init PROVE SlotInv /\ Relay!Init
  OBVIOUS
<1>1. SlotInv
  BY DEF Init, SlotInv
<1>2. Online = {} /\ Slow = {} /\ Doomed = {}
  BY DEF Init, Online, Slow, Doomed
<1>3. /\ Phase = [q \in Requests |-> "idle"]
      /\ Asked = [q \in Requests |-> None]
  BY DEF Init, Phase, Asked
<1>. QED BY <1>1, <1>2, <1>3 DEF Relay!Init

\* The registry, its WebSocket tasks, its slots and the checker that sweeps them
\* keep the promise of request_with_id: a request is settled once, answered only
\* by its Server while that has been on the map throughout, and given up early
\* only when that Server was lost or the send took longer than the TTL allows.
THEOREM RelayRefinement == Spec => ImplementsRelay
<1>1. Init => SlotInv /\ Relay!Init
  BY InitImplements
<1>2. TypeOK /\ SlotInv /\ [Next]_vars => SlotInv'
  BY SlotNext
<1>3. TypeOK /\ TypeOK' /\ SlotInv /\ [Next]_vars => [Relay!Next]_(Relay!vars)
  <2>. SUFFICES ASSUME TypeOK, TypeOK', SlotInv, [Next]_vars
                PROVE  [Relay!Next]_(Relay!vars)
    OBVIOUS
  <2>. QED BY StepImplements DEF RelayStep
<1>. QED BY TypesHold, <1>1, <1>2, <1>3, PTL DEF Spec, ImplementsRelay, Relay!Spec
==============================================================================
