---------------------------- MODULE AgentRegistry ----------------------------
(***************************************************************************)
(* AgentManager (service/agent_manager.rs): the live connection of every   *)
(* Server, the request/reply relay over it, the WebSocket tasks that feed  *)
(* it (router/ws/agent/mod.rs) and the offline checker that walks it       *)
(* (task/offline_checker.rs).                                              *)
(*                                                                         *)
(* Connections come and go under the Server's lifecycle lock, one step     *)
(* each here.  HTTP requests hold no lock: they resolve a sender, register *)
(* a response slot, send and wait, with everything else in between.  The   *)
(* checker reads its candidates without the lock and evicts them under it. *)
(* Who may connect is the business of AgentAuthority.                      *)
(***************************************************************************)
EXTENDS Naturals, FiniteSets

CONSTANTS
    Servers,
    Conns,      \* connection ids, each drawn once from next_connection_id
    Requests,   \* correlation ids, each a fresh uuid
    None

ASSUME NoneAssumption == None \notin Servers /\ None \notin Conns

VARIABLES
    entry,      \* AgentManager.connections: the current connection id
    task,       \* the task of each WebSocket, with the Server it was admitted for
    deaf,       \* open connections whose write task has ended, and their channel with it
    silent,     \* Servers whose entry has a last_report_at over the threshold
    slots,      \* AgentManager.pending_requests
    aged,       \* slots that have outlived their TTL
    req,        \* the callers of request_with_id
    checker     \* the offline checker and the candidates it has left

vars == <<entry, task, deaf, silent, slots, aged, req, checker>>

Task == [pc : {"unborn", "welcoming", "reading", "closing", "closed"},
         server : Servers \cup {None}]

\* "via" is the connection whose sender the caller resolved, "slow" says that
\* the send took longer than the slack of the TTL over the deadline, and "by"
\* remembers whose agent the answer came from.  "replied" is a caller still in its
\* send, with an answer in its oneshot channel.
Request == [phase : {"idle", "resolved", "sending", "replied", "waiting", "hung_up",
                     "answered", "send_failed", "disconnected", "timeout"},
            server : Servers \cup {None}, via : Conns \cup {None},
            slow : BOOLEAN, by : Servers \cup {None}]

Checker == [phase : {"idle", "evicting"}, todo : SUBSET Conns]

TypeOK ==
    /\ entry \in [Servers -> Conns \cup {None}]
    /\ task \in [Conns -> Task]
    /\ deaf \in SUBSET Conns
    /\ silent \in SUBSET {s \in Servers : entry[s] # None}
    /\ slots \in SUBSET Requests
    /\ aged \in SUBSET slots
    /\ req \in [Requests -> Request]
    /\ checker \in Checker

Init ==
    /\ entry = [s \in Servers |-> None]
    /\ task = [c \in Conns |-> [pc |-> "unborn", server |-> None]]
    /\ deaf = {}
    /\ silent = {}
    /\ slots = {}
    /\ aged = {}
    /\ req = [q \in Requests |-> [phase |-> "idle", server |-> None, via |-> None,
                                  slow |-> FALSE, by |-> None]]
    /\ checker = [phase |-> "idle", todo |-> {}]

ServerOf(c) == task[c].server

\* is_current_connection
Current(c) == \E s \in Servers : s = ServerOf(c) /\ entry[s] = c

\* The receiving end of the connection's channel exists.
Listening(c) == task[c].pc \notin {"unborn", "closed"} /\ c \notin deaf

Advance(c, pc) == task' = [task EXCEPT ![c].pc = pc]

\* Mutant of DropSlots: retain keeps nothing.
DropAllSlots(s) == slots' = {} /\ aged' = {}

\* The waiters of a Server that lost its connection fail at once.
DropSlots(s) ==
    /\ slots' = {q \in slots : req[q].server # s}
    /\ aged' = {q \in aged : req[q].server # s}

\* The entry goes, and finish_connection_removal runs.
Remove(s) ==
    /\ entry' = [entry EXCEPT ![s] = None]
    /\ silent' = silent \ {s}
    /\ DropSlots(s)

\* Mutant of RemoveIfCurrent: whatever connection the Server has is removed.
RemoveAny(c) ==
    IF entry[ServerOf(c)] # None THEN Remove(ServerOf(c))
    ELSE UNCHANGED <<entry, silent, slots, aged>>

RemoveIfCurrent(c) ==
    IF Current(c) THEN Remove(ServerOf(c))
    ELSE UNCHANGED <<entry, silent, slots, aged>>

-----------------------------------------------------------------------------
(* The life of a WebSocket task. *)

\* The new entry replaces the one the Server had; nothing else of the old
\* connection is touched.
Admit(c, s) ==
    /\ task[c].pc = "unborn"
    /\ task' = [task EXCEPT ![c] = [pc |-> "welcoming", server |-> s]]
    /\ entry' = [entry EXCEPT ![s] = c]
    /\ silent' = silent \ {s}
    /\ UNCHANGED <<deaf, slots, aged, req, checker>>

Welcome(c) ==
    /\ task[c].pc = "welcoming"
    /\ Advance(c, "reading")
    /\ UNCHANGED <<entry, deaf, silent, slots, aged, req, checker>>

\* A Report or a Pong of the current connection: last_report_at is now.
Touch(c) ==
    /\ task[c].pc = "reading"
    /\ Current(c)
    /\ silent' = silent \ {ServerOf(c)}
    /\ UNCHANGED <<entry, task, deaf, slots, aged, req, checker>>

\* Mutant of Addressed: the slot is not tied to a Server.
AddressedToAnyone(c, q) == q \in slots

\* The slot named by a reply belongs to the agent that replies.
Addressed(c, q) == q \in slots /\ req[q].server = ServerOf(c)

\* Any frame that answers a request, and says which: an agent may name any id.
\* The slot is there before the request is sent, so the answer may come before
\* the caller is back from its send.  A caller that hung up is not told.
Reply(c, q) ==
    /\ task[c].pc = "reading"
    /\ Current(c)
    /\ Addressed(c, q)
    /\ slots' = slots \ {q}
    /\ aged' = aged \ {q}
    /\ \/ /\ req[q].phase = "waiting"
          /\ req' = [req EXCEPT ![q].phase = "answered", ![q].by = ServerOf(c)]
       \/ /\ req[q].phase = "sending"
          /\ req' = [req EXCEPT ![q].phase = "replied", ![q].by = ServerOf(c)]
       \/ req[q].phase = "hung_up" /\ req' = req
    /\ UNCHANGED <<entry, task, deaf, silent, checker>>

\* Welcome cannot be sent, the peer closes, the socket fails, or a frame finds
\* the connection superseded: the read loop is over.
StopReading(c) ==
    /\ task[c].pc \in {"welcoming", "reading"}
    /\ Advance(c, "closing")
    /\ UNCHANGED <<entry, deaf, silent, slots, aged, req, checker>>

\* A write to the socket fails, or every sender of the channel is gone.
WriterEnds(c) ==
    /\ task[c].pc \in {"reading", "closing"}
    /\ deaf' = deaf \cup {c}
    /\ UNCHANGED <<entry, task, silent, slots, aged, req, checker>>

Cleanup(c) ==
    /\ task[c].pc = "closing"
    /\ RemoveIfCurrent(c)
    /\ Advance(c, "closed")
    /\ deaf' = deaf \ {c}
    /\ UNCHANGED <<req, checker>>

\* An authority transition fences the Server.
Fence(s) ==
    /\ entry[s] # None
    /\ Remove(s)
    /\ UNCHANGED <<task, deaf, req, checker>>

\* The threshold passes without a frame; no task runs.
GoSilent(s) ==
    /\ entry[s] # None
    /\ silent' = silent \cup {s}
    /\ UNCHANGED <<entry, task, deaf, slots, aged, req, checker>>

-----------------------------------------------------------------------------
(* request_with_id. *)

Resolve(q, s) ==
    /\ req[q].phase = "idle"
    /\ entry[s] # None
    /\ req' = [req EXCEPT ![q].phase = "resolved", ![q].server = s, ![q].via = entry[s]]
    /\ UNCHANGED <<entry, task, deaf, silent, slots, aged, checker>>

Register(q) ==
    /\ req[q].phase = "resolved"
    /\ slots' = slots \cup {q}
    /\ req' = [req EXCEPT ![q].phase = "sending"]
    /\ UNCHANGED <<entry, task, deaf, silent, aged, checker>>

\* The send waits for room in the channel; it fails when the channel closes.
Send(q) ==
    /\ req[q].phase = "sending"
    /\ IF Listening(req[q].via)
       THEN /\ \E slow \in BOOLEAN :
                 /\ q \in aged => slow
                 /\ req' = [req EXCEPT ![q].phase = "waiting", ![q].slow = slow]
            /\ UNCHANGED <<slots, aged>>
       ELSE /\ req' = [req EXCEPT ![q].phase = "send_failed"]
            /\ slots' = slots \ {q}
            /\ aged' = aged \ {q}
    /\ UNCHANGED <<entry, task, deaf, silent, checker>>

\* A send that ends after the answer has come.
Resume(q) ==
    /\ req[q].phase = "replied"
    /\ req' = [req EXCEPT ![q].phase =
                 IF Listening(req[q].via) THEN "answered" ELSE "send_failed"]
    /\ UNCHANGED <<entry, task, deaf, silent, slots, aged, checker>>

\* The slot was dropped, and the receiver with it.
Disconnected(q) ==
    /\ req[q].phase = "waiting"
    /\ q \notin slots
    /\ req' = [req EXCEPT ![q].phase = "disconnected"]
    /\ UNCHANGED <<entry, task, deaf, silent, slots, aged, checker>>

Timeout(q) ==
    /\ req[q].phase = "waiting"
    /\ q \in slots
    /\ req' = [req EXCEPT ![q].phase = "timeout"]
    /\ slots' = slots \ {q}
    /\ aged' = aged \ {q}
    /\ UNCHANGED <<entry, task, deaf, silent, checker>>

\* The HTTP client is gone and the future with it; its slot stays.
HangUp(q) ==
    /\ req[q].phase \in {"resolved", "sending", "replied", "waiting"}
    /\ req' = [req EXCEPT ![q].phase = "hung_up"]
    /\ UNCHANGED <<entry, task, deaf, silent, slots, aged, checker>>

\* The TTL counts from the registration and the deadline from the end of the
\* send: the TTL passes first for a slow send, and otherwise only for a slot
\* whose caller no longer waits.
Age(q) ==
    /\ q \in slots \ aged
    /\ req[q].phase \in {"sending", "hung_up"} \/ req[q].slow
    /\ aged' = aged \cup {q}
    /\ UNCHANGED <<entry, task, deaf, silent, slots, req, checker>>

-----------------------------------------------------------------------------
(* The offline checker. *)

\* Mutant of Snapshot: the walk is over all Servers, connected or not.
SnapshotServers ==
    /\ checker.phase = "idle"
    /\ checker' = [phase |-> "evicting", todo |-> {entry[s] : s \in Servers}]
    /\ UNCHANGED <<entry, task, deaf, silent, slots, aged, req>>

\* stale_connection_candidates, without any lock.
Snapshot ==
    /\ checker.phase = "idle"
    /\ checker' = [phase |-> "evicting", todo |-> {entry[s] : s \in silent}]
    /\ UNCHANGED <<entry, task, deaf, silent, slots, aged, req>>

\* Mutant of Evict: the connection id is compared the wrong way round.
EvictIfReplaced(c) ==
    /\ c \in checker.todo
    /\ IF Current(c) THEN UNCHANGED <<entry, silent, slots, aged>>
       ELSE Remove(ServerOf(c))
    /\ checker' = [checker EXCEPT !.todo = @ \ {c}]
    /\ UNCHANGED <<task, deaf, req>>

\* Under the Server's lock: only the connection id is checked again.
Evict(c) ==
    /\ c \in checker.todo
    /\ RemoveIfCurrent(c)
    /\ checker' = [checker EXCEPT !.todo = @ \ {c}]
    /\ UNCHANGED <<task, deaf, req>>

\* Mutant of Sweep: cleanup_expired_requests is not called.
RestUnswept ==
    /\ checker.phase = "evicting"
    /\ checker.todo = {}
    /\ checker' = [checker EXCEPT !.phase = "idle"]
    /\ UNCHANGED <<entry, task, deaf, silent, slots, aged, req>>

\* cleanup_expired_requests ends the pass.
Sweep ==
    /\ checker.phase = "evicting"
    /\ checker.todo = {}
    /\ slots' = slots \ aged
    /\ aged' = {}
    /\ checker' = [checker EXCEPT !.phase = "idle"]
    /\ UNCHANGED <<entry, task, deaf, silent, req>>

ConnNext(c) ==
    \/ \E s \in Servers : Admit(c, s)
    \/ Welcome(c)
    \/ Touch(c)
    \/ \E q \in Requests : Reply(c, q)
    \/ StopReading(c)
    \/ WriterEnds(c)
    \/ Cleanup(c)

RequestNext(q) ==
    \/ \E s \in Servers : Resolve(q, s)
    \/ Register(q)
    \/ Send(q)
    \/ Resume(q)
    \/ Disconnected(q)
    \/ Timeout(q)
    \/ HangUp(q)
    \/ Age(q)

Next ==
    \/ \E c \in Conns : ConnNext(c) \/ Evict(c)
    \/ \E q \in Requests : RequestNext(q)
    \/ \E s \in Servers : Fence(s) \/ GoSilent(s)
    \/ Snapshot
    \/ Sweep

Spec == Init /\ [][Next]_vars

\* Tasks run, timers fire, and the checker ticks; a socket either drains or
\* fails, so a send ends.  Agents owe nothing: they may never report, reply or
\* close.
Fairness ==
    /\ \A c \in Conns : WF_vars(Cleanup(c)) /\ WF_vars(Evict(c))
    /\ \A q \in Requests :
        /\ WF_vars(Register(q)) /\ WF_vars(Send(q) \/ Resume(q))
        /\ WF_vars(Disconnected(q)) /\ WF_vars(Timeout(q)) /\ WF_vars(Age(q))
    /\ WF_vars(Snapshot) /\ WF_vars(Sweep)

FairSpec == Spec /\ Fairness

-----------------------------------------------------------------------------
(* Safety. *)

\* A caller is only ever answered by an agent of the Server it asked, although
\* correlation ids are supplied by the agents and connections come and go.
AnswersComeFromTheirServer ==
    \A q \in Requests :
        req[q].phase \in {"replied", "answered"} => req[q].by = req[q].server

\* The end of an old connection - its own cleanup, or the checker's verdict on
\* a candidate read before the lock - never takes its successor off the map.
SuccessorsSurvive ==
    [][\A c \in Conns :
        Current(c) /\ entry'[ServerOf(c)] = None =>
            \/ task[c].pc = "closing"
            \/ c \in checker.todo
            \/ Fence(ServerOf(c))]_vars

-----------------------------------------------------------------------------
(* The contract of the relay: a request in progress without a slot is doomed. *)

Online == {s \in Servers : entry[s] # None}
Phase == [q \in Requests |-> req[q].phase]
Asked == [q \in Requests |-> req[q].server]
Slow == {q \in Requests : req[q].slow}
Doomed == {q \in Requests : req[q].phase \in {"sending", "waiting"} /\ q \notin slots}

Relay == INSTANCE RelayContract WITH
    online <- Online, phase <- Phase, server <- Asked, slow <- Slow, doomed <- Doomed

ImplementsRelay == Relay!Spec

-----------------------------------------------------------------------------
(* What the code says of itself, and does not do. *)

\* "The slot is dropped (failing the receiver) if `server_id` disconnects":
\* when the task of a connection has ended, nobody waits for it any more.
NoWaiterOutlivesItsConnection ==
    \A q \in slots : req[q].phase = "waiting" => task[req[q].via].pc # "closed"

\* "marked offline (no report for 30s)": who is evicted by the checker has not
\* reported since.
OnlyTheSilentGoOffline ==
    [][\A c \in checker.todo \ checker'.todo :
        Current(c) /\ entry'[ServerOf(c)] = None => ServerOf(c) \in silent]_vars

-----------------------------------------------------------------------------
(* Liveness. *)

\* An agent that stays silent does not stay on the map.
SilentGoOffline ==
    \A s \in Servers : s \in silent ~> s \notin silent

\* Every response slot is freed in the end, also one whose caller hung up.
SlotsAreFreed == \A q \in Requests : q \in slots ~> q \notin slots
=============================================================================
