------------------------------ MODULE AgentLink ------------------------------
(***************************************************************************)
(* Back-pressure on the agent links: who waits for whom when a buffer is   *)
(* full.  The read loop of a connection (router/ws/agent/mod.rs) handles   *)
(* each frame under the Server's lifecycle lock and awaits room, with the  *)
(* lock held, in the connection's own outgoing channel (for an Ack) or in  *)
(* the output channel of a terminal session (router/ws/terminal.rs).  The  *)
(* agent (agent/src/reporter/mod.rs) is one loop that does not read while  *)
(* it writes.  The offline checker is one task for all Servers and takes   *)
(* the same locks one after the other.                                     *)
(***************************************************************************)
EXTENDS Naturals, Sequences

CONSTANTS
    Servers,
    Busy,            \* Servers with traffic beyond reports, and a terminal
    UpCap,           \* frames in flight from agent to server
    WireCap,         \* messages in flight from server to agent
    DownCap,         \* the outgoing channel of a connection (64)
    OutCap,          \* the output channel of a terminal (256)
    BrowsersRead,    \* does every browser come to read what it is sent?
    None

ASSUME BusyAssumption == Busy \subseteq Servers /\ None \notin Servers
ASSUME SizeAssumption ==
    \A size \in {UpCap, WireCap, DownCap, OutCap} : size \in Nat \ {0}
ASSUME ReadAssumption == BrowsersRead \in BOOLEAN

Frame == {"report", "result", "output"}

VARIABLES
    alive,    \* the agent's host answers
    agent,    \* the reporter's loop: "select", or the frame it awaits room for
    up,       \* frames between agent and server
    wire,     \* messages between server and agent
    chan,     \* messages in the connection's outgoing channel
    loop,     \* the server's read loop: "idle", or the frame it handles
    lock,     \* the Server's lifecycle lock
    out,      \* events in the terminal session's output channel
    term,     \* the terminal task, with what it awaits
    online,   \* the connection is on the AgentManager's map
    silent,   \* its last_report_at is over the threshold
    todo,     \* candidates the offline checker has left
    at        \* the candidate whose lock it waits for

ends == <<alive, agent>>
buffers == <<up, wire, chan, out>>
tasks == <<loop, lock, term>>
registry == <<online, silent>>
checker == <<todo, at>>
vars == <<alive, agent, up, wire, chan, loop, lock, out, term,
          online, silent, todo, at>>

TypeOK ==
    /\ alive \in [Servers -> BOOLEAN]
    /\ agent \in [Servers -> Frame \cup {"select"}]
    /\ up \in [Servers -> Seq(Frame)] /\ \A s \in Servers : Len(up[s]) <= UpCap
    /\ wire \in [Servers -> 0..WireCap]
    /\ chan \in [Servers -> 0..DownCap]
    /\ loop \in [Servers -> Frame \cup {"idle"}]
    /\ lock \in [Servers -> {"free", "loop"}]
    /\ out \in [Servers -> 0..OutCap]
    /\ term \in [Servers -> {"select", "to_browser", "to_agent"}]
    /\ online \in [Servers -> BOOLEAN]
    /\ silent \in [Servers -> BOOLEAN]
    /\ todo \in SUBSET Servers
    /\ at \in Servers \cup {None}

Init ==
    /\ alive = [s \in Servers |-> TRUE]
    /\ agent = [s \in Servers |-> "select"]
    /\ up = [s \in Servers |-> <<>>]
    /\ wire = [s \in Servers |-> 0]
    /\ chan = [s \in Servers |-> 0]
    /\ loop = [s \in Servers |-> "idle"]
    /\ lock = [s \in Servers |-> "free"]
    /\ out = [s \in Servers |-> 0]
    /\ term = [s \in Servers |-> "select"]
    /\ online = [s \in Servers |-> TRUE]
    /\ silent = [s \in Servers |-> FALSE]
    /\ todo = {}
    /\ at = None

-----------------------------------------------------------------------------
(* The agent: one select loop that awaits every write. *)

\* A report falls due, a background command ends, or the PTY prints, as often
\* as they like.
Pick(s, frame) ==
    /\ online[s] /\ alive[s] /\ s \in Busy
    /\ agent[s] = "select"
    /\ agent' = [agent EXCEPT ![s] = frame]
    /\ UNCHANGED <<alive, buffers, tasks, registry, checker>>

Write(s) ==
    /\ online[s] /\ alive[s]
    /\ agent[s] # "select"
    /\ Len(up[s]) < UpCap
    /\ up' = [up EXCEPT ![s] = Append(@, agent[s])]
    /\ agent' = [agent EXCEPT ![s] = "select"]
    /\ UNCHANGED <<alive, wire, chan, out, tasks, registry, checker>>

Read(s) ==
    /\ online[s] /\ alive[s]
    /\ agent[s] = "select"
    /\ wire[s] > 0
    /\ wire' = [wire EXCEPT ![s] = @ - 1]
    /\ UNCHANGED <<ends, up, chan, out, tasks, registry, checker>>

\* The host goes away without closing its socket, and what its agent was about
\* to write with it.
Die(s) ==
    /\ alive' = [alive EXCEPT ![s] = FALSE]
    /\ agent' = [agent EXCEPT ![s] = "select"]
    /\ UNCHANGED <<buffers, tasks, registry, checker>>

-----------------------------------------------------------------------------
(* The server's tasks for one connection. *)

Receive(s) ==
    /\ online[s]
    /\ loop[s] = "idle"
    /\ up[s] # <<>>
    /\ loop' = [loop EXCEPT ![s] = Head(up[s])]
    /\ up' = [up EXCEPT ![s] = Tail(@)]
    /\ UNCHANGED <<ends, wire, chan, out, lock, term, registry, checker>>

\* handle_current_connection_frame takes the lock for the whole handler.
Acquire(s) ==
    /\ online[s]
    /\ loop[s] # "idle" /\ lock[s] = "free"
    /\ lock' = [lock EXCEPT ![s] = "loop"]
    /\ UNCHANGED <<ends, buffers, loop, term, registry, checker>>

Handling(s, frame) == lock[s] = "loop" /\ loop[s] = frame

Done(s) ==
    /\ loop' = [loop EXCEPT ![s] = "idle"]
    /\ lock' = [lock EXCEPT ![s] = "free"]

HandleReport(s) ==
    /\ Handling(s, "report")
    /\ silent' = [silent EXCEPT ![s] = FALSE]
    /\ Done(s)
    /\ UNCHANGED <<ends, buffers, term, online, checker>>

\* Mutant of HandleResult: the channel is unbounded.
AckUnbounded(s) ==
    /\ Handling(s, "result")
    /\ chan' = [chan EXCEPT ![s] = @ + 1]
    /\ Done(s)
    /\ UNCHANGED <<ends, up, wire, out, term, registry, checker>>

\* Mutant of HandleResult: the Ack is awaited until it is on the wire.
AckFlushed(s) ==
    /\ Handling(s, "result")
    /\ chan[s] = 0 /\ wire[s] < WireCap
    /\ wire' = [wire EXCEPT ![s] = @ + 1]
    /\ Done(s)
    /\ UNCHANGED <<ends, up, chan, out, term, registry, checker>>

\* A result or a progress message is acknowledged over the connection.
HandleResult(s) ==
    /\ Handling(s, "result")
    /\ chan[s] < DownCap
    /\ chan' = [chan EXCEPT ![s] = @ + 1]
    /\ Done(s)
    /\ UNCHANGED <<ends, up, wire, out, term, registry, checker>>

\* Terminal output is handed to the task of the browser's WebSocket.
HandleOutput(s) ==
    /\ Handling(s, "output")
    /\ out[s] < OutCap
    /\ out' = [out EXCEPT ![s] = @ + 1]
    /\ Done(s)
    /\ UNCHANGED <<ends, up, wire, chan, term, registry, checker>>

\* The write task, which owns the sink.
Transmit(s) ==
    /\ online[s]
    /\ chan[s] > 0 /\ wire[s] < WireCap
    /\ chan' = [chan EXCEPT ![s] = @ - 1]
    /\ wire' = [wire EXCEPT ![s] = @ + 1]
    /\ UNCHANGED <<ends, up, out, tasks, registry, checker>>

\* TCP gives up on a host that is gone; what the channel still gets is lost.
\* A peer that is there but does not read keeps its window shut for ever.
GiveUp(s) ==
    /\ ~alive[s]
    /\ wire[s] > 0
    /\ wire' = [wire EXCEPT ![s] = 0]
    /\ UNCHANGED <<ends, up, chan, out, tasks, registry, checker>>

-----------------------------------------------------------------------------
(* The terminal task: one select loop that awaits both of its peers, so that
   neither its idle timer nor its lease runs meanwhile. *)

TakeOutput(s) ==
    /\ online[s]
    /\ term[s] = "select"
    /\ out[s] > 0
    /\ out' = [out EXCEPT ![s] = @ - 1]
    /\ term' = [term EXCEPT ![s] = "to_browser"]
    /\ UNCHANGED <<ends, up, wire, chan, loop, lock, registry, checker>>

Delivered(s) ==
    /\ online[s]
    /\ term[s] = "to_browser"
    /\ term' = [term EXCEPT ![s] = "select"]
    /\ UNCHANGED <<ends, buffers, loop, lock, registry, checker>>

\* The browser sends as much as it likes.
TakeInput(s) ==
    /\ online[s] /\ s \in Busy
    /\ term[s] = "select"
    /\ term' = [term EXCEPT ![s] = "to_agent"]
    /\ UNCHANGED <<ends, buffers, loop, lock, registry, checker>>

PassInput(s) ==
    /\ online[s]
    /\ term[s] = "to_agent"
    /\ chan[s] < DownCap
    /\ chan' = [chan EXCEPT ![s] = @ + 1]
    /\ term' = [term EXCEPT ![s] = "select"]
    /\ UNCHANGED <<ends, up, wire, out, loop, lock, registry, checker>>

-----------------------------------------------------------------------------
(* Silence, and the offline checker. *)

\* Reports are due every 3 s and the threshold is 30 s: only an agent that is
\* gone, or a frame that is held up, lets it pass.
GoSilent(s) ==
    /\ online[s]
    /\ ~alive[s] \/ loop[s] # "idle"
    /\ silent' = [silent EXCEPT ![s] = TRUE]
    /\ UNCHANGED <<ends, buffers, tasks, online, checker>>

\* Mutant of Snapshot: the threshold is compared the wrong way round.
SnapshotRecent ==
    /\ todo = {} /\ at = None
    /\ todo' = {s \in Servers : online[s] /\ ~silent[s]}
    /\ UNCHANGED <<ends, buffers, tasks, registry, at>>

\* stale_connection_candidates, without any lock.
Snapshot ==
    /\ todo = {} /\ at = None
    /\ todo' = {s \in Servers : online[s] /\ silent[s]}
    /\ UNCHANGED <<ends, buffers, tasks, registry, at>>

NextCandidate(s) ==
    /\ at = None
    /\ s \in todo
    /\ at' = s
    /\ todo' = todo \ {s}
    /\ UNCHANGED <<ends, buffers, tasks, registry>>

\* Mutant of Evict: the connection is taken off the map without its lock.
EvictUnlocked(s) ==
    /\ at = s
    /\ online' = [online EXCEPT ![s] = FALSE]
    /\ silent' = [silent EXCEPT ![s] = FALSE]
    /\ agent' = [agent EXCEPT ![s] = "select"]
    /\ up' = [up EXCEPT ![s] = <<>>]
    /\ wire' = [wire EXCEPT ![s] = 0]
    /\ chan' = [chan EXCEPT ![s] = 0]
    /\ out' = [out EXCEPT ![s] = 0]
    /\ loop' = [loop EXCEPT ![s] = "idle"]
    /\ term' = [term EXCEPT ![s] = "select"]
    /\ at' = None
    /\ UNCHANGED <<alive, lock, todo>>

\* The checker gets the lock: the connection goes, its tasks and buffers with
\* it.
Evict(s) ==
    /\ at = s
    /\ lock[s] = "free"
    /\ online' = [online EXCEPT ![s] = FALSE]
    /\ silent' = [silent EXCEPT ![s] = FALSE]
    /\ agent' = [agent EXCEPT ![s] = "select"]
    /\ up' = [up EXCEPT ![s] = <<>>]
    /\ wire' = [wire EXCEPT ![s] = 0]
    /\ chan' = [chan EXCEPT ![s] = 0]
    /\ out' = [out EXCEPT ![s] = 0]
    /\ loop' = [loop EXCEPT ![s] = "idle"]
    /\ term' = [term EXCEPT ![s] = "select"]
    /\ at' = None
    /\ UNCHANGED <<alive, lock, todo>>

AgentNext(s) == (\E frame \in Frame : Pick(s, frame)) \/ Write(s) \/ Read(s) \/ Die(s)

ReadLoop(s) ==
    \/ Receive(s)
    \/ Acquire(s)
    \/ HandleReport(s)
    \/ HandleResult(s)
    \/ HandleOutput(s)

TerminalNext(s) ==
    \/ TakeOutput(s)
    \/ Delivered(s)
    \/ TakeInput(s)
    \/ PassInput(s)

CheckerNext(s) == GoSilent(s) \/ NextCandidate(s) \/ Evict(s)

Next ==
    \/ \E s \in Servers : AgentNext(s) \/ ReadLoop(s) \/ Transmit(s) \/ GiveUp(s)
                           \/ TerminalNext(s) \/ CheckerNext(s)
    \/ Snapshot

Spec == Init /\ [][Next]_vars

\* Every task that can run does.  The branches of a tokio::select! are polled
\* in random order and the waiters of a tokio Mutex or channel queue up: what
\* comes to be possible again and again, happens.  Agents may die and, unless
\* BrowsersRead, a browser may leave its terminal unread (a suspended tab).
\* Connections that are not busy have no traffic to be fair to.
Fairness ==
    /\ \A s \in Busy :
        /\ WF_vars(Write(s)) /\ SF_vars(Read(s))
        /\ SF_vars(ReadLoop(s))
        /\ WF_vars(Transmit(s)) /\ WF_vars(GiveUp(s))
        /\ SF_vars(TakeOutput(s)) /\ SF_vars(PassInput(s))
        /\ BrowsersRead => WF_vars(Delivered(s))
    /\ \A s \in Servers : WF_vars(GoSilent(s) /\ ~alive[s])
    /\ SF_vars(Snapshot \/ \E s \in Servers : NextCandidate(s) \/ Evict(s))

FairSpec == Spec /\ Fairness

-----------------------------------------------------------------------------

\* No connection goes, and no read loop is cut short, while its frame handler
\* holds the Server's lifecycle lock, be it only to await room in a channel:
\* the checker awaits the lock in its turn.
HandlersKeepTheirConnection ==
    \A s \in Servers : lock[s] = "loop" => online[s] /\ loop[s] # "idle"

\* The one circle of waiting there is: the agent awaits room for its write and
\* does not read; the write task awaits room on the wire; the handler, with the
\* lock, or the terminal it hands its output to, awaits room in the channel.
Jammed(s) ==
    /\ alive[s] /\ agent[s] # "select" /\ Len(up[s]) = UpCap
    /\ wire[s] = WireCap /\ chan[s] = DownCap
    /\ \/ Handling(s, "result")
       \/ Handling(s, "output") /\ out[s] = OutCap /\ term[s] = "to_agent"

\* The one wait for somebody outside: the browser does not read its terminal.
Unread(s) ==
    /\ ~BrowsersRead
    /\ Handling(s, "output") /\ out[s] = OutCap /\ term[s] = "to_browser"

Stuck(s) == Jammed(s) \/ Unread(s)

\* A frame handler gives the Server's lifecycle lock back, for which claims,
\* revocations and deletions of the Server wait, whatever the agent and the
\* browser send meanwhile, unless it is stuck for good.
LocksAreReleased == \A s \in Servers : []<>(lock[s] = "free") \/ <>[]Stuck(s)

\* An agent whose host is gone is marked offline, unless the one task of the
\* offline checker comes to wait for a handler that is stuck for good, its own
\* or that of another Server.
DeadAgentsGoOfflineUnlessStuck ==
    (\A s \in Servers : ~alive[s] ~> ~online[s]) \/ (\E r \in Servers : <>[]Stuck(r))

\* An agent whose host is gone is marked offline: the checker "runs every 10
\* seconds" (offline_checker.rs).
DeadAgentsGoOffline == \A s \in Servers : ~alive[s] ~> ~online[s]
=============================================================================
