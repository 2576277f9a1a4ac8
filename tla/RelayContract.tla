----------------------------- MODULE RelayContract -----------------------------
(***************************************************************************)
(* What request_with_id promises its caller, without connections, their    *)
(* tasks, response slots or the offline checker: a request is settled      *)
(* once.  It is answered only by its Server while that is on the map and   *)
(* has not been off it since the request was registered.  A request that   *)
(* was sent in time is given up early for that reason only; reconnects and *)
(* the other Servers do not touch it.  AgentRegistry implements it.        *)
(***************************************************************************)
CONSTANTS Servers, Requests, None

VARIABLES
    online,    \* Servers on the map
    phase,     \* of each request
    server,    \* the Server each request is for
    slow,      \* requests whose send took so long that the TTL may pass first
    doomed     \* requests in progress that no answer can reach any more

vars == <<online, phase, server, slow, doomed>>

Init ==
    /\ online = {}
    /\ phase = [q \in Requests |-> "idle"]
    /\ server = [q \in Requests |-> None]
    /\ slow = {}
    /\ doomed = {}

Registered(q) == phase[q] \in {"sending", "waiting"}

Become(q, to) == phase' = [phase EXCEPT ![q] = to]

Connect(s) ==
    /\ online' = online \cup {s}
    /\ UNCHANGED <<phase, server, slow, doomed>>

\* All requests to s fail, and only those.
Lose(s) ==
    /\ s \in online
    /\ online' = online \ {s}
    /\ doomed' = doomed \cup {q \in Requests : Registered(q) /\ server[q] = s}
    /\ UNCHANGED <<phase, server, slow>>

Resolve(q, s) ==
    /\ phase[q] = "idle" /\ s \in online
    /\ Become(q, "resolved")
    /\ server' = [server EXCEPT ![q] = s]
    /\ UNCHANGED <<online, slow, doomed>>

Register(q) ==
    /\ phase[q] = "resolved"
    /\ Become(q, "sending")
    /\ UNCHANGED <<online, server, slow, doomed>>

Sent(q) ==
    /\ phase[q] = "sending"
    /\ Become(q, "waiting")
    /\ slow' \in {slow, slow \cup {q}}
    /\ UNCHANGED <<online, server, doomed>>

\* The answer was there before the send was over.
Collect(q) ==
    /\ phase[q] = "replied"
    /\ Become(q, "answered")
    /\ UNCHANGED <<online, server, slow, doomed>>

Unsent(q) ==
    /\ phase[q] \in {"sending", "replied"}
    /\ Become(q, "send_failed")
    /\ doomed' = doomed \ {q}
    /\ UNCHANGED <<online, server, slow>>

Answer(q) ==
    /\ q \notin doomed /\ server[q] \in online
    /\ \/ phase[q] = "sending" /\ Become(q, "replied")
       \/ phase[q] = "waiting" /\ Become(q, "answered")
    /\ UNCHANGED <<online, server, slow, doomed>>

Timeout(q) ==
    /\ phase[q] = "waiting" /\ q \notin doomed
    /\ Become(q, "timeout")
    /\ UNCHANGED <<online, server, slow, doomed>>

Disconnected(q) ==
    /\ phase[q] = "waiting" /\ q \in doomed
    /\ Become(q, "disconnected")
    /\ doomed' = doomed \ {q}
    /\ UNCHANGED <<online, server, slow>>

HangUp(q) ==
    /\ phase[q] \in {"resolved", "sending", "replied", "waiting"}
    /\ Become(q, "hung_up")
    /\ doomed' = doomed \ {q}
    /\ UNCHANGED <<online, server, slow>>

\* The TTL passes for requests whose send is late or was.
Expire(late) ==
    /\ \A q \in late : phase[q] = "sending" \/ (phase[q] = "waiting" /\ q \in slow)
    /\ doomed' = doomed \cup late
    /\ UNCHANGED <<online, phase, server, slow>>

Next ==
    \/ \E s \in Servers : Connect(s) \/ Lose(s) \/ \E q \in Requests : Resolve(q, s)
    \/ \E q \in Requests :
         \/ Register(q) \/ Sent(q) \/ Unsent(q) \/ Answer(q) \/ Collect(q)
         \/ Timeout(q) \/ Disconnected(q) \/ HangUp(q)
    \/ \E late \in SUBSET Requests : Expire(late)

Spec == Init /\ [][Next]_vars
===============================================================================
