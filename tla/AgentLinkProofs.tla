--------------------------- MODULE AgentLinkProofs ---------------------------
(***************************************************************************)
(* Whatever the sizes of the buffers and however much agents and browsers  *)
(* send: no buffer is ever over its size, and no connection goes while a   *)
(* frame handler holds its Server's lifecycle lock.                        *)
(***************************************************************************)
EXTENDS AgentLink, SequenceTheorems, TLAPS

IInv == TypeOK /\ HandlersKeepTheirConnection

-----------------------------------------------------------------------------
(* Types. *)

LEMMA InitIInv == Init => IInv
<1>. SUFFICES ASSUME Init PROVE IInv
  OBVIOUS
<1>1. TypeOK
  BY SizeAssumption, EmptySeq DEF Init, TypeOK, Frame
<1>2. HandlersKeepTheirConnection
  BY DEF Init, HandlersKeepTheirConnection
<1>. QED BY <1>1, <1>2 DEF IInv

LEMMA AgentKeepsTypes ==
    ASSUME TypeOK, NEW s \in Servers, AgentNext(s)
    PROVE  TypeOK'
<1>. USE SizeAssumption DEF TypeOK, ends, buffers, tasks, registry, checker
<1>1. ASSUME NEW frame \in Frame, Pick(s, frame) PROVE TypeOK'
  <2>1. agent' \in [Servers -> Frame \cup {"select"}]
    BY <1>1 DEF Pick
  <2>. QED BY <1>1, <2>1 DEF Pick
<1>2. CASE Write(s)
  <2>1. /\ Append(up[s], agent[s]) \in Seq(Frame)
        /\ Len(Append(up[s], agent[s])) = Len(up[s]) + 1
        /\ Len(up[s]) \in Nat
    BY <1>2, LenProperties, AppendProperties DEF Write
  <2>2. /\ up' \in [Servers -> Seq(Frame)]
        /\ \A r \in Servers : Len(up'[r]) <= UpCap
    <3>1. up' = [up EXCEPT ![s] = Append(up[s], agent[s])] /\ Len(up[s]) < UpCap
      BY <1>2 DEF Write
    <3>2. Len(Append(up[s], agent[s])) <= UpCap
      BY <2>1, <3>1
    <3>. QED BY <2>1, <3>1, <3>2
  <2>3. agent' \in [Servers -> Frame \cup {"select"}]
    BY <1>2 DEF Write
  <2>. QED BY <1>2, <2>2, <2>3 DEF Write
<1>3. CASE Read(s)
  <2>1. wire' \in [Servers -> 0..WireCap]
    <3>1. wire[s] - 1 \in 0..WireCap
      BY <1>3 DEF Read
    <3>. QED BY <1>3, <3>1 DEF Read
  <2>. QED BY <1>3, <2>1 DEF Read
<1>4. CASE Die(s)
  BY <1>4 DEF Die
<1>. QED BY <1>1, <1>2, <1>3, <1>4 DEF AgentNext

\* A buffer with room stays within its capacity.
LEMMA RoomForOne ==
    ASSUME NEW cap \in Nat, NEW n \in 0..cap, n < cap
    PROVE  n + 1 \in 0..cap
  OBVIOUS

LEMMA ServerKeepsTypes ==
    ASSUME TypeOK, NEW s \in Servers,
           ReadLoop(s) \/ Transmit(s) \/ GiveUp(s) \/ TerminalNext(s)
    PROVE  TypeOK'
<1>. USE SizeAssumption DEF TypeOK, ends, buffers, tasks, registry, checker, Done, Handling
<1>1. CASE Receive(s)
  <2>1. /\ Head(up[s]) \in Frame /\ Tail(up[s]) \in Seq(Frame)
        /\ Len(Tail(up[s])) = Len(up[s]) - 1
        /\ Len(up[s]) \in Nat
    BY <1>1, LenProperties, HeadTailProperties DEF Receive
  <2>. QED BY <1>1, <2>1 DEF Receive
<1>2. CASE Acquire(s)
  BY <1>2 DEF Acquire
<1>3. CASE HandleReport(s)
  BY <1>3 DEF HandleReport
<1>4. CASE HandleResult(s)
  <2>1. chan' \in [Servers -> 0..DownCap]
    <3>1. chan[s] \in 0..DownCap /\ chan[s] < DownCap
      BY <1>4 DEF HandleResult
    <3>2. chan[s] + 1 \in 0..DownCap
      BY <3>1, RoomForOne
    <3>. QED BY <1>4, <3>2 DEF HandleResult
  <2>2. /\ loop' \in [Servers -> Frame \cup {"idle"}]
        /\ lock' \in [Servers -> {"free", "loop"}]
    BY <1>4 DEF HandleResult
  <2>. QED BY <1>4, <2>1, <2>2 DEF HandleResult
<1>5. CASE HandleOutput(s)
  <2>1. out' \in [Servers -> 0..OutCap]
    <3>1. out[s] \in 0..OutCap /\ out[s] < OutCap
      BY <1>5 DEF HandleOutput
    <3>2. out[s] + 1 \in 0..OutCap
      BY <3>1, RoomForOne
    <3>. QED BY <1>5, <3>2 DEF HandleOutput
  <2>2. /\ loop' \in [Servers -> Frame \cup {"idle"}]
        /\ lock' \in [Servers -> {"free", "loop"}]
    BY <1>5 DEF HandleOutput
  <2>. QED BY <1>5, <2>1, <2>2 DEF HandleOutput
<1>6. CASE Transmit(s)
  <2>1. chan[s] - 1 \in 0..DownCap /\ wire[s] + 1 \in 0..WireCap
    BY <1>6 DEF Transmit
  <2>2. chan' \in [Servers -> 0..DownCap] /\ wire' \in [Servers -> 0..WireCap]
    BY <1>6, <2>1 DEF Transmit
  <2>. QED BY <1>6, <2>2 DEF Transmit
<1>7. CASE GiveUp(s)
  BY <1>7 DEF GiveUp
<1>8. CASE TakeOutput(s)
  <2>1. out[s] - 1 \in 0..OutCap
    BY <1>8 DEF TakeOutput
  <2>2. out' \in [Servers -> 0..OutCap]
    BY <1>8, <2>1 DEF TakeOutput
  <2>. QED BY <1>8, <2>2 DEF TakeOutput
<1>9. CASE Delivered(s)
  BY <1>9 DEF Delivered
<1>10. CASE TakeInput(s)
  BY <1>10 DEF TakeInput
<1>11. CASE PassInput(s)
  <2>1. chan[s] + 1 \in 0..DownCap
    BY <1>11 DEF PassInput
  <2>2. chan' \in [Servers -> 0..DownCap]
    BY <1>11, <2>1 DEF PassInput
  <2>. QED BY <1>11, <2>2 DEF PassInput
<1>. QED
  BY <1>1, <1>2, <1>3, <1>4, <1>5, <1>6, <1>7, <1>8, <1>9, <1>10, <1>11
     DEF ReadLoop, TerminalNext

LEMMA CheckerKeepsTypes ==
    ASSUME TypeOK, Snapshot \/ \E s \in Servers : CheckerNext(s)
    PROVE  TypeOK'
<1>. USE SizeAssumption DEF TypeOK, ends, buffers, tasks, registry, checker
<1>1. CASE Snapshot
  BY <1>1 DEF Snapshot
<1>2. ASSUME NEW s \in Servers, GoSilent(s) PROVE TypeOK'
  BY <1>2 DEF GoSilent
<1>3. ASSUME NEW s \in Servers, NextCandidate(s) PROVE TypeOK'
  BY <1>3 DEF NextCandidate
<1>4. ASSUME NEW s \in Servers, Evict(s) PROVE TypeOK'
  BY <1>4, EmptySeq DEF Evict
<1>. QED BY <1>1, <1>2, <1>3, <1>4 DEF CheckerNext

-----------------------------------------------------------------------------
(* A lock is held for a frame that is being handled. *)

LEMMA LockNext ==
    ASSUME TypeOK, HandlersKeepTheirConnection, [Next]_vars
    PROVE  HandlersKeepTheirConnection'
<1>. SUFFICES ASSUME NEW r \in Servers, lock'[r] = "loop"
              PROVE  online'[r] /\ loop'[r] # "idle"
  BY DEF HandlersKeepTheirConnection
<1>. USE DEF ends, buffers, tasks, registry, checker, Done, Handling
<1>1. lock[r] = "loop" => online[r] /\ loop[r] # "idle"
  BY DEF HandlersKeepTheirConnection
<1>2. ASSUME NEW s \in Servers, AgentNext(s) PROVE UNCHANGED <<online, loop, lock>>
  BY <1>2 DEF AgentNext, Pick, Write, Read, Die
<1>3. ASSUME NEW s \in Servers, Transmit(s) \/ GiveUp(s) \/ TerminalNext(s)
      PROVE  UNCHANGED <<online, loop, lock>>
  BY <1>3 DEF Transmit, GiveUp, TerminalNext, TakeOutput, Delivered, TakeInput, PassInput
<1>4. ASSUME NEW s \in Servers, ReadLoop(s) PROVE online'[r] /\ loop'[r] # "idle"
  <2>1. CASE Receive(s)
    BY <1>1, <2>1 DEF Receive, TypeOK
  <2>2. CASE Acquire(s)
    BY <1>1, <2>2 DEF Acquire, TypeOK
  <2>3. CASE HandleReport(s) \/ HandleResult(s) \/ HandleOutput(s)
    <3>1. /\ online' = online
          /\ lock' = [lock EXCEPT ![s] = "free"] /\ loop' = [loop EXCEPT ![s] = "idle"]
      BY <2>3 DEF HandleReport, HandleResult, HandleOutput
    <3>. QED BY <1>1, <3>1 DEF TypeOK
  <2>. QED BY <1>4, <2>1, <2>2, <2>3 DEF ReadLoop
<1>5. ASSUME NEW s \in Servers, CheckerNext(s) PROVE online'[r] /\ loop'[r] # "idle"
  <2>1. CASE GoSilent(s) \/ NextCandidate(s)
    BY <1>1, <2>1 DEF GoSilent, NextCandidate
  <2>2. CASE Evict(s)
    <3>1. r # s
      BY <2>2 DEF Evict
    <3>. QED BY <1>1, <2>2, <3>1 DEF Evict, TypeOK
  <2>. QED BY <1>5, <2>1, <2>2 DEF CheckerNext
<1>6. CASE Snapshot \/ UNCHANGED vars
  BY <1>1, <1>6 DEF Snapshot, vars
<1>. QED BY <1>1, <1>2, <1>3, <1>4, <1>5, <1>6 DEF Next

LEMMA IInvNext == IInv /\ [Next]_vars => IInv'
<1>. SUFFICES ASSUME IInv, [Next]_vars PROVE IInv'
  OBVIOUS
<1>1. TypeOK'
  <2>1. CASE UNCHANGED vars
    BY <2>1 DEF IInv, TypeOK, vars
  <2>. QED
    BY <2>1, AgentKeepsTypes, ServerKeepsTypes, CheckerKeepsTypes DEF IInv, Next
<1>. QED BY <1>1, LockNext DEF IInv

\* Every variable of AgentLink keeps its type; in particular no buffer is ever
\* over its size.
THEOREM Typing == Spec => []TypeOK
<1>1. IInv => TypeOK
  BY DEF IInv
<1>. QED BY InitIInv, IInvNext, <1>1, PTL DEF Spec

\* No connection is taken off the map while the handler of one of its frames
\* holds the Server's lifecycle lock, however long it awaits room in a channel:
\* for every number of Servers and all sizes of the buffers.
THEOREM ConnectionsAreKept == Spec => []HandlersKeepTheirConnection
<1>1. IInv => HandlersKeepTheirConnection
  BY DEF IInv
<1>. QED BY InitIInv, IInvNext, <1>1, PTL DEF Spec
==============================================================================
