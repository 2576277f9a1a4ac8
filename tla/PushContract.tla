----------------------------- MODULE PushContract -----------------------------
(***************************************************************************)
(* What the push outbox promises the owner of a phone, without leases,     *)
(* revisions, clocks or transactions.  A message is admitted for the token *)
(* the phone has then and is only ever sent to that token.  Its fate is    *)
(* sealed once, except that a message withdrawn while it was on its way    *)
(* may still be reported as what became of it.  An answer takes a token    *)
(* away only if it is about that token.  PushOutbox implements it.         *)
(***************************************************************************)
CONSTANTS Events, Tokens, Channels, None

VARIABLES
    token,     \* the token the phone is registered with
    fate,      \* of each message
    bound,     \* the token each message is for, None if it is not known any more
    flight     \* the message and the token each channel has under way

vars == <<token, fate, bound, flight>>

Init ==
    /\ token = None
    /\ fate = [e \in Events |-> "unknown"]
    /\ bound = [e \in Events |-> None]
    /\ flight = [c \in Channels |-> None]

\* The phone registers, replaces its token or withdraws it.
Register(t) ==
    /\ token' = t
    /\ UNCHANGED <<fate, bound, flight>>

\* The registration is deleted: the next one has no memory of this one, and a
\* message admitted before may be taken for one of the next.
Forget ==
    /\ token' = None
    /\ bound' = [e \in Events |-> None]
    /\ UNCHANGED <<fate, flight>>

Admit(e) ==
    /\ fate[e] = "unknown" /\ token # None
    /\ fate' = [fate EXCEPT ![e] = "open"]
    /\ bound' = [bound EXCEPT ![e] = token]
    /\ UNCHANGED <<token, flight>>

Unsettled == {e \in Events : fate[e] \in {"open", "withdrawn"}}

Swept(expired) == [e \in Events |-> IF e \in expired THEN "expired" ELSE fate[e]]

\* Messages that are too late are given up; then one that is still open may be
\* sent, to the token it is for, and one whose addressee is gone is withdrawn.
Send(c, expired) ==
    /\ flight[c] = None
    /\ \E e \in Events \ expired :
         /\ fate[e] = "open"
         /\ token # None /\ bound[e] \in {token, None}
         /\ flight' = [flight EXCEPT ![c] = [event |-> e, token |-> token]]
    /\ fate' = Swept(expired)
    /\ UNCHANGED <<token, bound>>

GiveUp(expired) ==
    /\ \/ fate' = Swept(expired)
       \/ \E e \in Unsettled \ expired : fate' = [Swept(expired) EXCEPT ![e] = "withdrawn"]
    /\ UNCHANGED <<token, bound, flight>>

\* A withdrawn message has no content left to send.
Discard(e) ==
    /\ fate[e] = "withdrawn"
    /\ fate' = [fate EXCEPT ![e] = "permanent"]
    /\ UNCHANGED <<token, bound, flight>>

\* An answer seals the fate of its message unless that happened before.
Answer(c) ==
    /\ flight[c] # None
    /\ flight' = [flight EXCEPT ![c] = None]
    /\ LET e == flight[c].event
       IN \/ UNCHANGED <<fate, token>>
          \/ /\ e \in Unsettled
             /\ \E to \in {"accepted", "permanent", "expired"} : fate' = [fate EXCEPT ![e] = to]
             /\ UNCHANGED token
          \/ /\ e \in Unsettled /\ token = flight[c].token
             /\ fate' = [fate EXCEPT ![e] = "permanent"]
             /\ token' = None
    /\ UNCHANGED bound

Next ==
    \/ \E t \in Tokens \cup {None} : Register(t)
    \/ Forget
    \/ \E e \in Events : Admit(e) \/ Discard(e)
    \/ \E expired \in SUBSET Unsettled :
         GiveUp(expired) \/ \E c \in Channels : Send(c, expired)
    \/ \E c \in Channels : Answer(c)

Spec == Init /\ [][Next]_vars
===============================================================================
