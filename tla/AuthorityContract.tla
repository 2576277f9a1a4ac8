--------------------------- MODULE AuthorityContract ---------------------------
(***************************************************************************)
(* What Agent Authority promises its callers, without locks, transactions, *)
(* handshakes or failures: an authority is granted by consuming an open    *)
(* offer, a change of authority and the loss of the connection are one     *)
(* step, and an offer is settled once.  AgentAuthority implements it.      *)
(***************************************************************************)
EXTENDS Naturals

CONSTANTS Servers, Offers, None

VARIABLES
    authority,  \* the offer whose claim granted the present authority, or None
    live,       \* the authority the present connection was admitted under
    outcome,    \* of each offer
    target      \* the Server each offer is for

vars == <<authority, live, outcome, target>>

Init ==
    /\ authority = [s \in Servers |-> None]
    /\ live = [s \in Servers |-> None]
    /\ outcome = [o \in Offers |-> "unminted"]
    /\ target = [o \in Offers |-> None]

OpenFor(s) == {o \in Offers : outcome[o] = "open" /\ target[o] = s}

\* An agent that holds the authority connects.
Connect(s) ==
    /\ authority[s] # None
    /\ live' = [live EXCEPT ![s] = authority[s]]
    /\ UNCHANGED <<authority, outcome, target>>

\* Any set of connections may be lost at any time.
Disconnect(lost) ==
    /\ live' = [s \in Servers |-> IF s \in lost THEN None ELSE live[s]]
    /\ UNCHANGED <<authority, outcome, target>>

\* The open offer, if any, is settled with an outcome other than consumed, a
\* new offer may open in its place, and the authority may be withdrawn.
Settled(s, fate) ==
    [o \in Offers |-> IF o \in OpenFor(s) THEN fate ELSE outcome[o]]

Withdraw(s) ==
    /\ authority' = [authority EXCEPT ![s] = None]
    /\ live' = [live EXCEPT ![s] = None]

Open(s, settled) ==
    \E n \in Offers :
        /\ outcome[n] = "unminted"
        /\ outcome' = [settled EXCEPT ![n] = "open"]
        /\ target' = [target EXCEPT ![n] = s]

Settle(s) ==
    /\ \E fate \in {"revoked", "replaced", "expired"} :
        \/ outcome' = Settled(s, fate) /\ UNCHANGED target
        \/ Open(s, Settled(s, fate))
    /\ Withdraw(s) \/ UNCHANGED <<authority, live>>

\* The open offer is consumed: authority is transferred, nobody is connected.
Grant(s) ==
    \E o \in OpenFor(s) :
        /\ outcome' = [outcome EXCEPT ![o] = "consumed"]
        /\ authority' = [authority EXCEPT ![s] = o]
        /\ live' = [live EXCEPT ![s] = None]
        /\ UNCHANGED target

Delete(gone) ==
    /\ authority' = [s \in Servers |-> IF s \in gone THEN None ELSE authority[s]]
    /\ live' = [s \in Servers |-> IF s \in gone THEN None ELSE live[s]]
    /\ outcome' = [o \in Offers |-> IF target[o] \in gone THEN "deleted" ELSE outcome[o]]
    /\ UNCHANGED target

Next ==
    \/ \E s \in Servers : Connect(s) \/ Settle(s) \/ Grant(s)
    \/ \E set \in SUBSET Servers : Disconnect(set) \/ Delete(set)

Spec == Init /\ [][Next]_vars
===============================================================================
