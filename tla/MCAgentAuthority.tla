--------------------------- MODULE MCAgentAuthority ---------------------------
(* AgentAuthority on small sets for TLC. *)
EXTENDS AgentAuthority, TLC

Symmetric ==
    Permutations(Offers) \cup Permutations(Tokens) \cup Permutations(Sockets)
    \cup Permutations(Claims) \cup Permutations(Deleters)
=============================================================================
