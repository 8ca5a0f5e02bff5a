-------------------------- MODULE MCTokenEndpoint --------------------------
(* Small instances of TokenEndpoint for TLC. *)
EXTENDS TokenEndpoint, TLC

CONSTANTS c1, s1

\* Every code is issued to the first client, from the first session: the other
\* client is one that presents what is not its own.
MCClientOf == [k \in Code |-> c1]
MCSidOf    == [k \in Code |-> s1]

MCSymmetry == Permutations(Req) \cup Permutations(Token)

=============================================================================
