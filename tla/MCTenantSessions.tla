-------------------------- MODULE MCTenantSessions --------------------------
(***************************************************************************)
(* Instances of TenantSessions for TLC: every session comes from one SSO   *)
(* session.                                                                *)
(***************************************************************************)
EXTENDS TenantSessions, TLC

CONSTANTS d1, s1

MCSidOf == [s \in Session |-> d1]
MCSymmetry == Permutations(Req)
=============================================================================
