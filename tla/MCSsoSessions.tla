--------------------------- MODULE MCSsoSessions ---------------------------
(***************************************************************************)
(* Instance of SsoSessions: one user with up to two sessions, one service  *)
(* in up to two tenants, one code for each tenant.                         *)
(***************************************************************************)
EXTENDS SsoSessions, TLC

CONSTANTS s1, alice, crm, k1, tanaka, suzuki

\* One user, one service; every code is issued from the first session, the first
\* one for the first tenant.
MCUserOf == [s \in Sid |-> alice]
MCClientOf == [p \in Place |-> crm]
MCPlaceOf == [k \in Code |-> IF k = k1 THEN tanaka ELSE suzuki]
MCSidOf == [k \in Code |-> s1]

\* One session: what logs in, out and is granted in between.
Grants  == {"login", "authorize", "exchange", "refresh"}
MCLogout == {[arrivals |-> Grants \cup {"logout"}, faults |-> {"abort"}, sids |-> {s1}, codes |-> {k1}]}

\* Two sessions and one tenant, or one session and two tenants.
MCRelogin == [arrivals |-> {"login", "authorize", "portal"}, faults |-> {"idle"},
              sids |-> Sid, codes |-> {k1}]
MCRemoval == [arrivals |-> Grants \cup {"remove"}, faults |-> {}, sids |-> {s1}, codes |-> Code]
MCReloginOrRemoval == {MCRelogin, MCRemoval}

\* The two requests of each race, and the login before them.
MCLogoutRace   == {[arrivals |-> {"login", "authorize", "logout"}, faults |-> {}, sids |-> {s1}, codes |-> {k1}]}
MCLateExchange == {[arrivals |-> {"login", "exchange", "remove"}, faults |-> {}, sids |-> {s1}, codes |-> {k1}]}

MCSymmetry == Permutations(Req)

=============================================================================
