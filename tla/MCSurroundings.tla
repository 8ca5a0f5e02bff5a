--------------------------- MODULE MCSurroundings ---------------------------
(***************************************************************************)
(* The parts around the protocol (stores, repositories, key cache,         *)
(* provisioning, the members page), which share no state: each behaviour   *)
(* takes one of them and leaves the others as they start.                  *)
(*                                                                         *)
(* Members and verifiers are each a symmetric set; both take the same two  *)
(* model values, so that one permutation is a symmetry of every part.      *)
(***************************************************************************)
EXTENDS KvStores, Repositories, JwksCache, Provision, MembersConsole, TLC

VARIABLE part     \* the part this behaviour is about

MCServiceDbs == <<"crm", "cms">>

MCSymmetry == Permutations(Colleagues)

vars == <<part, kvVars, repoVars, jwksVars, provisionVars, consoleVars>>

\* A fixed initial state for a part the behaviour is not about.
KvRest == KvInit /\ shape = "kv"
RepoRest == RepoInit /\ port = "sessions"
ProvisionRest == ProvisionInit /\ secret = (CHOOSE k \in ClientSecrets : TRUE)
                               /\ useCognito /\ bypasses /\ identity = EmptyIdentity
ConsoleRest == ConsoleInit /\ \A m \in Colleagues : ~onServer[m].present

\* One of two has an override to lose; the other is listed without any, or not yet invited.
ConsoleStart ==
    ConsoleInit /\ \E m, n \in Colleagues :
        onServer[m].overrides # AsTheRole /\ onServer[n].overrides = AsTheRole

MCInit ==
    \/ /\ part = "stores" /\ KvInit
       /\ RepoRest /\ JwksInit /\ ProvisionRest /\ ConsoleRest
    \/ /\ part = "repositories" /\ RepoInit
       /\ KvRest /\ JwksInit /\ ProvisionRest /\ ConsoleRest
    \/ /\ part = "keys" /\ JwksInit
       /\ KvRest /\ RepoRest /\ ProvisionRest /\ ConsoleRest
    \/ /\ part = "provision" /\ ProvisionInit
       /\ KvRest /\ RepoRest /\ JwksInit /\ ConsoleRest
    \/ /\ part = "console" /\ ConsoleStart
       /\ KvRest /\ RepoRest /\ JwksInit /\ ProvisionRest

Stores ==
    /\ part = "stores" /\ KvNext
    /\ UNCHANGED <<part, repoVars, jwksVars, provisionVars, consoleVars>>

RepositoryCalls ==
    /\ part = "repositories" /\ RepoNext
    /\ UNCHANGED <<part, kvVars, jwksVars, provisionVars, consoleVars>>

Keys ==
    /\ part = "keys" /\ JwksNext
    /\ UNCHANGED <<part, kvVars, repoVars, provisionVars, consoleVars>>

Provisioning ==
    /\ part = "provision" /\ ProvisionNext
    /\ UNCHANGED <<part, kvVars, repoVars, jwksVars, consoleVars>>

Console ==
    /\ part = "console" /\ ConsoleNext
    /\ UNCHANGED <<part, kvVars, repoVars, jwksVars, provisionVars>>

MCNext ==
    Stores \/ RepositoryCalls \/ Keys \/ Provisioning \/ Console

MCSpec == MCInit /\ [][MCNext]_vars

=============================================================================
