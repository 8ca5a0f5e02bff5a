--------------------------- MODULE MCResourceApi ----------------------------
(***************************************************************************)
(* Instances of ResourceApi for TLC: the CRM with two of its roles, two    *)
(* owners, and a person who is yet to be invited or whose row is disabled. *)
(***************************************************************************)
EXTENDS ResourceApi, TLC

CONSTANTS alice, bob, carol

MCRolePermissions == [owner |-> Permissions, viewer |-> {}]

MCNeeds == [k \in Kinds |->
    CASE k = "me" -> "none"
      [] k = "invite" -> "members:invite"
      [] k \in {"role", "overrides", "remove"} -> "members:manage"
      [] k = "create" -> "end_users:create"
      [] k = "update" -> "end_users:update"
      [] k = "delete" -> "end_users:delete"]

MCDeny == {<<"members:manage", "deny">>}

MCLists == {{}, MCDeny, {<<"end_users:update", "allow">>}}

MCRow(role, active) == [role |-> role, active |-> active]

\* Two owners; or an owner, one without its strongest permission and a disabled viewer.
MCStarts == {
    [rows  |-> (alice :> MCRow("owner", TRUE)) @@ (bob :> MCRow("owner", TRUE)) @@ (carol :> Absent),
     lists |-> [u \in User |-> {}]],
    [rows  |-> (alice :> MCRow("owner", TRUE)) @@ (bob :> MCRow("owner", TRUE))
               @@ (carol :> MCRow("viewer", FALSE)),
     lists |-> [u \in User |-> IF u = bob THEN MCDeny ELSE {}]]}

MCSymmetry == Permutations(Req)
=============================================================================
