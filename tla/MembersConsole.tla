--------------------------- MODULE MembersConsole ---------------------------
(***************************************************************************)
(* The members page of the service applications (packages/web-ui, features *)
(* /members): an administrator opens the permission editor of a member,    *)
(* changes effects and saves, changes roles, removes and invites, while    *)
(* answers are under way and another administrator writes to the same      *)
(* rows.  The API behind the page is reduced to the rows it keeps.         *)
(*                                                                         *)
(* A page has one permission editor.  React mounts it when `selected'      *)
(* becomes defined, and keeps the same instance, with its state, for as    *)
(* long as `selected' stays defined, whoever it is about.                  *)
(***************************************************************************)
EXTENDS Naturals, FiniteSets

CONSTANTS
    Colleagues,   \* the members listed, other than the administrator
    Abilities,    \* me.service.permissions
    Effects,      \* "inherit", and what an override may say
    LastVersion,  \* bound: how often a row is written
    MostTasks     \* bound: writes of one page under way at once

ASSUME ConsoleAssumption ==
    /\ Colleagues # {} /\ LastVersion \in Nat /\ MostTasks \in Nat
    /\ "inherit" \in Effects /\ Effects \subseteq {"inherit", "allow", "deny"}

Choices == [Abilities -> Effects]
AsTheRole == [a \in Abilities |-> "inherit"]
Tasks == {"save", "role", "remove", "invite"}
Nobody == "nobody"

VARIABLES
    onServer,   \* each member's row: present, overrides, and how often they were written
    loading,    \* loadMemberDetail of a member: "no", or the answer on its way
    selected,   \* the detail shown: [who, overrides, version], who = Nobody for none
    effects,    \* the state of the mounted editor
    doing,      \* writes under way: [task |-> who, list, ...] as sent
    pending,    \* useAction's flag
    chosen,     \* abilities changed by hand since the editor was mounted
    carried     \* the editor was mounted for another member, or another reading of this one

consoleVars == <<onServer, loading, selected, effects, doing, pending, chosen, carried>>

Row == [present : BOOLEAN, overrides : Choices, version : 0 .. LastVersion]
NoDetail == [who |-> Nobody, overrides |-> AsTheRole, version |-> 0]
NotSent == [who |-> Nobody, list |-> AsTheRole, version |-> 0, edits |-> {}, carried |-> FALSE,
            reply |-> "none"]
Free == [what |-> "no"]

ConsoleInit ==
    /\ onServer \in [Colleagues -> {row \in Row :
                        row.version = 0 /\ (row.present \/ row.overrides = AsTheRole)}]
    /\ loading = [m \in Colleagues |-> Free]
    /\ selected = NoDetail /\ effects = AsTheRole
    /\ doing = [t \in Tasks |-> NotSent]
    /\ pending = FALSE /\ chosen = {} /\ carried = FALSE

-----------------------------------------------------------------------------
(* Opening the editor.                                                      *)

\* open: the button of a row, and the row as the API reads it.  Nothing keeps a second
\* button from being pressed before the first answer is shown.
Open(m) ==
    /\ loading[m] = Free
    /\ loading' = [loading EXCEPT ![m] =
          IF onServer[m].present
          THEN [what |-> "detail", overrides |-> onServer[m].overrides,
                version |-> onServer[m].version]
          ELSE [what |-> "error"]]
    /\ UNCHANGED <<onServer, selected, effects, doing, pending, chosen, carried>>

\* The answer is about the member shown, and the row was not written since.
SameReading(m) == selected.who = m /\ selected.version = loading[m].version

\* Broken variant: an editor reopened after it was closed has its last state.
MountedWithLast(m) ==
    /\ UNCHANGED <<effects, chosen>>
    /\ carried' = (selected # NoDetail /\ (carried \/ ~SameReading(m)))

\* useState(initial): taken when the editor is mounted and not again.
Mounted(m) ==
    IF selected = NoDetail
    THEN /\ effects' = loading[m].overrides
         /\ chosen' = {} /\ carried' = FALSE
    ELSE /\ UNCHANGED <<effects, chosen>>
         /\ carried' = (carried \/ ~SameReading(m))

\* setSelected(await loadMemberDetail(userId)), in whatever order the answers come.
ShowDetail(m) ==
    /\ loading[m].what = "detail"
    /\ selected' = [who |-> m, overrides |-> loading[m].overrides, version |-> loading[m].version]
    /\ Mounted(m)
    /\ loading' = [loading EXCEPT ![m] = Free]
    /\ UNCHANGED <<onServer, doing, pending>>

ShowDetailError(m) ==
    /\ loading[m].what = "error"
    /\ loading' = [loading EXCEPT ![m] = Free]
    /\ UNCHANGED <<onServer, selected, effects, doing, pending, chosen, carried>>

\* onValueChange of an effect's Select.
Choose(a, e) ==
    /\ selected # NoDetail /\ effects[a] # e
    /\ effects' = [effects EXCEPT ![a] = e]
    /\ chosen' = chosen \union {a}
    /\ UNCHANGED <<onServer, loading, selected, doing, pending, carried>>

CloseEditor ==
    /\ selected # NoDetail
    /\ selected' = NoDetail /\ effects' = AsTheRole /\ chosen' = {} /\ carried' = FALSE
    /\ UNCHANGED <<onServer, loading, doing, pending>>

-----------------------------------------------------------------------------
(* Writing.  useAction.run sets pending, sends, waits for the answer and the *)
(* reload of the list, and clears pending.                                  *)

Send(task, request) ==
    /\ doing[task] = NotSent
    /\ Cardinality({t \in Tasks : doing[t] # NotSent}) < MostTasks
    /\ doing' = [doing EXCEPT ![task] = request]
    /\ pending' = TRUE

Request(m) == [NotSent EXCEPT !.who = m, !.reply = "awaited"]

\* onSave: every effect but "inherit" goes into the list, and the list replaces the row's.
Save ==
    /\ selected # NoDetail /\ ~pending
    /\ Send("save", [Request(selected.who) EXCEPT !.list = effects, !.version = selected.version,
                                                  !.edits = chosen, !.carried = carried])
    /\ UNCHANGED <<onServer, loading, selected, effects, chosen, carried>>

\* The Select of a role is not disabled while something is pending; the buttons are.
\* Which member it is about and when PATCH arrives make no difference here: it leaves the
\* overrides alone, and roles are left out.
ChangeMemberRole ==
    /\ Send("role", [NotSent EXCEPT !.reply = "ok"])
    /\ UNCHANGED <<onServer, loading, selected, effects, chosen, carried>>

RemoveColleague(m) ==
    /\ ~pending /\ Send("remove", Request(m))
    /\ UNCHANGED <<onServer, loading, selected, effects, chosen, carried>>

InviteMember(m) ==
    /\ ~pending /\ Send("invite", Request(m))
    /\ UNCHANGED <<onServer, loading, selected, effects, chosen, carried>>

Write(m, present, list) ==
    /\ onServer[m].version < LastVersion
    /\ onServer' = [onServer EXCEPT ![m] =
          [present |-> present, overrides |-> list, version |-> @.version + 1]]

\* Only a save's outcome makes a difference to the page beyond a message.
Reply(task, reply) ==
    doing' = [doing EXCEPT ![task] =
        IF task = "save" THEN [@ EXCEPT !.reply = reply] ELSE [NotSent EXCEPT !.reply = "ok"]]

\* PUT /v1/members/:id/permissions
SaveArrives ==
    /\ doing["save"].reply = "awaited"
    /\ LET m == doing["save"].who
       IN  \/ onServer[m].present /\ Write(m, TRUE, doing["save"].list) /\ Reply("save", "ok")
           \/ ~onServer[m].present /\ Reply("save", "error") /\ UNCHANGED onServer
    /\ UNCHANGED <<loading, selected, effects, pending, chosen, carried>>

\* DELETE takes the overrides along, POST starts without any.
OtherArrives(task) ==
    /\ doing[task].reply = "awaited"
    /\ \/ /\ task = "remove" /\ onServer[doing[task].who].present
          /\ Write(doing[task].who, FALSE, AsTheRole)
       \/ /\ task = "invite" /\ ~onServer[doing[task].who].present
          /\ Write(doing[task].who, TRUE, AsTheRole)
    /\ Reply(task, "ok")
    /\ UNCHANGED <<loading, selected, effects, pending, chosen, carried>>

\* A request is refused or its connection fails.
RequestFails(task) ==
    /\ doing[task].reply = "awaited"
    /\ Reply(task, "error")
    /\ UNCHANGED <<onServer, loading, selected, effects, pending, chosen, carried>>

\* run returns: pending is cleared whatever else is under way, and a save that went well
\* closes the editor, whoever it shows by then.
Finish(task) ==
    /\ doing[task].reply \in {"ok", "error"}
    /\ pending' = FALSE
    /\ doing' = [doing EXCEPT ![task] = NotSent]
    /\ IF task = "save" /\ doing[task].reply = "ok"
       THEN selected' = NoDetail /\ effects' = AsTheRole /\ chosen' = {} /\ carried' = FALSE
       ELSE UNCHANGED <<selected, effects, chosen, carried>>
    /\ UNCHANGED <<onServer, loading>>

\* send: a 401 to any request sends the browser to the login; whatever the page held is gone.
RedirectToLogin ==
    /\ loading' = [m \in Colleagues |-> Free]
    /\ selected' = NoDetail /\ effects' = AsTheRole
    /\ doing' = [t \in Tasks |-> NotSent]
    /\ pending' = FALSE /\ chosen' = {} /\ carried' = FALSE
    /\ UNCHANGED onServer

\* Another administrator, on another page.
SomebodyElseSaves(m, list) ==
    /\ onServer[m].present /\ Write(m, TRUE, list)
    /\ UNCHANGED <<loading, selected, effects, doing, pending, chosen, carried>>

ConsoleNext ==
    \/ \E m \in Colleagues :
          \/ Open(m) \/ ShowDetail(m) \/ ShowDetailError(m)
          \/ RemoveColleague(m) \/ InviteMember(m)
          \/ \E list \in Choices : SomebodyElseSaves(m, list)
    \/ \E a \in Abilities, e \in Effects : Choose(a, e)
    \/ CloseEditor \/ ChangeMemberRole \/ Save \/ SaveArrives \/ RedirectToLogin
    \/ \E task \in Tasks : OtherArrives(task) \/ RequestFails(task) \/ Finish(task)

ConsoleSpec == ConsoleInit /\ [][ConsoleNext]_consoleVars

-----------------------------------------------------------------------------
\* Saving changes what the administrator chose and nothing else: when the list of a save
\* reaches the row it was opened from, every ability not changed by hand keeps its effect.
\* It holds unless the row was written since it was loaded (the whole list is sent, so the
\* other change is lost), or `selected' has moved on since the editor was mounted, because
\* the editor has no key: it then shows this member's name over the effects of another
\* member, or of this one before somebody else changed them, and saves those.
SaveTouchesOnlyEdits ==
    [][\A m \in Colleagues :
          LET sent == doing["save"]
          IN  (/\ sent.reply = "awaited" /\ doing'["save"].reply = "ok" /\ sent.who = m
               /\ sent.version = onServer[m].version /\ ~sent.carried) =>
                  \A a \in Abilities \ sent.edits :
                      onServer'[m].overrides[a] = onServer[m].overrides[a]]_consoleVars

=============================================================================
