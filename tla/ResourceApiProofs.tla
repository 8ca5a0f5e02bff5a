------------------------- MODULE ResourceApiProofs -------------------------
(***************************************************************************)
(* The properties of ResourceApi, for any number of requests, members,     *)
(* roles, permissions and records.                                         *)
(***************************************************************************)
EXTENDS ResourceApi, TLAPS

-----------------------------------------------------------------------------
(* The inductive invariant *)

\* The endpoint a point of a handler belongs to.
KindsAt(point) ==
    CASE point \in {"authInvite", "upsertInvited"} -> {"invite"}
      [] point = "findTarget" -> {"role", "overrides", "remove"}
      [] point = "upsertRole" -> {"role"}
      [] point \in {"deleteOverrides", "insertOverrides"} -> {"overrides"}
      [] point \in {"authRevoke", "remove"} -> {"remove"}
      [] point = "create" -> {"create"}
      [] point = "update" -> {"update"}
      [] point = "delete" -> {"delete"}
      [] OTHER -> Kinds

\* The locals of a request fit its endpoint and the point it has reached.
Fits(c) ==
    /\ c.pc # "idle" => c.kind \in Kinds /\ c.kind \in KindsAt(c.pc) /\ c.actor \in User
    /\ c.kind \in {"invite", "role", "overrides", "remove"} => c.target \in User
    /\ c.kind \in {"invite", "role"} => c.role \in Roles
    /\ c.kind = "overrides" => c.list \in Lists
    /\ c.kind \in {"create", "update", "delete"} => c.record \in Record
    /\ c.pc \in {"findOverrides", "upsertRole"} => c.row \in Rows

CallsInv == \A r \in Req : Fits(call[r])

\* A person about to get a default row has none, or somebody wrote it meanwhile.
Unread(r) ==
    call[r].pc = "createDefault" /\ <<"row", call[r].actor>> \notin overlapped =>
        members[call[r].actor] = Absent

\* A replacement of overrides has seen all there are, unless another overlapped it.
Replacing(r) ==
    call[r].pc = "insertOverrides" /\ <<"list", call[r].target>> \notin overlapped =>
        overrides[call[r].target] \subseteq call[r].seen

\* Between its two queries a request knows the row as it is, or the overrides as they
\* were when it read the row; held says whether the two together ever sufficed.
HeldOf(r) ==
    LET c == call[r] IN
    c.pc = "findOverrides" =>
        /\ "row" \notin c.changed => members[c.actor] = c.row
        /\ May(c.actor, c.kind, members, overrides) => c.held
        /\ "list" \notin c.changed /\ c.row.active
               /\ Permits(c.kind, c.row.role, overrides[c.actor]) => c.held

ReadingInv == \A r \in Req : Unread(r) /\ Replacing(r) /\ HeldOf(r)

\* The authorization server knows u, or it is known why it may not.
Backed(u) ==
    \/ u \in assigned
    \/ <<"servers", u>> \in overlapped
    \/ \E r \in Req : call[r].pc = "remove" /\ call[r].target = u

\* Whoever has a row, or is about to have one written by an administrator, is backed.
BackedInv == \A u \in User :
    \/ members[u] # Absent
    \/ \E r \in Req : call[r].pc \in {"upsertInvited", "upsertRole"} /\ call[r].target = u
    => Backed(u)

IInv ==
    /\ TypeOK /\ CallsInv /\ ReadingInv /\ BackedInv
    /\ RolesAreMeant /\ OverridesAreReplaced /\ GrantsWereHeld

-----------------------------------------------------------------------------
(* Requests and their locals *)

USE DEF tables, server, history, At, Go, Well, Fault, Continue, Finish

LEMMA Constants ==
  /\ DefaultRole \in Roles /\ NoRole \notin Roles /\ NoUser \notin User /\ NoRecord \notin Record
  /\ Absent \notin Rows /\ MaxCalls \in Nat /\ MaxFaults \in Nat
  /\ RolePermissions \in [Roles -> SUBSET Permissions]
  /\ \A l \in Lists : l \subseteq Permissions \X Effects
  /\ \A l \in Lists : \A o, p \in l : o[1] = p[1] => o = p
  /\ Kinds \subseteq {"me", "invite", "role", "overrides", "remove", "create", "update", "delete"}
  BY ResourceAssumption DEF Rows

\* An idle slot asks for nothing.
LEMMA IdleFits == Idle \in Calls /\ Fits(Idle) /\ Idle.pc = "idle"
  BY Constants DEF Idle, Calls, Points, Fits

\* What a request is at a point of its handler.
LEMMA CallFacts ==
  ASSUME TypeOK, CallsInv, NEW r \in Req
  PROVE  /\ call[r] \in Calls /\ Fits(call[r])
         /\ call[r].pc # "idle" => call[r].kind \in Kinds /\ call[r].actor \in User
         /\ call[r].pc \in {"authInvite", "upsertInvited"} =>
                call[r].kind = "invite" /\ call[r].target \in User /\ call[r].role \in Roles
         /\ call[r].pc = "findTarget" =>
                call[r].kind \in {"role", "overrides", "remove"} /\ call[r].target \in User
         /\ call[r].pc = "upsertRole" =>
                /\ call[r].kind = "role" /\ call[r].target \in User /\ call[r].role \in Roles
                /\ call[r].row \in Rows
         /\ call[r].pc \in {"deleteOverrides", "insertOverrides"} =>
                call[r].kind = "overrides" /\ call[r].target \in User /\ call[r].list \in Lists
         /\ call[r].pc \in {"authRevoke", "remove"} =>
                call[r].kind = "remove" /\ call[r].target \in User
         /\ call[r].pc \in {"create", "update", "delete"} => call[r].record \in Record
  BY DEF TypeOK, CallsInv, Fits, KindsAt

\* A slot that takes no part in a step, but for what its history notes.
KeepsCall(q) ==
    /\ call'[q].pc = call[q].pc /\ call'[q].kind = call[q].kind
    /\ call'[q].actor = call[q].actor /\ call'[q].target = call[q].target
    /\ call'[q].role = call[q].role /\ call'[q].list = call[q].list
    /\ call'[q].record = call[q].record /\ call'[q].row = call[q].row
    /\ call[q].pc # "findOverrides" =>
           call'[q].changed = call[q].changed /\ call'[q].held = call[q].held

Others(r) == \A q \in Req \ {r} : call'[q] \in Calls /\ KeepsCall(q)

\* Nobody is forgotten of whom the authorization server knows, or may not know.
StaysBacked == \A u \in User : Backed(u) => Backed(u)'

\* What the invariant asks of one request by itself.
GrantHeld(r) ==
    \/ call[r].pc \in {"idle", "find", "findOverrides", "createDefault"}
    \/ call[r].held \/ call[r].changed = {"row", "list"}

SelfOK(r) == Fits(call[r]) /\ Unread(r) /\ Replacing(r) /\ HeldOf(r) /\ GrantHeld(r)

\* The parts that look at one request at a time, when only r moves.
LEMMA CallsKept ==
  ASSUME CallsInv, GrantsWereHeld, NEW r \in Req, Others(r), Fits(call[r])', GrantHeld(r)'
  PROVE  CallsInv' /\ GrantsWereHeld'
<1>1. ASSUME NEW q \in Req \ {r} PROVE Fits(call[q])' /\ GrantHeld(q)'
  <2>1. Fits(call[q]) /\ GrantHeld(q) /\ KeepsCall(q)
    BY DEF CallsInv, GrantsWereHeld, GrantHeld, Others
  <2> QED
    BY <2>1 DEF KeepsCall, Fits, GrantHeld
<1> QED
  BY <1>1 DEF CallsInv, GrantsWereHeld, GrantHeld

LEMMA BackedKept ==
  ASSUME BackedInv, NEW r \in Req, Others(r), StaysBacked,
         \A u \in User : call'[r].pc \in {"upsertInvited", "upsertRole"} /\ call'[r].target = u =>
                             Backed(u)',
         \A u \in User : members'[u] # Absent => members[u] # Absent \/ Backed(u)'
  PROVE  BackedInv'
<1> SUFFICES ASSUME NEW u \in User,
                    \/ members'[u] # Absent
                    \/ \E q \in Req : call'[q].pc \in {"upsertInvited", "upsertRole"} /\ call'[q].target = u
             PROVE  Backed(u)'
  BY DEF BackedInv
<1>1. CASE members'[u] # Absent
  BY <1>1 DEF BackedInv, StaysBacked
<1>2. ASSUME NEW q \in Req, call'[q].pc \in {"upsertInvited", "upsertRole"}, call'[q].target = u
      PROVE  Backed(u)'
  <2>1. CASE q = r
    BY <1>2, <2>1
  <2>2. CASE q # r
    BY <1>2, <2>2 DEF Others, KeepsCall, BackedInv, StaysBacked
  <2> QED BY <2>1, <2>2
<1> QED
  BY <1>1, <1>2

\* The counters, the records and what the authorization server keeps.
RestTyped ==
    /\ records \in [Record -> {"none", "live", "deleted"}]
    /\ assigned \subseteq User /\ tokens \subseteq User
    /\ left \in 0 .. MaxCalls /\ faults \in 0 .. MaxFaults
    /\ overlapped \subseteq {"row", "list", "servers"} \X User

\* A step of r that writes neither members nor overrides.
LEMMA ReadingStep ==
  ASSUME IInv, NEW r \in Req, NEW c \in Calls, call' = [call EXCEPT ![r] = c],
         UNCHANGED <<members, overrides, meant, sent>>, overlapped \subseteq overlapped',
         RestTyped', SelfOK(r)', StaysBacked,
         \A u \in User : c.pc \in {"upsertInvited", "upsertRole"} /\ c.target = u => Backed(u)'
  PROVE  IInv'
<1>1. TypeOK' /\ call'[r] = c /\ \A q \in Req \ {r} : call'[q] = call[q]
  BY DEF IInv, TypeOK, RestTyped
<1>2. Others(r)
  BY <1>1 DEF Others, KeepsCall, IInv, TypeOK
<1>3. CallsInv' /\ GrantsWereHeld'
  BY <1>2, CallsKept DEF IInv, SelfOK
<1>4. BackedInv'
  BY <1>1, <1>2, BackedKept DEF IInv
<1>5. ASSUME NEW q \in Req \ {r} PROVE Unread(q)' /\ Replacing(q)' /\ HeldOf(q)'
  BY <1>1 DEF IInv, ReadingInv, Unread, Replacing, HeldOf
<1>6. ReadingInv'
  BY <1>5 DEF ReadingInv, SelfOK
<1>7. RolesAreMeant' /\ OverridesAreReplaced'
  BY DEF IInv, RolesAreMeant, OverridesAreReplaced
<1> QED
  BY <1>1, <1>3, <1>4, <1>6, <1>7 DEF IInv

-----------------------------------------------------------------------------
(* Steps that write neither members nor overrides *)

LEMMA ServersKept ==
  ASSUME IInv, NEW r \in Req, NEW c, call' = [call EXCEPT ![r] = c], call[r].pc # "remove",
         assigned \subseteq assigned', overlapped \subseteq overlapped'
  PROVE  StaysBacked
  BY DEF IInv, TypeOK, StaysBacked, Backed

LEMMA IdleSelf == ASSUME NEW r \in Req, call'[r] = Idle PROVE SelfOK(r)'
  BY IdleFits DEF SelfOK, Unread, Replacing, HeldOf, GrantHeld

\* A request that ends without having written to the tables.
LEMMA EndStep ==
  ASSUME IInv, NEW r \in Req, call' = [call EXCEPT ![r] = Idle], left' = left,
         UNCHANGED <<members, overrides, meant, sent>>, overlapped \subseteq overlapped',
         RestTyped', StaysBacked
  PROVE  IInv'
<1>1. SelfOK(r)'
  BY IdleSelf DEF IInv, TypeOK
<1> QED
  BY <1>1, IdleFits, ReadingStep

\* A request that has just arrived is a call.
LEMMA ArrivedTyped ==
  ASSUME NEW kind \in Kinds, NEW actor \in User, NEW target \in User \cup {NoUser},
         NEW role \in Roles \cup {NoRole}, NEW list \in SUBSET (Permissions \X Effects),
         NEW record \in Record \cup {NoRecord}
  PROVE  [pc |-> "find", kind |-> kind, actor |-> actor, target |-> target, role |-> role,
          list |-> list, record |-> record, row |-> Absent, seen |-> {}, changed |-> {},
          held |-> FALSE] \in Calls
  BY DEF Calls, Points

\* The requests that arrive have the locals their endpoint needs.
LEMMA RequestFacts ==
  ASSUME NEW w \in MemberRequests \cup RecordRequests, w.kind \in Kinds, NEW u \in User,
         NEW c, c = [Idle EXCEPT !.pc = "find", !.kind = w.kind, !.actor = u,
                         !.target = w.target, !.role = w.role, !.list = w.list, !.record = w.record]
  PROVE  c \in Calls /\ Fits(c) /\ c.pc = "find"
<1>1. c = [pc |-> "find", kind |-> w.kind, actor |-> u, target |-> w.target, role |-> w.role,
           list |-> w.list, record |-> w.record, row |-> Absent, seen |-> {}, changed |-> {},
           held |-> FALSE]
  BY DEF Idle
<1>2. /\ w.target \in User \cup {NoUser} /\ w.role \in Roles \cup {NoRole}
      /\ w.list \in Lists \cup {{}} /\ w.record \in Record \cup {NoRecord}
      /\ w.kind \in {"invite", "role", "overrides", "remove"} => w.target \in User
      /\ w.kind \in {"invite", "role"} => w.role \in Roles
      /\ w.kind = "overrides" => w.list \in Lists
      /\ w.kind \in {"create", "update", "delete"} => w.record \in Record
  BY DEF MemberRequests, RecordRequests
<1>3. c \in Calls
  <2>1. w.list \in SUBSET (Permissions \X Effects)
    BY <1>2, Constants
  <2>2. [pc |-> "find", kind |-> w.kind, actor |-> u, target |-> w.target, role |-> w.role,
         list |-> w.list, record |-> w.record, row |-> Absent, seen |-> {}, changed |-> {},
         held |-> FALSE] \in Calls
    BY <1>2, <2>1, ArrivedTyped, Zenon
  <2> QED BY <1>1, <2>2, Zenon
<1>4. Fits(c)
  BY <1>1, <1>2, Constants DEF Fits, KindsAt
<1> QED
  BY <1>1, <1>3, <1>4

LEMMA ArriveStep == ASSUME IInv, NEW r \in Req, Arrive(r) PROVE IInv'
<1>1. PICK u \in tokens, w \in {v \in MemberRequests \cup RecordRequests : v.kind \in Kinds} :
          /\ call[r] = Idle /\ left > 0 /\ left' = left - 1
          /\ call' = [call EXCEPT ![r] = [Idle EXCEPT !.pc = "find", !.kind = w.kind, !.actor = u,
                          !.target = w.target, !.role = w.role, !.list = w.list, !.record = w.record]]
          /\ faults' = faults
          /\ UNCHANGED <<members, overrides, records, assigned, tokens, meant, sent, overlapped>>
  BY DEF Arrive, Verified
<1>2. PICK c : c = [Idle EXCEPT !.pc = "find", !.kind = w.kind, !.actor = u,
                        !.target = w.target, !.role = w.role, !.list = w.list, !.record = w.record]
  OBVIOUS
<1>3. c \in Calls /\ Fits(c) /\ c.pc = "find" /\ call' = [call EXCEPT ![r] = c] /\ call'[r] = c
  BY <1>1, <1>2, RequestFacts DEF IInv, TypeOK
<1>4. RestTyped'
  BY <1>1, Constants DEF IInv, TypeOK, RestTyped
<1>5. SelfOK(r)'
  BY <1>3 DEF SelfOK, Unread, Replacing, HeldOf, GrantHeld
<1>6. StaysBacked
  BY <1>1, <1>3, IdleFits, ServersKept
<1> QED
  BY <1>1, <1>3, <1>4, <1>5, <1>6, ReadingStep

\* findWithOverrides, first query.
LEMMA FindMemberStep == ASSUME IInv, NEW r \in Req, FindMember(r) PROVE IInv'
<1>1. PICK u \in User : u = call[r].actor
  BY CallFacts DEF IInv, FindMember
<1>2. PICK c : c = IF members[u] = Absent
                   THEN [call[r] EXCEPT !.pc = "createDefault"]
                   ELSE [call[r] EXCEPT !.pc = "findOverrides", !.row = members[u],
                             !.held = May(u, call[r].kind, members, overrides)]
  OBVIOUS
<1>3. /\ call[r].pc = "find" /\ call' = [call EXCEPT ![r] = c] /\ left' = left /\ faults' = faults
      /\ UNCHANGED <<members, overrides, records, assigned, tokens, meant, sent, overlapped>>
  BY <1>1, <1>2 DEF FindMember
<1>4. call[r] \in Calls /\ Fits(call[r]) /\ members[u] \in Rows \cup {Absent}
  BY CallFacts DEF IInv, TypeOK
<1>5. May(u, call[r].kind, members, overrides) \in BOOLEAN
  BY DEF May
<1>6. c \in Calls /\ Fits(c) /\ call'[r] = c /\ c.pc \in {"createDefault", "findOverrides"}
  <2>1. call'[r] = c
    BY <1>3 DEF IInv, TypeOK
  <2>2. CASE members[u] = Absent
    BY <1>2, <1>3, <1>4, <2>1, <2>2 DEF Calls, Points, Fits, KindsAt
  <2>3. CASE members[u] # Absent
    <3>1. c \in Calls
      <4>1. c = [call[r] EXCEPT !.pc = "findOverrides", !.row = members[u],
                     !.held = May(u, call[r].kind, members, overrides)]
        BY <1>2, <2>3
      <4>2. "findOverrides" \in Points
        BY DEF Points
      <4> HIDE DEF May
      <4> QED BY <1>4, <1>5, <4>1, <4>2 DEF Calls
    <3>2. Fits(c) /\ c.pc = "findOverrides"
      BY <1>2, <1>3, <1>4, <1>5, <2>3 DEF Calls, Fits, KindsAt
    <3> QED BY <2>1, <3>1, <3>2
  <2> QED BY <2>2, <2>3
<1>7. RestTyped'
  BY <1>3 DEF IInv, TypeOK, RestTyped
<1>8. SelfOK(r)'
  <2>1. Unread(r)' /\ Replacing(r)' /\ GrantHeld(r)'
    BY <1>1, <1>2, <1>3, <1>4, <1>6 DEF Unread, Replacing, GrantHeld, Calls
  <2>2. HeldOf(r)'
    <3>1. CASE members[u] = Absent
      BY <1>2, <1>4, <1>6, <3>1 DEF HeldOf, Calls
    <3>2. CASE members[u] # Absent
      <4>1. /\ c.pc = "findOverrides" /\ c.row = members[u] /\ c.actor = u /\ c.kind = call[r].kind
            /\ c.held = May(u, call[r].kind, members, overrides)
        BY <1>1, <1>2, <1>4, <3>2 DEF Calls
      <4> QED
        BY <1>3, <1>6, <3>2, <4>1 DEF HeldOf, May
    <3> QED BY <3>1, <3>2
  <2> QED BY <1>6, <2>1, <2>2 DEF SelfOK
<1>9. StaysBacked
  BY <1>3, ServersKept
<1> QED
  BY <1>3, <1>6, <1>7, <1>8, <1>9, ReadingStep

\* Where a request stands once its member is resolved.
LEMMA StartFacts ==
  ASSUME NEW c \in Calls, Fits(c), c.pc # "idle", NEW row \in Rows, NEW list, NEW d,
         d = Start(c, row, list)
  PROVE  /\ d \in Calls /\ Fits(d)
         /\ d.pc \in {"idle", "authInvite", "findTarget", "create", "update", "delete"}
         /\ d.pc # "idle" => /\ row.active /\ Permits(c.kind, row.role, list)
                             /\ d.held = c.held /\ d.changed = c.changed
<1>1. CASE d = Idle
  BY <1>1, IdleFits
<1>2. CASE d # Idle
  <2>1. /\ row.active /\ Permits(c.kind, row.role, list) /\ c.kind # "me"
        /\ d = [c EXCEPT !.pc = First(c.kind), !.row = Absent]
    BY <1>2 DEF Start
  <2>2. c.kind \in {"invite", "role", "overrides", "remove", "create", "update", "delete"}
    BY <2>1, Constants DEF Fits
  <2>3. PICK p : p = First(c.kind)
    OBVIOUS
  <2>4. /\ p \in {"authInvite", "findTarget", "create", "update", "delete"}
        /\ c.kind \in KindsAt(p)
    BY <2>2, <2>3 DEF First, KindsAt
  <2>5. d = [c EXCEPT !.pc = p, !.row = Absent]
    BY <2>1, <2>3
  <2>6. /\ d.pc = p /\ d.kind = c.kind /\ d.actor = c.actor /\ d.target = c.target
        /\ d.role = c.role /\ d.list = c.list /\ d.record = c.record
        /\ d.held = c.held /\ d.changed = c.changed
    BY <2>5 DEF Calls
  <2>7. d \in Calls
    BY <2>4, <2>5 DEF Calls, Points
  <2>8. Fits(d)
    BY <2>4, <2>6 DEF Fits
  <2> QED
    BY <2>1, <2>4, <2>6, <2>7, <2>8
<1> QED
  BY <1>1, <1>2

\* findWithOverrides, second query, and the permission check.
LEMMA FindOverridesStep == ASSUME IInv, NEW r \in Req, FindOverrides(r) PROVE IInv'
<1>1. PICK c : c = call[r]
  OBVIOUS
<1>2. c \in Calls /\ Fits(c) /\ c.pc = "findOverrides" /\ c.row \in Rows /\ c.actor \in User
  BY <1>1, CallFacts DEF IInv, FindOverrides, Fits
<1>3. PICK d : d = Start(c, c.row, overrides[c.actor])
  OBVIOUS
<1>4. /\ call' = [call EXCEPT ![r] = d] /\ left' = left /\ faults' = faults
      /\ UNCHANGED <<members, overrides, records, assigned, tokens, meant, sent, overlapped>>
  BY <1>1, <1>3 DEF FindOverrides
<1>5. /\ d \in Calls /\ Fits(d)
      /\ d.pc \in {"idle", "authInvite", "findTarget", "create", "update", "delete"}
      /\ d.pc # "idle" => /\ c.row.active /\ Permits(c.kind, c.row.role, overrides[c.actor])
                          /\ d.held = c.held /\ d.changed = c.changed
  BY <1>2, <1>3, StartFacts
<1>6. call'[r] = d
  BY <1>4 DEF IInv, TypeOK
<1>7. RestTyped'
  BY <1>4 DEF IInv, TypeOK, RestTyped
<1>8. GrantHeld(r)'
  <2>1. CASE d.pc = "idle"
    BY <1>6, <2>1 DEF GrantHeld
  <2>2. CASE d.pc # "idle"
    <3>1. /\ "row" \notin c.changed => members[c.actor] = c.row
          /\ May(c.actor, c.kind, members, overrides) => c.held
          /\ "list" \notin c.changed /\ c.row.active
                 /\ Permits(c.kind, c.row.role, overrides[c.actor]) => c.held
      BY <1>1, <1>2 DEF IInv, ReadingInv, HeldOf
    <3>2. c.changed \subseteq {"row", "list"} /\ c.row # Absent
      BY <1>2, Constants DEF Calls
    <3>3. CASE "list" \notin c.changed
      BY <1>5, <1>6, <2>2, <3>1, <3>3 DEF GrantHeld
    <3>4. CASE "row" \notin c.changed
      BY <1>5, <1>6, <2>2, <3>1, <3>2, <3>4 DEF GrantHeld, May
    <3>5. CASE c.changed = {"row", "list"}
      BY <1>5, <1>6, <2>2, <3>5 DEF GrantHeld
    <3> QED BY <3>2, <3>3, <3>4, <3>5
  <2> QED BY <2>1, <2>2
<1>9. SelfOK(r)'
  BY <1>5, <1>6, <1>8 DEF SelfOK, Unread, Replacing, HeldOf
<1>10. StaysBacked
  BY <1>1, <1>2, <1>4, ServersKept
<1> QED
  BY <1>4, <1>5, <1>6, <1>7, <1>9, <1>10, ReadingStep


\* A request past its permission check goes on.
LEMMA SelfMoved ==
  ASSUME IInv, NEW r \in Req, NEW c \in Calls, call'[r] = c, Fits(c),
         call[r].pc \notin {"idle", "find", "findOverrides", "createDefault"},
         c.held = call[r].held, c.changed = call[r].changed,
         c.pc \notin {"createDefault", "findOverrides"}, Replacing(r)'
  PROVE  SelfOK(r)'
<1>1. GrantHeld(r)'
  BY DEF IInv, GrantsWereHeld, GrantHeld
<1> QED
  BY <1>1 DEF SelfOK, Unread, HeldOf

\* inviteMember, the call of the management API.
LEMMA AuthAdminInviteStep == ASSUME IInv, NEW r \in Req, AuthAdminInvite(r) PROVE IInv'
<1>1. PICK t \in User : t = call[r].target
  BY CallFacts DEF IInv, AuthAdminInvite
<1>2. /\ call[r].pc = "authInvite" /\ left' = left
      /\ UNCHANGED <<members, overrides, records, meant, sent, overlapped>>
      /\ assigned' \in {assigned, assigned \cup {t}} /\ tokens' \in {tokens, tokens \cup {t}}
      /\ faults' = faults \/ (faults > 0 /\ faults' = faults - 1)
  BY <1>1 DEF AuthAdminInvite
<1>3. RestTyped'
  BY <1>2, Constants DEF IInv, TypeOK, RestTyped
<1>4. CASE call' = [call EXCEPT ![r] = Idle]
  <2>1. StaysBacked
    BY <1>2, <1>4, ServersKept
  <2> QED
    BY <1>2, <1>3, <1>4, <2>1, EndStep
<1>5. CASE call' = [call EXCEPT ![r] = [call[r] EXCEPT !.pc = "upsertInvited"]] /\ t \in assigned'
  <2>1. PICK c : c = [call[r] EXCEPT !.pc = "upsertInvited"]
    OBVIOUS
  <2>2. call[r] \in Calls /\ Fits(call[r])
    BY CallFacts DEF IInv
  <2>3. /\ c.pc = "upsertInvited" /\ c.target = t /\ c.held = call[r].held
        /\ c.changed = call[r].changed /\ c \in Calls
    BY <1>1, <2>1, <2>2 DEF Calls, Points
  <2>4. Fits(c)
    BY <1>2, <2>1, <2>2 DEF Fits, KindsAt, Calls
  <2>5. call' = [call EXCEPT ![r] = c] /\ call'[r] = c
    BY <1>5, <2>1 DEF IInv, TypeOK
  <2>6. SelfOK(r)'
    <3>1. Replacing(r)'
      BY <2>3, <2>5 DEF Replacing
    <3> QED BY <1>2, <2>3, <2>4, <2>5, <3>1, SelfMoved
  <2>7. StaysBacked
    BY <1>2, <2>5, ServersKept
  <2>8. Backed(t)'
    BY <1>5 DEF Backed
  <2> QED
    BY <1>2, <1>3, <2>3, <2>5, <2>6, <2>7, <2>8, ReadingStep
<1> QED
  BY <1>1, <1>4, <1>5 DEF AuthAdminInvite

\* changeMemberRole, replaceMemberOverrides and removeMember look the member up.
LEMMA FindTargetStep == ASSUME IInv, NEW r \in Req, FindTarget(r) PROVE IInv'
<1>1. PICK t \in User : t = call[r].target
  BY CallFacts DEF IInv, FindTarget
<1>2. /\ call[r].pc = "findTarget" /\ left' = left /\ faults' = faults
      /\ UNCHANGED <<members, overrides, records, assigned, tokens, meant, sent, overlapped>>
  BY DEF FindTarget
<1>3. RestTyped'
  BY <1>2 DEF IInv, TypeOK, RestTyped
<1>4. CASE call' = [call EXCEPT ![r] = Idle]
  <2>1. StaysBacked
    BY <1>2, <1>4, ServersKept
  <2> QED
    BY <1>2, <1>3, <1>4, <2>1, EndStep
<1>5. CASE call' = [call EXCEPT ![r] = Found(call[r])] /\ members[t] # Absent
  <2>1. PICK c : c = Found(call[r])
    OBVIOUS
  <2>2. /\ call[r] \in Calls /\ Fits(call[r]) /\ members[t] \in Rows
        /\ call[r].kind \in {"role", "overrides", "remove"}
    BY <1>2, <1>5, CallFacts DEF IInv, TypeOK
  <2>3. call' = [call EXCEPT ![r] = c] /\ call'[r] = c
    BY <1>5, <2>1 DEF IInv, TypeOK
  <2>4. /\ c \in Calls /\ Fits(c) /\ c.target = t /\ c.held = call[r].held
        /\ c.changed = call[r].changed /\ c.pc \in {"upsertRole", "deleteOverrides", "authRevoke"}
    <3>1. CASE call[r].kind = "role"
      <4>1. c = [call[r] EXCEPT !.pc = "upsertRole", !.row = members[t]]
        BY <1>1, <2>1, <3>1 DEF Found
      <4>2. c \in Calls
        BY <2>2, <4>1 DEF Calls, Points
      <4>3. /\ c.pc = "upsertRole" /\ c.row = members[t] /\ c.kind = call[r].kind
            /\ c.actor = call[r].actor /\ c.target = t /\ c.role = call[r].role
            /\ c.list = call[r].list /\ c.record = call[r].record /\ c.held = call[r].held
            /\ c.changed = call[r].changed
        BY <1>1, <2>2, <4>1 DEF Calls
      <4>4. Fits(c)
        BY <1>1, <1>2, <2>2, <3>1, <4>3 DEF Fits, KindsAt
      <4> QED BY <4>2, <4>3, <4>4
    <3>2. CASE call[r].kind = "overrides"
      <4>1. c = [call[r] EXCEPT !.pc = "deleteOverrides"]
        BY <2>1, <3>2 DEF Found
      <4>2. Fits(c)
        BY <1>2, <2>2, <3>2, <4>1 DEF Fits, KindsAt, Calls
      <4> QED BY <1>1, <2>2, <4>1, <4>2 DEF Calls, Points
    <3>3. CASE call[r].kind = "remove"
      <4>1. c = [call[r] EXCEPT !.pc = "authRevoke"]
        BY <2>1, <3>3 DEF Found
      <4>2. Fits(c)
        BY <1>2, <2>2, <3>3, <4>1 DEF Fits, KindsAt, Calls
      <4> QED BY <1>1, <2>2, <4>1, <4>2 DEF Calls, Points
    <3> QED BY <2>2, <3>1, <3>2, <3>3
  <2>5. SelfOK(r)'
    <3>1. Replacing(r)'
      BY <2>3, <2>4 DEF Replacing
    <3> QED BY <1>2, <2>3, <2>4, <3>1, SelfMoved
  <2>6. StaysBacked
    BY <1>2, <2>3, ServersKept
  <2>7. Backed(t)'
    BY <1>5, <2>6 DEF IInv, BackedInv, StaysBacked
  <2> QED
    BY <1>2, <1>3, <2>3, <2>4, <2>5, <2>6, <2>7, ReadingStep
<1> QED
  BY <1>1, <1>4, <1>5 DEF FindTarget

\* replaceOverrides, the DELETE.
LEMMA DeleteOverridesStep == ASSUME IInv, NEW r \in Req, DeleteOverrides(r) PROVE IInv'
<1>1. PICK t \in User : t = call[r].target
  BY CallFacts DEF IInv, DeleteOverrides
<1>2. PICK c : c = [call[r] EXCEPT !.pc = "insertOverrides", !.seen = overrides[t]]
  OBVIOUS
<1>3. /\ call[r].pc = "deleteOverrides" /\ call' = [call EXCEPT ![r] = c] /\ left' = left
      /\ faults' = faults
      /\ UNCHANGED <<members, overrides, records, assigned, tokens, meant, sent, overlapped>>
  BY <1>1, <1>2 DEF DeleteOverrides
<1>4. /\ call[r] \in Calls /\ Fits(call[r]) /\ call'[r] = c
      /\ overrides[t] \in SUBSET (Permissions \X Effects)
  BY <1>3, CallFacts DEF IInv, TypeOK
<1>5. /\ c \in Calls /\ c.pc = "insertOverrides" /\ c.target = t /\ c.seen = overrides[t]
      /\ c.held = call[r].held /\ c.changed = call[r].changed
  <2>1. c \in Calls
    <3>1. "insertOverrides" \in Points
      BY DEF Points
    <3> QED BY <1>2, <1>4, <3>1 DEF Calls
  <2> QED BY <1>1, <1>2, <1>4, <2>1 DEF Calls
<1>6. Fits(c)
  BY <1>2, <1>3, <1>4 DEF Fits, KindsAt, Calls
<1>7. Replacing(r)'
  BY <1>3, <1>4, <1>5 DEF Replacing
<1>8. SelfOK(r)'
  BY <1>3, <1>4, <1>5, <1>6, <1>7, SelfMoved
<1>9. StaysBacked
  BY <1>3, ServersKept
<1>10. RestTyped'
  BY <1>3 DEF IInv, TypeOK, RestTyped
<1> QED
  BY <1>3, <1>5, <1>8, <1>9, <1>10, ReadingStep


\* removeMember, the call of the management API.
LEMMA AuthAdminRevokeStep == ASSUME IInv, NEW r \in Req, AuthAdminRevoke(r) PROVE IInv'
<1>1. PICK t \in User : t = call[r].target
  BY CallFacts DEF IInv, AuthAdminRevoke
<1>2. /\ call[r].pc = "authRevoke" /\ left' = left
      /\ UNCHANGED <<members, overrides, records, tokens, meant, sent>>
      /\ assigned' \in {assigned, assigned \ {t}}
      /\ overlapped' \in {overlapped, overlapped \cup {<<"servers", t>>}}
      /\ faults' = faults \/ (faults > 0 /\ faults' = faults - 1)
  BY <1>1 DEF AuthAdminRevoke
<1>3. RestTyped'
  BY <1>2, Constants DEF IInv, TypeOK, RestTyped
<1>4. CASE call' = [call EXCEPT ![r] = Idle] /\ <<"servers", t>> \in overlapped'
  <2>1. StaysBacked
    BY <1>2, <1>4 DEF IInv, TypeOK, StaysBacked, Backed
  <2> QED
    BY <1>2, <1>3, <1>4, <2>1, EndStep
<1>5. CASE call' = [call EXCEPT ![r] = [call[r] EXCEPT !.pc = "remove"]]
  <2>1. PICK c : c = [call[r] EXCEPT !.pc = "remove"]
    OBVIOUS
  <2>2. call[r] \in Calls /\ Fits(call[r])
    BY CallFacts DEF IInv
  <2>3. /\ c.pc = "remove" /\ c.target = t /\ c.held = call[r].held
        /\ c.changed = call[r].changed /\ c \in Calls
    BY <1>1, <2>1, <2>2 DEF Calls, Points
  <2>4. Fits(c)
    BY <1>2, <2>1, <2>2 DEF Fits, KindsAt, Calls
  <2>5. call' = [call EXCEPT ![r] = c] /\ call'[r] = c
    BY <1>5, <2>1 DEF IInv, TypeOK
  <2>6. SelfOK(r)'
    <3>1. Replacing(r)'
      BY <2>3, <2>5 DEF Replacing
    <3> QED BY <1>2, <2>3, <2>4, <2>5, <3>1, SelfMoved
  <2>7. StaysBacked
    <3> SUFFICES ASSUME NEW u \in User, Backed(u) PROVE Backed(u)'
      BY DEF StaysBacked
    <3>1. CASE u = t
      BY <2>3, <2>5, <3>1 DEF Backed
    <3>2. CASE u # t
      BY <1>2, <2>5, <3>2 DEF Backed, IInv, TypeOK
    <3> QED BY <3>1, <3>2
  <2> QED
    BY <1>2, <1>3, <2>3, <2>5, <2>6, <2>7, ReadingStep
<1> QED
  BY <1>1, <1>4, <1>5 DEF AuthAdminRevoke

\* The records of the service.
LEMMA RecordStep ==
  ASSUME IInv, NEW r \in Req, CreateRecord(r) \/ UpdateRecord(r) \/ DeleteRecord(r)
  PROVE  IInv'
<1>1. /\ call[r].pc \in {"create", "update", "delete"} /\ call' = [call EXCEPT ![r] = Idle]
      /\ left' = left /\ faults' = faults
      /\ UNCHANGED <<members, overrides, assigned, tokens, meant, sent, overlapped>>
  BY DEF CreateRecord, UpdateRecord, DeleteRecord
<1>2. records' \in [Record -> {"none", "live", "deleted"}]
  BY DEF CreateRecord, UpdateRecord, DeleteRecord, IInv, TypeOK
<1>3. RestTyped'
  BY <1>1, <1>2 DEF IInv, TypeOK, RestTyped
<1>4. StaysBacked
  BY <1>1, ServersKept
<1> QED
  BY <1>1, <1>3, <1>4, EndStep

\* A request cut off between the two servers is on record as such.
LEMMA AbortStep == ASSUME IInv, NEW r \in Req, Abort(r) PROVE IInv'
<1>1. /\ call' = [call EXCEPT ![r] = Idle] /\ left' = left /\ faults > 0 /\ faults' = faults - 1
      /\ UNCHANGED <<members, overrides, records, assigned, tokens, meant, sent>>
      /\ overlapped' = overlapped \cup {<<"servers", u>> : u \in {v \in User : BetweenServers(r, v)}}
  BY DEF Abort
<1>2. RestTyped'
  BY <1>1, Constants DEF IInv, TypeOK, RestTyped
<1>3. StaysBacked
  <2> SUFFICES ASSUME NEW u \in User, Backed(u) PROVE Backed(u)'
    BY DEF StaysBacked
  <2>1. CASE BetweenServers(r, u)
    BY <1>1, <2>1 DEF Backed
  <2>2. CASE ~BetweenServers(r, u)
    BY <1>1, <2>2 DEF Backed, BetweenServers, IInv, TypeOK
  <2> QED BY <2>1, <2>2
<1> QED
  BY <1>1, <1>2, <1>3, EndStep


-----------------------------------------------------------------------------
(* Steps that write a member's row or overrides *)

\* What q's history notes of a write to u's row, u's overrides or both.
Notes(q, u, what) ==
    IF call[q].pc = "findOverrides" /\ call[q].actor = u
    THEN /\ call'[q].changed = call[q].changed \cup what
         /\ call'[q].held <=> call[q].held \/ May(u, call[q].kind, members', overrides')
    ELSE call'[q].changed = call[q].changed /\ call'[q].held = call[q].held

LEMMA NoticedFacts ==
  ASSUME NEW c \in Calls, NEW u \in User, NEW what \in SUBSET {"row", "list"}, NEW d,
         d = Noticed(c, u, what)
  PROVE  /\ d \in Calls
         /\ d.pc = c.pc /\ d.kind = c.kind /\ d.actor = c.actor /\ d.target = c.target
         /\ d.role = c.role /\ d.list = c.list /\ d.record = c.record /\ d.row = c.row
         /\ d.seen = c.seen
         /\ IF c.pc = "findOverrides" /\ c.actor = u
            THEN /\ d.changed = c.changed \cup what
                 /\ d.held <=> c.held \/ May(u, c.kind, members', overrides')
            ELSE d = c
<1>1. CASE c.pc = "findOverrides" /\ c.actor = u
  <2>1. PICK h : h = (c.held \/ May(u, c.kind, members', overrides'))
    OBVIOUS
  <2>2. h \in BOOLEAN
    BY <2>1
  <2>3. d = [c EXCEPT !.changed = c.changed \cup what, !.held = h]
    BY <1>1, <2>1 DEF Noticed, Calls
  <2>4. c.changed \cup what \in SUBSET {"row", "list"}
    BY DEF Calls
  <2>5. d \in Calls
    BY <2>2, <2>3, <2>4 DEF Calls
  <2>6. /\ d.pc = c.pc /\ d.kind = c.kind /\ d.actor = c.actor /\ d.target = c.target
        /\ d.role = c.role /\ d.list = c.list /\ d.record = c.record /\ d.row = c.row
        /\ d.seen = c.seen /\ d.changed = c.changed \cup what /\ d.held = h
    BY <2>3 DEF Calls
  <2> QED BY <1>1, <2>1, <2>2, <2>5, <2>6
<1>2. CASE ~(c.pc = "findOverrides" /\ c.actor = u)
  <2>1. d = c
    BY <1>2 DEF Noticed
  <2> QED BY <1>2, <2>1
<1> QED
  BY <1>1, <1>2

\* A request between its two reads stays right about what its member might do.
LEMMA HeldKept ==
  ASSUME IInv, NEW q \in Req, NEW u \in User, NEW what, KeepsCall(q), Notes(q, u, what),
         \A v \in User \ {u} : members'[v] = members[v] /\ overrides'[v] = overrides[v],
         "row" \in what \/ members'[u] = members[u],
         "list" \in what \/ overrides'[u] = overrides[u]
  PROVE  HeldOf(q)'
<1> SUFFICES ASSUME call[q].pc = "findOverrides"
             PROVE  /\ "row" \notin call'[q].changed => members'[call'[q].actor] = call'[q].row
                    /\ May(call'[q].actor, call'[q].kind, members', overrides') => call'[q].held
                    /\ "list" \notin call'[q].changed /\ call'[q].row.active
                           /\ Permits(call'[q].kind, call'[q].row.role, overrides'[call'[q].actor])
                       => call'[q].held
  BY DEF HeldOf, KeepsCall
<1>1. /\ "row" \notin call[q].changed => members[call[q].actor] = call[q].row
      /\ May(call[q].actor, call[q].kind, members, overrides) => call[q].held
      /\ "list" \notin call[q].changed /\ call[q].row.active
             /\ Permits(call[q].kind, call[q].row.role, overrides[call[q].actor]) => call[q].held
  BY DEF IInv, ReadingInv, HeldOf
<1>2. /\ call'[q].actor = call[q].actor /\ call'[q].kind = call[q].kind
      /\ call'[q].row = call[q].row
  BY DEF KeepsCall
<1>3. call[q].actor \in User
  BY CallFacts DEF IInv
<1>4. CASE call[q].actor = u
  <2>1. /\ call'[q].changed = call[q].changed \cup what
        /\ call'[q].held <=> call[q].held \/ May(u, call[q].kind, members', overrides')
    BY <1>4 DEF Notes
  <2>2. "row" \notin call'[q].changed => members'[u] = call[q].row
    BY <1>1, <1>4, <2>1
  <2>3. "list" \notin call'[q].changed /\ call[q].row.active
           /\ Permits(call[q].kind, call[q].row.role, overrides'[u]) => call'[q].held
    BY <1>1, <1>4, <2>1
  <2> QED BY <1>2, <1>4, <2>1, <2>2, <2>3
<1>5. CASE call[q].actor # u
  <2>1. call'[q].changed = call[q].changed /\ call'[q].held = call[q].held
    BY <1>5 DEF Notes
  <2>2. /\ members'[call[q].actor] = members[call[q].actor]
        /\ overrides'[call[q].actor] = overrides[call[q].actor]
    BY <1>3, <1>5
  <2> QED BY <1>1, <1>2, <2>1, <2>2 DEF May
<1> QED
  BY <1>4, <1>5

\* What one member's rows must be.
RoleMeant(u) ==
    \/ <<"row", u>> \in overlapped
    \/ IF meant[u] = NoRole THEN members[u] = Absent \/ members[u].role = DefaultRole
                            ELSE members[u] # Absent /\ members[u].role = meant[u]

\* A step of r that writes u's row, u's overrides or both.
LEMMA WritingStep ==
  ASSUME IInv, NEW r \in Req, NEW u \in User, NEW what, TypeOK', Others(r), SelfOK(r)',
         overlapped \subseteq overlapped', BackedInv',
         \A v \in User \ {u} : /\ members'[v] = members[v] /\ overrides'[v] = overrides[v]
                               /\ meant'[v] = meant[v] /\ sent'[v] = sent[v],
         "row" \in what \/ members'[u] = members[u],
         "list" \in what \/ overrides'[u] = overrides[u],
         \A q \in Req \ {r} : Notes(q, u, what) /\ Unread(q)' /\ Replacing(q)',
         RoleMeant(u)', <<"list", u>> \in overlapped' \/ overrides'[u] = sent'[u]
  PROVE  IInv'
<1>1. CallsInv' /\ GrantsWereHeld'
  BY CallsKept DEF IInv, SelfOK
<1>3. \A q \in Req \ {r} : HeldOf(q)'
  BY HeldKept DEF Others
<1>4. ReadingInv'
  BY <1>3 DEF ReadingInv, SelfOK
<1>5. RolesAreMeant'
  <2> SUFFICES ASSUME NEW v \in User PROVE RoleMeant(v)'
    BY DEF RolesAreMeant, RoleMeant
  <2>1. CASE v = u
    BY <2>1
  <2>2. CASE v # u
    BY <2>2 DEF IInv, RolesAreMeant, RoleMeant
  <2> QED BY <2>1, <2>2
<1>6. OverridesAreReplaced'
  BY DEF IInv, OverridesAreReplaced
<1> QED
  BY <1>1, <1>4, <1>5, <1>6 DEF IInv


LEMMA OverlapFacts ==
  ASSUME NEW r \in Req, NEW u \in User
  PROVE  /\ Overlaps(r, u) \subseteq {"row", "list", "servers"} \X User
         /\ \A q \in Req \ {r} : HoldsReading(q, u) => <<"row", u>> \in Overlaps(r, u)
         /\ \A q \in Req \ {r} : HoldsReading(q, u) \/ BetweenServers(q, u) =>
                <<"servers", u>> \in Overlaps(r, u)
         /\ call[r].pc = "createDefault" /\ u \notin assigned => <<"servers", u>> \in Overlaps(r, u)
         /\ (\A q \in Req \ {r} : ~HoldsReading(q, u)) => <<"row", u>> \notin Overlaps(r, u)
  BY DEF Overlaps

\* members.upsert, whoever calls it.
LEMMA UpsertStep ==
  ASSUME IInv, NEW r \in Req, NEW c \in Calls, NEW u \in User, NEW row \in Rows,
         NEW role \in Roles \cup {NoRole}, Upsert(r, c, u, row, role), UNCHANGED server, Well,
         call[r].pc # "remove", Fits(c), c.pc = "idle" \/ c.held,
         c.pc \in {"idle", "authInvite", "findTarget", "create", "update", "delete"},
         members[u] # Absent \/ Backed(u)', RoleMeant(u)'
  PROVE  IInv'
<1>1. /\ members' = [members EXCEPT ![u] = row] /\ overrides' = overrides
      /\ meant' = [meant EXCEPT ![u] = role] /\ sent' = sent /\ records' = records
      /\ overlapped' = overlapped \cup Overlaps(r, u)
      /\ call' = [q \in Req |-> IF q = r THEN c ELSE Noticed(call[q], u, {"row"})]
      /\ left' = left /\ faults' = faults /\ assigned' = assigned /\ tokens' = tokens
  BY DEF Upsert
<1>2. call'[r] = c
  BY <1>1
<1>3. ASSUME NEW q \in Req \ {r}
      PROVE  /\ call'[q] \in Calls /\ KeepsCall(q) /\ Notes(q, u, {"row"})
             /\ call'[q].seen = call[q].seen
  <2>1. call[q] \in Calls
    BY DEF IInv, TypeOK
  <2>2. PICK d : d = Noticed(call[q], u, {"row"})
    OBVIOUS
  <2>3. call'[q] = d
    BY <1>1, <2>2
  <2> QED
    BY <2>1, <2>2, <2>3, NoticedFacts DEF KeepsCall, Notes
<1>4. Others(r)
  BY <1>3 DEF Others
<1>5. overlapped \subseteq overlapped'
  BY <1>1
<1>6. StaysBacked
  <2> SUFFICES ASSUME NEW v \in User, Backed(v) PROVE Backed(v)'
    BY DEF StaysBacked
  <2>1. ASSUME NEW q \in Req, call[q].pc = "remove", call[q].target = v
        PROVE  call'[q].pc = "remove" /\ call'[q].target = v
    BY <1>3, <2>1 DEF KeepsCall
  <2> QED
    BY <1>1, <2>1 DEF Backed
<1>7. ASSUME NEW q \in Req \ {r} PROVE Unread(q)' /\ Replacing(q)'
  <2>1. KeepsCall(q) /\ call'[q].seen = call[q].seen
    BY <1>3
  <2>2. Unread(q) /\ Replacing(q) /\ (call[q].pc # "idle" => call[q].actor \in User)
    BY CallFacts DEF IInv, ReadingInv
  <2>3. Unread(q)'
    <3> SUFFICES ASSUME call[q].pc = "createDefault", <<"row", call[q].actor>> \notin overlapped'
                 PROVE  members'[call[q].actor] = Absent
      BY <2>1 DEF Unread, KeepsCall
    <3>1. call[q].actor # u
      BY <1>1, OverlapFacts DEF HoldsReading
    <3> QED
      BY <1>1, <1>5, <2>2, <3>1 DEF Unread, IInv, TypeOK
  <2>4. Replacing(q)'
    BY <1>1, <1>5, <2>1, <2>2 DEF Replacing, KeepsCall
  <2> QED BY <2>3, <2>4
<1>8. TypeOK'
  <2>1. call' \in [Req -> Calls]
    BY <1>1, <1>2, <1>3
  <2>2. overlapped' \subseteq {"row", "list", "servers"} \X User
    BY <1>1, OverlapFacts DEF IInv, TypeOK
  <2>3. row # Absent
    BY Constants
  <2> QED
    BY <1>1, <2>1, <2>2, <2>3 DEF IInv, TypeOK
<1>9. SelfOK(r)'
  BY <1>2 DEF SelfOK, Unread, Replacing, HeldOf, GrantHeld
<1>10. /\ \A v \in User \ {u} : /\ members'[v] = members[v] /\ overrides'[v] = overrides[v]
                                /\ meant'[v] = meant[v] /\ sent'[v] = sent[v]
       /\ overrides'[u] = overrides[u]
       /\ <<"list", u>> \in overlapped' \/ overrides'[u] = sent'[u]
  BY <1>1, <1>5 DEF IInv, TypeOK, OverridesAreReplaced
<1>11. BackedInv'
  <2>1. \A v \in User : members'[v] # Absent => members[v] # Absent \/ Backed(v)'
    BY <1>10
  <2> QED BY <1>2, <1>4, <1>6, <2>1, BackedKept DEF IInv
<1> QED
  BY <1>3, <1>4, <1>5, <1>7, <1>8, <1>9, <1>10, <1>11, WritingStep

\* inviteMember, its own write.
LEMMA UpsertInvitedStep == ASSUME IInv, NEW r \in Req, UpsertInvited(r) PROVE IInv'
<1>1. PICK t \in User : t = call[r].target
  BY CallFacts DEF IInv, UpsertInvited
<1>2. PICK role \in Roles : role = call[r].role
  BY CallFacts DEF IInv, UpsertInvited
<1>3. PICK row \in Rows : row = [role |-> role, active |-> TRUE]
  BY DEF Rows
<1>4. Upsert(r, Idle, t, row, role) /\ UNCHANGED server /\ Well /\ call[r].pc = "upsertInvited"
  BY <1>1, <1>2, <1>3 DEF UpsertInvited
<1>5. RoleMeant(t)'
  <2>1. members'[t] = row /\ meant'[t] = role /\ row.role = role /\ row # Absent
    BY <1>3, <1>4, Constants DEF Upsert, IInv, TypeOK
  <2> QED BY <2>1, Constants DEF RoleMeant
<1>6. Backed(t)'
  <2>1. Backed(t)
    BY <1>1, <1>4 DEF IInv, BackedInv
  <2>2. CASE \E q \in Req : call[q].pc = "remove" /\ call[q].target = t
    <3>1. PICK q \in Req \ {r} : BetweenServers(q, t)
      BY <1>4, <2>2 DEF BetweenServers
    <3> QED BY <1>4, <3>1, OverlapFacts DEF Upsert, Backed
  <2>3. CASE t \in assigned \/ <<"servers", t>> \in overlapped
    BY <1>4, <2>3 DEF Upsert, Backed
  <2> QED BY <2>1, <2>2, <2>3 DEF Backed
<1> QED
  BY <1>4, <1>5, <1>6, IdleFits, UpsertStep

\* changeMemberRole, its write.
LEMMA ChangeMemberRoleStep == ASSUME IInv, NEW r \in Req, ChangeMemberRole(r) PROVE IInv'
<1>1. PICK t \in User : t = call[r].target
  BY CallFacts DEF IInv, ChangeMemberRole
<1>2. PICK role \in Roles : role = call[r].role
  BY CallFacts DEF IInv, ChangeMemberRole
<1>3. call[r].row \in Rows
  BY CallFacts DEF IInv, ChangeMemberRole
<1>4. PICK row \in Rows : row = [call[r].row EXCEPT !.role = role] /\ row.role = role
  <2>1. /\ [call[r].row EXCEPT !.role = role] \in Rows
        /\ [call[r].row EXCEPT !.role = role].role = role
    BY <1>3 DEF Rows
  <2> QED BY <2>1
<1>5. Upsert(r, Idle, t, row, role) /\ UNCHANGED server /\ Well /\ call[r].pc = "upsertRole"
  BY <1>1, <1>2, <1>4 DEF ChangeMemberRole
<1>6. RoleMeant(t)'
  <2>1. members'[t] = row /\ meant'[t] = role /\ row # Absent
    BY <1>4, <1>5, Constants DEF Upsert, IInv, TypeOK
  <2> QED BY <1>4, <2>1, Constants DEF RoleMeant
<1>7. Backed(t)'
  <2>1. Backed(t)
    BY <1>1, <1>5 DEF IInv, BackedInv
  <2>2. CASE \E q \in Req : call[q].pc = "remove" /\ call[q].target = t
    <3>1. PICK q \in Req \ {r} : BetweenServers(q, t)
      BY <1>5, <2>2 DEF BetweenServers
    <3> QED BY <1>5, <3>1, OverlapFacts DEF Upsert, Backed
  <2>3. CASE t \in assigned \/ <<"servers", t>> \in overlapped
    BY <1>5, <2>3 DEF Upsert, Backed
  <2> QED BY <2>1, <2>2, <2>3 DEF Backed
<1> QED
  BY <1>5, <1>6, <1>7, IdleFits, UpsertStep

\* createDefaultMember's write.
LEMMA CreateDefaultStep == ASSUME IInv, NEW r \in Req, CreateDefaultMember(r) PROVE IInv'
<1>1. PICK u \in User : u = call[r].actor
  BY CallFacts DEF IInv, CreateDefaultMember
<1>2. PICK row \in Rows : row = [role |-> DefaultRole, active |-> TRUE] /\ row.role = DefaultRole
  <2>1. [role |-> DefaultRole, active |-> TRUE] \in Rows
    BY Constants DEF Rows
  <2> QED BY <2>1
<1>3. call[r] \in Calls /\ Fits(call[r]) /\ call[r].pc = "createDefault"
  BY CallFacts DEF IInv, CreateDefaultMember
<1>4. PICK b : b = [call[r] EXCEPT !.held = TRUE]
  OBVIOUS
<1>5. b \in Calls /\ Fits(b) /\ b.pc = "createDefault" /\ b.held
  BY <1>3, <1>4 DEF Calls, Fits
<1>6. PICK c : c = Start(b, row, {})
  OBVIOUS
<1>7. /\ c \in Calls /\ Fits(c) /\ (c.pc = "idle" \/ c.held)
      /\ c.pc \in {"idle", "authInvite", "findTarget", "create", "update", "delete"}
  BY <1>5, <1>6, StartFacts
<1>8. Upsert(r, c, u, row, meant[u]) /\ UNCHANGED server /\ Well
  BY <1>1, <1>2, <1>4, <1>6 DEF CreateDefaultMember, DefaultRow
<1>9. meant[u] \in Roles \cup {NoRole}
  BY DEF IInv, TypeOK
<1>10. RoleMeant(u)'
  <2>1. members'[u] = row /\ meant'[u] = meant[u] /\ row # Absent
    BY <1>8, Constants DEF Upsert, IInv, TypeOK
  <2>2. <<"row", u>> \notin overlapped => meant[u] = NoRole
    <3>1. <<"row", u>> \notin overlapped => members[u] = Absent
      BY <1>1, <1>3 DEF IInv, ReadingInv, Unread
    <3> QED BY <3>1 DEF IInv, RolesAreMeant
  <2>3. overlapped \subseteq overlapped'
    BY <1>8 DEF Upsert
  <2> QED BY <1>2, <2>1, <2>2, <2>3 DEF RoleMeant
<1>11. Backed(u)'
  BY <1>3, <1>8, OverlapFacts DEF Upsert, Backed
<1>12. call[r].pc # "remove"
  BY <1>3
<1> QED
  BY <1>7, <1>8, <1>9, <1>10, <1>11, <1>12, UpsertStep


\* replaceOverrides, the INSERT and the commit.
LEMMA InsertOverridesStep == ASSUME IInv, NEW r \in Req, InsertOverrides(r) PROVE IInv'
<1>1. PICK t \in User : t = call[r].target
  BY CallFacts DEF IInv, InsertOverrides
<1>2. PICK c : c = call[r]
  OBVIOUS
<1>3. c \in Calls /\ c.list \in Lists /\ c.pc = "insertOverrides" /\ c.target = t
  BY <1>1, <1>2, CallFacts DEF IInv, InsertOverrides
<1>4. PICK rivals : rivals = {q \in Req \ {r} : call[q].pc = "insertOverrides" /\ call[q].target = t}
  OBVIOUS
<1> DEFINE refused == \/ {o[1] : o \in Kept(call[r])} \cap {o[1] : o \in call[r].list} # {}
                      \/ members[call[r].target] = Absent /\ call[r].list # {}
<1>5. CASE refused
  <2>0. Finish(r) /\ Well
    BY <1>5 DEF InsertOverrides
  <2>1. StaysBacked
    BY <1>2, <1>3, <2>0, ServersKept
  <2>2. RestTyped'
    BY <2>0 DEF IInv, TypeOK, RestTyped
  <2> QED BY <2>0, <2>1, <2>2, EndStep
<1>6. CASE ~refused
  <2> DEFINE Rivals == {q \in Req \ {r} : /\ call[q].pc = "insertOverrides"
                                          /\ call[q].target = call[r].target}
  <2>0. /\ members' = members
        /\ overrides' = [overrides EXCEPT ![call[r].target] = Kept(call[r]) \cup call[r].list]
        /\ call' = [q \in Req |-> IF q = r THEN Idle
                      ELSE IF q \in Rivals THEN [call[q] EXCEPT !.seen = @ \ call[r].seen]
                      ELSE Noticed(call[q], call[r].target, {"list"})]
        /\ sent' = [sent EXCEPT ![call[r].target] = call[r].list]
        /\ overlapped' = overlapped \cup {<<"list", v>> : v \in {w \in {call[r].target} : Rivals # {}}}
        /\ left' = left /\ faults' = faults /\ records' = records /\ meant' = meant
        /\ assigned' = assigned /\ tokens' = tokens
        /\ {o[1] : o \in Kept(call[r])} \cap {o[1] : o \in call[r].list} = {}
        /\ members[call[r].target] = Absent => call[r].list = {}
    BY <1>6 DEF InsertOverrides
  <2>1. /\ members' = members
        /\ overrides' = [overrides EXCEPT ![t] = Kept(c) \cup c.list]
        /\ call' = [q \in Req |-> IF q = r THEN Idle
                      ELSE IF q \in rivals THEN [call[q] EXCEPT !.seen = @ \ c.seen]
                      ELSE Noticed(call[q], t, {"list"})]
        /\ sent' = [sent EXCEPT ![t] = c.list]
        /\ overlapped' = overlapped \cup {<<"list", v>> : v \in {w \in {t} : rivals # {}}}
        /\ left' = left /\ faults' = faults /\ records' = records /\ meant' = meant
        /\ assigned' = assigned /\ tokens' = tokens
        /\ {o[1] : o \in Kept(c)} \cap {o[1] : o \in c.list} = {}
        /\ members[t] = Absent => c.list = {}
    BY <1>1, <1>2, <1>4, <2>0
  <2>2. Kept(c) = overrides[t] \ c.seen
    BY <1>3 DEF Kept
  <2>3. call'[r] = Idle
    BY <2>1
  <2>4. ASSUME NEW q \in Req \ {r}
        PROVE  /\ call'[q] \in Calls /\ KeepsCall(q) /\ Notes(q, t, {"list"})
               /\ q \notin rivals => call'[q].seen = call[q].seen
    <3>1. call[q] \in Calls
      BY DEF IInv, TypeOK
    <3>2. CASE q \in rivals
      <4>1. call'[q] = [call[q] EXCEPT !.seen = call[q].seen \ c.seen]
        BY <2>1, <3>1, <3>2 DEF Calls
      <4>2. call[q].seen \ c.seen \in SUBSET (Permissions \X Effects)
        BY <3>1 DEF Calls
      <4>3. call'[q] \in Calls
        BY <3>1, <4>1, <4>2 DEF Calls
      <4>4. KeepsCall(q) /\ Notes(q, t, {"list"})
        BY <1>4, <3>1, <3>2, <4>1 DEF KeepsCall, Notes, Calls
      <4> QED BY <3>2, <4>3, <4>4
    <3>3. CASE q \notin rivals
      <4>1. PICK d : d = Noticed(call[q], t, {"list"})
        OBVIOUS
      <4>2. call'[q] = d
        BY <2>1, <3>3, <4>1
      <4> QED BY <3>1, <4>1, <4>2, NoticedFacts DEF KeepsCall, Notes
    <3> QED BY <3>2, <3>3
  <2>5. Others(r)
    BY <2>4 DEF Others
  <2>6. overlapped \subseteq overlapped' /\ (rivals # {} => <<"list", t>> \in overlapped')
    BY <2>1
  <2>7. /\ overrides'[t] = (overrides[t] \ c.seen) \cup c.list /\ sent'[t] = c.list
        /\ \A v \in User \ {t} : overrides'[v] = overrides[v] /\ sent'[v] = sent[v]
    BY <2>1, <2>2 DEF IInv, TypeOK
  <2>8. TypeOK'
    <3>1. overrides' \in [User -> SUBSET (Permissions \X Effects)]
      BY <1>3, <2>1, <2>2, Constants DEF IInv, TypeOK
    <3>2. ASSUME NEW v \in User
          PROVE  /\ members'[v] = Absent => overrides'[v] = {}
                 /\ \A o, p \in overrides'[v] : o[1] = p[1] => o = p
      <4>1. CASE v = t
        <5>1. members[t] = Absent => overrides'[t] = {}
          BY <2>1, <2>7 DEF IInv, TypeOK
        <5>2. \A o \in Kept(c), p \in c.list : o[1] # p[1]
          BY <2>1
        <5>3. \A o, p \in Kept(c) : o[1] = p[1] => o = p
          BY <2>2 DEF IInv, TypeOK
        <5>4. \A o, p \in c.list : o[1] = p[1] => o = p
          BY <1>3, Constants
        <5> QED BY <2>1, <2>2, <2>7, <4>1, <5>1, <5>2, <5>3, <5>4
      <4>2. CASE v # t
        BY <2>1, <2>7, <4>2 DEF IInv, TypeOK
      <4> QED BY <4>1, <4>2
    <3>3. call' \in [Req -> Calls]
      BY <2>1, <2>3, <2>4, IdleFits
    <3>4. overlapped' \subseteq {"row", "list", "servers"} \X User
      BY <2>1 DEF IInv, TypeOK
    <3>5. sent' \in [User -> SUBSET (Permissions \X Effects)]
      BY <1>3, <2>1, Constants DEF IInv, TypeOK
    <3> QED
      BY <2>1, <3>1, <3>2, <3>3, <3>4, <3>5 DEF IInv, TypeOK
  <2>9. ASSUME NEW q \in Req \ {r} PROVE Unread(q)' /\ Replacing(q)'
    <3>1. Unread(q) /\ Replacing(q) /\ KeepsCall(q)
      BY <2>4 DEF IInv, ReadingInv
    <3>2. Unread(q)'
      BY <2>1, <2>6, <3>1 DEF Unread, KeepsCall
    <3>3. Replacing(q)'
      <4> SUFFICES ASSUME call[q].pc = "insertOverrides", <<"list", call[q].target>> \notin overlapped'
                   PROVE  overrides'[call[q].target] \subseteq call'[q].seen
        BY <3>1 DEF Replacing, KeepsCall
      <4>1. call[q].target # t /\ q \notin rivals
        BY <1>4, <2>6
      <4>2. call[q].target \in User
        BY CallFacts DEF IInv
      <4> QED
        BY <2>4, <2>6, <2>7, <3>1, <4>1, <4>2 DEF Replacing
    <3> QED BY <3>2, <3>3
  <2>10. StaysBacked
    <3> SUFFICES ASSUME NEW v \in User, Backed(v) PROVE Backed(v)'
      BY DEF StaysBacked
    <3>1. ASSUME NEW q \in Req, call[q].pc = "remove", call[q].target = v
          PROVE  call'[q].pc = "remove" /\ call'[q].target = v
      BY <1>2, <1>3, <2>4, <3>1 DEF KeepsCall
    <3> QED
      BY <2>1, <2>6, <3>1 DEF Backed
  <2>11. BackedInv'
    <3>1. \A v \in User : members'[v] # Absent => members[v] # Absent \/ Backed(v)'
      BY <2>1
    <3> QED BY <2>3, <2>5, <2>10, <3>1, IdleFits, BackedKept DEF IInv
  <2>12. SelfOK(r)'
    BY <2>3, IdleSelf
  <2>13. RoleMeant(t)'
    BY <2>1, <2>6 DEF IInv, RolesAreMeant, RoleMeant
  <2>14. <<"list", t>> \in overlapped' \/ overrides'[t] = sent'[t]
    <3>1. Replacing(r)
      BY DEF IInv, ReadingInv
    <3> QED BY <1>2, <1>3, <2>6, <2>7, <3>1 DEF Replacing
  <2>15. \A v \in User \ {t} : /\ members'[v] = members[v] /\ overrides'[v] = overrides[v]
                               /\ meant'[v] = meant[v] /\ sent'[v] = sent[v]
    BY <2>1, <2>7
  <2> QED
    BY <2>1, <2>4, <2>5, <2>6, <2>8, <2>9, <2>11, <2>12, <2>13, <2>14, <2>15, WritingStep
<1> QED
  BY <1>5, <1>6

\* members.remove, with the cascade to the overrides.
LEMMA RemoveMemberStep == ASSUME IInv, NEW r \in Req, RemoveMember(r) PROVE IInv'
<1>1. PICK t \in User : t = call[r].target
  BY CallFacts DEF IInv, RemoveMember
<1>2. /\ call[r].pc = "remove" /\ members' = [members EXCEPT ![t] = Absent]
      /\ overrides' = [overrides EXCEPT ![t] = {}]
      /\ meant' = [meant EXCEPT ![t] = NoRole] /\ sent' = [sent EXCEPT ![t] = {}]
      /\ overlapped' = overlapped \cup Overlaps(r, t)
      /\ call' = [q \in Req |-> IF q = r THEN Idle
                    ELSE IF call[q].target = t
                         THEN [Noticed(call[q], t, {"row", "list"}) EXCEPT !.seen = {}]
                    ELSE Noticed(call[q], t, {"row", "list"})]
      /\ left' = left /\ faults' = faults /\ records' = records
      /\ assigned' = assigned /\ tokens' = tokens
  BY <1>1 DEF RemoveMember, Cascade
<1>3. call'[r] = Idle
  BY <1>2
<1>4. ASSUME NEW q \in Req \ {r}
      PROVE  /\ call'[q] \in Calls /\ KeepsCall(q) /\ Notes(q, t, {"row", "list"})
             /\ call[q].target # t => call'[q].seen = call[q].seen
  <2>1. call[q] \in Calls
    BY DEF IInv, TypeOK
  <2>2. PICK d : d = Noticed(call[q], t, {"row", "list"})
    OBVIOUS
  <2>3. /\ d \in Calls
        /\ d.pc = call[q].pc /\ d.kind = call[q].kind /\ d.actor = call[q].actor
        /\ d.target = call[q].target /\ d.role = call[q].role /\ d.list = call[q].list
        /\ d.record = call[q].record /\ d.row = call[q].row /\ d.seen = call[q].seen
        /\ IF call[q].pc = "findOverrides" /\ call[q].actor = t
           THEN /\ d.changed = call[q].changed \cup {"row", "list"}
                /\ d.held <=> call[q].held \/ May(t, call[q].kind, members', overrides')
           ELSE d = call[q]
    BY <2>1, <2>2, NoticedFacts
  <2>4. CASE call[q].target = t
    <3>1. call'[q] = [d EXCEPT !.seen = {}]
      BY <1>2, <2>2, <2>4
    <3>2. call'[q] \in Calls
      BY <2>3, <3>1 DEF Calls
    <3>3. /\ call'[q].pc = d.pc /\ call'[q].kind = d.kind /\ call'[q].actor = d.actor
          /\ call'[q].target = d.target /\ call'[q].role = d.role /\ call'[q].list = d.list
          /\ call'[q].record = d.record /\ call'[q].row = d.row
          /\ call'[q].changed = d.changed /\ call'[q].held = d.held
      BY <2>3, <3>1 DEF Calls
    <3>4. KeepsCall(q) /\ Notes(q, t, {"row", "list"})
      BY <2>3, <3>3 DEF KeepsCall, Notes
    <3> QED BY <2>4, <3>2, <3>4
  <2>5. CASE call[q].target # t
    <3>1. call'[q] = d
      BY <1>2, <2>2, <2>5
    <3> QED BY <2>3, <3>1 DEF KeepsCall, Notes
  <2> QED BY <2>4, <2>5
<1>5. Others(r)
  BY <1>4 DEF Others
<1>6. overlapped \subseteq overlapped'
  BY <1>2
<1>7. /\ members'[t] = Absent /\ overrides'[t] = {} /\ meant'[t] = NoRole /\ sent'[t] = {}
      /\ \A v \in User \ {t} : /\ members'[v] = members[v] /\ overrides'[v] = overrides[v]
                               /\ meant'[v] = meant[v] /\ sent'[v] = sent[v]
  BY <1>2 DEF IInv, TypeOK
<1>8. TypeOK'
  <2>1. call' \in [Req -> Calls]
    BY <1>2, <1>3, <1>4, IdleFits
  <2>2. overlapped' \subseteq {"row", "list", "servers"} \X User
    BY <1>2, OverlapFacts DEF IInv, TypeOK
  <2>3. /\ members' \in [User -> Rows \cup {Absent}]
        /\ overrides' \in [User -> SUBSET (Permissions \X Effects)]
        /\ meant' \in [User -> Roles \cup {NoRole}]
        /\ sent' \in [User -> SUBSET (Permissions \X Effects)]
    BY <1>2 DEF IInv, TypeOK
  <2>4. \A u \in User : /\ members'[u] = Absent => overrides'[u] = {}
                        /\ \A o, p \in overrides'[u] : o[1] = p[1] => o = p
    BY <1>7 DEF IInv, TypeOK
  <2> QED
    BY <1>2, <2>1, <2>2, <2>3, <2>4 DEF IInv, TypeOK
<1>9. ASSUME NEW q \in Req \ {r} PROVE Unread(q)' /\ Replacing(q)'
  <2>1. Unread(q) /\ Replacing(q) /\ KeepsCall(q)
    BY <1>4 DEF IInv, ReadingInv
  <2>2. (call[q].pc # "idle" => call[q].actor \in User)
        /\ (call[q].pc = "insertOverrides" => call[q].target \in User)
    BY CallFacts DEF IInv
  <2>3. Unread(q)'
    BY <1>6, <1>7, <2>1, <2>2 DEF Unread, KeepsCall
  <2>4. Replacing(q)'
    BY <1>4, <1>6, <1>7, <2>1, <2>2 DEF Replacing, KeepsCall
  <2> QED BY <2>3, <2>4
<1>10. BackedInv'
  <2> SUFFICES ASSUME NEW v \in User,
                      \/ members'[v] # Absent
                      \/ \E q \in Req : call'[q].pc \in {"upsertInvited", "upsertRole"} /\ call'[q].target = v
               PROVE  Backed(v)'
    BY DEF BackedInv
  <2>1. CASE v = t
    <3>1. PICK q \in Req : call'[q].pc \in {"upsertInvited", "upsertRole"} /\ call'[q].target = t
      BY <1>7, <2>1
    <3>2. q # r
      BY <1>3, <3>1, IdleFits
    <3>3. HoldsReading(q, t) \/ BetweenServers(q, t)
      BY <1>4, <3>1, <3>2 DEF KeepsCall, HoldsReading, BetweenServers
    <3> QED
      BY <1>2, <2>1, <3>2, <3>3, OverlapFacts DEF Backed
  <2>2. CASE v # t
    <3>1. \/ members[v] # Absent
          \/ \E q \in Req : call[q].pc \in {"upsertInvited", "upsertRole"} /\ call[q].target = v
      BY <1>3, <1>4, <1>7, <2>2, IdleFits DEF KeepsCall
    <3>2. Backed(v)
      BY <3>1 DEF IInv, BackedInv
    <3>3. ASSUME NEW q \in Req, call[q].pc = "remove", call[q].target = v
          PROVE  call'[q].pc = "remove" /\ call'[q].target = v
      BY <1>1, <1>4, <2>2, <3>3 DEF KeepsCall
    <3> QED
      BY <1>2, <1>6, <3>2, <3>3 DEF Backed
  <2> QED BY <2>1, <2>2
<1>11. SelfOK(r)'
  BY <1>3, IdleSelf
<1>12. RoleMeant(t)'
  BY <1>7 DEF RoleMeant
<1> QED
  BY <1>4, <1>5, <1>6, <1>7, <1>8, <1>9, <1>10, <1>11, <1>12, WritingStep


-----------------------------------------------------------------------------
(* The theorems *)

LEMMA InitInv == Init => IInv
<1> SUFFICES ASSUME Init PROVE IInv
  OBVIOUS
<1>1. PICK s \in Starts :
        /\ members = s.rows /\ overrides = s.lists /\ records = [d \in Record |-> "none"]
        /\ assigned = {u \in User : s.rows[u] # Absent} /\ tokens = assigned
        /\ call = [r \in Req |-> Idle] /\ left = MaxCalls /\ faults = MaxFaults
        /\ meant = [u \in User |-> IF s.rows[u] = Absent THEN NoRole ELSE s.rows[u].role]
        /\ sent = s.lists /\ overlapped = {}
  BY DEF Init
<1>2. /\ s.rows \in [User -> Rows \cup {Absent}] /\ s.lists \in [User -> Lists]
      /\ \A u \in User : s.rows[u] = Absent => s.lists[u] = {}
  BY ResourceAssumption DEF Rows
<1>3. \A u \in User : s.rows[u] # Absent => s.rows[u].role \in Roles
  BY <1>2 DEF Rows
<1>4. \A r \in Req : call[r] = Idle
  BY <1>1
<1>5. TypeOK
  <2>1. meant \in [User -> Roles \cup {NoRole}]
    BY <1>1, <1>3
  <2>2. s.lists \in [User -> SUBSET (Permissions \X Effects)]
    BY <1>2, Constants
  <2>3. \A u \in User : \A o, p \in s.lists[u] : o[1] = p[1] => o = p
    BY <1>2, Constants
  <2>4. call \in [Req -> Calls]
    BY <1>1, IdleFits
  <2> QED
    BY <1>1, <1>2, <2>1, <2>2, <2>3, <2>4, Constants DEF TypeOK
<1>6. CallsInv /\ GrantsWereHeld /\ ReadingInv
  BY <1>4, IdleFits DEF CallsInv, GrantsWereHeld, ReadingInv, Unread, Replacing, HeldOf
<1>7. BackedInv
  BY <1>1, <1>4, IdleFits DEF BackedInv, Backed
<1>8. RolesAreMeant /\ OverridesAreReplaced
  BY <1>1, <1>3, Constants DEF RolesAreMeant, OverridesAreReplaced
<1> QED
  BY <1>5, <1>6, <1>7, <1>8 DEF IInv

LEMMA NextInv == IInv /\ [Next]_vars => IInv'
<1> SUFFICES ASSUME IInv, [Next]_vars PROVE IInv'
  OBVIOUS
<1>1. ASSUME NEW r \in Req, Step(r) PROVE IInv'
  BY <1>1, ArriveStep, FindMemberStep, FindOverridesStep, CreateDefaultStep, AuthAdminInviteStep,
     UpsertInvitedStep, FindTargetStep, ChangeMemberRoleStep, DeleteOverridesStep,
     InsertOverridesStep, AuthAdminRevokeStep, RemoveMemberStep, RecordStep, AbortStep DEF Step
<1>2. CASE UNCHANGED vars
  BY <1>2 DEF vars, IInv, TypeOK, CallsInv, ReadingInv, Unread, Replacing, HeldOf, May, BackedInv,
     Backed, RolesAreMeant, OverridesAreReplaced, GrantsWereHeld
<1> QED
  BY <1>1, <1>2 DEF Next

\* The invariant holds in every state of every behaviour.
THEOREM Invariance == Spec => []IInv
  BY InitInv, NextInv, PTL DEF Spec

\* The tables and the requests keep their shape (pg-member-repository.ts, the primary
\* keys and the ON DELETE CASCADE of the members tables), however requests overlap.
THEOREM TypeCorrect == Spec => []TypeOK
  BY Invariance, PTL DEF IInv

\* A member has the role an administrator gave last (members.ts inviteMember,
\* changeMemberRole; resolve-tenant-context.ts createDefaultMember), unless a request
\* that had read the row before wrote it afterwards.
THEOREM RolesFollowAdministrators == Spec => []RolesAreMeant
  BY Invariance, PTL DEF IInv

\* A member's overrides are the list an administrator sent last (pg-member-repository.ts
\* replaceOverrides), unless two replacements of them overlapped.
THEOREM ReplacementIsWhole == Spec => []OverridesAreReplaced
  BY Invariance, PTL DEF IInv

\* What a request is about to do was permitted to its member at some moment since it
\* read the member's row (resolve-tenant-context.ts, middleware.ts requirePermission),
\* unless the row and the overrides both changed between its two queries.
THEOREM NothingBeyondPermission == Spec => []GrantsWereHeld
  BY Invariance, PTL DEF IInv

\* Whoever has a row is assigned to the service at the authorization server, or a removal,
\* an overlap or the person's own request explains why not (members.ts: invite there first,
\* revoke there first).
THEOREM RowsHaveBacking == Spec => []RowsAreBacked
<1>1. IInv => RowsAreBacked
  BY DEF IInv, BackedInv, Backed, RowsAreBacked
<1> QED
  BY <1>1, Invariance, PTL

=============================================================================
