----------------------------- MODULE MCAccounts -----------------------------
(***************************************************************************)
(* Instances of Accounts and MfaSetupPage for TLC.  They share no state: a *)
(* behaviour is about one of them and leaves the other as it starts.       *)
(*                                                                         *)
(* Two Cognito accounts share a mailbox, each with a spelling of its own.  *)
(* Requests, and the tabs and requests of the page, are symmetric sets;    *)
(* they take the same values, so one permutation is a symmetry of both.    *)
(***************************************************************************)
EXTENDS Accounts, MfaSetupPage, TLC

VARIABLE part     \* "server" or "page"

CONSTANTS ann, bob, u1, p1, p2, q1

MCEmailOf  == (ann :> "lower") @@ (bob :> "mixed")
MCLower    == [e \in Email |-> "mailbox"]
MCSymmetry == Permutations(Req)

\* A login waiting for a code, of an enrolled person or of one enrolling.
Challenge(x) == [kind |-> "totp_challenge", person |-> x, rid |-> q1,
                 attempts |-> 0, secret |-> 0, aged |-> FALSE]
Setup(x)     == [kind |-> "totp_setup", person |-> x, rid |-> q1,
                 attempts |-> 0, secret |-> 1, aged |-> FALSE]

NoRows    == [u \in UserId |-> Absent]
Row(s, a) == [NoRows EXCEPT ![u1] = [sub |-> s, email |-> "lower", active |-> a]]
NonePending == [p \in Pending |-> Absent]

MCStarts ==
    {[users |-> NoRows, pending |-> NonePending, enrolled |-> {}],
     [users |-> NoRows, pending |-> [NonePending EXCEPT ![p1] = Setup(ann)], enrolled |-> {}],
     [users |-> NoRows, pending |-> [NonePending EXCEPT ![p1] = Setup(ann), ![p2] = Setup(bob)],
      enrolled |-> {}],
     [users |-> Row(NoSub, TRUE), pending |-> [NonePending EXCEPT ![p1] = Setup(ann), ![p2] = Setup(bob)],
      enrolled |-> {}],
     [users |-> Row(ann, TRUE), pending |-> [NonePending EXCEPT ![p1] = Challenge(ann)],
      enrolled |-> {ann}],
     [users |-> Row(ann, FALSE), pending |-> [NonePending EXCEPT ![p1] = Challenge(ann)],
      enrolled |-> {ann}]}

MCSkews == {-1, 0, 2}

AtRest == Init /\ users = NoRows /\ mfaPending = NonePending

MCInit ==
    \/ part = "server" /\ Init /\ SetupInit /\ ahead = 0
    \/ part = "page" /\ SetupInit /\ AtRest

Server == part = "server" /\ Next /\ UNCHANGED <<part, setupVars>>
SetupPage == part = "page" /\ SetupNext /\ UNCHANGED <<part, vars>>

MCNext == Server \/ SetupPage

MCSpec == MCInit /\ [][MCNext]_<<part, vars, setupVars>>
=============================================================================
