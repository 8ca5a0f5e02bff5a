------------------------------ MODULE MCSignIn ------------------------------
(***************************************************************************)
(* Two sign-ins at once, as data, and the refresh tokens one of them comes *)
(* to with every store's keys running out.  SignIn and TokenEndpoint share *)
(* no state here: a behaviour is about one of them and leaves the other as *)
(* it starts.                                                              *)
(*                                                                         *)
(* Requests, browsers and users are each a symmetric set; all take the     *)
(* same two model values, so that one permutation is a symmetry of both.   *)
(***************************************************************************)
EXTENDS MCTokenEndpoint, SignIn

VARIABLE part     \* "sign-in" or "tokens"

\* Hosts with a slug in capitals, two slugs in one, a dot, a dash at an end, and none; a
\* secret that a Basic header has to escape; return paths browsers read as another host.
MCLabels == {<<"a">>, <<"A">>, <<"a", "-", "b">>, <<"-">>, <<"a", "-", "a", "-", "b">>,
             <<"a", ".", "b">>, <<>>}
MCKnown   == {<<"a">>, <<"a", "-", "b">>}
MCSecret  == <<"k", ":", "%">>
MCOther   == <<"k">>
MCReturns == {<<"/", "x">>, <<"/", "control", "/", "x">>, <<"/", "\\", "x">>, <<"/", "/", "x">>,
              <<"x">>, <<>>}

MCInit ==
    \/ part = "sign-in" /\ SignInInit /\ Init
    \/ part = "tokens" /\ Init /\ SignInInit /\ Secret \in hashes

SigningIn == part = "sign-in" /\ SignInNext /\ UNCHANGED <<part, vars>>
Tokens == part = "tokens" /\ Next /\ UNCHANGED <<part, signInVars>>

MCNext == SigningIn \/ Tokens

MCSpec == MCInit /\ [][MCNext]_<<part, vars, signInVars>>

=============================================================================
