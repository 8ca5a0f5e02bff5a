------------------------------ MODULE Cognito -------------------------------
(***************************************************************************)
(* What a call to Cognito may come to: the answers that the production     *)
(* adapter (cognito-sdk.ts) makes of what the service does, and the        *)
(* service itself as the repository's stand-in for it (mock-cognito.ts)    *)
(* has it.                                                                 *)
(*                                                                         *)
(* An account holds the secrets of its authenticator: the one it is asked  *)
(* to verify, the one verified and the one enabled, each a number counted  *)
(* up as it is issued, 0 for none.  A code is the secret it was made with, *)
(* 0 when it is a wrong one.  A call yields an outcome: the adapter's      *)
(* answer, the account and the challenge it leaves, and whether something  *)
(* had to go wrong for it.                                                 *)
(***************************************************************************)
EXTENDS Naturals

NewAccount(issued, enrolled) ==
    [issued    |-> issued,
     candidate |-> IF enrolled THEN 0 ELSE issued,
     verified  |-> 0,
     enrolled  |-> IF enrolled THEN issued ELSE 0]

-----------------------------------------------------------------------------
(* The service.                                                             *)

\* People who have enabled an authenticator are asked for its code.
Challenged(a) == a.enrolled # 0

\* A wrong code leaves the challenge open, a right one uses it up.
Matches(a, code) == code # 0 /\ code = a.enrolled

\* A new secret takes the place of the one that was waiting to be verified.
Associated(a) == [a EXCEPT !.issued = @ + 1, !.candidate = a.issued + 1]

Verified(a, code) == [a EXCEPT !.verified = code]

Enabled(a) == [a EXCEPT !.enrolled = a.verified, !.candidate = 0, !.verified = 0]

-----------------------------------------------------------------------------
(* The adapter.                                                             *)

\* Every refusal of a password is one and the same.
MapCognitoError(name) ==
    CASE name \in {"NotAuthorizedException", "UserNotFoundException"} -> "invalid_credentials"
      [] name = "UserNotConfirmedException" -> "user_not_confirmed"
      [] name = "PasswordResetRequiredException" -> "password_reset_required"
      [] OTHER -> "unavailable"

\* A wrong code, a challenge or token that has run out, anything else.
MapMfaError(name) ==
    CASE name \in {"CodeMismatchException", "EnableSoftwareTokenMFAException"} -> "code_mismatch"
      [] name \in {"NotAuthorizedException", "ExpiredCodeException"} -> "session_expired"
      [] OTHER -> "unavailable"

Outcome(answer, a, open) == [answer |-> answer, account |-> a, open |-> open, fault |-> FALSE]
Faulty(o) == [o EXCEPT !.fault = TRUE]

\* The call does not arrive, or its answer is lost after the service acted.
Lost(before, after, open) ==
    {Faulty(Outcome(MapMfaError("TimeoutError"), before, TRUE)),
     Faulty(Outcome(MapMfaError("TimeoutError"), after, open))}

\* The ID token of an accepted login is verified with Cognito's keys, which may
\* not be had, and what is missing in it makes it useless.
ToAuthenticated(a) ==
    {Outcome("authenticated", a, FALSE), Faulty(Outcome("unavailable", a, FALSE))}

\* Two round trips of SRP.  A refusal is nothing out of the ordinary.
AuthenticateOutcomes(a) ==
    {Outcome(MapCognitoError(name), a, FALSE) :
        name \in {"NotAuthorizedException", "UserNotConfirmedException",
                  "PasswordResetRequiredException", "TooManyRequestsException"}}
    \cup {Outcome("challenge_required", a, FALSE)}
    \cup (IF Challenged(a) THEN {Outcome("totp_required", a, TRUE)} ELSE ToAuthenticated(a))

RespondToTotpOutcomes(a, open, code) ==
    IF ~open THEN {Outcome(MapMfaError("NotAuthorizedException"), a, FALSE)}
    ELSE IF ~Matches(a, code)
    THEN {Outcome(MapMfaError("CodeMismatchException"), a, TRUE)} \cup Lost(a, a, TRUE)
    ELSE ToAuthenticated(a) \cup Lost(a, a, FALSE)

AssociateOutcomes(a) ==
    {Outcome("secret", Associated(a), FALSE)} \cup Lost(a, Associated(a), FALSE)

\* The service says so in two ways when the code is wrong: a status or an exception.
VerifyOutcomes(a, code) ==
    IF a.candidate = 0 THEN {Outcome(MapMfaError("NotAuthorizedException"), a, FALSE)}
    ELSE IF code # a.candidate
    THEN {Outcome(MapMfaError("EnableSoftwareTokenMFAException"), a, FALSE)} \cup Lost(a, a, FALSE)
    ELSE {Outcome("verified", Verified(a, code), FALSE)} \cup Lost(a, Verified(a, code), FALSE)

EnableOutcomes(a) ==
    IF a.verified = 0 THEN {Outcome(MapMfaError("NotAuthorizedException"), a, FALSE)}
    ELSE {Outcome("enabled", Enabled(a), FALSE)} \cup Lost(a, Enabled(a), FALSE)
=============================================================================
