---------------------------- MODULE MfaSetupPage ----------------------------
(***************************************************************************)
(* The page that shows the QR code of a TOTP secret (auth-web, mfa-setup   *)
(* .route.tsx) next to the server's setup of that secret (mfa.ts,          *)
(* beginTotpSetup).  The page counts down with the browser's clock and     *)
(* asks for a new secret at zero; several tabs show one login, requests    *)
(* fail or are given up by a reload, and the clocks disagree.              *)
(*                                                                         *)
(* Time is in minutes.  The countdown of a page that sleeps in the         *)
(* background lags behind: CountDown is taken any time.                    *)
(***************************************************************************)
EXTENDS Integers

CONSTANTS
    Tabs,
    Asks,         \* bound: requests for a setup under way at once
    SetupTtl,     \* TOTP_SETUP_TTL_SECONDS
    PendingTtl,   \* MFA_PENDING_TTL_SECONDS
    Skews,        \* how far the browser's clock may be ahead of the server's
    LastMinute,   \* bound: when the clocks stop
    MostSecrets   \* bound: secrets Cognito hands out

NoAsk == "none"

ASSUME SetupAssumption ==
    /\ SetupTtl \in Nat \ {0} /\ PendingTtl \in Nat /\ SetupTtl <= PendingTtl
    /\ Skews \subseteq Int /\ LastMinute \in Nat /\ MostSecrets \in Nat
    /\ NoAsk \notin Asks

VARIABLES
    minute,      \* the server's clock
    ahead,       \* the browser's clock minus the server's
    waiting,     \* the pending login: its secret (0 for null), when issued, when it runs out
    associated,  \* the secret Cognito associated last
    page,        \* what each tab shows
    ask,         \* GET /api/login/mfa-setup under way
    upset,       \* history: tabs whose setup another request may have replaced
    torn         \* history: the last renewal was cut off after Cognito, or overlapped another

setupVars == <<minute, ahead, waiting, associated, page, ask, upset, torn>>

NotAsked == [phase |-> "idle"]
Closed   == [stage |-> "closed"]
Gone     == [stored |-> FALSE]

SetupInit ==
    /\ minute = 0 /\ ahead \in Skews
    /\ waiting = [stored |-> TRUE, secret |-> 0, issued |-> 0, until |-> PendingTtl]
    /\ associated = 0
    /\ page = [t \in Tabs |-> Closed]
    /\ ask = [q \in Asks |-> NotAsked]
    /\ upset = {} /\ torn = FALSE

-----------------------------------------------------------------------------
(* GET /api/login/mfa-setup.                                                *)

\* Requests that overlap replace each other's secret.
Overlap == {u \in Tabs : \E q \in Asks : ask[q] # NotAsked /\ ask[q].tab = u}

AskFor(t, q, renew) ==
    /\ ask[q] = NotAsked
    /\ ask' = [p \in Asks |->
         IF p = q THEN [phase |-> "load", tab |-> t, renew |-> renew, alone |-> Overlap = {}]
         ELSE IF ask[p] = NotAsked THEN NotAsked
         ELSE [ask[p] EXCEPT !.alone = FALSE]]
    /\ upset' = IF Overlap = {} /\ ~torn THEN upset \ {t} ELSE upset \union Overlap \union {t}

Alive == waiting.secret # 0 /\ waiting.issued + SetupTtl > minute

\* Broken variant: the time a secret has left is counted from when it is shown.
ToSetupAnew(secret, issued) == [secret |-> secret, expiresAt |-> minute + SetupTtl]

ToSetup(secret, issued) == [secret |-> secret, expiresAt |-> issued + SetupTtl]

\* loadKind, and the secret that is still alive.
LoadSetup(q) ==
    /\ ask[q].phase = "load"
    /\ ask' = [ask EXCEPT ![q] =
         [phase |-> CASE ~waiting.stored -> "expired"
                      [] waiting.stored /\ Alive /\ ~ask[q].renew -> "answered"
                      [] OTHER -> "associate",
          tab |-> ask[q].tab, alone |-> ask[q].alone, now |-> minute,
          setup |-> IF waiting.stored /\ Alive THEN ToSetup(waiting.secret, waiting.issued)
                    ELSE ToSetup(0, minute)]]
    /\ UNCHANGED <<minute, ahead, waiting, associated, page, upset, torn>>

\* associateSoftwareToken: Cognito forgets the secret before.
AssociateSecret(q) ==
    /\ ask[q].phase = "associate" /\ associated < MostSecrets
    /\ associated' = associated + 1
    /\ ask' = [ask EXCEPT ![q].phase = "save", ![q].setup = ToSetup(associated + 1, ask[q].now)]
    /\ upset' = upset \union {t \in Tabs : t # ask[q].tab /\ page[t] # Closed}
    /\ UNCHANGED <<minute, ahead, waiting, page, torn>>

\* savePending: the record read before, with the new secret, for another MFA_PENDING_TTL.
SaveSetup(q) ==
    /\ ask[q].phase = "save"
    /\ waiting' = [stored |-> TRUE, secret |-> ask[q].setup.secret, issued |-> ask[q].now,
                until |-> minute + PendingTtl]
    /\ ask' = [ask EXCEPT ![q].phase = "answered"]
    /\ torn' = ~ask[q].alone
    /\ UNCHANGED <<minute, ahead, associated, page, upset>>

\* Cognito refuses or its answer is lost: the route answers as for an expired login.
AssociateFails(q) ==
    /\ ask[q].phase \in {"associate", "save"}
    /\ ask' = [ask EXCEPT ![q] = [phase |-> "expired", tab |-> ask[q].tab, alone |-> ask[q].alone]]
    /\ torn' = (torn \/ ask[q].phase = "save")
    /\ UNCHANGED <<minute, ahead, waiting, associated, page, upset>>

\* A store or the network fails, before or after the effect.
AskFails(q) ==
    /\ ask[q].phase \in {"load", "associate", "save", "answered"}
    /\ ask' = [ask EXCEPT ![q] = [phase |-> "failed", tab |-> ask[q].tab, alone |-> ask[q].alone]]
    /\ torn' = (torn \/ ask[q].phase = "save")
    /\ UNCHANGED <<minute, ahead, waiting, associated, page, upset>>

-----------------------------------------------------------------------------
(* The page.                                                                *)

RemainingSeconds(expiresAt) ==
    IF expiresAt > minute + ahead THEN expiresAt - (minute + ahead) ELSE 0

\* clientLoader: opening the page, reloading it, or the redirect after a refused code.
Navigate(t, q) ==
    /\ page[t].stage \in {"closed", "form", "expired", "error"}
    /\ AskFor(t, q, FALSE)
    /\ page' = [page EXCEPT ![t] = [stage |-> "loading", waits |-> q]]
    /\ UNCHANGED <<minute, ahead, waiting, associated, torn>>

\* By the browser's clock, when the answer comes.  A form marks it as `late'.
RanOut(setup) == RemainingSeconds(setup.expiresAt) = 0

\* SetupForm mounts: countdown and image start, and at zero the renewal is asked for.
FormMounted(setup, q) ==
    [stage |-> "form", setup |-> setup, seconds |-> RemainingSeconds(setup.expiresAt),
     image |-> 0, renewError |-> FALSE, waits |-> q, late |-> FALSE]

\* setSetup(next): useCountdown counts to the new expiry.  The renewal's effect depends on
\* `seconds' and runs again only when that has changed.
Renewed(form, setup) ==
    [form EXCEPT !.setup = setup, !.waits = NoAsk,
                 !.seconds = RemainingSeconds(setup.expiresAt), !.late = RanOut(setup)]

Waits(t, q) == page[t].stage \in {"loading", "form"} /\ page[t].waits = q

\* The answer reaches the page, or a page that no longer waits for it (cancelled).
Answered(q) ==
    LET t == ask[q].tab
        form == page[t]
        phase == ask[q].phase IN
    /\ phase \in {"answered", "expired", "failed"}
    /\ \/ /\ ~Waits(t, q)
          /\ ask' = [ask EXCEPT ![q] = NotAsked]
          /\ UNCHANGED <<page, upset>>
       \/ /\ form.stage = "loading" /\ Waits(t, q)
          /\ \/ /\ phase = "answered" /\ ~RanOut(ask[q].setup)
                /\ page' = [page EXCEPT ![t] = FormMounted(ask[q].setup, NoAsk)]
                /\ ask' = [ask EXCEPT ![q] = NotAsked]
                /\ UNCHANGED upset
             \/ /\ phase = "answered" /\ RanOut(ask[q].setup)
                /\ page' = [page EXCEPT ![t] = FormMounted(ask[q].setup, q)]
                /\ ask' = [ask EXCEPT ![q] = [phase |-> "load", tab |-> t, renew |-> TRUE,
                                               alone |-> ask[q].alone]]
                /\ UNCHANGED upset
             \/ /\ phase # "answered"
                /\ page' = [page EXCEPT ![t] =
                              [stage |-> IF phase = "expired" THEN "expired" ELSE "error"]]
                /\ ask' = [ask EXCEPT ![q] = NotAsked]
                /\ UNCHANGED upset
       \/ /\ form.stage = "form" /\ Waits(t, q)
          /\ page' = [page EXCEPT ![t] = IF phase = "answered" THEN Renewed(form, ask[q].setup)
                                         ELSE [form EXCEPT !.renewError = TRUE, !.waits = NoAsk]]
          /\ ask' = [ask EXCEPT ![q] = NotAsked]
          /\ UNCHANGED upset
    /\ UNCHANGED <<minute, ahead, waiting, associated, torn>>

\* The timer of useCountdown; the effect of SetupForm asks once when it reaches zero.
CountDown(t, q) ==
    LET seconds == RemainingSeconds(page[t].setup.expiresAt) IN
    /\ page[t].stage = "form" /\ page[t].seconds # seconds
    /\ \/ /\ seconds > 0
          /\ page' = [page EXCEPT ![t].seconds = seconds]
          /\ UNCHANGED <<ask, upset>>
       \/ /\ seconds = 0
          /\ AskFor(t, q, TRUE)
          /\ page' = [page EXCEPT ![t].seconds = 0, ![t].waits = q]
    /\ UNCHANGED <<minute, ahead, waiting, associated, torn>>

\* useQrCode: the image is drawn after the secret is shown; a drawing overtaken is dropped.
DrawQr(t) ==
    /\ page[t].stage = "form" /\ page[t].image # page[t].setup.secret
    /\ page' = [page EXCEPT ![t].image = page[t].setup.secret]
    /\ UNCHANGED <<minute, ahead, waiting, associated, ask, upset, torn>>

\* completeTotpSetup: a code made from the secret is accepted.
Accepts(secret) == waiting.stored /\ waiting.issued + SetupTtl > minute /\ secret = associated

\* The form is posted with a code of the secret scanned.  Accepted, the login is over; if
\* not, the redirect leads back to the page (Navigate), or to the page for an expired login.
Submit(t) ==
    /\ page[t].stage = "form" /\ page[t].seconds > 0 /\ page[t].image # 0
    /\ Accepts(page[t].image)
    /\ page' = [page EXCEPT ![t] = [stage |-> "done"]]
    /\ waiting' = Gone
    /\ upset' = Tabs
    /\ UNCHANGED <<minute, ahead, associated, ask, torn>>

\* A minute passes; the pending login runs out.
MinutePasses ==
    /\ minute < LastMinute
    /\ minute' = minute + 1
    /\ waiting' = IF waiting.stored /\ waiting.until <= minute' THEN Gone ELSE waiting
    /\ UNCHANGED <<ahead, associated, page, ask, upset, torn>>

SetupNext ==
    \/ \E t \in Tabs, q \in Asks : Navigate(t, q) \/ CountDown(t, q)
    \/ \E t \in Tabs : DrawQr(t) \/ Submit(t)
    \/ \E q \in Asks : LoadSetup(q) \/ AssociateSecret(q) \/ SaveSetup(q) \/ AssociateFails(q)
                       \/ AskFails(q) \/ Answered(q)
    \/ MinutePasses

-----------------------------------------------------------------------------
(* Properties.                                                              *)

\* While a page invites to scan and submit (mfa-setup.route.tsx: its button enabled, its image
\* drawn, its countdown not over), the code of that image is accepted, unless another tab or an
\* overlapping request replaced the secret, a renewal was cut off between Cognito and the store,
\* or the browser's clock is behind.  And a page at
\* zero that waits for nothing says that the renewal failed, unless the renewed secret had run
\* out by the browser's clock when it came: then the countdown stays at zero, the effect does not
\* run again, and the page says it is fetching a code for good.
ShownQrWorks ==
    \A t \in Tabs : page[t].stage = "form" =>
        /\ (/\ page[t].seconds > 0 /\ page[t].image = page[t].setup.secret
            /\ RemainingSeconds(page[t].setup.expiresAt) > 0)
              => Accepts(page[t].image) \/ t \in upset \/ ahead < 0
        /\ (page[t].seconds = 0 /\ page[t].waits = NoAsk)
              => page[t].renewError \/ page[t].late
=============================================================================
