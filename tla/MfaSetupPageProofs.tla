------------------------- MODULE MfaSetupPageProofs -------------------------
(***************************************************************************)
(* ShownQrWorks, for any number of tabs, requests and secrets, any         *)
(* lifetimes and any clock skews.                                          *)
(***************************************************************************)
EXTENDS MfaSetupPage, TLAPS

USE SetupAssumption

-----------------------------------------------------------------------------
(* The invariant                                                            *)

UnderWay(q) == ask[q] # NotAsked
Phases == {"load", "associate", "save", "answered", "expired", "failed"}

Typed ==
    /\ minute \in Nat /\ ahead \in Int /\ associated \in Nat
    /\ ask = [q \in Asks |-> ask[q]]
    /\ page = [t \in Tabs |-> page[t]]

\* The pending login outlives the secret in it.
WaitingInv ==
    waiting.stored =>
        /\ waiting.issued \in Nat /\ waiting.until \in Nat /\ waiting.until > minute
        /\ waiting.issued + SetupTtl <= waiting.until

\* A request that has been alone since it was sent has the secret associated last.
AskInv(q) ==
    UnderWay(q) =>
        /\ ask[q].phase \in Phases /\ ask[q].tab \in Tabs
        /\ {"phase", "tab", "alone"} \subseteq DOMAIN ask[q]
        /\ ask[q].phase \in {"associate", "save"} => "setup" \in DOMAIN ask[q]
        /\ ask[q].alone => \A p \in Asks \ {q} : ~UnderWay(p)
        /\ ask[q].phase \in {"associate", "save"} => ask[q].now \in 0 .. minute
        /\ ask[q].phase = "save" =>
              /\ ask[q].setup.expiresAt = ask[q].now + SetupTtl
              /\ ask[q].alone => ask[q].setup.secret = associated
        /\ ask[q].phase = "answered" => ask[q].setup.expiresAt \in Int

\* Between two renewals the record and Cognito have the same secret.
KeptInv ==
    \/ torn
    \/ \E q \in Asks : ask[q].phase = "save"
    \/ waiting.stored => waiting.secret = associated

\* The setup is the one on record, or its time is over.
Current(setup) ==
    \/ /\ waiting.stored /\ waiting.secret = setup.secret /\ associated = setup.secret
       /\ waiting.issued + SetupTtl = setup.expiresAt
    \/ setup.expiresAt <= minute

\* A form counts down, or waits at zero, or says why not; what it shows as over is over.
FormInv(t) ==
    page[t].stage = "form" =>
        /\ {"seconds", "setup", "image", "renewError", "waits", "late"} \subseteq DOMAIN page[t]
        /\ page[t].seconds \in Nat /\ page[t].setup.expiresAt \in Int
        /\ page[t].waits # NoAsk => page[t].seconds = 0
        /\ page[t].seconds = 0 => page[t].setup.expiresAt <= minute + ahead
        /\ page[t].seconds = 0 /\ page[t].waits = NoAsk => page[t].renewError \/ page[t].late

\* A request of a tab that is not upset is the only one under way and what its page waits
\* for; what it answers, and what the page counts down, is current.
TabInv(t) ==
    t \notin upset =>
        /\ \A q \in Asks : UnderWay(q) /\ ask[q].tab = t =>
              /\ ask[q].alone /\ Waits(t, q)
              /\ ask[q].phase \in Phases \ {"expired", "failed"} => ~torn
              /\ ask[q].phase = "answered" => Current(ask[q].setup)
        /\ page[t] # Closed =>
              \A q \in Asks : ask[q].phase = "save" => ask[q].tab = t
        /\ page[t].stage = "form" /\ page[t].seconds > 0 => Current(page[t].setup)

SetupInv ==
    /\ Typed /\ WaitingInv /\ KeptInv
    /\ \A q \in Asks : AskInv(q)
    /\ \A t \in Tabs : FormInv(t) /\ TabInv(t)


-----------------------------------------------------------------------------
(* Facts about the operators                                                *)

LEMMA Shapes ==
    /\ NotAsked.phase = "idle"
    /\ \A q : ask[q].phase \in Phases => UnderWay(q)
    /\ Closed.stage = "closed"
    /\ Gone.stored = FALSE
  BY DEF NotAsked, Phases, UnderWay, Closed, Gone

LEMMA Remaining ==
    ASSUME Typed, NEW e \in Int
    PROVE  /\ RemainingSeconds(e) \in Nat
           /\ RemainingSeconds(e) = 0 <=> e <= minute + ahead
  BY DEF Typed, RemainingSeconds

\* Nobody's request is under way when no tab has one.
LEMMA NoOverlap ==
    ASSUME SetupInv
    PROVE  /\ Overlap = {} => \A q \in Asks : ~UnderWay(q)
           /\ \A q \in Asks : UnderWay(q) => ask[q].tab \in Overlap
  BY DEF SetupInv, AskInv, Overlap, UnderWay

\* What a request of a tab that is not upset excludes.
LEMMA AloneInTab ==
    ASSUME SetupInv, NEW t \in Tabs \ upset, NEW q \in Asks, UnderWay(q), ask[q].tab = t
    PROVE  /\ \A p \in Asks \ {q} : ~UnderWay(p)
           /\ ask[q].alone /\ Waits(t, q)
           /\ page[t].stage = "form" => page[t].seconds = 0
<1>1. ask[q].alone /\ Waits(t, q)
  BY DEF SetupInv, TabInv
<1>2. \A p \in Asks \ {q} : ~UnderWay(p)
  BY <1>1 DEF SetupInv, AskInv
<1>3. page[t].stage = "form" => page[t].seconds = 0
  BY <1>1 DEF SetupInv, FormInv, Waits
<1> QED BY <1>1, <1>2, <1>3

-----------------------------------------------------------------------------
(* The requests                                                             *)

LEMMA LoadSetupStep ==
    ASSUME SetupInv, NEW q \in Asks, LoadSetup(q)
    PROVE  SetupInv'
<1>1. /\ ask[q].phase = "load" /\ UnderWay(q)
      /\ UNCHANGED <<minute, ahead, waiting, associated, page, upset, torn>>
  BY Shapes DEF LoadSetup, Phases
<1> DEFINE next == CASE ~waiting.stored -> "expired"
                     [] waiting.stored /\ Alive /\ ~ask[q].renew -> "answered"
                     [] OTHER -> "associate"
           setup == IF waiting.stored /\ Alive THEN ToSetup(waiting.secret, waiting.issued)
                    ELSE ToSetup(0, minute)
           new == [phase |-> next, tab |-> ask[q].tab, alone |-> ask[q].alone, now |-> minute,
                   setup |-> setup]
<1>a. ask' = [ask EXCEPT ![q] = new]
  BY DEF LoadSetup
<1>b. /\ next \in {"expired", "answered", "associate"}
      /\ next = "answered" =>
            waiting.stored /\ setup = ToSetup(waiting.secret, waiting.issued)
  OBVIOUS
<1> HIDE DEF next, setup
<1>c. /\ new.phase = next /\ new.tab = ask[q].tab /\ new.alone = ask[q].alone
      /\ new.now = minute /\ new.setup = setup
      /\ {"phase", "tab", "alone", "setup"} \subseteq DOMAIN new
  OBVIOUS
<1> HIDE DEF new
<1>2. /\ ask' = [ask EXCEPT ![q] = new]
      /\ new.phase \in {"expired", "answered", "associate"}
      /\ new.tab = ask[q].tab /\ new.alone = ask[q].alone /\ new.now = minute
      /\ {"phase", "tab", "alone", "setup"} \subseteq DOMAIN new
      /\ new.phase = "answered" =>
            waiting.stored /\ new.setup = ToSetup(waiting.secret, waiting.issued)
  BY <1>a, <1>b, <1>c
<1>3. /\ ask'[q] = new /\ ask' = [p \in Asks |-> ask'[p]]
      /\ \A p \in Asks \ {q} : ask'[p] = ask[p]
  BY <1>2 DEF SetupInv, Typed
<1>4. \A p \in Asks : UnderWay(p)' <=> UnderWay(p)
  BY <1>1, <1>2, <1>3, Shapes DEF UnderWay
<1>5. new.phase = "answered" => new.setup.expiresAt \in Int
  BY <1>2 DEF SetupInv, WaitingInv, ToSetup
<1>6. \A p \in Asks : AskInv(p)'
  <2>1. AskInv(q)'
    BY <1>1, <1>2, <1>3, <1>4, <1>5 DEF SetupInv, AskInv, Typed, Phases
  <2>2. ASSUME NEW p \in Asks \ {q} PROVE AskInv(p)'
    BY <1>1, <1>3, <1>4 DEF SetupInv, AskInv
  <2> QED BY <2>1, <2>2
<1>7. Typed' /\ WaitingInv' /\ KeptInv'
  BY <1>1, <1>2, <1>3 DEF SetupInv, Typed, WaitingInv, KeptInv
<1>8. ASSUME NEW t \in Tabs PROVE FormInv(t)' /\ TabInv(t)'
  <2>1. FormInv(t)'
    BY <1>1 DEF SetupInv, FormInv
  <2>2. ASSUME t \notin upset, ask[q].tab = t, new.phase = "answered" PROVE Current(new.setup)
    <3>1. ~torn /\ \A p \in Asks : ask[p].phase # "save"
      BY <1>1, <2>2, AloneInTab, Shapes DEF SetupInv, TabInv, Phases
    <3>2. waiting.secret = associated
      BY <1>2, <2>2, <3>1 DEF SetupInv, KeptInv
    <3> QED BY <1>2, <2>2, <3>2 DEF Current, ToSetup
  <2>3. TabInv(t)'
    BY <1>1, <1>2, <1>3, <1>4, <2>2 DEF SetupInv, TabInv, Current, Waits, Phases
  <2> QED BY <2>1, <2>3
<1> QED BY <1>6, <1>7, <1>8 DEF SetupInv

LEMMA AssociateSecretStep ==
    ASSUME SetupInv, NEW q \in Asks, AssociateSecret(q)
    PROVE  SetupInv'
<1>1. /\ ask[q].phase = "associate" /\ UnderWay(q)
      /\ associated' = associated + 1
      /\ upset' = upset \union {t \in Tabs : t # ask[q].tab /\ page[t] # Closed}
      /\ UNCHANGED <<minute, ahead, waiting, page, torn>>
  BY Shapes DEF AssociateSecret, Phases
<1> DEFINE new == [ask[q] EXCEPT !.phase = "save",
                                 !.setup = ToSetup(associated + 1, ask[q].now)]
<1>a. ask' = [ask EXCEPT ![q] = new]
  BY DEF AssociateSecret, SetupInv, Typed
<1>b. {"phase", "tab", "alone", "setup"} \subseteq DOMAIN ask[q]
  BY <1>1 DEF SetupInv, AskInv
<1>c. /\ new.phase = "save" /\ new.setup = ToSetup(associated + 1, ask[q].now)
      /\ new.tab = ask[q].tab /\ new.alone = ask[q].alone /\ new.now = ask[q].now
      /\ {"phase", "tab", "alone", "setup"} \subseteq DOMAIN new
  BY <1>b
<1> HIDE DEF new
<1>2. /\ ask'[q] = new /\ ask' = [p \in Asks |-> ask'[p]]
      /\ ask'[q].phase = "save" /\ ask'[q].setup = ToSetup(associated + 1, ask[q].now)
      /\ ask'[q].tab = ask[q].tab /\ ask'[q].alone = ask[q].alone /\ ask'[q].now = ask[q].now
      /\ \A p \in Asks \ {q} : ask'[p] = ask[p]
  BY <1>a, <1>c DEF SetupInv, Typed
<1>3. \A p \in Asks : UnderWay(p)' <=> UnderWay(p)
  BY <1>1, <1>2, Shapes DEF UnderWay
<1>4. \A p \in Asks : AskInv(p)'
  <2>1. AskInv(q)'
    BY <1>1, <1>2, <1>3, <1>c DEF SetupInv, AskInv, Typed, Phases, ToSetup
  <2>2. ASSUME NEW p \in Asks \ {q} PROVE AskInv(p)'
    BY <1>1, <1>2, <1>3 DEF SetupInv, AskInv
  <2> QED BY <2>1, <2>2
<1>5. Typed' /\ WaitingInv' /\ KeptInv'
  BY <1>1, <1>2 DEF SetupInv, Typed, WaitingInv, KeptInv
<1>6. ASSUME NEW t \in Tabs PROVE FormInv(t)' /\ TabInv(t)'
  <2>1. FormInv(t)'
    BY <1>1 DEF SetupInv, FormInv
  <2>2. CASE t # ask[q].tab /\ t \notin upset'
    <3>1. page[t] = Closed /\ t \notin upset
      BY <1>1, <2>2
    <3>2. \A p \in Asks : UnderWay(p) => ask[p].tab # t
      BY <3>1, AloneInTab, Shapes DEF Waits
    <3> QED BY <1>1, <1>2, <1>3, <2>1, <3>1, <3>2, Shapes DEF TabInv
  <2>3. CASE t = ask[q].tab /\ t \notin upset'
    <3>1. t \notin upset
      BY <1>1, <2>3
    <3>2. /\ \A p \in Asks \ {q} : ~UnderWay(p)
          /\ ask[q].alone /\ Waits(t, q) /\ ~torn
          /\ page[t].stage = "form" => page[t].seconds = 0
      BY <1>1, <2>3, <3>1, AloneInTab DEF SetupInv, TabInv, Phases
    <3>3. \A p \in Asks \ {q} : ask'[p].phase # "save"
      BY <1>2, <3>2, Shapes DEF Phases
    <3>4. Waits(t, q)'
      BY <1>1, <3>2 DEF Waits
    <3>5. \A p \in Asks : UnderWay(p)' => p = q
      BY <1>3, <3>2
    <3>6. ASSUME NEW p \in Asks, UnderWay(p)', ask'[p].tab = t
          PROVE  /\ ask'[p].alone /\ Waits(t, p)'
                 /\ ask'[p].phase = "save" /\ ~torn'
      BY <1>1, <1>2, <3>2, <3>4, <3>5, <3>6
    <3>7. \A p \in Asks : ask'[p].phase = "save" => ask'[p].tab = t
      BY <1>2, <2>3, <3>3
    <3>8. ~(page'[t].stage = "form" /\ page'[t].seconds > 0)
      BY <1>1, <3>2
    <3> QED BY <2>1, <3>6, <3>7, <3>8 DEF TabInv
  <2> QED BY <2>1, <2>2, <2>3 DEF TabInv
<1> QED BY <1>4, <1>5, <1>6 DEF SetupInv

LEMMA SaveSetupStep ==
    ASSUME SetupInv, NEW q \in Asks, SaveSetup(q)
    PROVE  SetupInv'
<1>1. /\ ask[q].phase = "save" /\ UnderWay(q)
      /\ UNCHANGED <<minute, ahead, associated, page, upset>>
      /\ torn' <=> ~ask[q].alone
      /\ waiting'.stored /\ waiting'.secret = ask[q].setup.secret
      /\ waiting'.issued = ask[q].now /\ waiting'.until = minute + PendingTtl
  <2>1. ask[q].phase = "save" /\ UnderWay(q)
    BY Shapes DEF SaveSetup, Phases
  <2>2. UNCHANGED <<minute, ahead, associated, page, upset>>
    BY DEF SaveSetup
  <2>3. torn' <=> ~ask[q].alone
    BY Zenon DEF SaveSetup
  <2>4. /\ waiting'.stored /\ waiting'.secret = ask[q].setup.secret
        /\ waiting'.issued = ask[q].now /\ waiting'.until = minute + PendingTtl
    BY DEF SaveSetup
  <2> QED BY <2>1, <2>2, <2>3, <2>4
<1> DEFINE new == [ask[q] EXCEPT !.phase = "answered"]
<1>a. ask' = [ask EXCEPT ![q] = new]
  BY DEF SaveSetup, SetupInv, Typed
<1>b. {"phase", "tab", "alone", "setup"} \subseteq DOMAIN ask[q]
  BY <1>1 DEF SetupInv, AskInv
<1>c. /\ new.phase = "answered" /\ new.setup = ask[q].setup
      /\ new.tab = ask[q].tab /\ new.alone = ask[q].alone
      /\ {"phase", "tab", "alone", "setup"} \subseteq DOMAIN new
  BY <1>b
<1> HIDE DEF new
<1>2. /\ ask'[q] = new /\ ask' = [p \in Asks |-> ask'[p]]
      /\ ask'[q].phase = "answered" /\ ask'[q].setup = ask[q].setup
      /\ ask'[q].tab = ask[q].tab /\ ask'[q].alone = ask[q].alone
      /\ \A p \in Asks \ {q} : ask'[p] = ask[p]
  BY <1>a, <1>c DEF SetupInv, Typed
<1>3. \A p \in Asks : UnderWay(p)' <=> UnderWay(p)
  BY <1>1, <1>2, Shapes DEF UnderWay
<1>4. /\ ask[q].now \in 0 .. minute /\ ask[q].setup.expiresAt = ask[q].now + SetupTtl
      /\ ask[q].alone => ask[q].setup.secret = associated
      /\ minute \in Nat
  BY <1>1 DEF SetupInv, AskInv, Typed
<1>5. \A p \in Asks : AskInv(p)'
  <2>1. AskInv(q)'
    BY <1>1, <1>2, <1>3, <1>4, <1>c DEF SetupInv, AskInv, Phases
  <2>2. ASSUME NEW p \in Asks \ {q} PROVE AskInv(p)'
    BY <1>1, <1>2, <1>3 DEF SetupInv, AskInv
  <2> QED BY <2>1, <2>2
<1>6. Typed' /\ WaitingInv' /\ KeptInv'
  <2>1. Typed'
    BY <1>1, <1>2 DEF SetupInv, Typed
  <2>2. WaitingInv'
    BY <1>1, <1>4 DEF WaitingInv
  <2>3. KeptInv'
    BY <1>1, <1>4 DEF KeptInv
  <2> QED BY <2>1, <2>2, <2>3
<1>7. ASSUME NEW t \in Tabs PROVE FormInv(t)' /\ TabInv(t)'
  <2>1. FormInv(t)'
    BY <1>1 DEF SetupInv, FormInv
  <2>2. CASE t # ask[q].tab /\ t \notin upset
    <3>1. page[t] = Closed
      BY <1>1, <2>2 DEF SetupInv, TabInv
    <3>2. \A p \in Asks : UnderWay(p) => ask[p].tab # t
      BY <3>1, <2>2, AloneInTab, Shapes DEF Waits
    <3> QED BY <1>1, <1>2, <1>3, <2>1, <3>1, <3>2, Shapes DEF TabInv
  <2>3. CASE t = ask[q].tab /\ t \notin upset
    <3>1. /\ \A p \in Asks \ {q} : ~UnderWay(p)
          /\ ask[q].alone /\ Waits(t, q)
          /\ page[t].stage = "form" => page[t].seconds = 0
      BY <1>1, <2>3, AloneInTab
    <3>2. \A p \in Asks : ask'[p].phase # "save"
      BY <1>2, <3>1, Shapes DEF Phases
    <3>3. Current(ask[q].setup)'
      BY <1>1, <1>2, <1>4, <3>1 DEF Current
    <3>4. Waits(t, q)'
      BY <1>1, <3>1 DEF Waits
    <3>5. \A p \in Asks : UnderWay(p)' => p = q
      BY <1>3, <3>1
    <3>6. ASSUME NEW p \in Asks, UnderWay(p)', ask'[p].tab = t
          PROVE  ask'[p].alone /\ Waits(t, p)' /\ ~torn' /\ Current(ask[p].setup)'
      BY <1>1, <1>2, <3>1, <3>3, <3>4, <3>5, <3>6
    <3>7. ~(page'[t].stage = "form" /\ page'[t].seconds > 0)
      BY <1>1, <3>1
    <3> QED BY <2>1, <3>2, <3>6, <3>7 DEF TabInv
  <2> QED BY <1>1, <2>1, <2>2, <2>3 DEF TabInv
<1> QED BY <1>5, <1>6, <1>7 DEF SetupInv

\* A request that ends: expired or failed, for its page to see.
LEMMA RequestEndsStep ==
    ASSUME SetupInv, NEW q \in Asks, AssociateFails(q) \/ AskFails(q)
    PROVE  SetupInv'
<1>1. /\ ask[q].phase \in {"load", "associate", "save", "answered"} /\ UnderWay(q)
      /\ UNCHANGED <<minute, ahead, waiting, associated, page, upset>>
      /\ torn' <=> (torn \/ ask[q].phase = "save")
  <2>1. ask[q].phase \in {"load", "associate", "save", "answered"} /\ UnderWay(q)
    BY Shapes DEF AssociateFails, AskFails, Phases
  <2>2. UNCHANGED <<minute, ahead, waiting, associated, page, upset>>
    BY DEF AssociateFails, AskFails
  <2>3. torn' <=> (torn \/ ask[q].phase = "save")
    BY Zenon DEF AssociateFails, AskFails
  <2> QED BY <2>1, <2>2, <2>3
<1>a. PICK end \in {"expired", "failed"} :
        ask' = [ask EXCEPT ![q] = [phase |-> end, tab |-> ask[q].tab, alone |-> ask[q].alone]]
  BY DEF AssociateFails, AskFails
<1> DEFINE new == [phase |-> end, tab |-> ask[q].tab, alone |-> ask[q].alone]
<1>c. /\ new.phase = end /\ new.tab = ask[q].tab /\ new.alone = ask[q].alone
      /\ {"phase", "tab", "alone"} \subseteq DOMAIN new
  OBVIOUS
<1>d. ask' = [ask EXCEPT ![q] = new]
  BY <1>a
<1> HIDE DEF new
<1>2. /\ ask'[q] = new /\ ask' = [p \in Asks |-> ask'[p]]
      /\ ask'[q].phase \in {"expired", "failed"}
      /\ ask'[q].tab = ask[q].tab /\ ask'[q].alone = ask[q].alone
      /\ \A p \in Asks \ {q} : ask'[p] = ask[p]
  BY <1>c, <1>d DEF SetupInv, Typed
<1>3. \A p \in Asks : UnderWay(p)' <=> UnderWay(p)
  BY <1>1, <1>2, Shapes DEF UnderWay, Phases
<1>5. \A p \in Asks : AskInv(p)'
  <2>1. AskInv(q)'
    BY <1>1, <1>2, <1>3, <1>c DEF SetupInv, AskInv, Phases
  <2>2. ASSUME NEW p \in Asks \ {q} PROVE AskInv(p)'
    BY <1>1, <1>2, <1>3 DEF SetupInv, AskInv
  <2> QED BY <2>1, <2>2
<1>6. Typed' /\ WaitingInv' /\ KeptInv'
  <2>1. Typed' /\ WaitingInv'
    BY <1>1, <1>2 DEF SetupInv, Typed, WaitingInv
  <2>2. KeptInv'
    BY <1>1, <1>2 DEF SetupInv, KeptInv
  <2> QED BY <2>1, <2>2
<1>7. ASSUME NEW t \in Tabs PROVE FormInv(t)' /\ TabInv(t)'
  <2>1. FormInv(t)'
    BY <1>1 DEF SetupInv, FormInv
  <2>2. ASSUME t \notin upset PROVE TabInv(t)'
    <3>1. ASSUME NEW p \in Asks, UnderWay(p)', ask'[p].tab = t
          PROVE  /\ ask'[p].alone /\ Waits(t, p)'
                 /\ ask'[p].phase \in Phases \ {"expired", "failed"} => ~torn'
                 /\ ask'[p].phase = "answered" => Current(ask[p].setup)'
      <4>1. UnderWay(p) /\ ask[p].tab = t
        BY <1>2, <1>3, <3>1
      <4>2. ask[p].alone /\ Waits(t, p) /\ \A o \in Asks \ {p} : ~UnderWay(o)
        BY <4>1, <2>2, AloneInTab
      <4>3. p = q
        BY <4>2, <1>1
      <4> QED BY <1>1, <1>2, <4>2, <4>3 DEF Waits
    <3>2. ASSUME page'[t] # Closed, NEW p \in Asks, ask'[p].phase = "save"
          PROVE  ask'[p].tab = t
      BY <1>1, <1>2, <2>2, <3>2 DEF SetupInv, TabInv
    <3>3. ASSUME page'[t].stage = "form", page'[t].seconds > 0 PROVE Current(page[t].setup)'
      BY <1>1, <2>2, <3>3 DEF SetupInv, TabInv, Current
    <3> QED BY <3>1, <3>2, <3>3 DEF TabInv
  <2> QED BY <1>1, <2>1, <2>2 DEF TabInv
<1> QED BY <1>5, <1>6, <1>7 DEF SetupInv


-----------------------------------------------------------------------------
(* The answers                                                              *)

\* What an answer leaves of the requests: this one is over, or starts again for its tab.
LEMMA AnswerKept ==
    ASSUME SetupInv, NEW q \in Asks, NEW t \in Tabs, UnderWay(q), ask[q].tab = t,
           ask[q].phase \in {"answered", "expired", "failed"},
           UNCHANGED <<minute, ahead, waiting, associated, upset, torn>>,
           NEW next, ask' = [ask EXCEPT ![q] = next],
           next = NotAsked
           \/ /\ next.phase = "load" /\ next.tab = t /\ next.alone = ask[q].alone
              /\ {"phase", "tab", "alone"} \subseteq DOMAIN next
              /\ t \notin upset => ~torn /\ Waits(t, q)',
           NEW new, page' = [page EXCEPT ![t] = new],
           FormInv(t)',
           t \notin upset /\ new.stage = "form" /\ new.seconds > 0 => Current(new.setup)
    PROVE  SetupInv'
<1>1. /\ ask'[q] = next /\ ask' = [p \in Asks |-> ask'[p]]
      /\ \A p \in Asks \ {q} : ask'[p] = ask[p]
      /\ page'[t] = new /\ page' = [u \in Tabs |-> page'[u]]
      /\ \A u \in Tabs \ {t} : page'[u] = page[u]
  BY DEF SetupInv, Typed
<1>2. ASSUME NEW p \in Asks, UnderWay(p)'
      PROVE  /\ UnderWay(p)
             /\ p = q => /\ next.phase = "load" /\ next.tab = t /\ next.alone = ask[q].alone
                         /\ {"phase", "tab", "alone"} \subseteq DOMAIN next
                         /\ t \notin upset => ~torn /\ Waits(t, q)'
  BY <1>1, <1>2 DEF UnderWay, NotAsked
<1>3. \A p \in Asks : AskInv(p)'
  <2>1. AskInv(q)'
    <3> SUFFICES ASSUME UnderWay(q)' PROVE AskInv(q)'
      BY DEF AskInv
    <3>1. next.phase = "load" /\ next.tab = t /\ next.alone = ask[q].alone
          /\ {"phase", "tab", "alone"} \subseteq DOMAIN next
      BY <1>2
    <3>2. ask[q].alone => \A p \in Asks \ {q} : ~UnderWay(p)
      BY DEF SetupInv, AskInv
    <3>3. next.alone => \A p \in Asks \ {q} : ~UnderWay(p)'
      BY <1>2, <3>1, <3>2
    <3> QED BY <1>1, <3>1, <3>3 DEF AskInv, Phases
  <2>2. ASSUME NEW p \in Asks \ {q} PROVE AskInv(p)'
    <3> SUFFICES ASSUME UnderWay(p)' PROVE AskInv(p)'
      BY DEF AskInv
    <3>1. ask[p].alone => \A o \in Asks \ {p} : ~UnderWay(o)'
      BY <1>2 DEF SetupInv, AskInv
    <3> QED BY <1>1, <1>2, <3>1 DEF SetupInv, AskInv
  <2> QED BY <2>1, <2>2
<1>4. ASSUME NEW p \in Asks PROVE ask'[p].phase = "save" <=> ask[p].phase = "save" /\ p # q
  BY <1>1 DEF NotAsked
<1>5. Typed' /\ WaitingInv' /\ KeptInv'
  <2>1. Typed' /\ WaitingInv'
    BY <1>1 DEF SetupInv, Typed, WaitingInv
  <2>2. KeptInv'
    BY <1>1, <1>4 DEF SetupInv, KeptInv
  <2> QED BY <2>1, <2>2
<1>6. ASSUME NEW u \in Tabs \ {t} PROVE FormInv(u)' /\ TabInv(u)'
  <2>1. FormInv(u)'
    BY <1>1 DEF SetupInv, FormInv
  <2>2. ASSUME u \notin upset PROVE TabInv(u)'
    <3>1. \A p \in Asks : UnderWay(p) => ask[p].tab # u
      BY <2>2, AloneInTab
    <3>2. ASSUME NEW p \in Asks, UnderWay(p)', ask'[p].tab = u PROVE FALSE
      BY <1>1, <1>2, <3>1, <3>2
    <3>3. ASSUME page'[u] # Closed, NEW p \in Asks, ask'[p].phase = "save"
          PROVE  ask'[p].tab = u
      BY <1>1, <1>4, <2>2, <3>3 DEF SetupInv, TabInv
    <3>4. ASSUME page'[u].stage = "form", page'[u].seconds > 0 PROVE Current(page[u].setup)'
      BY <1>1, <2>2, <3>4 DEF SetupInv, TabInv, Current
    <3> QED BY <3>2, <3>3, <3>4 DEF TabInv
  <2> QED BY <2>1, <2>2 DEF TabInv
<1>7. TabInv(t)'
  <2> SUFFICES ASSUME t \notin upset PROVE TabInv(t)'
    BY DEF TabInv
  <2>1. \A p \in Asks \ {q} : ~UnderWay(p)
    BY AloneInTab
  <2>2. ask[q].alone
    BY AloneInTab
  <2>3. ASSUME NEW p \in Asks, UnderWay(p)'
        PROVE  ask'[p].alone /\ Waits(t, p)' /\ ~torn' /\ ask'[p].phase = "load"
    BY <1>1, <1>2, <2>1, <2>2, <2>3
  <2>4. \A p \in Asks : ask'[p].phase # "save"
    BY <1>4, <2>1, Shapes DEF Phases
  <2>5. page'[t].stage = "form" /\ page'[t].seconds > 0 => Current(page[t].setup)'
    BY <1>1 DEF Current
  <2> QED BY <2>3, <2>4, <2>5 DEF TabInv
<1> QED BY <1>3, <1>5, <1>6, <1>7 DEF SetupInv


LEMMA AnsweredStep ==
    ASSUME SetupInv, NEW q \in Asks, Answered(q)
    PROVE  SetupInv'
<1> DEFINE phase == ask[q].phase
           setup == ask[q].setup
<1>1. /\ phase \in {"answered", "expired", "failed"} /\ UnderWay(q)
      /\ UNCHANGED <<minute, ahead, waiting, associated, torn>>
  BY Shapes DEF Answered, Phases
<1>2. ask[q].tab \in Tabs /\ Typed
  BY <1>1 DEF SetupInv, AskInv
<1>t. PICK t \in Tabs : t = ask[q].tab
  BY <1>2
<1> DEFINE form == page[t]
<1>3. phase = "answered" =>
         /\ setup.expiresAt \in Int
         /\ RemainingSeconds(setup.expiresAt) \in Nat
         /\ RemainingSeconds(setup.expiresAt) = 0 <=> setup.expiresAt <= minute + ahead
  <2> SUFFICES ASSUME phase = "answered" PROVE
         /\ setup.expiresAt \in Int
         /\ RemainingSeconds(setup.expiresAt) \in Nat
         /\ RemainingSeconds(setup.expiresAt) = 0 <=> setup.expiresAt <= minute + ahead
    OBVIOUS
  <2>1. setup.expiresAt \in Int
    BY <1>1 DEF SetupInv, AskInv
  <2> QED BY <1>2, <2>1, Remaining
<1>4. phase = "answered" /\ t \notin upset => Current(setup) /\ ~torn
  BY <1>1, <1>t DEF SetupInv, TabInv, Phases
<1>5. NoAsk # q
  OBVIOUS
<1>6. CASE /\ ~Waits(t, q)
           /\ ask' = [ask EXCEPT ![q] = NotAsked]
           /\ UNCHANGED <<page, upset>>
  <2>1. page' = [page EXCEPT ![t] = page[t]]
    BY <1>2, <1>6 DEF Typed
  <2>2. FormInv(t)'
    BY <1>1, <1>2, <1>6 DEF SetupInv, FormInv
  <2>3. t \in upset
    BY <1>1, <1>6, <1>t, AloneInTab
  <2> QED BY <1>1, <1>2, <1>6, <2>1, <2>2, <2>3, <1>t, AnswerKept
<1>7. CASE /\ form.stage = "loading" /\ phase = "answered" /\ ~RanOut(setup)
           /\ page' = [page EXCEPT ![t] = FormMounted(setup, NoAsk)]
           /\ ask' = [ask EXCEPT ![q] = NotAsked]
           /\ UNCHANGED upset
  <2>p. PICK new : new = FormMounted(setup, NoAsk)
    OBVIOUS
  <2>1. /\ new.stage = "form" /\ new.setup = setup /\ new.waits = NoAsk
        /\ new.seconds = RemainingSeconds(setup.expiresAt)
        /\ {"seconds", "setup", "image", "renewError", "waits", "late"} \subseteq DOMAIN new
    BY <2>p DEF FormMounted
  <2>2. page' = [page EXCEPT ![t] = new]
    BY <1>7, <2>p
  <2>3. new.seconds \in Nat \ {0}
    BY <1>3, <1>7, <2>1 DEF RanOut
  <2>4. FormInv(t)'
    BY <1>2, <1>3, <1>7, <2>1, <2>2, <2>3 DEF FormInv, Typed
  <2>5. t \notin upset => Current(new.setup)
    BY <1>4, <1>7, <2>1
  <2> QED BY <1>1, <1>2, <1>7, <2>2, <2>4, <2>5, <1>t, AnswerKept
<1>8. CASE /\ form.stage = "loading" /\ phase = "answered" /\ RanOut(setup)
           /\ page' = [page EXCEPT ![t] = FormMounted(setup, q)]
           /\ ask' = [ask EXCEPT ![q] = [phase |-> "load", tab |-> t, renew |-> TRUE,
                                          alone |-> ask[q].alone]]
           /\ UNCHANGED upset
  <2>p. PICK new : new = FormMounted(setup, q)
    OBVIOUS
  <2>q. PICK next :
          next = [phase |-> "load", tab |-> t, renew |-> TRUE, alone |-> ask[q].alone]
    OBVIOUS
  <2>1. /\ new.stage = "form" /\ new.setup = setup /\ new.waits = q
        /\ new.seconds = RemainingSeconds(setup.expiresAt)
        /\ {"seconds", "setup", "image", "renewError", "waits", "late"} \subseteq DOMAIN new
    BY <2>p DEF FormMounted
  <2>2. page' = [page EXCEPT ![t] = new]
    BY <1>8, <2>p
  <2>3. /\ next.phase = "load" /\ next.tab = t /\ next.alone = ask[q].alone
        /\ {"phase", "tab", "alone"} \subseteq DOMAIN next
    BY <2>q
  <2>4. ask' = [ask EXCEPT ![q] = next]
    BY <1>8, <2>q
  <2>5. new.seconds = 0
    BY <1>8, <2>1 DEF RanOut
  <2>6. FormInv(t)'
    BY <1>1, <1>2, <1>3, <1>5, <1>8, <2>1, <2>2, <2>5 DEF FormInv, Typed
  <2>7. Waits(t, q)' /\ (t \notin upset => ~torn)
    BY <1>2, <1>4, <1>8, <2>1, <2>2 DEF Waits, Typed
  <2>8. ~(t \notin upset /\ new.stage = "form" /\ new.seconds > 0)
    BY <2>5
  <2>9. /\ next.phase = "load" /\ next.tab = t /\ next.alone = ask[q].alone
        /\ {"phase", "tab", "alone"} \subseteq DOMAIN next
        /\ t \notin upset => ~torn /\ Waits(t, q)'
    BY <2>3, <2>7
  <2>10. UNCHANGED <<minute, ahead, waiting, associated, upset, torn>>
    BY <1>1, <1>8
  <2> HIDE DEF form, setup
  <2> QED BY <1>1, <2>2, <2>4, <2>6, <2>8, <2>9, <2>10, <1>t, AnswerKept, Zenon
<1>9. CASE /\ form.stage = "loading" /\ phase # "answered"
           /\ page' = [page EXCEPT ![t] =
                         [stage |-> IF phase = "expired" THEN "expired" ELSE "error"]]
           /\ ask' = [ask EXCEPT ![q] = NotAsked]
           /\ UNCHANGED upset
  <2>p. PICK new : new = [stage |-> IF phase = "expired" THEN "expired" ELSE "error"]
    OBVIOUS
  <2>1. new.stage # "form"
    BY <2>p
  <2>2. page' = [page EXCEPT ![t] = new]
    BY <1>9, <2>p
  <2>3. FormInv(t)'
    BY <1>2, <2>1, <2>2 DEF FormInv, Typed
  <2> QED BY <1>1, <1>2, <1>9, <2>1, <2>2, <2>3, <1>t, AnswerKept
<1>10. CASE /\ form.stage = "form" /\ Waits(t, q) /\ phase = "answered"
            /\ page' = [page EXCEPT ![t] = Renewed(form, setup)]
            /\ ask' = [ask EXCEPT ![q] = NotAsked]
            /\ UNCHANGED upset
  <2>p. PICK new : new = Renewed(form, setup)
    OBVIOUS
  <2>0. {"seconds", "setup", "image", "renewError", "waits", "late"} \subseteq DOMAIN form
    BY <1>2, <1>10 DEF SetupInv, FormInv
  <2>1. /\ new.setup = setup /\ new.waits = NoAsk
        /\ new.seconds = RemainingSeconds(setup.expiresAt)
        /\ DOMAIN new = DOMAIN form
    BY <2>0, <2>p DEF Renewed
  <2>2. new.late = RanOut(setup)
    BY <2>0, <2>p DEF Renewed
  <2>3. page' = [page EXCEPT ![t] = new]
    BY <1>10, <2>p
  <2>4. new.seconds = 0 => new.late
    BY <2>1, <2>2 DEF RanOut
  <2>5. FormInv(t)'
    BY <1>1, <1>2, <1>3, <1>10, <2>0, <2>1, <2>3, <2>4 DEF FormInv, Typed
  <2>6. t \notin upset => Current(new.setup)
    BY <1>4, <1>10, <2>1
  <2> QED BY <1>1, <1>2, <1>10, <2>3, <2>5, <2>6, <1>t, AnswerKept
<1>11. CASE /\ form.stage = "form" /\ Waits(t, q) /\ phase # "answered"
            /\ page' = [page EXCEPT ![t] = [form EXCEPT !.renewError = TRUE, !.waits = NoAsk]]
            /\ ask' = [ask EXCEPT ![q] = NotAsked]
            /\ UNCHANGED upset
  <2>p. PICK new : new = [form EXCEPT !.renewError = TRUE, !.waits = NoAsk]
    OBVIOUS
  <2>0. /\ {"seconds", "setup", "image", "renewError", "waits", "late"} \subseteq DOMAIN form
        /\ form.seconds = 0 /\ form.setup.expiresAt \in Int
        /\ form.setup.expiresAt <= minute + ahead
    BY <1>2, <1>5, <1>11 DEF SetupInv, FormInv, Waits
  <2>1. /\ new.setup = form.setup /\ new.waits = NoAsk /\ new.seconds = 0
        /\ DOMAIN new = DOMAIN form
    BY <2>0, <2>p
  <2>2. new.renewError
    BY <2>0, <2>p
  <2>3. page' = [page EXCEPT ![t] = new]
    BY <1>11, <2>p
  <2>5. FormInv(t)'
    BY <1>1, <1>2, <1>11, <2>0, <2>1, <2>2, <2>3 DEF FormInv, Typed
  <2>6. ~(t \notin upset /\ new.stage = "form" /\ new.seconds > 0)
    BY <2>1
  <2>7. UNCHANGED <<minute, ahead, waiting, associated, upset, torn>>
    BY <1>1, <1>11
  <2>8. ask' = [ask EXCEPT ![q] = NotAsked]
    BY <1>11
  <2> HIDE DEF form, setup
  <2> QED BY <1>1, <2>3, <2>5, <2>6, <2>7, <2>8, <1>t, AnswerKept, Zenon
<1> QED BY <1>6, <1>7, <1>8, <1>9, <1>10, <1>11, <1>t DEF Answered


-----------------------------------------------------------------------------
(* The page                                                                 *)

\* A request sent by a tab: nobody else's was under way, or all their tabs are upset.
LEMMA AskKept ==
    ASSUME SetupInv, NEW t \in Tabs, NEW q \in Asks, NEW renew, AskFor(t, q, renew),
           UNCHANGED <<minute, ahead, waiting, associated, torn>>,
           NEW new, page' = [page EXCEPT ![t] = new],
           Waits(t, q)', FormInv(t)', new.stage = "form" => new.seconds = 0
    PROVE  SetupInv'
<1>1. /\ ~UnderWay(q)
      /\ page'[t] = new /\ page' = [u \in Tabs |-> page'[u]]
      /\ \A u \in Tabs \ {t} : page'[u] = page[u]
      /\ Typed
  BY DEF AskFor, UnderWay, SetupInv, Typed
<1>2. /\ ask' = [p \in Asks |-> ask'[p]]
      /\ \A p \in Asks \ {q} : ~UnderWay(p) => ask'[p] = NotAsked
      /\ \A p \in Asks \ {q} : UnderWay(p) => ask'[p] = [ask[p] EXCEPT !.alone = FALSE]
      /\ ask'[q] = [phase |-> "load", tab |-> t, renew |-> renew, alone |-> Overlap = {}]
  BY DEF AskFor, UnderWay
<1>3. /\ ask'[q].phase = "load" /\ ask'[q].tab = t
      /\ {"phase", "tab", "alone"} \subseteq DOMAIN ask'[q]
      /\ UnderWay(q)'
  BY <1>2, Shapes DEF UnderWay, NotAsked
<1>4. ask'[q].alone <=> Overlap = {}
  <2>1. PICK c \in BOOLEAN : c = (Overlap = {})
    OBVIOUS
  <2>2. ask'[q] = [phase |-> "load", tab |-> t, renew |-> renew, alone |-> c]
    BY <1>2, <2>1
  <2>3. ask'[q].alone = c
    BY <2>2
  <2> QED BY <2>1, <2>3
<1>5. ASSUME NEW p \in Asks \ {q}, UnderWay(p)
      PROVE  /\ ask'[p].phase = ask[p].phase /\ ask'[p].tab = ask[p].tab
             /\ ask'[p].setup = ask[p].setup /\ ask'[p].now = ask[p].now
             /\ DOMAIN ask'[p] = DOMAIN ask[p]
             /\ ~ask'[p].alone
  <2>1. {"phase", "tab", "alone"} \subseteq DOMAIN ask[p]
    BY <1>5 DEF SetupInv, AskInv
  <2>2. ask'[p] = [ask[p] EXCEPT !.alone = FALSE]
    BY <1>2, <1>5
  <2>3. ~ask'[p].alone
    BY <2>1, <2>2
  <2> QED BY <2>1, <2>2, <2>3
<1>6. ASSUME NEW p \in Asks \ {q}, UnderWay(p)' PROVE UnderWay(p)
  BY <1>2, <1>6 DEF UnderWay
<1>7. ASSUME NEW p \in Asks PROVE ask'[p].phase = "save" <=> ask[p].phase = "save"
  <2>1. CASE p = q
    BY <1>1, <1>3, <2>1, Shapes DEF Phases
  <2>2. CASE p # q /\ UnderWay(p)
    BY <1>5, <2>2
  <2>3. CASE p # q /\ ~UnderWay(p)
    BY <1>2, <2>3 DEF UnderWay
  <2> QED BY <2>1, <2>2, <2>3
<1>8. \A p \in Asks : AskInv(p)'
  <2>1. AskInv(q)'
    <3>1. ask'[q].alone => \A p \in Asks \ {q} : ~UnderWay(p)'
      BY <1>4, <1>6, NoOverlap
    <3> QED BY <1>3, <3>1 DEF AskInv, Phases
  <2>2. ASSUME NEW p \in Asks \ {q} PROVE AskInv(p)'
    <3> SUFFICES ASSUME UnderWay(p)' PROVE AskInv(p)'
      BY DEF AskInv
    <3>1. UnderWay(p) /\ AskInv(p)
      BY <1>6 DEF SetupInv
    <3> QED BY <1>5, <3>1 DEF AskInv
  <2> QED BY <2>1, <2>2
<1>9. Typed' /\ WaitingInv' /\ KeptInv'
  <2>1. Typed' /\ WaitingInv'
    BY <1>1, <1>2 DEF SetupInv, Typed, WaitingInv
  <2>2. KeptInv'
    BY <1>7 DEF SetupInv, KeptInv
  <2> QED BY <2>1, <2>2
<1>10. ASSUME NEW u \in Tabs, u # t PROVE FormInv(u)' /\ TabInv(u)'
  <2>1. FormInv(u)'
    BY <1>1, <1>10 DEF SetupInv, FormInv
  <2>2. ASSUME u \notin upset' PROVE TabInv(u)'
    <3>1. u \notin upset /\ u \notin Overlap
      BY <1>10, <2>2 DEF AskFor
    <3>2. \A p \in Asks : UnderWay(p) => ask[p].tab # u
      BY <3>1, NoOverlap
    <3>3. ASSUME NEW p \in Asks, UnderWay(p)', ask'[p].tab = u PROVE FALSE
      BY <1>3, <1>5, <1>6, <1>10, <3>2, <3>3
    <3>4. ASSUME page'[u] # Closed, NEW p \in Asks, ask'[p].phase = "save" PROVE FALSE
      BY <1>1, <1>7, <1>10, <3>1, <3>2, <3>4, Shapes DEF SetupInv, TabInv, Phases
    <3>5. ASSUME page'[u].stage = "form", page'[u].seconds > 0 PROVE Current(page[u].setup)'
      BY <1>1, <1>10, <3>1, <3>5 DEF SetupInv, TabInv, Current
    <3> QED BY <3>3, <3>4, <3>5 DEF TabInv
  <2> QED BY <2>1, <2>2 DEF TabInv
<1>11. TabInv(t)'
  <2> SUFFICES ASSUME t \notin upset' PROVE TabInv(t)'
    BY DEF TabInv
  <2>1. Overlap = {} /\ ~torn
    BY DEF AskFor
  <2>2. \A p \in Asks : ~UnderWay(p)
    BY <2>1, NoOverlap
  <2>3. ASSUME NEW p \in Asks, UnderWay(p)' PROVE p = q
    BY <1>6, <2>2, <2>3
  <2>4. ask'[q].alone /\ ~torn'
    BY <1>4, <2>1
  <2>5. \A p \in Asks : ask'[p].phase # "save"
    BY <1>7, <2>2, Shapes DEF Phases
  <2>6. ~(page'[t].stage = "form" /\ page'[t].seconds > 0)
    BY <1>1
  <2>7. ASSUME NEW p \in Asks, UnderWay(p)'
        PROVE  ask'[p].alone /\ Waits(t, p)' /\ ~torn' /\ ask'[p].phase = "load"
    BY <1>3, <2>3, <2>4, <2>7
  <2> QED BY <2>5, <2>6, <2>7 DEF TabInv
<1> QED BY <1>8, <1>9, <1>10, <1>11 DEF SetupInv

LEMMA NavigateStep ==
    ASSUME SetupInv, NEW t \in Tabs, NEW q \in Asks, Navigate(t, q)
    PROVE  SetupInv'
<1>1. PICK new : new = [stage |-> "loading", waits |-> q]
  OBVIOUS
<1>2. page' = [page EXCEPT ![t] = new] /\ AskFor(t, q, FALSE)
      /\ UNCHANGED <<minute, ahead, waiting, associated, torn>>
  BY <1>1 DEF Navigate
<1>3. page'[t] = new /\ new.stage = "loading" /\ new.waits = q
  BY <1>1, <1>2 DEF SetupInv, Typed
<1>4. Waits(t, q)' /\ FormInv(t)' /\ new.stage # "form"
  BY <1>3 DEF Waits, FormInv
<1> QED BY <1>2, <1>4, AskKept

LEMMA CountDownStep ==
    ASSUME SetupInv, NEW t \in Tabs, NEW q \in Asks, CountDown(t, q)
    PROVE  SetupInv'
<1> DEFINE setup == page[t].setup
           seconds == RemainingSeconds(setup.expiresAt)
<1>1. /\ page[t].stage = "form" /\ page[t].seconds # seconds
      /\ UNCHANGED <<minute, ahead, waiting, associated, torn>>
      /\ {"seconds", "setup", "image", "renewError", "waits", "late"} \subseteq DOMAIN page[t]
      /\ page[t].seconds \in Nat /\ setup.expiresAt \in Int /\ Typed
      /\ page[t].seconds = 0 => setup.expiresAt <= minute + ahead
      /\ page[t].waits # NoAsk => page[t].seconds = 0
  BY DEF CountDown, SetupInv, FormInv
<1>2. /\ seconds \in Nat
      /\ seconds = 0 <=> setup.expiresAt <= minute + ahead
  BY <1>1, Remaining
<1>3. page[t].seconds > 0 /\ page[t].waits = NoAsk
  BY <1>1, <1>2
<1>4. CASE /\ seconds > 0
           /\ page' = [page EXCEPT ![t].seconds = seconds]
           /\ UNCHANGED <<ask, upset>>
  <2>1. PICK new : new = [page[t] EXCEPT !.seconds = seconds]
    OBVIOUS
  <2>2. page' = [page EXCEPT ![t] = new]
    BY <1>1, <1>4, <2>1 DEF Typed
  <2>3. /\ new.stage = "form" /\ new.setup = setup /\ new.waits = NoAsk /\ new.seconds = seconds
        /\ DOMAIN new = DOMAIN page[t]
    BY <1>1, <1>3, <2>1
  <2>4. /\ page'[t] = new /\ page' = [u \in Tabs |-> page'[u]]
        /\ \A u \in Tabs \ {t} : page'[u] = page[u]
    BY <1>1, <2>2 DEF Typed
  <2>5. Typed' /\ WaitingInv' /\ KeptInv'
    BY <1>1, <1>4, <2>4 DEF SetupInv, Typed, WaitingInv, KeptInv
  <2>6. \A p \in Asks : AskInv(p)'
    BY <1>1, <1>4 DEF SetupInv, AskInv, UnderWay
  <2>7. ASSUME NEW u \in Tabs \ {t} PROVE FormInv(u)' /\ TabInv(u)'
    BY <1>1, <1>4, <2>4 DEF SetupInv, FormInv, TabInv, UnderWay, Waits, Current
  <2>8. FormInv(t)'
    BY <1>1, <1>2, <1>4, <2>3, <2>4 DEF FormInv
  <2>9. TabInv(t)'
    <3> SUFFICES ASSUME t \notin upset PROVE TabInv(t)'
      BY <1>4 DEF TabInv
    <3>1. \A p \in Asks : UnderWay(p) => ask[p].tab # t
      BY <1>1, <1>3, AloneInTab
    <3>2. page[t] # Closed
      BY <1>1, Shapes
    <3>3. \A p \in Asks : ask[p].phase # "save"
      BY <3>1, <3>2, Shapes DEF SetupInv, TabInv, Phases
    <3>4. Current(setup)
      BY <1>1, <1>3 DEF SetupInv, TabInv
    <3> QED BY <1>1, <1>4, <2>3, <2>4, <3>1, <3>3, <3>4 DEF TabInv, UnderWay, Current
  <2> QED BY <2>5, <2>6, <2>7, <2>8, <2>9 DEF SetupInv
<1>5. CASE /\ seconds = 0
           /\ AskFor(t, q, TRUE)
           /\ page' = [page EXCEPT ![t].seconds = 0, ![t].waits = q]
  <2>1. PICK new : new = [page[t] EXCEPT !.seconds = 0, !.waits = q]
    OBVIOUS
  <2>2. page' = [page EXCEPT ![t] = new]
    BY <1>1, <1>5, <2>1 DEF Typed
  <2>3. /\ new.stage = "form" /\ new.setup = setup /\ new.waits = q /\ new.seconds = 0
        /\ DOMAIN new = DOMAIN page[t]
    BY <1>1, <2>1
  <2>4. page'[t] = new
    BY <1>1, <2>2 DEF Typed
  <2>5. Waits(t, q)'
    BY <2>3, <2>4 DEF Waits
  <2>6. FormInv(t)'
    BY <1>1, <1>2, <1>5, <2>3, <2>4 DEF FormInv
  <2> QED BY <1>1, <1>5, <2>2, <2>3, <2>5, <2>6, AskKept
<1> QED BY <1>4, <1>5 DEF CountDown


LEMMA DrawQrStep ==
    ASSUME SetupInv, NEW t \in Tabs, DrawQr(t)
    PROVE  SetupInv'
<1>1. /\ page[t].stage = "form"
      /\ UNCHANGED <<minute, ahead, waiting, associated, ask, upset, torn>>
      /\ {"seconds", "setup", "image", "renewError", "waits", "late"} \subseteq DOMAIN page[t]
      /\ Typed
  BY DEF DrawQr, SetupInv, FormInv
<1>2. PICK new : new = [page[t] EXCEPT !.image = page[t].setup.secret]
  OBVIOUS
<1>3. page' = [page EXCEPT ![t] = new]
  BY <1>1, <1>2 DEF DrawQr, Typed
<1>4. /\ new.stage = "form" /\ new.setup = page[t].setup /\ new.waits = page[t].waits
      /\ new.seconds = page[t].seconds /\ new.late = page[t].late
      /\ new.renewError = page[t].renewError /\ DOMAIN new = DOMAIN page[t]
  BY <1>1, <1>2
<1>5. /\ page'[t] = new /\ page' = [u \in Tabs |-> page'[u]]
      /\ \A u \in Tabs \ {t} : page'[u] = page[u]
  BY <1>1, <1>3 DEF Typed
<1>6. Typed' /\ WaitingInv' /\ KeptInv' /\ \A p \in Asks : AskInv(p)'
  BY <1>1, <1>5 DEF SetupInv, Typed, WaitingInv, KeptInv, AskInv, UnderWay
<1>7. ASSUME NEW u \in Tabs \ {t} PROVE FormInv(u)' /\ TabInv(u)'
  BY <1>1, <1>5 DEF SetupInv, FormInv, TabInv, UnderWay, Waits, Current
<1>8. FormInv(t)'
  BY <1>1, <1>4, <1>5 DEF SetupInv, FormInv
<1>9. TabInv(t)'
  <2>1. page[t] # Closed
    BY <1>1, Shapes
  <2>2. ASSUME NEW p \in Asks, Waits(t, p) PROVE Waits(t, p)'
    BY <1>4, <1>5, <2>2 DEF Waits
  <2> QED BY <1>1, <1>4, <1>5, <2>1, <2>2 DEF SetupInv, TabInv, UnderWay, Current
<1> QED BY <1>6, <1>7, <1>8, <1>9 DEF SetupInv

LEMMA SubmitStep ==
    ASSUME SetupInv, NEW t \in Tabs, Submit(t)
    PROVE  SetupInv'
<1>1. /\ UNCHANGED <<minute, ahead, associated, ask, torn>>
      /\ waiting' = Gone /\ upset' = Tabs
      /\ page' = [page EXCEPT ![t] = [stage |-> "done"]]
  BY DEF Submit
<1>2. ~waiting'.stored
  BY <1>1 DEF Gone
<1>3. /\ page'[t].stage = "done" /\ page' = [u \in Tabs |-> page'[u]]
      /\ \A u \in Tabs \ {t} : page'[u] = page[u]
  BY <1>1 DEF SetupInv, Typed
<1>4. Typed' /\ WaitingInv' /\ KeptInv' /\ \A p \in Asks : AskInv(p)'
  BY <1>1, <1>2, <1>3 DEF SetupInv, Typed, WaitingInv, KeptInv, AskInv, UnderWay
<1>5. ASSUME NEW u \in Tabs PROVE FormInv(u)' /\ TabInv(u)'
  BY <1>1, <1>3 DEF SetupInv, FormInv, TabInv
<1> QED BY <1>4, <1>5 DEF SetupInv

\* Time runs: the login lapses when its secret has, and what was over stays over.
LEMMA MinutePassesStep ==
    ASSUME SetupInv, MinutePasses
    PROVE  SetupInv'
<1>1. /\ minute' = minute + 1 /\ minute \in Nat /\ ahead \in Int
      /\ UNCHANGED <<ahead, associated, page, ask, upset, torn>>
  BY DEF MinutePasses, SetupInv, Typed
<1>2. \/ waiting' = waiting /\ (waiting.stored => ~(waiting.until <= minute'))
      \/ waiting.stored /\ waiting.until <= minute' /\ ~waiting'.stored
  BY DEF MinutePasses, Gone
<1>3. Typed' /\ WaitingInv'
  BY <1>1, <1>2 DEF SetupInv, Typed, WaitingInv
<1>4. KeptInv'
  BY <1>1, <1>2 DEF SetupInv, KeptInv
<1>5. ASSUME NEW p \in Asks PROVE AskInv(p)'
  BY <1>1 DEF SetupInv, AskInv, UnderWay
<1>6. ASSUME NEW setup, setup.expiresAt \in Int, Current(setup)
      PROVE  \/ /\ waiting'.stored /\ waiting'.secret = setup.secret
                /\ associated' = setup.secret
                /\ waiting'.issued + SetupTtl = setup.expiresAt
             \/ setup.expiresAt <= minute'
  BY <1>1, <1>2, <1>6 DEF SetupInv, WaitingInv, Current
<1>7. ASSUME NEW t \in Tabs PROVE FormInv(t)' /\ TabInv(t)'
  <2>1. FormInv(t)'
    BY <1>1 DEF SetupInv, FormInv
  <2>2. ASSUME t \notin upset PROVE TabInv(t)'
    <3>1. ASSUME NEW p \in Asks, UnderWay(p), ask[p].tab = t, ask[p].phase = "answered"
          PROVE  Current(ask[p].setup)'
      BY <1>1, <1>6, <2>2, <3>1 DEF SetupInv, AskInv, TabInv, Current
    <3>2. ASSUME page[t].stage = "form", page[t].seconds > 0 PROVE Current(page[t].setup)'
      BY <1>1, <1>6, <2>2, <3>2 DEF SetupInv, FormInv, TabInv, Current
    <3>3. TabInv(t)
      BY DEF SetupInv
    <3> QED BY <1>1, <2>2, <3>1, <3>2, <3>3 DEF TabInv, UnderWay, Waits
  <2> QED BY <1>1, <2>1, <2>2 DEF TabInv
<1> QED BY <1>3, <1>4, <1>5, <1>7 DEF SetupInv

-----------------------------------------------------------------------------
(* The theorems                                                             *)

SetupSpec == SetupInit /\ [][SetupNext]_setupVars

LEMMA SetupStarts == SetupInit => SetupInv
<1> SUFFICES ASSUME SetupInit PROVE SetupInv
  OBVIOUS
<1>1. /\ minute = 0 /\ ahead \in Int /\ associated = 0 /\ upset = {} /\ torn = FALSE
      /\ waiting.stored /\ waiting.secret = 0 /\ waiting.issued = 0 /\ waiting.until = PendingTtl
  BY DEF SetupInit
<1>2. /\ \A q \in Asks : ask[q] = NotAsked
      /\ \A t \in Tabs : page[t] = Closed
      /\ ask = [q \in Asks |-> ask[q]] /\ page = [t \in Tabs |-> page[t]]
  BY DEF SetupInit
<1>3. Typed /\ WaitingInv /\ KeptInv
  BY <1>1, <1>2 DEF Typed, WaitingInv, KeptInv
<1>4. \A q \in Asks : AskInv(q)
  BY <1>2 DEF AskInv, UnderWay
<1>5. \A t \in Tabs : FormInv(t) /\ TabInv(t)
  BY <1>2, Shapes DEF FormInv, TabInv, UnderWay
<1> QED BY <1>3, <1>4, <1>5 DEF SetupInv

LEMMA SetupStep == SetupInv /\ [SetupNext]_setupVars => SetupInv'
<1> SUFFICES ASSUME SetupInv, [SetupNext]_setupVars PROVE SetupInv'
  OBVIOUS
<1>1. ASSUME NEW t \in Tabs, NEW q \in Asks, Navigate(t, q) \/ CountDown(t, q) PROVE SetupInv'
  BY <1>1, NavigateStep, CountDownStep
<1>2. ASSUME NEW t \in Tabs, DrawQr(t) \/ Submit(t) PROVE SetupInv'
  BY <1>2, DrawQrStep, SubmitStep
<1>3. ASSUME NEW q \in Asks,
             \/ LoadSetup(q) \/ AssociateSecret(q) \/ SaveSetup(q)
             \/ AssociateFails(q) \/ AskFails(q) \/ Answered(q)
      PROVE  SetupInv'
  BY <1>3, LoadSetupStep, AssociateSecretStep, SaveSetupStep, RequestEndsStep, AnsweredStep
<1>4. CASE MinutePasses
  BY <1>4, MinutePassesStep
<1>5. CASE UNCHANGED setupVars
  BY <1>5 DEF setupVars, SetupInv, Typed, WaitingInv, KeptInv, AskInv, FormInv, TabInv,
             UnderWay, Waits, Current
<1> QED BY <1>1, <1>2, <1>3, <1>4, <1>5 DEF SetupNext

\* The inductive invariant of the setup page: a request that was alone all the time carries the
\* secret Cognito associated last; unless a renewal was torn the record has that secret; and a
\* tab nobody upset shows what is on record, or something whose time is over (mfa.ts,
\* beginTotpSetup; mfa-setup.route.tsx, SetupForm).
THEOREM SetupInvariance == SetupSpec => []SetupInv
  BY SetupStarts, SetupStep, PTL DEF SetupSpec

\* A page that invites to scan shows a secret the server accepts, whatever the tabs, the
\* requests that overlap, the renewals cut off and the clocks (mfa-setup.route.tsx, useCountdown
\* and the renewal's effect; mfa.ts, completeTotpSetup): unless another tab or an overlapping
\* request replaced it, a renewal was cut off, or the browser's clock is behind.
THEOREM ShownQrWorksAlways == SetupSpec => []ShownQrWorks
<1>1. SetupInv => ShownQrWorks
  <2> SUFFICES ASSUME SetupInv, NEW t \in Tabs, page[t].stage = "form"
               PROVE  /\ (/\ page[t].seconds > 0 /\ page[t].image = page[t].setup.secret
                          /\ RemainingSeconds(page[t].setup.expiresAt) > 0)
                            => Accepts(page[t].image) \/ t \in upset \/ ahead < 0
                      /\ (page[t].seconds = 0 /\ page[t].waits = NoAsk)
                            => page[t].renewError \/ page[t].late
    BY DEF ShownQrWorks
  <2>1. FormInv(t) /\ TabInv(t) /\ Typed
    BY DEF SetupInv
  <2>2. ASSUME page[t].seconds > 0, page[t].image = page[t].setup.secret,
               RemainingSeconds(page[t].setup.expiresAt) > 0, t \notin upset, ~(ahead < 0)
        PROVE  Accepts(page[t].image)
    <3>1. Current(page[t].setup)
      BY <2>1, <2>2 DEF TabInv
    <3>2. page[t].setup.expiresAt \in Int
      BY <2>1 DEF FormInv
    <3>3. ~(page[t].setup.expiresAt <= minute + ahead)
      BY <2>1, <2>2, <3>2, Remaining
    <3>4. page[t].setup.expiresAt > minute
      BY <2>1, <2>2, <3>2, <3>3 DEF Typed
    <3> QED BY <2>1, <2>2, <3>1, <3>2, <3>4 DEF Accepts, Current, Typed
  <2>3. page[t].seconds = 0 /\ page[t].waits = NoAsk => page[t].renewError \/ page[t].late
    BY <2>1 DEF FormInv
  <2> QED BY <2>2, <2>3
<1> QED BY <1>1, SetupInvariance, PTL


=============================================================================
