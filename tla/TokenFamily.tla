---------------------------- MODULE TokenFamily ----------------------------
(***************************************************************************)
(* What a family of refresh tokens promises, without stores, requests or   *)
(* races.  A family is a chain of one-time tokens.  Only its newest token, *)
(* the head, can ever be honoured; it is spent before its successor        *)
(* exists, and a token has at most one successor.                          *)
(***************************************************************************)
CONSTANTS Token, NoToken

VARIABLES
    phase,   \* family -> none, live (head can be spent), spent, dead
    head,    \* family -> its newest token
    drawn    \* tokens handed to some family so far

abstractVars == <<phase, head, drawn>>

\* A family is named by its first token.
Init ==
    /\ phase = [f \in Token |-> "none"]
    /\ head = [f \in Token |-> NoToken]
    /\ drawn = {}

Open(f) ==
    /\ phase[f] = "none" /\ f \notin drawn
    /\ phase' = [phase EXCEPT ![f] = "live"]
    /\ head' = [head EXCEPT ![f] = f]
    /\ drawn' = drawn \cup {f}

Spend(f) ==
    /\ phase[f] = "live"
    /\ phase' = [phase EXCEPT ![f] = "spent"]
    /\ UNCHANGED <<head, drawn>>

Renew(f, v) ==
    /\ phase[f] = "spent" /\ v \notin drawn
    /\ phase' = [phase EXCEPT ![f] = "live"]
    /\ head' = [head EXCEPT ![f] = v]
    /\ drawn' = drawn \cup {v}

Close(f) ==
    /\ phase[f] \in {"live", "spent"}
    /\ phase' = [phase EXCEPT ![f] = "dead"]
    /\ UNCHANGED <<head, drawn>>

Next == \E f \in Token : Open(f) \/ Spend(f) \/ Close(f) \/ \E v \in Token : Renew(f, v)

Spec == Init /\ [][Next]_abstractVars

=============================================================================
