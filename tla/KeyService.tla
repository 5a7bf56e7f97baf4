----------------------------- MODULE KeyService -----------------------------
(***************************************************************************)
(* What Signer.signingKey promises each of its callers: whoever asks with   *)
(* the date stamp of a moment is given the key derived from that very date, *)
(* however many callers ask at once and whatever the day has become.        *)
(***************************************************************************)
EXTENDS Naturals

CONSTANT Callers

VARIABLES today,    \* the UTC day
          caller    \* what each caller asked for, and what it was given

Derive(date) == [derivedFrom |-> date]
NoKey == Derive(0)

Idle           == [state |-> "idle", date |-> 0, key |-> NoKey]
Asked(date)    == [state |-> "asked", date |-> date, key |-> NoKey]
Given(date)    == [state |-> "given", date |-> date, key |-> Derive(date)]

Init == today = 1 /\ caller = [c \in Callers |-> Idle]

Midnight == today' = today + 1 /\ UNCHANGED caller

Ask(c) ==
    /\ caller[c] = Idle
    /\ caller' = [caller EXCEPT ![c] = Asked(today)]
    /\ UNCHANGED today

Give(c) ==
    /\ caller[c].state = "asked"
    /\ caller' = [caller EXCEPT ![c] = Given(caller[c].date)]
    /\ UNCHANGED today

Leave(c) ==
    /\ caller[c].state = "given"
    /\ caller' = [caller EXCEPT ![c] = Idle]
    /\ UNCHANGED today

Next == Midnight \/ \E c \in Callers : Ask(c) \/ Give(c) \/ Leave(c)

Spec == Init /\ [][Next]_<<today, caller>>
=============================================================================
