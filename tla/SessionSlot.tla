---------------------------- MODULE SessionSlot ----------------------------
(***************************************************************************)
(* What SessionManager promises about the session of one handle, without   *)
(* its chain, timeouts, storage and calls: a slot that is empty or holds   *)
(* one matrix client with one token.  A new client is opened only in an    *)
(* empty slot and is never one that was there before, the client of a slot *)
(* gets a new token only for its own device, and the slot can be emptied   *)
(* at any time.                                                            *)
(***************************************************************************)
EXTENDS Naturals

CONSTANT Revives     \* a client that was dropped may come back

VARIABLES
    client,          \* the client in the slot, 0 = empty
    token,           \* the token of that client
    opened           \* how many clients were ever opened

slot == <<client, token, opened>>

Token == [dev : Nat, exp : Nat]
NoToken == [dev |-> 0, exp |-> 0]

Empty == client = 0 /\ token = NoToken

Init == Empty /\ opened = 0

\* createNewSession: the next client, with a token of any device.
Open ==
    /\ Empty
    /\ opened' = opened + 1
    /\ client' = opened'
    /\ token' \in Token

\* refreshCachedSessionToken: the same client, a token of the same device.
Renew ==
    /\ client # 0
    /\ token' \in Token /\ token'.dev = token.dev
    /\ UNCHANGED <<client, opened>>

\* deleteSession, or the end of the process.
Drop ==
    /\ client' = 0 /\ token' = NoToken
    /\ UNCHANGED opened

\* A refresh that was under way when its session was deleted puts the
\* session back: only if deleteSession overlaps other calls.
Revive ==
    /\ Revives /\ Empty
    /\ client' \in 1..opened
    /\ token' \in Token
    /\ UNCHANGED opened

Next == Open \/ Renew \/ Drop \/ Revive

Spec == Init /\ [][Next]_slot
=============================================================================
