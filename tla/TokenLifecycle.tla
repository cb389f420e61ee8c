-------------------------- MODULE TokenLifecycle --------------------------
(***************************************************************************)
(* What the authentication service promises of refresh tokens, whatever    *)
(* requests race: a token is issued once, to one user; from then on it     *)
(* only ever gets less valid; and a token that replaces another one is     *)
(* issued to the same user, and not before the other one is spent.         *)
(***************************************************************************)
CONSTANTS
    Tokens,  \* refresh tokens
    UserIds, \* users
    NoToken  \* the parent of a token issued for a password

VARIABLES
    status,  \* per token: "none", "live", "expired" or "spent"
    owner,   \* per token, the user it was issued to (meaningless while "none")
    parent   \* per token, the token it replaces, or NoToken

vars == <<status, owner, parent>>

Init ==
    /\ status = [t \in Tokens |-> "none"]
    /\ owner = [t \in Tokens |-> NoToken]
    /\ parent = [t \in Tokens |-> NoToken]

Issue(t) ==
    /\ status[t] = "none"
    /\ \E u \in UserIds, p \in Tokens \cup {NoToken} :
         /\ p # NoToken => status[p] = "spent" /\ owner[p] = u
         /\ status' = [status EXCEPT ![t] = "live"]
         /\ owner' = [owner EXCEPT ![t] = u]
         /\ parent' = [parent EXCEPT ![t] = p]

Expire(t) ==
    /\ status[t] = "live"
    /\ status' = [status EXCEPT ![t] = "expired"]
    /\ UNCHANGED <<owner, parent>>

Spend(t) ==
    /\ status[t] \in {"live", "expired"}
    /\ status' = [status EXCEPT ![t] = "spent"]
    /\ UNCHANGED <<owner, parent>>

Next == \E t \in Tokens : Issue(t) \/ Expire(t) \/ Spend(t)

Spec == Init /\ [][Next]_vars
=============================================================================
