---------------------------- MODULE ClientSession ----------------------------
(***************************************************************************)
(* The session of one browser page (frontend/src/stores/auth.store.ts and  *)
(* the interceptors of frontend/src/api/client.ts) against the tokens of   *)
(* the authentication service (TokenLifecycle).                            *)
(*                                                                         *)
(* A token stands for the pair a login or an exchange answers: the access  *)
(* token, which ages, and the refresh token.  The page has several calls   *)
(* under way.  One that is answered 401 waits for an exchange of the       *)
(* stored token and is sent again; the exchange is itself a call through   *)
(* the same interceptor, so that a 401 to it starts another one: chain[f]  *)
(* holds the exchanges that call f waits for, the last one under way.  An  *)
(* exchange of the same token as the one before stands for any number of   *)
(* them: a token that was refused once is refused for ever.                *)
(* What the interceptor does between two awaits is one step.               *)
(***************************************************************************)
EXTENDS Naturals, Sequences

CONSTANTS
    UserIds,   \* ids of the users who sign in on this page
    MaxTokens, \* tokens the service may issue (bound)
    Flows,     \* calls of the page under way at one time (bound)
    NoToken,   \* no token, no user
    NoCall     \* no call

ASSUME TokensAssumption == MaxTokens \in Nat

\* Random strings, numbered in the order in which they are drawn.
Tokens == 1 .. MaxTokens

VARIABLES
    status, owner, parent, \* the service's tokens: see TokenLifecycle
    aged,      \* tokens whose access token has expired
    store,     \* the token of the auth store, or NoToken
    leaving,   \* window.location.href was assigned, the page still runs
    calling,   \* per flow, the call it is about, or NoCall
    chain,     \* per flow, the exchanges this call waits for
    phase,     \* per flow, how far the last of these calls got
    fresh,     \* per flow, the token answered to it, or NoToken
    trouble    \* history: what SessionsExplained excuses, since the last login

service     == <<status, owner, parent>>
browser     == <<store, leaving, calling, chain, trouble>>
sessionVars == <<status, owner, parent, aged, store, leaving, calling, chain, phase,
                 fresh, trouble>>

Service == INSTANCE TokenLifecycle

FlowCall == [kind: {"api", "logout", "login"}, body: Tokens \cup UserIds \cup {NoToken},
             header: Tokens \cup {NoToken}, retried: BOOLEAN]

Exchange == [token: Tokens, retried: BOOLEAN]

ASSUME NoTokenAssumption ==
    /\ NoToken \notin Tokens \cup UserIds
    /\ NoCall \notin FlowCall

Phases == {"none", "sent", "found", "revoked", "ok", "401", "error"}

SessionInit ==
    /\ Service!Init
    /\ aged = {}
    /\ store = NoToken
    /\ leaving = FALSE
    /\ calling = [f \in Flows |-> NoCall]
    /\ chain = [f \in Flows |-> <<>>]
    /\ phase = [f \in Flows |-> "none"]
    /\ fresh = [f \in Flows |-> NoToken]
    /\ trouble = FALSE

-----------------------------------------------------------------------------
(* What the user does.                                                     *)

Start(f, kind, body, header) ==
    /\ calling' = [calling EXCEPT ![f] =
                   [kind |-> kind, body |-> body, header |-> header, retried |-> FALSE]]
    /\ chain' = [chain EXCEPT ![f] = <<>>]
    /\ phase' = [phase EXCEPT ![f] = "sent"]
    /\ fresh' = [fresh EXCEPT ![f] = NoToken]

Ready(f) == calling[f] = NoCall /\ ~leaving

\* A page of the application asks the backend for something.
Request(f) ==
    /\ Ready(f)
    /\ store # NoToken
    /\ Start(f, "api", NoToken, store)
    /\ UNCHANGED <<service, aged, store, leaving, trouble>>

\* GuestRoute shows the login page; its form is submitted once at a time.
SubmitLogin(f) ==
    /\ Ready(f)
    /\ store = NoToken
    /\ \A g \in Flows : calling[g] # NoCall => calling[g].kind # "login"
    /\ \E u \in UserIds : Start(f, "login", u, NoToken)
    /\ UNCHANGED <<service, aged, store, leaving, trouble>>

\* logout clears the store before the request interceptor, which runs
\* asynchronously, reads the access token: the call has no header.
LogoutHeader == NoToken

\* logout() of the store, when there is a token in it.
SendLogout(f) ==
    /\ Start(f, "logout", store, LogoutHeader)
    /\ store' = NoToken

\* The user presses Logout; calls under way go on.
PressLogout(f) ==
    /\ Ready(f)
    /\ store # NoToken
    /\ SendLogout(f)
    /\ UNCHANGED <<service, aged, leaving, trouble>>

-----------------------------------------------------------------------------
(* The backend.                                                            *)

Serving(f, kind) ==
    /\ calling[f] # NoCall
    /\ calling[f].kind = kind
    /\ chain[f] = <<>>
    /\ phase[f] = "sent"

Answer(f, answer) == phase' = [phase EXCEPT ![f] = answer]

\* JwtAuthGuard.
Authorized(f) == calling[f].header # NoToken /\ calling[f].header \notin aged

ServeRequest(f) ==
    /\ Serving(f, "api")
    /\ Answer(f, IF Authorized(f) THEN "ok" ELSE "401")
    /\ UNCHANGED <<service, aged, browser, fresh>>

\* Revokes the token of the body if it belongs to the caller.
ServeLogout(f) ==
    LET revoked == calling[f].body IN
    /\ Serving(f, "logout")
    /\ \/ /\ Authorized(f)
          /\ owner[revoked] = owner[calling[f].header]
          /\ status[revoked] # "spent"
          /\ Service!Spend(revoked)
       \/ /\ Authorized(f) => \/ owner[revoked] # owner[calling[f].header]
                              \/ status[revoked] = "spent"
          /\ UNCHANGED service
    /\ Answer(f, IF Authorized(f) THEN "ok" ELSE "401")
    /\ UNCHANGED <<aged, browser, fresh>>

Exhausted == \A t \in Tokens : status[t] # "none"

\* generateTokens; the bound on Tokens shows as a failure.
Issue(f, u, replaced) ==
    \/ \E t \in Tokens :
         /\ \A s \in 1 .. t - 1 : status[s] # "none"
         /\ Service!Issue(t)
         /\ owner'[t] = u
         /\ parent'[t] = replaced
         /\ fresh' = [fresh EXCEPT ![f] = t]
         /\ Answer(f, "ok")
         /\ UNCHANGED trouble
    \/ /\ Exhausted
       /\ Answer(f, "error")
       /\ trouble' = TRUE
       /\ UNCHANGED <<service, fresh>>

ServeLogin(f) ==
    /\ Serving(f, "login")
    /\ Issue(f, calling[f].body, NoToken)
    /\ UNCHANGED <<aged, store, leaving, calling, chain>>

Top(f) == chain[f][Len(chain[f])]

Exchanging(f, point) == chain[f] # <<>> /\ phase[f] = point

\* refresh: find, revoke, issue, as Auth has them.
FindToken(f) ==
    /\ Exchanging(f, "sent")
    /\ Answer(f, IF status[Top(f).token] = "live" THEN "found" ELSE "401")
    /\ UNCHANGED <<service, aged, browser, fresh>>

RevokeFound(f) ==
    /\ Exchanging(f, "found")
    /\ IF status[Top(f).token] = "spent" THEN UNCHANGED service
                                         ELSE Service!Spend(Top(f).token)
    /\ Answer(f, "revoked")
    /\ UNCHANGED <<aged, browser, fresh>>

IssueNext(f) ==
    /\ Exchanging(f, "revoked")
    /\ Issue(f, owner[Top(f).token], Top(f).token)
    /\ UNCHANGED <<aged, store, leaving, calling, chain>>

\* The access token of a pair reaches its ttl.
Age(t) ==
    /\ status[t] # "none"
    /\ t \notin aged
    /\ aged' = aged \cup {t}
    /\ UNCHANGED <<service, browser, phase, fresh>>

\* The refresh token of a pair reaches its ttl, days after the access token.
Expire(t) ==
    /\ t \in aged
    /\ Service!Expire(t)
    /\ trouble' = TRUE
    /\ UNCHANGED <<aged, store, leaving, calling, chain, phase, fresh>>

\* A call fails, or is refused with another status than 401.
CallFails(f) ==
    /\ phase[f] \in {"sent", "found", "revoked"}
    /\ Answer(f, "error")
    /\ trouble' = TRUE
    /\ UNCHANGED <<service, aged, store, leaving, calling, chain, fresh>>

BackendStep(f) ==
    \/ ServeRequest(f) \/ ServeLogout(f) \/ ServeLogin(f)
    \/ FindToken(f) \/ RevokeFound(f) \/ IssueNext(f)

-----------------------------------------------------------------------------
(* The answers, as the page handles them.                                  *)

\* Another call than f waits for an exchange.
Elsewhere(f) == \E g \in Flows \ {f} : chain[g] # <<>>

\* A mutant: the exchanges of a call that is over are not forgotten.
Over_ChainKept(f) ==
    /\ calling' = [calling EXCEPT ![f] = NoCall]
    /\ chain' = chain
    /\ phase' = [phase EXCEPT ![f] = "none"]
    /\ fresh' = [fresh EXCEPT ![f] = NoToken]

Over(f) ==
    /\ calling' = [calling EXCEPT ![f] = NoCall]
    /\ chain' = [chain EXCEPT ![f] = <<>>]
    /\ phase' = [phase EXCEPT ![f] = "none"]
    /\ fresh' = [fresh EXCEPT ![f] = NoToken]

\* The call succeeds; the answer to a login goes to the store.
CallSucceeds(f) ==
    /\ phase[f] = "ok"
    /\ chain[f] = <<>>
    /\ IF calling[f].kind = "login"
       THEN /\ store' = fresh[f]
            /\ trouble' = (leaving \/ Elsewhere(f) \/ status[fresh[f]] # "live")
       ELSE UNCHANGED <<store, trouble>>
    /\ Over(f)
    /\ UNCHANGED <<service, aged, leaving>>

\* A mutant: a call that was sent again and refused again is not rejected.
Reject_ErrorsOnly(f) ==
    /\ chain[f] = <<>>
    /\ phase[f] = "error"
    /\ Over(f)
    /\ UNCHANGED <<service, aged, store, leaving, trouble>>

\* The call fails, or is refused again after it was sent again.
Reject(f) ==
    /\ chain[f] = <<>>
    /\ \/ phase[f] = "error"
       \/ phase[f] = "401" /\ calling[f].retried
    /\ Over(f)
    /\ UNCHANGED <<service, aged, store, leaving, trouble>>

\* status === 401 && !original._retry: of the call, or of the last exchange.
Refused(f) ==
    /\ phase[f] = "401"
    /\ IF chain[f] = <<>> THEN ~calling[f].retried ELSE ~Top(f).retried

\* A mutant: a call is renewed with the token it was sent with.
Renew_OwnToken(f) ==
    /\ Refused(f)
    /\ chain[f] = <<>>
    /\ calling[f].header # NoToken
    /\ calling' = [calling EXCEPT ![f].retried = TRUE]
    /\ chain' = [chain EXCEPT ![f] = <<[token |-> calling[f].header, retried |-> FALSE]>>]
    /\ trouble' = (trouble \/ Elsewhere(f))
    /\ Answer(f, "sent")
    /\ UNCHANGED <<service, aged, store, leaving, fresh>>

\* The refused call, or exchange, is marked and waits for an exchange of the
\* stored token, be it the one that was refused.
Renew(f) ==
    /\ Refused(f)
    /\ store # NoToken
    /\ \/ /\ chain[f] = <<>>
          /\ calling' = [calling EXCEPT ![f].retried = TRUE]
          /\ chain' = [chain EXCEPT ![f] = <<[token |-> store, retried |-> FALSE]>>]
       \/ /\ chain[f] # <<>>
          /\ Top(f).token # store
          /\ chain' = [chain EXCEPT ![f] =
                 Append([@ EXCEPT ![Len(@)].retried = TRUE],
                        [token |-> store, retried |-> FALSE])]
          /\ UNCHANGED calling
       \/ /\ chain[f] # <<>>
          /\ Top(f).token = store
          /\ UNCHANGED <<calling, chain>>
    /\ trouble' = (trouble \/ Elsewhere(f))
    /\ Answer(f, "sent")
    /\ UNCHANGED <<service, aged, store, leaving, fresh>>

\* A mutant: the new refresh token is not stored.
Stored_OldRefresh(f) == Top(f).token

Stored(f) == fresh[f]

\* The exchange succeeds: its answer goes to the store, whatever happened
\* to the store since, and the call that waited for it is sent again.  An
\* exchange that is sent again still carries the token it carried before.
Renewed(f) ==
    /\ Exchanging(f, "ok")
    /\ store' = Stored(f)
    /\ chain' = [chain EXCEPT ![f] = SubSeq(@, 1, Len(@) - 1)]
    /\ calling' = IF Len(chain[f]) = 1 THEN [calling EXCEPT ![f].header = store']
                  ELSE calling
    /\ fresh' = [fresh EXCEPT ![f] = NoToken]
    /\ Answer(f, "sent")
    /\ UNCHANGED <<service, aged, leaving, trouble>>

\* refreshAccessToken throws: there is no token, or the exchange was refused
\* again after it had been sent again, or failed.
CannotRenew(f) ==
    \/ Refused(f) /\ store = NoToken
    \/ Exchanging(f, "401") /\ Top(f).retried
    \/ Exchanging(f, "error")

\* The catch of the interceptor, of this call and of all that wait for it:
\* logout(), which sends a call of its own if there is a token, and off to
\* the login page.
SignOut(f) ==
    /\ CannotRenew(f)
    /\ leaving' = TRUE
    /\ \/ store # NoToken /\ SendLogout(f)
       \/ store = NoToken /\ Over(f) /\ UNCHANGED store
    /\ UNCHANGED <<service, aged, trouble>>

\* The login page replaces this one: nobody waits for the answers any more.
\* The store is read back from localStorage.
Unload ==
    /\ leaving
    /\ leaving' = FALSE
    /\ calling' = [f \in Flows |-> NoCall]
    /\ chain' = [f \in Flows |-> <<>>]
    /\ phase' = [f \in Flows |-> "none"]
    /\ fresh' = [f \in Flows |-> NoToken]
    /\ trouble' = TRUE
    /\ UNCHANGED <<service, aged, store>>

PageStep(f) == CallSucceeds(f) \/ Reject(f) \/ Renew(f) \/ Renewed(f) \/ SignOut(f)

UserCalls(f) == Request(f) \/ SubmitLogin(f) \/ PressLogout(f)

SessionNext ==
    \/ \E f \in Flows : UserCalls(f) \/ BackendStep(f) \/ CallFails(f) \/ PageStep(f)
    \/ \E t \in Tokens : Age(t) \/ Expire(t)
    \/ Unload

SessionSpec == SessionInit /\ [][SessionNext]_sessionVars

\* The backend answers, the page handles the answers, the browser leaves.
FairSpec ==
    /\ SessionSpec
    /\ \A f \in Flows : WF_sessionVars(BackendStep(f)) /\ WF_sessionVars(PageStep(f))
    /\ WF_sessionVars(Unload)

-----------------------------------------------------------------------------
(* Properties.                                                             *)

\* The page's memory: what a call waits for exists while there is a call, an
\* answer is there when the exchange or login has succeeded, and every
\* token the page knows was issued.
SessionTypeOK ==
    /\ Service!vars \in [Tokens -> {"none", "live", "expired", "spent"}]
                        \X [Tokens -> UserIds \cup {NoToken}]
                        \X [Tokens -> Tokens \cup {NoToken}]
    /\ \A t \in aged \cup ({store} \ {NoToken}) : status[t] # "none"
    /\ aged \subseteq Tokens
    /\ store \in Tokens \cup {NoToken}
    /\ \A f \in Flows :
         /\ calling[f] \in FlowCall \cup {NoCall}
         /\ chain[f] \in Seq(Exchange)
         /\ Len(chain[f]) <= MaxTokens
         /\ phase[f] \in Phases
         /\ calling[f] = NoCall => chain[f] = <<>> /\ phase[f] = "none"
         /\ fresh[f] # NoToken => phase[f] = "ok" /\ status[fresh[f]] # "none"

\* The exchange that would replace token t is under way.
BeingReplaced(t) ==
    \E f \in Flows : \E i \in DOMAIN chain[f] : chain[f][i].token = t

\* The refresh token of the page was not spent, or is about to be replaced.
Sustainable == store # NoToken => status[store] # "spent" \/ BeingReplaced(store)

\* However many calls find the access token expired and exchange the one
\* refresh token in the store, whichever answer is stored last, and whatever
\* fails: the page is only ever left with a spent refresh token when it is
\* unloaded in the middle of an exchange.
KeepsUsableToken == [][Sustainable /\ ~Sustainable' => leaving /\ ~leaving']_sessionVars

\* The user is signed in, with a refresh token that can be exchanged or is
\* being exchanged.
SignedIn == store # NoToken /\ (status[store] = "live" \/ BeingReplaced(store))

UserLogsOut ==
    \E f \in Flows :
        calling[f] = NoCall /\ calling'[f] # NoCall /\ calling'[f].kind = "logout"

\* Nobody is signed in, and no exchange from before is under way.
SignedOut == store = NoToken /\ \A f \in Flows : chain[f] = <<>>

LoginSucceeds ==
    \E f \in Flows : calling[f] # NoCall /\ calling[f].kind = "login" /\ CallSucceeds(f)

\* An access token that expires is nobody's trouble: a session ends, in the
\* login page or with a token that nobody takes any more, by the user, or
\* after something failed, a refresh token expired, the page was unloaded, or
\* two calls waited for exchanges at the same time.  And once the exchanges
\* are over that were under way when it ended, a session begins by a login
\* only, whatever calls of the old one are answered 401 after that.
SessionsExplained ==
    [][/\ SignedIn /\ ~SignedIn' => trouble' \/ UserLogsOut
       /\ SignedOut /\ ~SignedOut' => LoginSucceeds]_sessionVars

\* The token of the store cannot be exchanged any more.
Dead == store # NoToken /\ status[store] # "live"

\* Every call of the page ends, unless the page is left with a dead token for
\* good: the races of exchanges alone do not keep one waiting.
OnlyDeadTokensHang ==
    \A f \in Flows : []<>(calling[f] = NoCall) \/ <>[](Dead /\ chain[f] # <<>>)
=============================================================================
