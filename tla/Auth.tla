-------------------------------- MODULE Auth --------------------------------
(***************************************************************************)
(* The authentication service (backend/src/auth/auth.service.ts) and the   *)
(* users service (backend/src/users/users.service.ts): users register, log *)
(* in, exchange a refresh token for a new pair of tokens, log out and      *)
(* change their profile, in requests that run concurrently against the     *)
(* tables users and refresh_tokens.  pc[r] names the statement request r   *)
(* executes next.                                                          *)
(*                                                                         *)
(* Of a user's row only isActive is kept: the save of a profile writes     *)
(* back every column that differs from the entity, this one included.      *)
(* A refresh token is one value: the raw secret and its SHA-256 hash are   *)
(* not told apart.  Access tokens are stateless and not kept.  The wait    *)
(* for bcrypt is the interleaving between the statements around it.  The   *)
(* branch of logout without a token cannot be reached over HTTP, where     *)
(* RefreshTokenDto requires one, and is left out.                          *)
(***************************************************************************)
EXTENDS FiniteSets

CONSTANTS
    Emails,    \* email addresses
    UserIds,   \* the uuids the database may draw for users (bound)
    Tokens,    \* the secrets randomBytes may draw (bound)
    Requests,  \* requests in flight at one time (bound)
    NoRow,     \* no entity, no request, no row
    NoToken    \* the parent of a token issued for a password

Account == [id: UserIds, email: Emails]

\* A row of refresh_tokens.  parent is not a column: it records, for the
\* properties, the token that was exchanged for this one.
TokenRow == [user: UserIds, revoked: BOOLEAN, expired: BOOLEAN,
             parent: Tokens \cup {NoToken}]

\* right: whether the password is the right one.  user: the subject of the
\* access token that logout or the change of a profile is called with.
Request ==
         [op: {"register"}, email: Emails]
    \cup [op: {"login"}, email: Emails, right: BOOLEAN]
    \cup [op: {"refresh"}, token: Tokens]
    \cup [op: {"logout"}, user: UserIds, token: Tokens]
    \cup [op: {"update"}, user: UserIds]

\* What a handler keeps between its statements: the user it will issue
\* tokens to, isActive as it was read, and the token being exchanged.
Entity == [user: UserIds, active: BOOLEAN, token: Tokens \cup {NoToken}]

ASSUME NullAssumption ==
    /\ NoToken \notin Tokens
    /\ NoRow \notin TokenRow
    /\ NoRow \notin Request
    /\ NoRow \notin Entity

Points == {"idle", "findEmail", "insertUser", "findUser", "compare",
           "findToken", "revokeFound", "jwt", "revokeHash", "insertToken",
           "loadUser", "saveUser", "writeUser"}

VARIABLES
    accounts,  \* table users
    active,    \* users.isActive; an operator clears it in the database
    drawn,     \* user ids drawn so far
    tokens,    \* table refresh_tokens, by token
    held,      \* tokens that reached a client
    pc,        \* per request, the statement it executes next
    arg,       \* per request, its parameters
    entity     \* per request, what its handler keeps in memory

store == <<accounts, active, drawn, tokens, held>>
vars  == <<accounts, active, drawn, tokens, held, pc, arg, entity>>

Init ==
    /\ accounts = {}
    /\ active = {}
    /\ drawn = {}
    /\ tokens = [t \in Tokens |-> NoRow]
    /\ held = {}
    /\ pc     = [r \in Requests |-> "idle"]
    /\ arg    = [r \in Requests |-> NoRow]
    /\ entity = [r \in Requests |-> NoRow]

-----------------------------------------------------------------------------
(* Request control.                                                        *)

Goto(r, point) == pc' = [pc EXCEPT ![r] = point]

Reply(r) ==
    /\ Goto(r, "idle")
    /\ arg'    = [arg EXCEPT ![r] = NoRow]
    /\ entity' = [entity EXCEPT ![r] = NoRow]

FirstStatement(op) ==
    CASE op = "register" -> "findEmail"
      [] op = "login" -> "findUser"
      [] op = "refresh" -> "findToken"
      [] OTHER -> "jwt"

\* A client can only present a refresh token that it was given, and the
\* access token of a user who exists.
Arrive(r) ==
    /\ pc[r] = "idle"
    /\ \E a \in Request :
         /\ a.op \in {"refresh", "logout"} => a.token \in held
         /\ a.op \in {"logout", "update"} => a.user \in drawn
         /\ arg' = [arg EXCEPT ![r] = a]
         /\ Goto(r, FirstStatement(a.op))
    /\ UNCHANGED <<accounts, active, drawn, tokens, held, entity>>

\* The connection or the process dies between two statements.
Abort(r) ==
    /\ pc[r] # "idle"
    /\ Reply(r)
    /\ UNCHANGED store

-----------------------------------------------------------------------------
(* register and login.                                                     *)

FindEmail(r) ==
    /\ pc[r] = "findEmail"
    /\ \/ /\ \A a \in accounts : a.email # arg[r].email
          /\ Goto(r, "insertUser")
          /\ UNCHANGED <<arg, entity>>
       \/ /\ \E a \in accounts : a.email = arg[r].email
          /\ Reply(r)
    /\ UNCHANGED store

\* users.email is unique.
EmailFree(email) == \A a \in accounts : a.email # email

\* After the hash: the row may be refused, as somebody else may have
\* registered the address meanwhile.
InsertUser(r) ==
    /\ pc[r] = "insertUser"
    /\ \E id \in UserIds \ drawn :
         /\ drawn' = drawn \cup {id}
         /\ \/ /\ EmailFree(arg[r].email)
               /\ accounts' = accounts \cup {[id |-> id, email |-> arg[r].email]}
               /\ active' = active \cup {id}
               /\ entity' = [entity EXCEPT ![r] =
                               [user |-> id, active |-> TRUE, token |-> NoToken]]
               /\ Goto(r, "insertToken")
               /\ UNCHANGED arg
            \/ /\ ~EmailFree(arg[r].email)
               /\ Reply(r)
               /\ UNCHANGED <<accounts, active>>
    /\ UNCHANGED <<tokens, held>>

FindUser(r) ==
    /\ pc[r] = "findUser"
    /\ \/ \E a \in accounts :
            /\ a.email = arg[r].email
            /\ entity' = [entity EXCEPT ![r] =
                            [user |-> a.id, active |-> a.id \in active,
                             token |-> NoToken]]
            /\ Goto(r, "compare")
            /\ UNCHANGED arg
       \/ /\ \A a \in accounts : a.email # arg[r].email
          /\ Reply(r)
    /\ UNCHANGED store

\* A mutant: nobody looks at isActive.
ComparePassword_AnyAccount(r) ==
    /\ pc[r] = "compare"
    /\ \/ /\ arg[r].right
          /\ Goto(r, "insertToken")
          /\ UNCHANGED <<arg, entity>>
       \/ /\ ~arg[r].right
          /\ Reply(r)
    /\ UNCHANGED store

\* bcrypt.compare, then isActive of the user as it was read before.
ComparePassword(r) ==
    /\ pc[r] = "compare"
    /\ \/ /\ arg[r].right /\ entity[r].active
          /\ Goto(r, "insertToken")
          /\ UNCHANGED <<arg, entity>>
       \/ /\ ~(arg[r].right /\ entity[r].active)
          /\ Reply(r)
    /\ UNCHANGED store

-----------------------------------------------------------------------------
(* refresh and logout.                                                     *)

\* A mutant: a revoked token is found as well.
Exchangeable_Revoked(t) == tokens[t] # NoRow /\ ~tokens[t].expired

\* findOne({ tokenHash, revoked: false }), then its expiresAt.
Exchangeable(t) == tokens[t] # NoRow /\ ~tokens[t].revoked /\ ~tokens[t].expired

\* A mutant: findOne without relations: ['user'].
FindToken_NoRelation(r) ==
    /\ pc[r] = "findToken"
    /\ \/ /\ Exchangeable(arg[r].token)
          /\ entity' = [entity EXCEPT ![r] =
                          [user |-> NoRow, active |-> FALSE, token |-> arg[r].token]]
          /\ Goto(r, "revokeFound")
          /\ UNCHANGED arg
       \/ /\ ~Exchangeable(arg[r].token)
          /\ Reply(r)
    /\ UNCHANGED store

FindToken(r) ==
    /\ pc[r] = "findToken"
    /\ \/ /\ Exchangeable(arg[r].token)
          /\ entity' = [entity EXCEPT ![r] =
                          [user |-> tokens[arg[r].token].user,
                           active |-> tokens[arg[r].token].user \in active,
                           token |-> arg[r].token]]
          /\ Goto(r, "revokeFound")
          /\ UNCHANGED arg
       \/ /\ ~Exchangeable(arg[r].token)
          /\ Reply(r)
    /\ UNCHANGED store

\* UPDATE refresh_tokens SET revoked = true WHERE id = stored.id, whether or
\* not it has been revoked since it was found.
RevokeFound(r) ==
    /\ pc[r] = "revokeFound"
    /\ tokens' = [tokens EXCEPT ![entity[r].token].revoked = TRUE]
    /\ Goto(r, "insertToken")
    /\ UNCHANGED <<accounts, active, drawn, held, arg, entity>>

\* generateTokens.  The response may be lost after the row is stored.
InsertToken(r) ==
    /\ pc[r] = "insertToken"
    /\ \E t \in Tokens :
         /\ tokens[t] = NoRow
         /\ tokens' = [tokens EXCEPT ![t] =
                         [user |-> entity[r].user, revoked |-> FALSE,
                          expired |-> FALSE, parent |-> entity[r].token]]
         /\ held' \in {held, held \cup {t}}
    /\ Reply(r)
    /\ UNCHANGED <<accounts, active, drawn>>

\* JwtStrategy.validate: the caller exists and is active.
ValidateJwt(r) ==
    /\ pc[r] = "jwt"
    /\ \/ /\ \E a \in accounts : a.id = arg[r].user /\ a.id \in active
          /\ Goto(r, IF arg[r].op = "logout" THEN "revokeHash" ELSE "loadUser")
          /\ UNCHANGED <<arg, entity>>
       \/ /\ \A a \in accounts : a.id = arg[r].user => a.id \notin active
          /\ Reply(r)
    /\ UNCHANGED store

\* A mutant: the update by hash writes the flag the wrong way round.
RevokeHash_Unrevokes(r) ==
    /\ pc[r] = "revokeHash"
    /\ tokens' = [tokens EXCEPT ![arg[r].token].revoked = FALSE]
    /\ Reply(r)
    /\ UNCHANGED <<accounts, active, drawn, held>>

\* UPDATE refresh_tokens SET revoked = true WHERE tokenHash = hash.
RevokeHash(r) ==
    /\ pc[r] = "revokeHash"
    /\ tokens' = [tokens EXCEPT ![arg[r].token].revoked = TRUE]
    /\ Reply(r)
    /\ UNCHANGED <<accounts, active, drawn, held>>

-----------------------------------------------------------------------------
(* PUT /users/me.                                                          *)

\* findById, and Object.assign of the body, which has no isActive.  The row
\* of a caller who passed the guard is there: accounts are never deleted.
LoadUser(r) ==
    /\ pc[r] = "loadUser"
    /\ entity' = [entity EXCEPT ![r] =
                    [user |-> arg[r].user, active |-> arg[r].user \in active,
                     token |-> NoToken]]
    /\ Goto(r, "saveUser")
    /\ UNCHANGED <<accounts, active, drawn, tokens, held, arg>>

\* Repository.save looks the row up again.  If isActive is another than it was
\* when the entity was loaded, it is among the columns to write.
SaveUser(r) ==
    /\ pc[r] = "saveUser"
    /\ \/ /\ entity[r].active # (entity[r].user \in active)
          /\ Goto(r, "writeUser")
          /\ UNCHANGED <<arg, entity>>
       \/ /\ entity[r].active = (entity[r].user \in active)
          /\ Reply(r)
    /\ UNCHANGED store

\* UPDATE users SET ..., isActive = ... WHERE id = ...
WriteUser(r) ==
    /\ pc[r] = "writeUser"
    /\ active' = IF entity[r].active THEN active \cup {entity[r].user}
                                     ELSE active \ {entity[r].user}
    /\ Reply(r)
    /\ UNCHANGED <<accounts, drawn, tokens, held>>

-----------------------------------------------------------------------------
(* Time, and the operator.                                                 *)

Expire(t) ==
    /\ tokens[t] # NoRow
    /\ ~tokens[t].expired
    /\ tokens' = [tokens EXCEPT ![t].expired = TRUE]
    /\ UNCHANGED <<accounts, active, drawn, held, pc, arg, entity>>

Deactivate(u) ==
    /\ u \in active
    /\ active' = active \ {u}
    /\ UNCHANGED <<accounts, drawn, tokens, held, pc, arg, entity>>

Step(r) ==
    \/ Arrive(r) \/ Abort(r)
    \/ FindEmail(r) \/ InsertUser(r) \/ FindUser(r) \/ ComparePassword(r)
    \/ FindToken(r) \/ RevokeFound(r) \/ InsertToken(r)
    \/ ValidateJwt(r) \/ RevokeHash(r)
    \/ LoadUser(r) \/ SaveUser(r) \/ WriteUser(r)

Next ==
    \/ \E r \in Requests : Step(r)
    \/ \E t \in Tokens : Expire(t)
    \/ \E u \in UserIds : Deactivate(u)

Spec == Init /\ [][Next]_vars

-----------------------------------------------------------------------------
(* Properties.                                                             *)

\* The tables hold rows and a handler holds an entity.
TypeOK ==
    /\ accounts \subseteq Account
    /\ active \subseteq UserIds
    /\ drawn \subseteq UserIds
    /\ tokens \in [Tokens -> TokenRow \cup {NoRow}]
    /\ held \subseteq Tokens
    /\ pc \in [Requests -> Points]
    /\ arg \in [Requests -> Request \cup {NoRow}]
    /\ entity \in [Requests -> Entity \cup {NoRow}]

\* Registrations of one address may all pass the check while the others
\* wait for bcrypt; still one of them wins the address, and tokens are only
\* ever issued to an account that exists.
OneAccountPerEmail ==
    /\ \A a, b \in accounts : a.email = b.email => a = b
    /\ \A t \in Tokens : tokens[t] # NoRow => \E a \in accounts : a.id = tokens[t].user

\* A token that was exchanged is spent: no token that replaces another one
\* exists while that one can still be used, and both are the same user's.
SuccessorsFollowSpent ==
    \A t \in Tokens : tokens[t] # NoRow /\ tokens[t].parent # NoToken =>
        /\ tokens[tokens[t].parent] # NoRow
        /\ tokens[tokens[t].parent].revoked
        /\ tokens[tokens[t].parent].user = tokens[t].user

\* A revoked token is worth nothing to a request that comes later: it gets a
\* successor only from a request that had found it before it was revoked.
\* (Two such requests each get one: RevokeFound does not look.)
Exchanging(t) ==
    \E r \in Requests : /\ pc[r] \in {"revokeFound", "insertToken"}
                        /\ entity[r].token = t

Spent(t) == tokens[t] # NoRow /\ tokens[t].revoked /\ ~Exchanging(t)

SpentForGood ==
    [][\A t \in Tokens : Spent(t) =>
          /\ Spent(t)'
          /\ \A s \in Tokens : tokens[s] = NoRow /\ tokens'[s] # NoRow
                                  => tokens'[s].parent # t]_vars

\* Request r goes by isActive of user u as it was before: it logs him in, or
\* is about to write it back.
ActsAsActive(r, u) ==
    /\ pc[r] \in {"compare", "insertToken", "saveUser", "writeUser"}
    /\ entity[r].user = u
    /\ entity[r].active
    /\ pc[r] = "insertToken" => entity[r].token = NoToken

Closed(u) == u \in drawn \ active /\ \A r \in Requests : ~ActsAsActive(r, u)

\* An account that was deactivated stays so, and nobody logs in to it any
\* more, once the requests that read it before are over: a login waits for
\* bcrypt with isActive as it was, and the save of a profile that was loaded
\* before writes isActive back.  An exchange does not look at isActive.
DeactivationHolds ==
    [][\A u \in UserIds : Closed(u) =>
          /\ Closed(u)'
          /\ \A t \in Tokens : tokens[t] = NoRow /\ tokens'[t] # NoRow
                /\ tokens'[t].user = u => tokens'[t].parent # NoToken]_vars

\* The refinement mapping: what a row of refresh_tokens, or its absence,
\* says of a token.
StatusOf(row) ==
    CASE row = NoRow -> "none"
      [] row # NoRow /\ row.revoked -> "spent"
      [] row # NoRow /\ ~row.revoked /\ row.expired -> "expired"
      [] OTHER -> "live"

OwnerOf(row)  == IF row = NoRow THEN NoToken ELSE row.user
ParentOf(row) == IF row = NoRow THEN NoToken ELSE row.parent

statusMap == [t \in Tokens |-> StatusOf(tokens[t])]
ownerMap  == [t \in Tokens |-> OwnerOf(tokens[t])]
parentMap == [t \in Tokens |-> ParentOf(tokens[t])]

Lifecycle == INSTANCE TokenLifecycle WITH
    status <- statusMap, owner <- ownerMap, parent <- parentMap

\* Every request, race, crash and expiry is a step of TokenLifecycle or none
\* of its business.
ImplementsLifecycle == Lifecycle!Spec

-----------------------------------------------------------------------------
(* The inductive invariant behind the theorems of Auth_proofs.             *)

HoldingPoints == {"compare", "revokeFound", "insertToken", "saveUser", "writeUser"}

\* A request runs the statements of its own endpoint.
Control(r) ==
    /\ pc[r] # "idle" => arg[r] \in Request
    /\ pc[r] \in {"findEmail", "insertUser"} => arg[r].op = "register"
    /\ pc[r] \in {"findUser", "compare"} => arg[r].op = "login"
    /\ pc[r] \in {"findToken", "revokeFound"} => arg[r].op = "refresh"
    /\ pc[r] = "jwt" => arg[r].op \in {"logout", "update"}
    /\ pc[r] = "revokeHash" => arg[r].op = "logout"
    /\ pc[r] \in {"loadUser", "saveUser", "writeUser"} => arg[r].op = "update"
    /\ pc[r] = "loadUser" => \E a \in accounts : a.id = arg[r].user

\* A handler holds the account it read, and with it the token it exchanges,
\* which is that user's and is revoked once the handler goes on to issue.
Holding(r) ==
    /\ pc[r] \in HoldingPoints =>
         /\ entity[r] \in Entity
         /\ \E a \in accounts : a.id = entity[r].user
    /\ pc[r] = "compare" => entity[r].token = NoToken
    /\ pc[r] = "revokeFound" => entity[r].token # NoToken
    /\ pc[r] \in {"revokeFound", "insertToken"} /\ entity[r].token # NoToken =>
         /\ tokens[entity[r].token] # NoRow
         /\ tokens[entity[r].token].user = entity[r].user
    /\ pc[r] = "insertToken" /\ entity[r].token # NoToken =>
         tokens[entity[r].token].revoked
    /\ pc[r] = "insertToken" => entity[r].active \/ entity[r].token # NoToken

\* A token that a request names has a row.
Presented ==
    /\ \A t \in held : tokens[t] # NoRow
    /\ \A r \in Requests : arg[r] # NoRow /\ arg[r].op \in {"refresh", "logout"} =>
          tokens[arg[r].token] # NoRow

IInv ==
    /\ TypeOK
    /\ \A r \in Requests : Control(r) /\ Holding(r)
    /\ Presented
    /\ \A a \in accounts : a.id \in drawn
    /\ OneAccountPerEmail
    /\ SuccessorsFollowSpent
=============================================================================
