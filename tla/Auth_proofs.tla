---------------------------- MODULE Auth_proofs ----------------------------
(***************************************************************************)
(* Theorems about Auth, for any number of users, tokens and concurrent     *)
(* requests: its invariants, and that it implements TokenLifecycle.        *)
(***************************************************************************)
EXTENDS Auth, TLAPS

(***************************************************************************)
(* Every statement that touches refresh_tokens does one of these.          *)
(***************************************************************************)

TokensOK == tokens \in [Tokens -> TokenRow \cup {NoRow}]

Issued(t, row) == tokens[t] = NoRow /\ tokens' = [tokens EXCEPT ![t] = row]

Revoked(t) == tokens[t] # NoRow /\ tokens' = [tokens EXCEPT ![t].revoked = TRUE]

Expired(t) == tokens[t] # NoRow /\ tokens' = [tokens EXCEPT ![t].expired = TRUE]

\* A row stays, keeps its user and its parent, and once revoked is revoked.
Grow ==
    \A t \in Tokens : tokens[t] # NoRow =>
        /\ tokens'[t] # NoRow
        /\ tokens'[t].user = tokens[t].user
        /\ tokens'[t].parent = tokens[t].parent
        /\ tokens[t].revoked => tokens'[t].revoked

LEMMA IssuedOK ==
    ASSUME TokensOK, NEW t \in Tokens, NEW row \in TokenRow, Issued(t, row)
    PROVE  /\ TokensOK' /\ Grow
           /\ tokens'[t] = row
           /\ \A s \in Tokens \ {t} : tokens'[s] = tokens[s]
PROOF
    BY DEF TokensOK, Issued, Grow

LEMMA RevokedOK ==
    ASSUME TokensOK, NEW t \in Tokens, Revoked(t)
    PROVE  /\ TokensOK' /\ Grow
           /\ tokens'[t] = [tokens[t] EXCEPT !.revoked = TRUE]
           /\ tokens'[t].revoked
           /\ \A s \in Tokens \ {t} : tokens'[s] = tokens[s]
PROOF
<1>1. tokens[t] \in TokenRow
    BY DEF TokensOK, Revoked
<1>2. [tokens[t] EXCEPT !.revoked = TRUE] \in TokenRow
    BY <1>1 DEF TokenRow
<1>3. tokens' = [tokens EXCEPT ![t] = [tokens[t] EXCEPT !.revoked = TRUE]]
    BY DEF Revoked
<1>4. TokensOK' /\ tokens'[t] = [tokens[t] EXCEPT !.revoked = TRUE]
      /\ \A s \in Tokens \ {t} : tokens'[s] = tokens[s]
    BY <1>2, <1>3 DEF TokensOK
<1> QED BY <1>1, <1>2, <1>4, NullAssumption DEF Grow, TokenRow

LEMMA ExpiredOK ==
    ASSUME TokensOK, NEW t \in Tokens, Expired(t)
    PROVE  /\ TokensOK' /\ Grow
           /\ tokens'[t] = [tokens[t] EXCEPT !.expired = TRUE]
           /\ \A s \in Tokens \ {t} : tokens'[s] = tokens[s]
PROOF
<1>1. tokens[t] \in TokenRow
    BY DEF TokensOK, Expired
<1>2. [tokens[t] EXCEPT !.expired = TRUE] \in TokenRow
    BY <1>1 DEF TokenRow
<1>3. tokens' = [tokens EXCEPT ![t] = [tokens[t] EXCEPT !.expired = TRUE]]
    BY DEF Expired
<1>4. TokensOK' /\ tokens'[t] = [tokens[t] EXCEPT !.expired = TRUE]
      /\ \A s \in Tokens \ {t} : tokens'[s] = tokens[s]
    BY <1>2, <1>3 DEF TokensOK
<1> QED BY <1>1, <1>2, <1>4, NullAssumption DEF Grow, TokenRow

(***************************************************************************)
(* The memory of the requests.                                             *)
(***************************************************************************)

MemoryOK ==
    /\ pc \in [Requests -> Points]
    /\ arg \in [Requests -> Request \cup {NoRow}]
    /\ entity \in [Requests -> Entity \cup {NoRow}]

Local(r) ==
    /\ Control(r)
    /\ Holding(r)
    /\ arg[r] # NoRow /\ arg[r].op \in {"refresh", "logout"} => tokens[arg[r].token] # NoRow

OthersKept(r) ==
    \A q \in Requests \ {r} : pc'[q] = pc[q] /\ arg'[q] = arg[q] /\ entity'[q] = entity[q]

\* What other requests do to the tables disturbs nothing a request relies on.
LEMMA Framed ==
    ASSUME MemoryOK, accounts \subseteq accounts', Grow, NEW q \in Requests, Local(q),
           pc'[q] = pc[q], arg'[q] = arg[q], entity'[q] = entity[q]
    PROVE  Local(q)'
PROOF
<1>1. Control(q)'
    BY DEF Local, Control
<1>2. ASSUME arg[q] # NoRow, arg[q].op \in {"refresh", "logout"}
      PROVE  tokens'[arg[q].token] # NoRow
  <2>1. arg[q].token \in Tokens
      BY <1>2 DEF MemoryOK, Request
  <2> QED BY <1>2, <2>1 DEF Local, Grow
<1>3. Holding(q)'
  <2>1. pc[q] \in HoldingPoints =>
           entity[q] \in Entity /\ \E a \in accounts' : a.id = entity[q].user
      BY DEF Local, Holding
  <2>2. pc[q] \in {"revokeFound", "insertToken"} /\ entity[q].token # NoToken =>
           entity[q].token \in Tokens
      BY DEF Local, Holding, HoldingPoints, Entity
  <2> QED BY <2>1, <2>2 DEF Local, Holding, Grow
<1> QED BY <1>1, <1>2, <1>3 DEF Local

LEMMA ReplyOK ==
    ASSUME MemoryOK, NEW r \in Requests, Reply(r)
    PROVE  MemoryOK' /\ OthersKept(r) /\ Local(r)'
PROOF
<1>1. MemoryOK' /\ OthersKept(r) /\ pc'[r] = "idle" /\ arg'[r] = NoRow
    BY DEF MemoryOK, Reply, Goto, Points, OthersKept
<1> QED BY <1>1 DEF Local, Control, Holding, HoldingPoints

(***************************************************************************)
(* The inductive step.                                                     *)
(***************************************************************************)

Tables ==
    /\ accounts \subseteq Account
    /\ active \subseteq UserIds
    /\ drawn \subseteq UserIds
    /\ TokensOK
    /\ held \subseteq Tokens
    /\ \A t \in held : tokens[t] # NoRow
    /\ \A a \in accounts : a.id \in drawn
    /\ OneAccountPerEmail
    /\ SuccessorsFollowSpent

LEMMA Parts ==
    IInv <=> Tables /\ MemoryOK /\ \A r \in Requests : Local(r)
PROOF
    BY DEF IInv, Tables, MemoryOK, Local, TypeOK, TokensOK, Presented

\* Revoking and expiring keep the tables in order.
LEMMA TouchedOK ==
    ASSUME Tables, NEW t \in Tokens, Revoked(t) \/ Expired(t),
           UNCHANGED <<accounts, drawn, held, active>>
    PROVE  Tables'
PROOF
<1>1. TokensOK' /\ Grow /\ \A s \in Tokens \ {t} : tokens'[s] = tokens[s]
    BY RevokedOK, ExpiredOK DEF Tables
<1>2. \A s \in Tokens : tokens'[s] # NoRow => tokens[s] # NoRow
    BY <1>1 DEF Revoked, Expired
<1>3. \A s \in Tokens : tokens[s] # NoRow => tokens[s].parent \in Tokens \cup {NoToken}
    BY DEF Tables, TokensOK, TokenRow
<1>4. OneAccountPerEmail'
    BY <1>1, <1>2 DEF Tables, OneAccountPerEmail, Grow
<1>5. SuccessorsFollowSpent'
    BY <1>1, <1>2, <1>3 DEF Tables, SuccessorsFollowSpent, Grow
<1> QED BY <1>1, <1>4, <1>5 DEF Tables, Grow

LEMMA SameTables ==
    ASSUME Tables, UNCHANGED <<accounts, drawn, tokens, held>>, active' \subseteq active
    PROVE  Tables' /\ Grow
PROOF
    BY DEF Tables, TokensOK, OneAccountPerEmail, SuccessorsFollowSpent, Grow

StepGoal(r) == /\ Tables' /\ MemoryOK' /\ Grow /\ accounts \subseteq accounts'
               /\ OthersKept(r) /\ Local(r)'

LEMMA StepOK ==
    ASSUME Tables, MemoryOK, NEW r \in Requests, Local(r), Step(r)
    PROVE  StepGoal(r)
PROOF
<1>1. ASSUME Reply(r), UNCHANGED store PROVE StepGoal(r)
    BY <1>1, ReplyOK, SameTables DEF StepGoal, store
\* A step to another statement that leaves the tables alone.
<1>2. ASSUME UNCHANGED store, MemoryOK', OthersKept(r), Local(r)' PROVE StepGoal(r)
    BY <1>2, SameTables DEF StepGoal, store
<1>3. CASE Arrive(r)
  <2> PICK a \in Request : /\ a.op \in {"refresh", "logout"} => a.token \in held
                           /\ arg' = [arg EXCEPT ![r] = a]
                           /\ Goto(r, FirstStatement(a.op))
      BY <1>3 DEF Arrive
  <2>1. UNCHANGED <<accounts, active, drawn, tokens, held, entity>>
      BY <1>3 DEF Arrive
  <2>2. /\ a.op = "register" => FirstStatement(a.op) = "findEmail"
        /\ a.op = "login" => FirstStatement(a.op) = "findUser"
        /\ a.op = "refresh" => FirstStatement(a.op) = "findToken"
        /\ a.op \in {"logout", "update"} => FirstStatement(a.op) = "jwt"
      BY DEF FirstStatement
  <2>3. a.op \in {"register", "login", "refresh", "logout", "update"}
      BY DEF Request
  <2>4. /\ MemoryOK' /\ OthersKept(r) /\ arg'[r] = a
        /\ pc'[r] = FirstStatement(a.op)
      BY <2>1, <2>2, <2>3 DEF MemoryOK, Goto, Points, OthersKept
  <2>5. Local(r)'
      BY <2>1, <2>2, <2>3, <2>4 DEF Tables, Local, Control, Holding, HoldingPoints
  <2> QED BY <1>2, <2>1, <2>4, <2>5 DEF store
<1>4. CASE Abort(r)
    BY <1>1, <1>4 DEF Abort
<1>5. CASE FindEmail(r)
  <2>1. CASE Goto(r, "insertUser") /\ UNCHANGED <<arg, entity>>
    <3>1. UNCHANGED store /\ pc[r] = "findEmail"
        BY <1>5 DEF FindEmail
    <3>2. MemoryOK' /\ OthersKept(r) /\ pc'[r] = "insertUser"
        BY <2>1 DEF MemoryOK, OthersKept, Goto, Points
    <3>3. Local(r)'
        BY <2>1, <3>1, <3>2 DEF store, Local, Control, Holding, HoldingPoints
    <3> QED BY <1>2, <3>1, <3>2, <3>3
  <2> QED BY <1>1, <1>5, <2>1 DEF FindEmail
<1>6. CASE InsertUser(r)
  <2> PICK id \in UserIds \ drawn :
         /\ drawn' = drawn \cup {id}
         /\ \/ /\ EmailFree(arg[r].email)
               /\ accounts' = accounts \cup {[id |-> id, email |-> arg[r].email]}
               /\ active' = active \cup {id}
               /\ entity' = [entity EXCEPT ![r] =
                               [user |-> id, active |-> TRUE, token |-> NoToken]]
               /\ Goto(r, "insertToken")
               /\ UNCHANGED arg
            \/ /\ ~EmailFree(arg[r].email)
               /\ Reply(r)
               /\ UNCHANGED <<accounts, active>>
      BY <1>6 DEF InsertUser
  <2>1. UNCHANGED <<tokens, held>> /\ pc[r] = "insertUser" /\ Grow
      BY <1>6 DEF InsertUser, Grow
  <2>2. CASE Reply(r) /\ UNCHANGED <<accounts, active>>
    <3>1. Tables'
        BY <2>1, <2>2 DEF Tables, TokensOK, OneAccountPerEmail, SuccessorsFollowSpent
    <3> QED BY <2>1, <2>2, <3>1, ReplyOK DEF StepGoal
  <2>3. CASE /\ EmailFree(arg[r].email)
             /\ accounts' = accounts \cup {[id |-> id, email |-> arg[r].email]}
             /\ active' = active \cup {id}
             /\ entity' = [entity EXCEPT ![r] =
                             [user |-> id, active |-> TRUE, token |-> NoToken]]
             /\ Goto(r, "insertToken")
             /\ UNCHANGED arg
    <3>1. arg[r].email \in Emails
        BY <2>1 DEF Local, Control, Request
    <3>2. Tables'
        BY <2>1, <2>3, <3>1 DEF Tables, TokensOK, OneAccountPerEmail, SuccessorsFollowSpent,
               EmailFree, Account
    <3> DEFINE e == [user |-> id, active |-> TRUE, token |-> NoToken]
    <3>3. e \in Entity /\ e.user = id /\ e.token = NoToken /\ e.active
        BY DEF Entity
    <3>4. \E a \in accounts' : a.id = id
      <4>1. [id |-> id, email |-> arg[r].email].id = id
          OBVIOUS
      <4> QED BY <2>3, <4>1
    <3> HIDE DEF e
    <3>5. /\ MemoryOK' /\ OthersKept(r) /\ pc'[r] = "insertToken" /\ arg'[r] = arg[r]
          /\ entity'[r] = e
        BY <2>3, <3>3 DEF MemoryOK, OthersKept, Goto, Points, e
    <3>6. accounts \subseteq accounts'
        BY <2>3
    <3>7. Control(r)' /\ Holding(r)'
        BY <2>1, <3>3, <3>4, <3>5 DEF Local, Control, Holding, HoldingPoints
    <3>8. Local(r)'
        BY <2>1, <3>5, <3>7 DEF Local
    <3> QED BY <2>1, <3>2, <3>5, <3>6, <3>8 DEF StepGoal
  <2> QED BY <2>2, <2>3
<1>7. CASE FindUser(r)
  <2>1. UNCHANGED store /\ pc[r] = "findUser"
      BY <1>7 DEF FindUser
  <2>2. ASSUME NEW a \in accounts,
               entity' = [entity EXCEPT ![r] =
                            [user |-> a.id, active |-> a.id \in active, token |-> NoToken]],
               Goto(r, "compare"), UNCHANGED arg
        PROVE  StepGoal(r)
    <3> DEFINE e == [user |-> a.id, active |-> a.id \in active, token |-> NoToken]
    <3>1. e \in Entity
        BY DEF Entity, Tables, Account
    <3>2. e.user = a.id /\ e.token = NoToken
        OBVIOUS
    <3> HIDE DEF e
    <3>3. /\ MemoryOK' /\ OthersKept(r) /\ pc'[r] = "compare" /\ arg'[r] = arg[r]
          /\ entity'[r] = e
        BY <2>2, <3>1 DEF MemoryOK, OthersKept, Goto, Points, e
    <3>4. Local(r)'
        BY <2>1, <3>1, <3>2, <3>3 DEF store, Local, Control, Holding, HoldingPoints
    <3> QED BY <1>2, <2>1, <3>3, <3>4
  <2> QED BY <1>1, <1>7, <2>2 DEF FindUser
<1>8. CASE ComparePassword(r)
  <2>1. CASE entity[r].active /\ Goto(r, "insertToken") /\ UNCHANGED <<arg, entity>>
    <3>1. UNCHANGED store /\ pc[r] = "compare"
        BY <1>8 DEF ComparePassword
    <3>2. MemoryOK' /\ OthersKept(r) /\ pc'[r] = "insertToken"
        BY <2>1 DEF MemoryOK, OthersKept, Goto, Points
    <3>3. Local(r)'
        BY <2>1, <3>1, <3>2 DEF store, Local, Control, Holding, HoldingPoints
    <3> QED BY <1>2, <3>1, <3>2, <3>3
  <2> QED BY <1>1, <1>8, <2>1 DEF ComparePassword
<1>9. CASE FindToken(r)
  <2>1. UNCHANGED store /\ pc[r] = "findToken"
      BY <1>9 DEF FindToken
  <2>2. CASE /\ Exchangeable(arg[r].token)
             /\ entity' = [entity EXCEPT ![r] =
                             [user |-> tokens[arg[r].token].user,
                              active |-> tokens[arg[r].token].user \in active,
                              token |-> arg[r].token]]
             /\ Goto(r, "revokeFound")
             /\ UNCHANGED arg
    <3> DEFINE t == arg[r].token
               e == [user |-> tokens[t].user, active |-> tokens[t].user \in active,
                     token |-> t]
    <3>1. t \in Tokens /\ tokens[t] # NoRow
        BY <2>1, <2>2 DEF Local, Control, Request, Exchangeable
    <3>2. tokens[t] \in TokenRow
        BY <3>1 DEF Tables, TokensOK
    <3>3. e \in Entity /\ e.user = tokens[t].user /\ e.token = t
        BY <3>1, <3>2 DEF Entity, TokenRow
    <3>4. \E a \in accounts : a.id = tokens[t].user
        BY <3>1 DEF Tables, OneAccountPerEmail
    <3>5. /\ MemoryOK' /\ OthersKept(r) /\ pc'[r] = "revokeFound" /\ arg'[r] = arg[r]
          /\ entity'[r] = e
        BY <2>2, <3>3 DEF MemoryOK, OthersKept, Goto, Points
    <3> HIDE DEF e, t
    <3>6. Local(r)'
        BY <2>1, <3>1, <3>3, <3>4, <3>5, NullAssumption DEF store, Local, Control, Holding,
               HoldingPoints
    <3> QED BY <1>2, <2>1, <3>5, <3>6
  <2> QED BY <1>1, <1>9, <2>2 DEF FindToken
<1>10. CASE RevokeFound(r)
  <2> DEFINE t == entity[r].token
  <2>1. /\ pc[r] = "revokeFound" /\ Goto(r, "insertToken")
        /\ UNCHANGED <<accounts, active, drawn, held, arg, entity>>
        /\ tokens' = [tokens EXCEPT ![t].revoked = TRUE]
      BY <1>10 DEF RevokeFound
  <2>2. t \in Tokens /\ tokens[t] # NoRow /\ entity[r] \in Entity
      BY <2>1 DEF Local, Holding, HoldingPoints, Entity
  <2>3. Revoked(t)
      BY <2>1, <2>2 DEF Revoked
  <2>4. Tables' /\ Grow /\ tokens'[t].revoked
      BY <2>1, <2>2, <2>3, TouchedOK, RevokedOK DEF Tables
  <2>5. MemoryOK' /\ OthersKept(r) /\ pc'[r] = "insertToken"
      BY <2>1 DEF MemoryOK, OthersKept, Goto, Points
  <2> HIDE DEF t
  <2>6. Local(r)'
    <3>1. Control(r)'
        BY <2>1, <2>5 DEF Local, Control
    <3>2. Holding(r)'
        BY <2>1, <2>2, <2>4, <2>5 DEF Local, Holding, HoldingPoints, Grow, t
    <3>3. arg[r].op = "refresh" /\ arg[r] \in Request /\ arg[r].token \in Tokens
        BY <2>1 DEF Local, Control, Request
    <3>4. tokens[arg[r].token] # NoRow
        BY <3>3, NullAssumption DEF Local
    <3> QED BY <2>1, <2>4, <3>1, <3>2, <3>3, <3>4 DEF Local, Grow
  <2> QED BY <2>1, <2>4, <2>5, <2>6 DEF StepGoal
<1>11. CASE InsertToken(r)
  <2> PICK t \in Tokens :
         /\ tokens[t] = NoRow
         /\ tokens' = [tokens EXCEPT ![t] =
                         [user |-> entity[r].user, revoked |-> FALSE,
                          expired |-> FALSE, parent |-> entity[r].token]]
         /\ held' \in {held, held \cup {t}}
      BY <1>11 DEF InsertToken
  <2> DEFINE row == [user |-> entity[r].user, revoked |-> FALSE,
                     expired |-> FALSE, parent |-> entity[r].token]
  <2>1. Reply(r) /\ UNCHANGED <<accounts, active, drawn>> /\ pc[r] = "insertToken"
      BY <1>11 DEF InsertToken
  <2>2. /\ entity[r] \in Entity
        /\ \E a \in accounts : a.id = entity[r].user
        /\ entity[r].token # NoToken =>
              /\ tokens[entity[r].token] # NoRow
              /\ tokens[entity[r].token].user = entity[r].user
              /\ tokens[entity[r].token].revoked
      BY <2>1 DEF Local, Holding, HoldingPoints
  <2>3. /\ row \in TokenRow /\ row.user = entity[r].user /\ row.parent = entity[r].token
        /\ entity[r].token \in Tokens \cup {NoToken}
      BY <2>2 DEF Entity, TokenRow
  <2> HIDE DEF row
  <2>4. Issued(t, row)
      BY DEF Issued, row
  <2>5. /\ TokensOK' /\ Grow /\ tokens'[t] = row
        /\ \A s \in Tokens \ {t} : tokens'[s] = tokens[s]
      BY <2>3, <2>4, IssuedOK DEF Tables
  <2>6. OneAccountPerEmail'
      BY <2>1, <2>2, <2>3, <2>5 DEF Tables, OneAccountPerEmail
  <2>7. SuccessorsFollowSpent'
    <3> SUFFICES ASSUME NEW s \in Tokens, tokens'[s] # NoRow, tokens'[s].parent # NoToken
                 PROVE  /\ tokens'[tokens'[s].parent] # NoRow
                        /\ tokens'[tokens'[s].parent].revoked
                        /\ tokens'[tokens'[s].parent].user = tokens'[s].user
        BY DEF SuccessorsFollowSpent
    <3>1. CASE s = t
        BY <2>2, <2>3, <2>5, <3>1 DEF Grow
    <3>2. CASE s # t
      <4>1. tokens'[s] = tokens[s] /\ tokens[s].parent \in Tokens
          BY <2>5, <3>2 DEF Tables, TokensOK, TokenRow
      <4> QED BY <2>5, <3>2, <4>1 DEF Tables, SuccessorsFollowSpent, Grow
    <3> QED BY <3>1, <3>2
  <2>8. Tables'
      BY <2>1, <2>3, <2>5, <2>6, <2>7, NullAssumption DEF Tables, Grow
  <2> QED BY <2>1, <2>5, <2>8, ReplyOK DEF StepGoal
<1>12. CASE ValidateJwt(r)
  <2> DEFINE next == IF arg[r].op = "logout" THEN "revokeHash" ELSE "loadUser"
  <2>1. CASE /\ \E a \in accounts : a.id = arg[r].user /\ a.id \in active
             /\ Goto(r, next) /\ UNCHANGED <<arg, entity>>
    <3>1. UNCHANGED store /\ pc[r] = "jwt"
        BY <1>12 DEF ValidateJwt
    <3>2. MemoryOK' /\ OthersKept(r) /\ pc'[r] = next
        BY <2>1 DEF MemoryOK, OthersKept, Goto, Points
    <3>3. Local(r)'
        BY <2>1, <3>1, <3>2 DEF store, Local, Control, Holding, HoldingPoints
    <3> QED BY <1>2, <3>1, <3>2, <3>3
  <2> QED BY <1>1, <1>12, <2>1 DEF ValidateJwt
<1>13. CASE RevokeHash(r)
  <2> DEFINE t == arg[r].token
  <2>1. /\ pc[r] = "revokeHash" /\ Reply(r)
        /\ UNCHANGED <<accounts, active, drawn, held>>
        /\ tokens' = [tokens EXCEPT ![t].revoked = TRUE]
      BY <1>13 DEF RevokeHash
  <2>2. t \in Tokens /\ tokens[t] # NoRow
      BY <2>1, NullAssumption DEF Local, Control, Request
  <2>3. Revoked(t)
      BY <2>1, <2>2 DEF Revoked
  <2>4. Tables' /\ Grow
      BY <2>1, <2>2, <2>3, TouchedOK, RevokedOK DEF Tables
  <2> QED BY <2>1, <2>4, ReplyOK DEF StepGoal
<1>14. CASE LoadUser(r)
  <2> DEFINE e == [user |-> arg[r].user, active |-> arg[r].user \in active,
                   token |-> NoToken]
  <2>1. /\ pc[r] = "loadUser" /\ Goto(r, "saveUser") /\ entity' = [entity EXCEPT ![r] = e]
        /\ UNCHANGED store /\ UNCHANGED arg
      BY <1>14 DEF LoadUser, store
  <2>2. PICK a \in accounts : a.id = arg[r].user
      BY <2>1 DEF Local, Control
  <2>3. e \in Entity /\ e.user = a.id /\ e.token = NoToken
      BY <2>2 DEF Entity, Tables, Account
  <2> HIDE DEF e
  <2>4. /\ MemoryOK' /\ OthersKept(r) /\ pc'[r] = "saveUser" /\ arg'[r] = arg[r]
        /\ entity'[r] = e
      BY <2>1, <2>3 DEF MemoryOK, OthersKept, Goto, Points
  <2>5. Local(r)'
      BY <2>1, <2>3, <2>4 DEF store, Local, Control, Holding, HoldingPoints
  <2> QED BY <1>2, <2>1, <2>4, <2>5
<1>15. CASE SaveUser(r)
  <2>1. CASE Goto(r, "writeUser") /\ UNCHANGED <<arg, entity>>
    <3>1. UNCHANGED store /\ pc[r] = "saveUser"
        BY <1>15 DEF SaveUser
    <3>2. MemoryOK' /\ OthersKept(r) /\ pc'[r] = "writeUser"
        BY <2>1 DEF MemoryOK, OthersKept, Goto, Points
    <3>3. Local(r)'
        BY <2>1, <3>1, <3>2 DEF store, Local, Control, Holding, HoldingPoints
    <3> QED BY <1>2, <3>1, <3>2, <3>3
  <2> QED BY <1>1, <1>15, <2>1 DEF SaveUser
<1>16. CASE WriteUser(r)
  <2>1. /\ pc[r] = "writeUser" /\ Reply(r) /\ UNCHANGED <<accounts, drawn, tokens, held>>
        /\ active' \in {active \cup {entity[r].user}, active \ {entity[r].user}}
      BY <1>16 DEF WriteUser
  <2>2. entity[r].user \in UserIds
      BY <2>1 DEF Local, Holding, HoldingPoints, Entity
  <2>3. active' \subseteq UserIds
      BY <2>1, <2>2 DEF Tables
  <2>4. Tables' /\ Grow
      BY <2>1, <2>3 DEF Tables, TokensOK, OneAccountPerEmail, SuccessorsFollowSpent, Grow
  <2> QED BY <2>1, <2>4, ReplyOK DEF StepGoal
<1> QED
    BY <1>3, <1>4, <1>5, <1>6, <1>7, <1>8, <1>9, <1>10, <1>11, <1>12, <1>13, <1>14, <1>15,
       <1>16 DEF Step

LEMMA InitOK == Init => IInv
PROOF
    BY DEF Init, IInv, TypeOK, Points, Control, Holding, HoldingPoints, Presented,
           OneAccountPerEmail, SuccessorsFollowSpent

LEMMA NextOK == IInv /\ [Next]_vars => IInv'
PROOF
<1> SUFFICES ASSUME IInv, [Next]_vars PROVE IInv'
    OBVIOUS
<1>0. Tables /\ MemoryOK /\ \A r \in Requests : Local(r)
    BY Parts
<1>1. SUFFICES Tables' /\ MemoryOK' /\ \A r \in Requests : Local(r)'
    BY DEF IInv, Tables, MemoryOK, Local, TypeOK, TokensOK, Presented
<1>2. ASSUME NEW r \in Requests, Step(r)
      PROVE  Tables' /\ MemoryOK' /\ \A q \in Requests : Local(q)'
  <2>1. StepGoal(r)
      BY <1>0, <1>2, StepOK
  <2>2. ASSUME NEW q \in Requests, q # r PROVE Local(q)'
      BY <1>0, <2>1, <2>2, Framed DEF StepGoal, OthersKept
  <2> QED BY <2>1, <2>2 DEF StepGoal
<1>3. ASSUME Tables', Grow, UNCHANGED <<accounts, pc, arg, entity>>
      PROVE  Tables' /\ MemoryOK' /\ \A q \in Requests : Local(q)'
  <2>1. \A q \in Requests : Local(q)'
      BY <1>0, <1>3, Framed
  <2> QED BY <1>0, <1>3, <2>1 DEF MemoryOK
<1>4. ASSUME NEW t \in Tokens, Expire(t)
      PROVE  Tables' /\ MemoryOK' /\ \A q \in Requests : Local(q)'
  <2>1. Expired(t) /\ UNCHANGED <<accounts, active, drawn, held, pc, arg, entity>>
      BY <1>4 DEF Expire, Expired
  <2>2. Tables' /\ Grow
      BY <1>0, <2>1, TouchedOK, ExpiredOK DEF Tables
  <2> QED BY <1>3, <2>1, <2>2
<1>5. ASSUME NEW u \in UserIds, Deactivate(u)
      PROVE  Tables' /\ MemoryOK' /\ \A q \in Requests : Local(q)'
    BY <1>0, <1>3, <1>5, SameTables DEF Deactivate
<1>6. CASE UNCHANGED vars
    BY <1>0, <1>3, <1>6, SameTables DEF vars
<1> QED BY <1>2, <1>4, <1>5, <1>6 DEF Next

\* The invariants hold however registrations, logins, exchanges, logouts,
\* failures and expiries interleave.
THEOREM Invariance == Spec => []IInv
PROOF
    BY InitOK, NextOK, PTL DEF Spec

(***************************************************************************)
(* The invariants the runs check.                                          *)
(***************************************************************************)

\* Every row, request and entity has the shape it should have.
THEOREM TypeCorrect == Spec => []TypeOK
PROOF
<1>1. IInv => TypeOK
    BY DEF IInv
<1> QED BY <1>1, Invariance, PTL

\* However many registrations of one address wait for bcrypt at once, one
\* account gets it; and every token belongs to an account.
THEOREM UniqueAccounts == Spec => []OneAccountPerEmail
PROOF
<1>1. IInv => OneAccountPerEmail
    BY DEF IInv
<1> QED BY <1>1, Invariance, PTL

\* However exchanges race, the token behind every successor is spent and is
\* the same user's.
THEOREM Rotation == Spec => []SuccessorsFollowSpent
PROOF
<1>1. IInv => SuccessorsFollowSpent
    BY DEF IInv
<1> QED BY <1>1, Invariance, PTL

(***************************************************************************)
(* What a step does to refresh_tokens.                                     *)
(***************************************************************************)

\* The row InsertToken adds.
FreshRow(r) == [user |-> entity[r].user, revoked |-> FALSE,
                expired |-> FALSE, parent |-> entity[r].token]

IssuedFor(r, t) == pc[r] = "insertToken" /\ Issued(t, FreshRow(r))

LEMMA GrowIssued ==
    ASSUME TokensOK, NEW r \in Requests, NEW t \in Tokens, IssuedFor(r, t)
    PROVE  Grow
PROOF
    BY DEF TokensOK, IssuedFor, Issued, Grow

LEMMA TokenSteps ==
    ASSUME IInv, [Next]_vars
    PROVE  \/ UNCHANGED tokens
           \/ \E r \in Requests, t \in Tokens : IssuedFor(r, t)
           \/ \E t \in Tokens : Revoked(t)
           \/ \E t \in Tokens : Expired(t)
PROOF
<1>0. Tables /\ MemoryOK /\ \A r \in Requests : Local(r)
    BY Parts
<1>1. ASSUME NEW r \in Requests, Step(r), tokens' # tokens
      PROVE  InsertToken(r) \/ RevokeFound(r) \/ RevokeHash(r)
    BY <1>1 DEF Step, Arrive, Abort, FindEmail, InsertUser, FindUser, ComparePassword,
           FindToken, ValidateJwt, LoadUser, SaveUser, WriteUser, store
<1>2. ASSUME NEW r \in Requests, InsertToken(r)
      PROVE  \E t \in Tokens : IssuedFor(r, t)
    BY <1>2 DEF InsertToken, IssuedFor, Issued, FreshRow
<1>3. ASSUME NEW r \in Requests, RevokeFound(r)
      PROVE  \E t \in Tokens : Revoked(t)
  <2>1. pc[r] = "revokeFound" /\ tokens' = [tokens EXCEPT ![entity[r].token].revoked = TRUE]
      BY <1>3 DEF RevokeFound
  <2>2. entity[r].token \in Tokens /\ tokens[entity[r].token] # NoRow
      BY <1>0, <2>1 DEF Local, Holding, HoldingPoints, Entity
  <2> QED BY <2>1, <2>2 DEF Revoked
<1>4. ASSUME NEW r \in Requests, RevokeHash(r)
      PROVE  \E t \in Tokens : Revoked(t)
  <2>1. pc[r] = "revokeHash" /\ tokens' = [tokens EXCEPT ![arg[r].token].revoked = TRUE]
      BY <1>4 DEF RevokeHash
  <2>2. arg[r].token \in Tokens /\ tokens[arg[r].token] # NoRow
      BY <1>0, <2>1, NullAssumption DEF Local, Control, Request
  <2> QED BY <2>1, <2>2 DEF Revoked
<1>5. ASSUME NEW t \in Tokens, Expire(t) PROVE Expired(t)
    BY <1>5 DEF Expire, Expired
<1>6. ASSUME NEW u \in UserIds, Deactivate(u) PROVE UNCHANGED tokens
    BY <1>6 DEF Deactivate
<1> QED BY <1>1, <1>2, <1>3, <1>4, <1>5, <1>6 DEF Next, vars

(***************************************************************************)
(* The service implements TokenLifecycle.                                  *)
(***************************************************************************)

LEMMA MapIssued ==
    ASSUME IInv, NEW r \in Requests, NEW t \in Tokens, IssuedFor(r, t)
    PROVE  Lifecycle!Issue(t)
PROOF
<1> DEFINE row == FreshRow(r)
<1>0. Tables /\ Local(r) /\ pc[r] = "insertToken"
    BY Parts DEF IssuedFor
<1>1. /\ entity[r] \in Entity
      /\ entity[r].token # NoToken =>
            /\ tokens[entity[r].token] # NoRow
            /\ tokens[entity[r].token].user = entity[r].user
            /\ tokens[entity[r].token].revoked
    BY <1>0 DEF Local, Holding, HoldingPoints
<1>2. /\ row \in TokenRow /\ row.user = entity[r].user /\ row.parent = entity[r].token
      /\ row.revoked = FALSE /\ row.expired = FALSE
      /\ entity[r].token \in Tokens \cup {NoToken}
    BY <1>1 DEF Entity, TokenRow, FreshRow
<1>3. row # NoRow
    BY <1>2, NullAssumption
<1> HIDE DEF row
<1>4. tokens[t] = NoRow /\ tokens' = [tokens EXCEPT ![t] = row]
    BY DEF IssuedFor, Issued, row
<1>5. StatusOf(row) = "live" /\ OwnerOf(row) = entity[r].user /\ ParentOf(row) = entity[r].token
    BY <1>2, <1>3 DEF StatusOf, OwnerOf, ParentOf
<1>6. /\ statusMap' = [statusMap EXCEPT ![t] = "live"]
      /\ ownerMap' = [ownerMap EXCEPT ![t] = entity[r].user]
      /\ parentMap' = [parentMap EXCEPT ![t] = entity[r].token]
    BY <1>0, <1>4, <1>5 DEF Tables, TokensOK, statusMap, ownerMap, parentMap
<1>7. statusMap[t] = "none"
    BY <1>4 DEF statusMap, StatusOf
<1>8. entity[r].token # NoToken =>
         statusMap[entity[r].token] = "spent" /\ ownerMap[entity[r].token] = entity[r].user
    BY <1>1, <1>2 DEF statusMap, ownerMap, StatusOf, OwnerOf
<1>9. entity[r].user \in UserIds
    BY <1>1 DEF Entity
<1> QED BY <1>2, <1>6, <1>7, <1>8, <1>9 DEF Lifecycle!Issue

\* A row that only gets revoked or expired keeps its user and its parent.
LEMMA MapTouched ==
    ASSUME TokensOK, NEW t \in Tokens, tokens[t] # NoRow, NEW row \in TokenRow,
           row.user = tokens[t].user, row.parent = tokens[t].parent,
           tokens' = [tokens EXCEPT ![t] = row]
    PROVE  /\ ownerMap' = ownerMap /\ parentMap' = parentMap
           /\ statusMap' = [statusMap EXCEPT ![t] = StatusOf(row)]
           /\ statusMap \in [Tokens -> {"none", "live", "expired", "spent"}]
PROOF
<1>1. OwnerOf(row) = OwnerOf(tokens[t]) /\ ParentOf(row) = ParentOf(tokens[t])
    BY NullAssumption DEF OwnerOf, ParentOf
<1>2. \A s \in Tokens : StatusOf(tokens[s]) \in {"none", "live", "expired", "spent"}
    BY DEF StatusOf
<1>3. \A s \in Tokens : tokens'[s] = IF s = t THEN row ELSE tokens[s]
    BY DEF TokensOK
<1>4. /\ statusMap' = [s \in Tokens |-> StatusOf(tokens'[s])]
      /\ ownerMap' = [s \in Tokens |-> OwnerOf(tokens'[s])]
      /\ parentMap' = [s \in Tokens |-> ParentOf(tokens'[s])]
    BY DEF statusMap, ownerMap, parentMap
<1>5. ownerMap' = ownerMap /\ parentMap' = parentMap
    BY <1>1, <1>3, <1>4 DEF ownerMap, parentMap
<1>6. statusMap' = [statusMap EXCEPT ![t] = StatusOf(row)]
  <2>1. tokens'[t] = row /\ \A s \in Tokens \ {t} : tokens'[s] = tokens[s]
      BY <1>3
  <2>2. \A s \in Tokens \ {t} : StatusOf(tokens'[s]) = StatusOf(tokens[s])
      BY <2>1
  <2>3. StatusOf(tokens'[t]) = StatusOf(row)
      BY <2>1
  <2>4. [statusMap EXCEPT ![t] = StatusOf(row)]
           = [s \in Tokens |-> IF s = t THEN StatusOf(row) ELSE StatusOf(tokens[s])]
      BY DEF statusMap
  <2>5. \A s \in Tokens :
           StatusOf(tokens'[s]) = IF s = t THEN StatusOf(row) ELSE StatusOf(tokens[s])
      BY <2>2, <2>3
  <2> QED BY <1>4, <2>4, <2>5
<1>7. statusMap \in [Tokens -> {"none", "live", "expired", "spent"}]
    BY <1>2 DEF statusMap
<1> QED BY <1>5, <1>6, <1>7

LEMMA MapRevoked ==
    ASSUME TokensOK, NEW t \in Tokens, Revoked(t)
    PROVE  Lifecycle!Spend(t) \/ UNCHANGED Lifecycle!vars
PROOF
<1> DEFINE row == [tokens[t] EXCEPT !.revoked = TRUE]
<1>1. tokens[t] \in TokenRow /\ tokens[t] # NoRow /\ tokens' = [tokens EXCEPT ![t] = row]
    BY DEF TokensOK, Revoked
<1>2. /\ row \in TokenRow /\ row.revoked /\ row.user = tokens[t].user
      /\ row.parent = tokens[t].parent
    BY <1>1 DEF TokenRow
<1> HIDE DEF row
<1>3. /\ ownerMap' = ownerMap /\ parentMap' = parentMap
      /\ statusMap' = [statusMap EXCEPT ![t] = StatusOf(row)]
      /\ statusMap \in [Tokens -> {"none", "live", "expired", "spent"}]
    BY <1>1, <1>2, MapTouched
<1>4. StatusOf(row) = "spent" /\ statusMap[t] # "none"
    BY <1>1, <1>2, NullAssumption DEF StatusOf, statusMap
<1> QED BY <1>3, <1>4 DEF Lifecycle!Spend, Lifecycle!vars

LEMMA MapExpired ==
    ASSUME TokensOK, NEW t \in Tokens, Expired(t)
    PROVE  Lifecycle!Expire(t) \/ UNCHANGED Lifecycle!vars
PROOF
<1> DEFINE row == [tokens[t] EXCEPT !.expired = TRUE]
<1>1. tokens[t] \in TokenRow /\ tokens[t] # NoRow /\ tokens' = [tokens EXCEPT ![t] = row]
    BY DEF TokensOK, Expired
<1>2. /\ row \in TokenRow /\ row.expired /\ row.user = tokens[t].user
      /\ row.parent = tokens[t].parent /\ row.revoked = tokens[t].revoked
    BY <1>1 DEF TokenRow
<1> HIDE DEF row
<1>3. /\ ownerMap' = ownerMap /\ parentMap' = parentMap
      /\ statusMap' = [statusMap EXCEPT ![t] = StatusOf(row)]
      /\ statusMap \in [Tokens -> {"none", "live", "expired", "spent"}]
    BY <1>1, <1>2, MapTouched
<1>4. statusMap[t] = StatusOf(tokens[t])
    BY DEF statusMap
<1>5. \/ statusMap[t] = "live" /\ StatusOf(row) = "expired"
      \/ StatusOf(row) = statusMap[t]
    BY <1>1, <1>2, <1>4, NullAssumption DEF StatusOf, TokenRow
<1> QED BY <1>3, <1>5 DEF Lifecycle!Expire, Lifecycle!vars

\* However requests race, fail and time out, refresh tokens live the life
\* TokenLifecycle describes: issued once, to one user, ever less valid, and
\* never the successor of a token that is not spent.
THEOREM Refinement == Spec => ImplementsLifecycle
PROOF
<1>1. Init => Lifecycle!Init
    BY DEF Init, Lifecycle!Init, statusMap, ownerMap, parentMap, StatusOf, OwnerOf, ParentOf
<1>2. IInv /\ [Next]_vars => [Lifecycle!Next]_(Lifecycle!vars)
  <2> SUFFICES ASSUME IInv, [Next]_vars
               PROVE  Lifecycle!Next \/ UNCHANGED Lifecycle!vars
      OBVIOUS
  <2>0. TokensOK
      BY Parts DEF Tables
  <2>1. CASE UNCHANGED tokens
      BY <2>1 DEF Lifecycle!vars, statusMap, ownerMap, parentMap
  <2>2. ASSUME NEW r \in Requests, NEW t \in Tokens, IssuedFor(r, t)
        PROVE  Lifecycle!Next
      BY <2>2, MapIssued DEF Lifecycle!Next
  <2>3. ASSUME NEW t \in Tokens, Revoked(t)
        PROVE  Lifecycle!Next \/ UNCHANGED Lifecycle!vars
      BY <2>0, <2>3, MapRevoked DEF Lifecycle!Next
  <2>4. ASSUME NEW t \in Tokens, Expired(t)
        PROVE  Lifecycle!Next \/ UNCHANGED Lifecycle!vars
      BY <2>0, <2>4, MapExpired DEF Lifecycle!Next
  <2> QED BY <2>1, <2>2, <2>3, <2>4, TokenSteps
<1> QED BY <1>1, <1>2, Invariance, PTL DEF Spec, ImplementsLifecycle, Lifecycle!Spec

(***************************************************************************)
(* A spent token is spent for good.                                        *)
(***************************************************************************)

\* No statement makes a request hold a revoked token it did not hold before.
LEMMA NoNewExchange ==
    ASSUME IInv, [Next]_vars, NEW t \in Tokens, Spent(t)
    PROVE  Exchanging(t)' => FALSE
PROOF
<1>0. Tables /\ MemoryOK /\ \A r \in Requests : Local(r)
    BY Parts
<1>1. ASSUME NEW r \in Requests, pc'[r] \in {"revokeFound", "insertToken"},
             entity'[r].token = t, pc'[r] # pc[r] \/ entity'[r] # entity[r]
      PROVE  FALSE
  <2>1. ASSUME NEW q \in Requests, Step(q), q # r PROVE FALSE
    <3>1. OthersKept(q)
        BY <1>0, <2>1, StepOK DEF StepGoal
    <3> QED BY <1>1, <2>1, <3>1 DEF OthersKept
  <2>2. ASSUME Step(r) PROVE FALSE
    <3>0. pc \in [Requests -> Points] /\ entity \in [Requests -> Entity \cup {NoRow}]
        BY <1>0 DEF MemoryOK
    <3>1. ASSUME Reply(r) PROVE FALSE
        BY <1>1, <3>0, <3>1 DEF Reply, Goto
    <3>2. CASE Arrive(r)
        BY <1>1, <3>0, <3>2 DEF Arrive, Goto, FirstStatement
    <3>3. CASE Abort(r)
        BY <3>1, <3>3 DEF Abort
    <3>4. CASE FindEmail(r)
        BY <1>1, <3>0, <3>1, <3>4 DEF FindEmail, Goto
    <3>5. CASE InsertUser(r)
        BY <1>1, <3>0, <3>1, <3>5, NullAssumption DEF InsertUser
    <3>6. CASE FindUser(r)
        BY <1>1, <3>0, <3>1, <3>6 DEF FindUser, Goto
    <3>7. CASE ComparePassword(r)
      <4>1. pc[r] = "compare" /\ entity[r].token = NoToken
          BY <1>0, <3>7 DEF ComparePassword, Local, Holding
      <4> QED BY <1>1, <3>1, <3>7, <4>1, NullAssumption DEF ComparePassword
    <3>8. CASE FindToken(r)
      <4>1. CASE Reply(r)
          BY <3>1, <4>1
      <4>2. CASE /\ Exchangeable(arg[r].token)
                 /\ entity' = [entity EXCEPT ![r] =
                                 [user |-> tokens[arg[r].token].user,
                                  active |-> tokens[arg[r].token].user \in active,
                                  token |-> arg[r].token]]
          BY <1>1, <3>0, <4>2 DEF Exchangeable, Spent
      <4> QED BY <3>8, <4>1, <4>2 DEF FindToken
    <3>9. CASE RevokeFound(r)
      <4>1. pc[r] = "revokeFound" /\ entity' = entity
          BY <3>9 DEF RevokeFound
      <4> QED BY <1>1, <4>1 DEF Spent, Exchanging
    <3>10. CASE InsertToken(r)
        BY <3>1, <3>10 DEF InsertToken
    <3>11. CASE ValidateJwt(r)
        BY <1>1, <3>0, <3>1, <3>11 DEF ValidateJwt, Goto
    <3>12. CASE RevokeHash(r)
        BY <3>1, <3>12 DEF RevokeHash
    <3>13. CASE LoadUser(r)
        BY <1>1, <3>0, <3>13 DEF LoadUser, Goto
    <3>14. CASE SaveUser(r)
        BY <1>1, <3>0, <3>1, <3>14 DEF SaveUser, Goto
    <3>15. CASE WriteUser(r)
        BY <3>1, <3>15 DEF WriteUser
    <3> QED BY <2>2, <3>2, <3>3, <3>4, <3>5, <3>6, <3>7, <3>8, <3>9, <3>10, <3>11, <3>12,
               <3>13, <3>14, <3>15 DEF Step
  <2>3. CASE UNCHANGED <<pc, entity>>
      BY <1>1, <2>3
  <2> QED BY <2>1, <2>2, <2>3 DEF Next, vars, Expire, Deactivate
<1> QED BY <1>1 DEF Spent, Exchanging

\* Once a token is revoked and the exchanges that had found it are over, no
\* request ever turns it into another token.
THEOREM SpentStaysSpent == Spec => SpentForGood
PROOF
<1>1. ASSUME IInv, [Next]_vars, NEW t \in Tokens, Spent(t)
      PROVE  /\ Spent(t)'
             /\ \A s \in Tokens : tokens[s] = NoRow /\ tokens'[s] # NoRow
                                     => tokens'[s].parent # t
  <2>0. TokensOK
      BY <1>1, Parts DEF Tables
  <2>1. Grow
    <3>1. CASE UNCHANGED tokens
        BY <3>1 DEF Grow
    <3> QED BY <1>1, <2>0, <3>1, TokenSteps, GrowIssued, RevokedOK, ExpiredOK
  <2>2. Spent(t)'
      BY <1>1, <2>1, NoNewExchange DEF Spent, Grow
  <2>3. ASSUME NEW s \in Tokens, tokens[s] = NoRow, tokens'[s] # NoRow
        PROVE  tokens'[s].parent # t
    <3>1. PICK r \in Requests, u \in Tokens : IssuedFor(r, u)
        BY <1>1, <2>0, <2>3, TokenSteps DEF Revoked, Expired, TokensOK
    <3>2. s = u /\ tokens'[s] = FreshRow(r) /\ pc[r] = "insertToken"
        BY <2>0, <2>3, <3>1 DEF IssuedFor, Issued, TokensOK
    <3>3. entity[r].token # t
        BY <1>1, <3>2 DEF Spent, Exchanging
    <3> QED BY <3>2, <3>3 DEF FreshRow
  <2> QED BY <2>2, <2>3
<1>2. IInv /\ [Next]_vars =>
        [\A t \in Tokens : Spent(t) =>
          /\ Spent(t)'
          /\ \A s \in Tokens : tokens[s] = NoRow /\ tokens'[s] # NoRow
                                  => tokens'[s].parent # t]_vars
    BY <1>1
<1> QED BY <1>2, Invariance, PTL DEF Spec, SpentForGood

(***************************************************************************)
(* A deactivation holds.                                                   *)
(***************************************************************************)

\* No statement makes a request go by an isActive that is not the row's.
LEMMA NoNewActor ==
    ASSUME IInv, [Next]_vars, NEW u \in UserIds, Closed(u), NEW r \in Requests,
           ActsAsActive(r, u)'
    PROVE  FALSE
PROOF
<1>0. Tables /\ MemoryOK /\ \A q \in Requests : Local(q)
    BY Parts
<1>1. ~ActsAsActive(r, u) /\ u \in drawn /\ u \notin active
    BY DEF Closed
<1>2. /\ pc'[r] \in {"compare", "insertToken", "saveUser", "writeUser"}
      /\ entity'[r].user = u /\ entity'[r].active
      /\ pc'[r] = "insertToken" => entity'[r].token = NoToken
    BY DEF ActsAsActive
<1>3. CASE pc'[r] = pc[r] /\ entity'[r] = entity[r]
    BY <1>1, <1>2, <1>3 DEF ActsAsActive
<1>4. ASSUME NEW q \in Requests, Step(q), q # r PROVE FALSE
  <2>1. OthersKept(q)
      BY <1>0, <1>4, StepOK DEF StepGoal
  <2> QED BY <1>3, <1>4, <2>1 DEF OthersKept
<1>5. ASSUME Step(r) PROVE FALSE
  <2>0. pc \in [Requests -> Points] /\ entity \in [Requests -> Entity \cup {NoRow}]
      BY <1>0 DEF MemoryOK
  <2>1. ASSUME Reply(r) PROVE FALSE
      BY <1>2, <2>0, <2>1 DEF Reply, Goto
  <2>2. CASE Arrive(r)
      BY <1>2, <2>0, <2>2 DEF Arrive, Goto, FirstStatement
  <2>3. CASE Abort(r)
      BY <2>1, <2>3 DEF Abort
  <2>4. CASE FindEmail(r)
      BY <1>2, <2>0, <2>1, <2>4 DEF FindEmail, Goto
  <2>5. CASE InsertUser(r)
      BY <1>1, <1>2, <2>0, <2>1, <2>5 DEF InsertUser
  <2>6. CASE FindUser(r)
    <3>1. ASSUME NEW a \in accounts,
                 entity' = [entity EXCEPT ![r] =
                              [user |-> a.id, active |-> a.id \in active, token |-> NoToken]]
          PROVE  FALSE
        BY <1>1, <1>2, <2>0, <3>1
    <3> QED BY <2>1, <2>6, <3>1 DEF FindUser
  <2>7. CASE ComparePassword(r)
      BY <1>1, <1>2, <2>0, <2>1, <2>7 DEF ComparePassword, ActsAsActive
  <2>8. CASE FindToken(r)
      BY <1>2, <2>0, <2>1, <2>8 DEF FindToken, Goto
  <2>9. CASE RevokeFound(r)
    <3>1. pc[r] = "revokeFound" /\ pc'[r] = "insertToken" /\ entity' = entity
        BY <2>0, <2>9 DEF RevokeFound, Goto
    <3>2. entity[r].token # NoToken
        BY <1>0, <3>1 DEF Local, Holding
    <3> QED BY <1>2, <3>1, <3>2
  <2>10. CASE InsertToken(r)
      BY <2>1, <2>10 DEF InsertToken
  <2>11. CASE ValidateJwt(r)
      BY <1>2, <2>0, <2>1, <2>11 DEF ValidateJwt, Goto
  <2>12. CASE RevokeHash(r)
      BY <2>1, <2>12 DEF RevokeHash
  <2>13. CASE LoadUser(r)
      BY <1>1, <1>2, <2>0, <2>13 DEF LoadUser
  <2>14. CASE SaveUser(r)
      BY <1>1, <1>2, <2>0, <2>1, <2>14 DEF SaveUser, ActsAsActive
  <2>15. CASE WriteUser(r)
      BY <2>1, <2>15 DEF WriteUser
  <2> QED BY <1>5, <2>2, <2>3, <2>4, <2>5, <2>6, <2>7, <2>8, <2>9, <2>10, <2>11, <2>12,
             <2>13, <2>14, <2>15 DEF Step
<1> QED BY <1>3, <1>4, <1>5 DEF Next, vars, Expire, Deactivate

\* Nobody writes isActive of the account back.
LEMMA StaysClosed ==
    ASSUME IInv, [Next]_vars, NEW u \in UserIds, Closed(u)
    PROVE  Closed(u)'
PROOF
<1>0. Tables /\ MemoryOK /\ \A r \in Requests : Local(r)
    BY Parts
<1>1. u \in drawn /\ u \notin active /\ \A r \in Requests : ~ActsAsActive(r, u)
    BY DEF Closed
<1>2. \A r \in Requests : ~ActsAsActive(r, u)'
    BY NoNewActor
<1>3. ASSUME NEW r \in Requests, Step(r) PROVE u \in drawn' /\ u \notin active'
  <2>1. CASE InsertUser(r)
      BY <1>1, <2>1 DEF InsertUser
  <2>2. CASE WriteUser(r)
    <3>1. entity[r].active => entity[r].user # u
        BY <1>1, <2>2 DEF WriteUser, ActsAsActive
    <3> QED BY <1>1, <2>2, <3>1 DEF WriteUser
  <2>3. CASE ~InsertUser(r) /\ ~WriteUser(r)
      BY <1>1, <1>3, <2>3 DEF Step, Arrive, Abort, FindEmail, FindUser, ComparePassword,
             FindToken, RevokeFound, InsertToken, ValidateJwt, RevokeHash, LoadUser,
             SaveUser, store
  <2> QED BY <2>1, <2>2, <2>3
<1>4. u \in drawn' /\ u \notin active'
    BY <1>1, <1>3 DEF Next, vars, Expire, Deactivate
<1> QED BY <1>2, <1>4 DEF Closed

\* Once an account is deactivated and the requests that read it before are
\* over, nothing activates it again and nobody logs in to it.
THEOREM DeactivatedStaysOut == Spec => DeactivationHolds
PROOF
<1>1. ASSUME IInv, [Next]_vars, NEW u \in UserIds, Closed(u), NEW t \in Tokens,
             tokens[t] = NoRow, tokens'[t] # NoRow, tokens'[t].user = u
      PROVE  tokens'[t].parent # NoToken
  <2>0. Tables /\ TokensOK /\ \A r \in Requests : Local(r)
      BY <1>1, Parts DEF Tables
  <2>1. PICK r \in Requests, s \in Tokens : IssuedFor(r, s)
      BY <1>1, <2>0, TokenSteps DEF Revoked, Expired, TokensOK
  <2>2. t = s /\ tokens'[t] = FreshRow(r) /\ pc[r] = "insertToken"
      BY <1>1, <2>0, <2>1 DEF IssuedFor, Issued, TokensOK
  <2>3. entity[r].user = u
      BY <1>1, <2>2 DEF FreshRow
  <2>4. ~(entity[r].active /\ entity[r].token = NoToken)
      BY <1>1, <2>2, <2>3 DEF Closed, ActsAsActive
  <2>5. entity[r].active \/ entity[r].token # NoToken
      BY <2>0, <2>2 DEF Local, Holding
  <2> QED BY <2>2, <2>4, <2>5 DEF FreshRow
<1>2. IInv /\ [Next]_vars =>
        [\A u \in UserIds : Closed(u) =>
          /\ Closed(u)'
          /\ \A t \in Tokens : tokens[t] = NoRow /\ tokens'[t] # NoRow
                /\ tokens'[t].user = u => tokens'[t].parent # NoToken]_vars
    BY <1>1, StaysClosed
<1> QED BY <1>2, Invariance, PTL DEF Spec, DeactivationHolds

=============================================================================
