------------------------------ MODULE Pipeline ------------------------------
(***************************************************************************)
(* What a request to an endpoint of an organization passes before and      *)
(* after its handler: the rate limiter and JwtAuthGuard, TenantGuard,      *)
(* PermissionsGuard and RolesGuard, the context for row-level security,    *)
(* and the audit log.                                                      *)
(*                                                                         *)
(* Every statement runs on some connection of the pool, in a transaction   *)
(* of its own, under the policies of docker/postgres/rls-policies.sql,     *)
(* which read the setting app.current_org_id of that connection.  The      *)
(* database role is taken to be one that policies apply to.                *)
(*                                                                         *)
(* A request whose token is missing, forged or expired is refused before   *)
(* it reads anything and is left out, and so are the public endpoints,     *)
(* which pass all guards.  The handlers are modelled one by one elsewhere; *)
(* here a handler is one statement on rows of its organization.            *)
(***************************************************************************)
EXTENDS Naturals, Permissions

CONSTANTS
    Users,        \* ids of registered users
    Orgs,         \* ids of organizations
    Endpoints,    \* the endpoints that are called
    Keys,         \* counters of the rate limiter: a handler and an IP each
    Conns,        \* connections of the pool
    Requests,     \* requests in flight at one time (bound)
    MaxHits,      \* counts from here on are not told apart (bound)
    MaxChanges,   \* changes of memberships and accounts (bound)
    RateLimiting, \* feature flag
    AuditLogs,    \* feature flag
    NoOrg,        \* the setting is empty
    NoRole,       \* not a member
    Idle          \* no request

\* The endpoints that are called by GET.
Gets == {"readOrg", "readMembers", "readProject", "readTask", "readPayments"}

\* A mutant: reads are logged as well.
Audited_Reads(e) == AuditLogs

Audited(e) == AuditLogs /\ e \notin Gets

Call == [user: Users, org: Orgs, endpoint: Endpoints, key: Keys]

ASSUME NullAssumption ==
    /\ NoOrg \notin Orgs
    /\ NoRole \notin Roles
    /\ Idle \notin Call

ASSUME EndpointAssumption == Endpoints \subseteq DOMAIN Matrix

ASSUME BoundAssumption == MaxHits \in Nat \ {0, 1} /\ MaxChanges \in Nat

ASSUME FlagAssumption == {RateLimiting, AuditLogs} \subseteq BOOLEAN

VARIABLES
    active,    \* users.isActive
    role,      \* table memberships: the role of a user in an organization
    changes,   \* changes so far (bound)
    hits,      \* Redis: the counter of a key, 0 if there is none
    armed,     \* Redis: the keys that have a ttl
    setting,   \* per connection, app.current_org_id of its session
    pc,        \* per request, the station it is at
    arg,       \* per request, what is called by whom
    todo,      \* per request, the global guards that have not run
    outcome,   \* per request, its answer
    context,   \* requests whose set_current_org is under way
    audit,     \* per request, what became of its entry in the audit log
    under,     \* history: the setting under which the handler ran
    seen,      \* history: what was true of the caller since the arrival
    abandoned  \* history: keys whose pexpire was never sent

tables  == <<active, role, changes>>
limiter == <<hits, armed, abandoned>>
control == <<pc, arg, todo, outcome, under, seen>>
vars    == <<active, role, changes, hits, armed, setting, pc, arg, todo, outcome,
             context, audit, under, seen, abandoned>>

Answers == {"none", "ok", "401", "403", "404", "500"}

\* What is true of the caller: the account, and the role against the matrix.
Facts(call) ==
    {IF active[call.user] THEN "active" ELSE "inactive",
     IF role[<<call.user, call.org>>] \in Matrix[call.endpoint] THEN "allowed" ELSE "denied"}

Init ==
    /\ active \in [Users -> BOOLEAN]
    /\ role \in [Users \X Orgs -> Roles \cup {NoRole}]
    /\ changes = 0
    /\ hits = [k \in Keys |-> 0]
    /\ armed = {}
    /\ setting = [c \in Conns |-> NoOrg]
    /\ pc      = [r \in Requests |-> "idle"]
    /\ arg     = [r \in Requests |-> Idle]
    /\ todo    = [r \in Requests |-> {}]
    /\ outcome = [r \in Requests |-> "none"]
    /\ context = {}
    /\ audit   = [r \in Requests |-> "no"]
    /\ under   = [r \in Requests |-> NoOrg]
    /\ seen    = [r \in Requests |-> {}]
    /\ abandoned = {}

-----------------------------------------------------------------------------
(* Requests come and go.                                                   *)

Goto(r, station) == pc' = [pc EXCEPT ![r] = station]

Done(r, guard) == todo' = [todo EXCEPT ![r] = @ \ {guard}]

Answer(r, answer) ==
    /\ Goto(r, "done")
    /\ outcome' = [outcome EXCEPT ![r] = answer]

\* The global guards run in the order in which Nest found their modules.
Arrive(r) ==
    /\ pc[r] = "idle"
    /\ \E call \in Call :
         /\ arg' = [arg EXCEPT ![r] = call]
         /\ seen' = [seen EXCEPT ![r] = Facts(call)]
    /\ todo' = [todo EXCEPT ![r] =
                  IF RateLimiting THEN {"throttler", "jwt"} ELSE {"jwt"}]
    /\ Goto(r, "global")
    /\ UNCHANGED <<tables, limiter, setting, outcome, context, audit, under>>

\* The request is answered, and what it started besides has ended.
Over(r) ==
    /\ pc[r] = "done"
    /\ r \notin context
    /\ audit[r] # "due"
    /\ Goto(r, "idle")
    /\ arg'     = [arg EXCEPT ![r] = Idle]
    /\ todo'    = [todo EXCEPT ![r] = {}]
    /\ outcome' = [outcome EXCEPT ![r] = "none"]
    /\ audit'   = [audit EXCEPT ![r] = "no"]
    /\ under'   = [under EXCEPT ![r] = NoOrg]
    /\ seen'    = [seen EXCEPT ![r] = {}]
    /\ UNCHANGED <<tables, limiter, setting, context>>

\* A statement fails, or the process dies.
Abort(r) ==
    /\ pc[r] \notin {"idle", "done"}
    /\ Answer(r, "500")
    /\ abandoned' = IF pc[r] = "pexpire" THEN abandoned \cup {arg[r].key} ELSE abandoned
    /\ UNCHANGED <<tables, hits, armed, setting, arg, todo, context, audit, under, seen>>

-----------------------------------------------------------------------------
(* CustomThrottlerGuard and RedisThrottlerStorage.increment.               *)

Throttling(r) == pc[r] = "global" /\ "throttler" \in todo[r]

\* A mutant: INCR is taken to answer the count before it.
SetsTtl_BeforeFirst(totalHits) == totalHits = 0

SetsTtl(totalHits) == totalHits = 1

Incr(r) ==
    LET k == arg[r].key
        totalHits == IF hits[k] < MaxHits THEN hits[k] + 1 ELSE MaxHits
    IN
    /\ Throttling(r)
    /\ hits' = [hits EXCEPT ![k] = totalHits]
    /\ Goto(r, IF SetsTtl(totalHits) THEN "pexpire" ELSE "pttl")
    /\ UNCHANGED <<tables, armed, abandoned, setting, arg, todo, outcome, context, audit,
                   under, seen>>

Pexpire(r) ==
    /\ pc[r] = "pexpire"
    /\ armed' = IF hits[arg[r].key] = 0 THEN armed ELSE armed \cup {arg[r].key}
    /\ Goto(r, "pttl")
    /\ UNCHANGED <<tables, hits, abandoned, setting, arg, todo, outcome, context, audit,
                   under, seen>>

\* isBlocked: false, whatever the count: the guard lets the request pass.
Pttl(r) ==
    /\ pc[r] = "pttl"
    /\ Done(r, "throttler")
    /\ Goto(r, "global")
    /\ UNCHANGED <<tables, limiter, setting, arg, outcome, context, audit, under, seen>>

\* The catch of increment: the request passes.
RedisFails(r) ==
    /\ Throttling(r) \/ pc[r] \in {"pexpire", "pttl"}
    /\ Done(r, "throttler")
    /\ Goto(r, "global")
    /\ abandoned' = IF pc[r] = "pexpire" THEN abandoned \cup {arg[r].key} ELSE abandoned
    /\ UNCHANGED <<tables, hits, armed, setting, arg, outcome, context, audit, under, seen>>

\* The ttl of a counter ends.
WindowEnds(k) ==
    /\ k \in armed
    /\ hits' = [hits EXCEPT ![k] = 0]
    /\ armed' = armed \ {k}
    /\ UNCHANGED <<tables, abandoned, setting, control, context, audit>>

-----------------------------------------------------------------------------
(* Statements under row-level security.                                    *)

\* The policies on the tables that name an organization.
Visible(c, org) == setting[c] \in {NoOrg, org}

\* The policy on users.
UserVisible(c, u) == setting[c] # NoOrg => role[<<u, setting[c]>>] # NoRole

\* A mutant: is_local is FALSE.
AfterStatement_Session(c, org) == org

\* The setting of the session after SELECT set_current_org(org), a statement
\* in a transaction of its own.  is_local is TRUE: it ends with it.
AfterStatement(c, org) == setting[c]

\* RlsInterceptor does not wait for it.
SetCurrentOrg(r) ==
    /\ r \in context
    /\ \E c \in Conns : setting' = [setting EXCEPT ![c] = AfterStatement(c, arg[r].org)]
    /\ context' = context \ {r}
    /\ UNCHANGED <<tables, limiter, control, audit>>

ContextFails(r) ==
    /\ r \in context
    /\ context' = context \ {r}
    /\ UNCHANGED <<tables, limiter, setting, control, audit>>

-----------------------------------------------------------------------------
(* The other guards, the handler, the audit log.                           *)

\* JwtStrategy.validate.
Authenticate(r) ==
    /\ pc[r] = "global"
    /\ "jwt" \in todo[r]
    /\ \E c \in Conns :
         \/ /\ active[arg[r].user] /\ UserVisible(c, arg[r].user)
            /\ Done(r, "jwt")
            /\ UNCHANGED <<pc, outcome>>
         \/ /\ ~(active[arg[r].user] /\ UserVisible(c, arg[r].user))
            /\ Answer(r, "401")
            /\ UNCHANGED todo
    /\ UNCHANGED <<tables, limiter, setting, arg, context, audit, under, seen>>

\* The membership that TenantGuard finds lets the request pass the guards.
Admits(r, c) ==
    LET found == role[<<arg[r].user, arg[r].org>>] IN
    /\ Visible(c, arg[r].org)
    /\ found # NoRole
    /\ Passes(arg[r].endpoint, found)

\* TenantGuard awaits the membership; the guards after it and the
\* interceptors await nothing.
Admit(r) ==
    /\ pc[r] = "global"
    /\ todo[r] = {}
    /\ \E c \in Conns :
         \/ Admits(r, c) /\ Goto(r, "handler") /\ context' = context \cup {r}
                         /\ UNCHANGED outcome
         \/ ~Admits(r, c) /\ Answer(r, "403") /\ UNCHANGED context
    /\ UNCHANGED <<tables, limiter, setting, arg, todo, audit, under, seen>>

\* The handler finds the rows of its organization, or nothing.
Handle(r) ==
    /\ pc[r] = "handler"
    /\ \E c \in Conns :
         /\ under' = [under EXCEPT ![r] = setting[c]]
         /\ \/ /\ Visible(c, arg[r].org)
               /\ Answer(r, "ok")
               /\ audit' = [audit EXCEPT ![r] = IF Audited(arg[r].endpoint) THEN "due" ELSE "no"]
            \/ /\ ~Visible(c, arg[r].org)
               /\ Answer(r, "404")
               /\ UNCHANGED audit
    /\ UNCHANGED <<tables, limiter, setting, arg, todo, context, seen>>

\* The entry is not waited for; a refused or failed INSERT is swallowed.
WriteAudit(r) ==
    /\ audit[r] = "due"
    /\ \E c \in Conns :
         audit' = [audit EXCEPT ![r] = IF Visible(c, arg[r].org) THEN "written" ELSE "refused"]
    /\ UNCHANGED <<tables, limiter, setting, control, context>>

AuditFails(r) ==
    /\ audit[r] = "due"
    /\ audit' = [audit EXCEPT ![r] = "lost"]
    /\ UNCHANGED <<tables, limiter, setting, control, context>>

-----------------------------------------------------------------------------
(* What happens to the callers meanwhile.                                  *)

Noted == seen' = [r \in Requests |->
                    IF arg[r] = Idle THEN seen[r] ELSE seen[r] \cup Facts(arg[r])']

\* Other requests invite, promote, demote and remove members.
MembershipsChange(u, o) ==
    /\ changes < MaxChanges
    /\ \E new \in (Roles \cup {NoRole}) \ {role[<<u, o>>]} :
         role' = [role EXCEPT ![<<u, o>>] = new]
    /\ changes' = changes + 1
    /\ UNCHANGED <<active, limiter, setting, pc, arg, todo, outcome, context, audit, under>>
    /\ Noted

\* An operator activates or deactivates an account.
AccountChanges(u) ==
    /\ changes < MaxChanges
    /\ active' = [active EXCEPT ![u] = ~@]
    /\ changes' = changes + 1
    /\ UNCHANGED <<role, limiter, setting, pc, arg, todo, outcome, context, audit, under>>
    /\ Noted

Step(r) ==
    \/ Arrive(r) \/ Over(r) \/ Abort(r)
    \/ Incr(r) \/ Pexpire(r) \/ Pttl(r) \/ RedisFails(r)
    \/ Authenticate(r) \/ Admit(r) \/ Handle(r)
    \/ SetCurrentOrg(r) \/ ContextFails(r) \/ WriteAudit(r) \/ AuditFails(r)

Next ==
    \/ \E r \in Requests : Step(r)
    \/ \E k \in Keys : WindowEnds(k)
    \/ \E u \in Users : AccountChanges(u)
    \/ \E u \in Users, o \in Orgs : MembershipsChange(u, o)

Spec == Init /\ [][Next]_vars

-----------------------------------------------------------------------------
(* Properties.                                                             *)

\* The memory of the limiter, the pool and the requests: what a request
\* started besides belongs to one that was admitted, and an entry of the
\* audit log to one that succeeded at an endpoint that changes something.
TypeOK ==
    /\ active \in [Users -> BOOLEAN]
    /\ role \in [Users \X Orgs -> Roles \cup {NoRole}]
    /\ changes \in 0 .. MaxChanges
    /\ hits \in [Keys -> 0 .. MaxHits]
    /\ armed \subseteq Keys
    /\ abandoned \subseteq Keys
    /\ setting \in [Conns -> Orgs \cup {NoOrg}]
    /\ pc \in [Requests -> {"idle", "global", "pexpire", "pttl", "handler", "done"}]
    /\ arg \in [Requests -> Call \cup {Idle}]
    /\ todo \in [Requests -> SUBSET {"throttler", "jwt"}]
    /\ outcome \in [Requests -> Answers]
    /\ context \subseteq Requests
    /\ audit \in [Requests -> {"no", "due", "written", "refused", "lost"}]
    /\ under \in [Requests -> Orgs \cup {NoOrg}]
    /\ seen \in [Requests -> SUBSET {"active", "inactive", "allowed", "denied"}]
    /\ \A r \in Requests :
         /\ arg[r] = Idle <=> pc[r] = "idle"
         /\ r \in context => pc[r] \in {"handler", "done"}
         /\ audit[r] # "no" =>
              /\ outcome[r] = "ok"
              /\ arg[r].endpoint \notin Gets

\* Every answer is one the README's matrix gives: a handler runs only for an
\* account that was active and a role that the matrix allows, both at some
\* moment of the request, and a member whom the matrix allows is refused
\* only if that was otherwise at some moment of the request.
AnswersJustified ==
    \A r \in Requests :
        /\ pc[r] = "handler" \/ outcome[r] \in {"ok", "404"} => {"active", "allowed"} \subseteq seen[r]
        /\ outcome[r] = "401" => "inactive" \in seen[r]
        /\ outcome[r] = "403" => "denied" \in seen[r]

\* No statement runs under the policy of another organization, be it on a
\* connection that a request to that organization used before: no handler
\* misses its own rows and no entry of the audit log is refused.
NoForeignPolicy ==
    \A r \in Requests :
        /\ arg[r] # Idle => under[r] \in {NoOrg, arg[r].org}
        /\ outcome[r] # "404"
        /\ audit[r] # "refused"

\* A counter of the rate limiter ends: it has a ttl, or is about to get one,
\* unless Redis or the process failed between INCR and PEXPIRE.
CountersEnd ==
    \A k \in Keys :
        hits[k] > 0 => \/ k \in armed \cup abandoned
                       \/ \E r \in Requests : pc[r] = "pexpire" /\ arg[r].key = k

\* "This ensures the database enforces tenant isolation even if the
\* application layer has a bug" (rls.interceptor.ts:15-16): the handler runs
\* under the policy of its own organization.
RowSecurityInForce ==
    \A r \in Requests : outcome[r] \in {"ok", "404"} => under[r] = arg[r].org

-----------------------------------------------------------------------------
(* The inductive invariant behind the theorems of Pipeline_proofs.         *)

\* What a request has come past was so at some moment since its arrival.
Passed(r) ==
    /\ arg[r] # Idle => Facts(arg[r]) \subseteq seen[r]
    /\ pc[r] \in {"global", "pexpire", "pttl"} /\ "jwt" \notin todo[r] => "active" \in seen[r]
    /\ pc[r] = "handler" \/ outcome[r] = "ok" => {"active", "allowed"} \subseteq seen[r]
    /\ outcome[r] = "401" => "inactive" \in seen[r]
    /\ outcome[r] = "403" => "denied" \in seen[r]
    /\ pc[r] = "done" <=> outcome[r] # "none"

\* No session ever has an organization.
Unset ==
    /\ \A c \in Conns : setting[c] = NoOrg
    /\ \A r \in Requests : under[r] = NoOrg /\ outcome[r] # "404" /\ audit[r] # "refused"

IInv ==
    /\ TypeOK
    /\ \A r \in Requests : Passed(r)
    /\ Unset
    /\ CountersEnd
=============================================================================
