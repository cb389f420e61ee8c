# A TLA+ verification of the multi-tenant SaaS workspace

The repository is a multi-tenant project-management application: a NestJS
backend over PostgreSQL (TypeORM), Redis (cache, rate limits, BullMQ) and
Socket.io, and a React client with zustand stores.  Every tenant is an
*organization*; users belong to organizations through *memberships* with a role.

Almost every request handler is a chain of awaited calls to systems that share
no transaction.  What can go wrong is what happens *between* two calls: another
request runs, the connection or the process dies, what was read has changed.
The modules here give every request a program counter and let every other
request, a failure, an expiry or a deletion happen between any two calls.

## 1. Inventory

| Component | State | Operations | What is hard | What makes it correct |
|---|---|---|---|---|
| Organizations (`backend/src/organizations`, `common/guards`) | tables `organizations`, `memberships`; per request the membership the guard found and the loaded entity | create, update, delete, invite, role change, removal, three reads | check-then-insert; load-then-save, where TypeORM re-inserts a row that is gone; two inserts without a transaction; nothing protects the last ADMIN | memberships unique and attached; only admitted ADMINs change them; what is removed stays removed |
| Projects (`backend/src/projects`) | table `projects`, cached list per organization, jobs | create, list, update, delete, stats | cache-aside fill against invalidation; three systems without a transaction; deletion by cascade | cache and events stay in the tenant; every stale list has a cause, and a writer about to invalidate it |
| Tasks (`backend/src/tasks`) | table `tasks`, jobs | create, list, update, delete | the project is checked before, not with, the write; re-insertion on save; a column beside its loaded relation | tasks live and die with the project they were created in, and are written and announced on behalf of its organization |
| Authentication and users (`backend/src/auth`, `users`) | tables `users`, `refresh_tokens` | register, login, refresh, logout, update of one's profile | bcrypt between check and insert; concurrent exchanges of one token; failure between revocation and issue; a profile saved as it was loaded | one account per address; a spent token stays spent; successors only follow spent tokens; a deactivated user stays out |
| Access control (`common/guards`, `common/permissions`) | none of its own | JwtAuthGuard, TenantGuard, PermissionsGuard, RolesGuard | two tables of rights (`@Roles`, `@RequirePermissions`) that must agree; account and membership are read at different moments | every answer is one the README's matrix gives |
| Notifications (`backend/src/notifications`) | rooms, `connectedUsers`, BullMQ queue | connect, disconnect, joinOrg, process | disconnect during the awaited lookup; rooms fixed at connect; at-least-once jobs; replicas | only members are told; no leaked entry; no lost job |
| Payments (`backend/src/payments`) | table `payments`, the provider's records | create, verify, refund, list | provider and table without a transaction; no status is checked before a refund; amounts are rounded by the column | table and provider agree on what was charged, collected and paid back |
| Row-level security (`common/interceptors/rls.interceptor.ts`, `docker/postgres`) | a session variable per pooled connection | set_current_org | not awaited, and on any connection of the pool | a query runs under the policy of its own tenant |
| Rate limiting (`common/storage`, `common/guards`) | a counter with a ttl per key | increment | INCR and PEXPIRE are two calls; Redis failures | counters end; the limit is enforced |
| Audit log (`common/interceptors`, `common/services`) | table `audit_logs` | log | written after the answer, failures swallowed | best effort only |
| Client session (`frontend/src/api/client.ts`, `stores/auth.store.ts`) | the tokens in the store; per call what it waits for | login, request, 401 retry, exchange, logout | several 401s exchange one token; the interceptor handles its own exchanges; answers after a logout | a live session is not ended by its own requests; every request ends; logout revokes |
| Client organizations and pages (`stores/org.store.ts`, `hooks/useOrgRole.ts`, `pages/`) | the listed organizations and the current one; per page the items it shows | login, fetch, select, create, navigate, act, reload, reset | answers out of order, after a switch or a logout; roles as old as the list they came with | the user stays where he chose to be; a page shows the items of the current organization and offers what its role may do |
| Client notifications (`hooks/useSocket.ts`, `stores/notification.store.ts`) | the page's socket, the panel, the unread count | open, receive, read all, clear | sign-out, renewal and lost connections while the backend knows the old socket; the panel is cut at 50 beside a separate counter | the page is told for its own user, once more at most per lost worker; badge and panel agree |
| Client form drafts (`hooks/useFormDraft.ts`, `utils/form-draft.ts`, the dialogs of `pages/`) | the form, the draft in IndexedDB, transactions under way | open, type, cancel, submit; save, load, clear | a save per keystroke, which nobody awaits; loads and late answers overtaken by the user; one draft cleared by every save | what was typed is kept, what was saved is not offered again, no item gets the values of another |
| Feature flags, health, tracing, metrics, logging, deployment | none that the rest reads | | | not modelled |

The components meet at the database (cascading deletions of organizations,
projects and tasks), at the queue (projects and tasks produce, notifications
consume), at the tokens (client session against authentication), and at the
sockets (the page against the gateway).
`PROJECT.json` lists each hazard at its line, with the properties that watch it
or the reason why none does.

## 2. Modules

| Module | What it is |
|---|---|
| `Organizations`, `Organizations_proofs` | the organizations service behind TenantGuard and RolesGuard; its theorems |
| `Projects`, `Projects_proofs` | the projects service: table, cached lists, queue; its theorems |
| `Tasks`, `Tasks_proofs` | the tasks service, with projects deleted and re-inserted meanwhile; its theorems |
| `TokenLifecycle` | what the authentication service promises of refresh tokens |
| `Auth`, `Auth_proofs` | the authentication service; its theorems, that it implements `TokenLifecycle` among them |
| `ClientSession` | the session of one browser page, against the tokens of `TokenLifecycle` |
| `Payments`, `Payments_proofs` | the payments service and a payment provider; its theorems |
| `Notifications` | gateways, queue and workers on several replicas |
| `ClientNotifications`, `Notifications_proofs` | `Notifications` with a page of the client at one of its sockets; the theorems of both |
| `Permissions` | the two tables of rights and the README's, for `Pipeline` and `ClientPages` |
| `Pipeline`, `Pipeline_proofs` | what a request passes around its handler: rate limit, guards, row-level security, audit log; their theorems |
| `ClientPages` | the pages of the client: the current organization, what a page shows and offers |
| `FormDrafts` | a dialog of the client and the draft of its form |
| `Client_proofs` | the theorems of `FormDrafts`, `ClientPages` and `ClientSession` |
| `MC...` | the instances TLC checks (symmetry sets) |

### How state and actions correspond to the code

The same conventions hold in the five service modules (`Organizations`,
`Projects`, `Tasks`, `Auth`, `Payments`).

* A table is a set of rows, or a function from ids to rows or `NoRow`.  A uuid
  is drawn from a finite set and never twice.
* `pc[r]` is the call request `r` makes next, `arg[r]` its path, body and
  caller, `entity[r]` (and `list[r]`) what its handler keeps in local variables
  between two awaits, `grant[r]` is `request.membership` as TenantGuard left it.
* One action is one awaited call together with the synchronous code up to the
  next one.  `Arrive` is the arrival of a request with any parameters a client
  can send, `Reply` the answer or the exception, `Abort` the loss of the
  connection or process, or the failure of the next call, at any point.
* TypeORM is external and modelled by what the services rely on: `save` of a new
  entity is one INSERT; `save` of a loaded entity selects the row again and then
  does nothing, UPDATEs the columns that differ or, *if the row is gone, INSERTs
  it*; `remove` is a DELETE by id, without effect on a missing row.  A violated
  unique, primary-key or foreign-key constraint is an exception without effect.

`Organizations`: `Guard` is TenantGuard followed by RolesGuard (all guarded
endpoints that write require ADMIN).  `CheckSlug`, `InsertOrg`, `InsertAdmin`
are `create`; `FindOrg`, `SaveOrg`, `ReinsertOrg`, `RemoveOrg` are `update` and
`delete`; `CheckMember`, `InsertMember` are `inviteMember` (its two lookups are
one action: users are never deleted, so the first cannot change); `FindMember`,
`SaveMember`, `UpdateMember`, `ReinsertMember`, `RemoveMember` are
`updateMemberRole` and `removeMember`.

`Projects`: `GetList`, `FindList`, `SetList` are `findAll`; `InsertProject`,
`LoadProject`, `SaveProject`, `UpdateProject`, `ReinsertProject`,
`RemoveProject` are the database calls of `create`, `update` and `delete`;
`InvalidateList` and `AddJob` are the calls to cache and queue that follow.
`Expire` is the ttl of an entry, `OrgDeleted` the cascade of a deleted
organization, which does not touch the cache.  `lapsed` is a history variable:
the organizations whose stale list nobody is left to invalidate, because a
request failed before its `del` or a fill stored an old list after it.

`Tasks`: `CheckProject` is `getProject`, with which every handler begins;
`InsertTask` is the save of `create`; `FindTask` is `findOne` with the
`Object.assign` of `update`; `SaveTask`, `UpdateTask`, `ReinsertTask` are the
save of `update`, `RemoveTask` that of `delete`; `AddJob` is the call to the
queue.  An updated entity has a column `assigneeId` beside the relation
`assignee` it was loaded with; which of the two TypeORM writes where they differ
is left open (`Written`).  `ProjectDeleted` and `ProjectReinserted` are what
`Projects` and `Organizations` do to the table of projects, one at a time.

`Auth`: `FindEmail`, `InsertUser` are `register`; `FindUser`, `ComparePassword`
`login`; `FindToken`, `RevokeFound` `refresh`; `ValidateJwt`, `RevokeHash`
`logout`; `InsertToken` is `generateTokens`, shared by the first three, after
which the answer may still be lost.  `parent` of a token row is a history
variable.  `LoadUser`, `SaveUser`, `WriteUser` are `update` of the users
service, behind the same `ValidateJwt`: of the columns it may write only
`isActive` matters to others (`active`), and it is written if it has become
another since the entity was loaded.  `Deactivate` is an operator's UPDATE; no
endpoint changes `isActive`.

`Payments`: `CreateCharge`, `InsertPayment` are `createPayment`; `FindPayment`
`VerifyPayment`, `RefundPayment`, `SavePayment` are `verifyPayment` and
`refundPayment`.  The provider keeps charges and refunds, answers as its
interface admits, and settles pending charges by itself (`Settle`).  Amounts
are in tenths of a cent and rounded to cents by the `decimal(10,2)` column
(`Stored`).

`Notifications`: `Connect`, `Query`, `EnterRooms`, `QueryFails` are
`handleConnection` around its await, `Disconnect` and `Forget`
`handleDisconnect`, `JoinOrg` `handleJoinOrg`.  `Add`, `Take`, `Process`,
`Finish` are the life of a job; `Crash` of a replica closes its sockets and
leaves its job to `Stall`, by which BullMQ hands it to another worker, at most
`MaxStalls` times.  `MembershipsChange` is an invitation or a removal.

`ClientNotifications`: `socket` is the socket the page listens to, `reader` the
user of the auth store.  The effect of `useSocket` runs again when either
changes: `SignIn`, `Renew` and `Reload` open a socket (`Open`), `SignOut` leaves
it (`Leave`).  The backend meets the socket later (`Meet`) or refuses it
(`Refuse`, `Rejected`), and loses it later still (`Disconnect` of
`Notifications`).  `Reconnect` is socket.io-client trying again, which it does
when the connection broke and not when the backend closed it.  `Receive` is
`addNotification`, `got` what has come over this socket, `times` a history
variable.  The sockets that the page does not listen to, its former ones among
them, behave as in `Notifications`, whose every action is one of `CNext`.

`Pipeline`: `pc[r]` is the station of a request and `todo[r]` the global guards
it has not passed.  Their order depends on the order in which Nest finds the
modules that provide them, so it is left open.  `Incr`, `Pexpire`, `Pttl` and
`RedisFails` (its catch) are `RedisThrottlerStorage.increment`, `WindowEnds` the
ttl of a counter; `Authenticate` is JwtAuthGuard with `JwtStrategy.validate`;
`Admit` is TenantGuard, which awaits the membership, with the guards behind it,
which await nothing; `SetCurrentOrg` and `ContextFails` are the statement that
RlsInterceptor sends and does not wait for; `Handle` is the handler, reduced to
one statement on rows of its organization; `WriteAudit` and `AuditFails` are
AuditService, which nobody waits for either.  A statement runs on any connection
of the pool, in a transaction of its own, under the setting which that
connection's session has then; `AfterStatement` is what a `set_config` that is
local to its transaction leaves behind.  The database role is taken to be one
that policies apply to, which is the interesting case.  `under`, `seen` and
`abandoned` are history variables.

`ClientSession`: a token stands for the pair a login or an exchange answers.
`Request`, `SubmitLogin`, `PressLogout` are the user; `Serve...`, `FindToken`,
`RevokeFound`, `IssueNext` are the backend, in the steps of `Auth`;
`CallSucceeds`, `Reject`, `Renew`, `Renewed`, `SignOut` are the response
interceptor.  The exchange goes through the same interceptor, so that a 401 to
it starts another exchange: `chain[f]` is that stack.  Nothing bounds it, the endpoint being
public and therefore exempt from the rate limit; but a token that was refused
once is refused for ever, so an exchange of the same token as the one before
takes its place in the stack, which stays as short as there are tokens.
`Unload` is the page being replaced after `window.location.href` was assigned.

`ClientPages`: the organization store as a whole, and of each page whose items
it keeps (`shown`), its spinner (`loading`) and the organization of the project
in the URL (`board`).  A call is sent by an action of the user, served by the
backend with the roles of that moment (`Serve`: `Verdict` is the guards of
`Permissions` and then the item in the path's organization), and its answer
received later, or never (`Fail`).  React runs effects before it takes the next
click, so that an effect is part of the step that makes it due: `Turn` is
currentOrg becoming another one, with the fetch of the page that follows
(`Refetches`), `Mount` a page that opens.  `useOrgRole` keeps the role in a
state that follows currentOrg by an effect, so that the page of payments, whose
effect runs in the same round, goes by the role in the organization before
(`Late`).  Its other source, `getMembers` for an organization without a role, is
never used: every stored organization has its role (`PagesTypeOK`).

`Login` sends two fetches of the organizations, App's and the one LoginPage
awaits before it navigates to the dashboard, which it does whenever the answer
comes (`ReceiveOrgs`).  `ReceiveCreate` is `addOrganization`; an organization
that a fetch has brought already is then listed twice, the first entry being the
one `find` returns.  `ReceiveAction` fetches again with the closure of the click,
for the organization of the action.  `Refresh` is a reload of the browser page:
the persisted stores come back, calls under way do not.  Fetches of several
endpoints (`Promise.all`) are one call, refused if one of them is.  `Pages` are
the four that fetch items; the page of the profile fetches none.  `moved`,
`foreign`, `late`, `overlapped` and `failed` are history, for the exceptions
that the properties name.

`FormDrafts`: the fields of a form are one value, of which the code looks at the
name (or title) only: trimmed, to tell a draft worth saving (`HasContent`), and
as it is, to tell a form that may be submitted (`Valid`), which a name of spaces
(`Blank`) is.  `OpenCreate`
and `RunGet` are `openCreate` around its await, `OpenEdit` `openEdit`, `Cancel`
`closeDialog`, `Type` a keystroke, with the subscription of `useFormDraft` that
starts a `SaveDraft` nobody awaits.  `Submit`, `Succeed`, `Refuse` and
`RunDelete` are `onSubmit` between its awaits; what follows the last one closes
whatever dialog is open then.  `queue` holds the IndexedDB transactions under
way, run in the order of their creation (`RunPut`, `RunGet`, `RunDelete`), each
of which may fail, which the code logs.  `Leave` is another page of the
application, after which continuations find no form (`here`), `Reload` the
browser's.  `source`, `owed` and `spent` are history variables: where the form
came from, which text must not get lost, which must not come back.

## 3. Runs

| Run | Expect | What it shows |
|---|---|---|
| `organizations` | pass | `MembershipsConsistent`, `OnlyAdminsWrite`, `OrphanedForever` (and `TypeOK`) with two concurrent requests over two organizations |
| `organizations_removal` | violation | a role change re-inserts the member that was removed after it was loaded |
| `projects` | pass | `TenantsStayApart`, `StalenessExplained`, `StaleOnlyUntilInvalidated` |
| `tasks` | pass | `TasksStayHome`, `OnlyOwnTenantWrites` while projects are deleted and come back |
| `auth` | pass | `SpentForGood`, `DeactivationHolds` with racing registrations, logins, exchanges, logouts, profile saves and deactivations, and that `Auth` implements `TokenLifecycle` |
| `payments` | pass | `BooksAgree`, `OnlyOwnRefunds` |
| `notifications` | pass | `GatewayTidy`, `OnlyKnownMembersHear`; `BadgeCounts`, `NewsAreTheReaders` of the page; `JobsSurvive` the death of a process |
| `pipeline` | pass | `AnswersJustified`, `NoForeignPolicy`, `CountersEnd` while memberships and accounts change |
| `pipeline_row_security` | violation | a handler runs without its row-level security context |
| `client_session` | pass | `KeepsUsableToken`, `SessionsExplained`, `OnlyDeadTokensHang` |
| `client_pages` | pass | `SelectionRespected`, `RefusalsExplained`, `ListIsCurrent` |
| `client_forms` | pass | `TypedIsKept`, `SavedIsNotOffered`, `SavesAreOfTheDialog` |

### Bounds, and why they are enough

Every bound is the size of a constant set or a constant number, so a bound only
refuses an insert when the ids run out.

* *Requests*: every race listed under "hazards" is between two handlers, and two
  requests reach it; three in `projects`, where a fill may come between the
  invalidations of two writers.  A request that is over is a new one when it arrives
  again, so runs contain any number of requests one after the other.
* *Organizations, users*: two of each, so that there is a wrong one.
  Three membership ids allow two members and one that is removed and replaced.
  Roles are ADMIN and one other: no code here tells EDITOR from VIEWER.
* *Projects*: one id over two organizations and two contents.  Lists of several
  projects differ only in contents, which `Names` gives already.  An id is drawn
  once, so a deleted project can come back only by re-insertion, which is the
  case of interest.
* *Tasks*: one id over two projects, of the same organization or of two; an
  assignee that exists and one that does not; two contents.
* *Addresses and tokens*: in `auth` one address with two ids for its account,
  which is the double registration, and three tokens, one and its successor
  twice, which is the double exchange; two requests, so that a profile is saved
  amid a deactivation, or a login waits for bcrypt.
* *Pipeline*: two requests of one user to two organizations, two connections,
  one counter and one change of what the guards read.  The counter is followed
  up to `MaxHits`, from where counts are the same to the code, which compares
  with 1 only.  Three endpoints stand for the twelve: one that both tables of
  rights guard, one that only RolesGuard does, and a read, which is not logged;
  the theorem `GuardsFollowMatrix` is about all of them.
* *Payments*: two charges, refunds and rows; amounts that round down, up and
  past the limit of the column; charges and refunds with every answer of the
  interface, of which MockPaymentProvider gives some.
* *Notifications*: two users and one organization, which to a socket is its
  user's or not; two sockets on two replicas, so that the page changes from one
  to the other, or shares its gateway with a stranger; one job, one crash, and
  jobs taken again once after a stall, which is BullMQ's default; a panel of one
  notification, so that a job emitted twice is cut.  `JobsSurvive` is about
  `MaxCrashes <= MaxStalls`; a job whose workers die more often is given up.
* *Form drafts*: two texts, of which one may replace the other, a name of
  spaces, none, and one item to edit; two saves, so that an answer comes late for another dialog; three
  transactions under way, enough for a save, a deletion and a load in any order.
* *Client session*: two calls under way, three token pairs (one to expire, and
  the two successors of a double exchange).  The pairs running out shows as a
  failed call (`Issue`).
* *Client pages*: one user, two organizations, four pages, two calls under way
  and one change of a membership by others.  Two calls are enough for a fetch
  overtaken by another, and for a list of organizations that arrives during a
  fetch.  With one user the list of another user (`foreign`) shows only as an
  answer that arrives when nobody is signed in; the module has any number.

Symmetry is used over interchangeable model values, and only in runs without a
liveness property.

### Fairness

* `notifications`: weak fairness of each worker's steps and of BullMQ's check
  for stalled jobs, which run on timers of their own; none of sockets, nor of the
  page.
* `client_session`: weak fairness of the backend serving a call it has received,
  of the page handling an answer, and of the browser leaving a page; none of
  the user.
* `client_pages` and the other runs check safety only and assume none.  In
  `projects` that includes the ttl: `StaleOnlyUntilInvalidated` speaks of what the
  handlers do to a stale list, and not of Redis, which drops it sooner or later
  whatever they do.

## 4. Theorems

TLC checks the instances above; TLAPS proves the same properties for any number
of users, organizations, ids, tokens, sockets, replicas and concurrent requests.
The only assumptions are on the constants: the null values are not rows,
requests, calls or ids (`NullAssumption`, `NoneAssumption`, `NoSocketAssumption`,
`NoTokenAssumption`), ADMIN is a role (`RolesAssumption`), pages are those of the
client (`PagesAssumption`), amounts are numbers (`AmountAssumption`), the answers
of the provider are those of its interface (`AnswerAssumption`), the endpoints
are those of the controllers (`EndpointAssumption`), flags are Booleans
(`FlagAssumption`), and bounds are numbers (`BoundAssumption`,
`ChangesAssumption`, `CountAssumption`, `TokensAssumption`, `PanelAssumption`; a
counter is followed to 2 at least, the panel keeps one notification at least).

* `Organizations_proofs`.  `TypeCorrect` needs `Requested`: which endpoint a
  request is on determines the fields its parameters have and the kind of entity
  it holds.  `TenancyInvariant` adds that every id in a table or *in the memory
  of a handler* was drawn before, and that an id names a membership of one
  organization for ever.  This is what makes the rest inductive, since a handler
  may re-insert a row that the table has forgotten.  From it follow
  `TenantIsolation` (`OnlyAdminsWrite`), `CreationUndisturbed`
  (`NewOrgUntouched`: a half-created organization is out of everybody's reach), `OrphansStayOrphans` (`OrphanedForever`) and
  `MembershipsStayConsistent` (`MembershipsConsistent`).
* `Projects_proofs`.  `IInv` strengthens the two tenancy invariants with what
  handlers hold: a project in memory, or a list waiting to be stored, belongs to
  the organization of the request's path, and an id never changes organization
  (`origin`).  `TypeCorrect` and `TenantIsolation` (`TenantsStayApart`) follow, and
  `StalenessIsExplained`, an action property proved by cases over the calls.
  From the causes it names follows who ends it: `WritersInvalidate`
  (`StaleOnlyUntilInvalidated`, a conjunct of `IInv`), because a request about to
  invalidate a list leaves that point only by doing so or by failing
  (`StepCovered`).
* `Tasks_proofs`.  `IInv` says that a request past `CheckProject` works in a
  project of its organization (`Control`; projects never change theirs), and
  that the task it holds was created in the project of its path (`Holds`; a task
  id never changes project).  The foreign key does the rest: a write after the
  cascade is refused, one after the project came back is the same project's.
  `TypeCorrect` and `TaskHome` (`TasksStayHome`) follow, and `TaskTenancy`, by
  cases over the writes.
* `Auth_proofs`.  `IInv` says that a handler holds the account it read and, if
  it exchanges a token, one with a row of that account, revoked once the handler
  goes on to issue.  `TypeCorrect`, `UniqueAccounts`, `Rotation` follow; then
  every step is an insert, a revocation or an expiry of one token row or leaves
  them alone (`TokenSteps`), from which `Refinement` (`Auth` implements
  `TokenLifecycle` under `statusMap`, `ownerMap`, `parentMap`) and
  `SpentStaysSpent` (`SpentForGood`).  `DeactivatedStaysOut`
  (`DeactivationHolds`) is by cases over the steps of one request: only one that
  holds the account as active can write it back or log in to it.  One account
  per address, and that successors follow spent tokens, are proved and not
  checked by a run of their own; both are conjuncts of `IInv`.
* `Payments_proofs`.  `IInv` says that a request between provider and table
  holds a charge that nobody else holds or has recorded (`HoldsCharge`), and
  that a loaded payment differs from its row in the status only
  (`HoldsPayment`).  The agreement of table and provider follows
  (`BooksStayInAgreement`, for `BooksAgree`), then `RefundsAreOwn` and
  `LostForGood` by cases over the steps.
* `Notifications_proofs`.  `IInv` says per socket where `handleConnection` is
  and what it has left behind (`SocketOK`); `GatewayStaysTidy` and `TenantNews`
  follow.  Every step of `CSpec` is one of `Spec` or leaves the backend alone
  (`BackendUnchanged`), so that they hold with the page, too.  `PageInv` adds the
  page: its socket is its user's, and a job was told, with what is still on its
  way, no more often than it was emitted.  `BadgeIsRight` and
  `NewsOnceToTheReader` follow.
* `Client_proofs`, of `FormDrafts`.  `IInv` says of the transactions under way
  what they leave behind when they have run: the text that is owed is `Kept` if
  its save has no deletion behind it, a saved one is `Dropped` if a deletion is
  behind every save of it.  With what a dialog may show (`DialogOK`) this is
  inductive, and `DraftsSurvive`, `DraftsEnd` and `SavesBelong` are it on an
  empty queue.
* `Client_proofs`, of `ClientPages`.  `PagesIInv` says of every call what its
  sender knew and what its answer says (`Lawful`): before the answer it is one
  that the user's role admits, after it the roles it lists or grants are those
  of the backend, both unless the role is among those that `moved`, or the call
  is `late` or `foreign`.  The store agrees with the backend under the same
  condition (`StoreOK`, `Agrees`), which is what an answer that overtook another
  one finds; and what a page waits for is of the current organization unless a
  switch overlapped (`WaitsForCurrent`).  `PagesTypeCorrect`,
  `RefusalsAreExplained` and `ListsAreCurrent` are parts of it, and
  `SelectionIsRespected` follows, because a list that agrees with the backend
  has the organization the user works in.
* `Client_proofs`, of `ClientSession`.  Why the page's last word is never a spent
  token: a token that an exchange or a login has brought and the store has not
  yet taken is known to nobody else, neither to another exchange nor to a logout
  under way (`FreshOK`), so nobody can spend it before it is stored; the token in
  the store is in the last exchange of a call, if in any (`ExchangesOK`), and in
  no logout that is under way (`FlowOK`).  The exchanges of a call are therefore
  of different tokens, which bounds them (`ExchangesBounded`, by the pigeonhole
  theorem of the library).  While there is no `trouble`, at most one call waits,
  for one exchange, and it is of the token in the store (`Calm`).  These are
  `SessionIInv`; `SessionTypeCorrect`, `TokenIsKept` and `SessionsAreExplained`
  follow, action by action together with its inductiveness.  `UsesTheLifecycle`
  shows that page and backend together take steps of `TokenLifecycle` only,
  which `Refinement` of `Auth_proofs` shows the service to implement, and
  `NothingIsWithheld` that the guards taken over from there are never what stops
  an exchange: they hold whenever the code comes to that point.
* `Pipeline_proofs`.  `GuardsFollowMatrix` compares the two tables of rights
  with the README's, endpoint by endpoint and role by role.  `IInv` says of each
  request that what it has come past was so at some moment since it arrived
  (`Passed`), and that no session ever has an organization, since the only
  statement that sets one ends its transaction (`Unset`).  `TypeCorrect`,
  `MatrixEnforced` (`AnswersJustified`), `PoliciesNotMixed` (`NoForeignPolicy`)
  and `WindowsBounded` (`CountersEnd`) follow.

The proofs about services have the same shape: `StepOK` shows, action by action,
that a step of one request keeps the tables and its own memory in order, and
`Framed` that it disturbs nothing another request relies on.

Only model-checked: liveness (`JobsSurvive`, `OnlyDeadTokensHang`),
which these provers do not reach, and the two violations, which are
counterexamples.  Every invariant and every other action property that a passing
run checks is stated by a theorem.

## 5. What the code does that a document denies

Each has a run whose counterexample shows it:

1. `organizations.service.ts:107`: a removed member comes back through a
   concurrent role change (`organizations_removal`).
2. `rls.interceptor.ts:31`: `set_current_org` is local to a transaction of its
   own and nobody waits for it, so that no statement of a handler runs under the
   policy of its organization (`pipeline_row_security`).  The same fact is what
   keeps requests from running under each other's (`NoForeignPolicy`, whose
   mutant makes the setting last).
Known from the models, without a run of its own:

* `organizations.service.ts:67`, `tasks.service.ts:85`: an organization or task
  deleted between an update's load and its save is inserted again.
* `organizations.service.ts:39`: `create` is two inserts without a transaction;
  a failure in between leaves an organization without an ADMIN.
* `projects.service.ts:66`: a fill that read before a write stores its list
  after the invalidation.  `StalenessExplained` names this cause;
  `StaleOnlyUntilInvalidated` excuses it (`lapsed`), and, but for a request that
  fails before its `del`, nothing else.
* `projects.service.ts:46`: a request that fails after its INSERT never adds its
  job.
* `payments.service.ts:51`: a verification, even one after the refund, records a
  refunded payment as COMPLETED, which can then be refunded again.
* `payments.service.ts:69`: the answer of a refund is not looked at, so that a
  payment whose refund the provider refuses is REFUNDED all the same
  (`RefundPayment`); MockPaymentProvider refuses none.
* `notifications.gateway.ts:72`: a member who was removed after he connected
  goes on receiving the notifications of the organization, until his socket
  closes.
* `redis-throttler.storage.ts:47`: `increment` answers `isBlocked: false`
  whatever the count, and the guard of the `@nestjs/throttler` 6.5.0 in
  `package-lock.json` refuses a request only when `isBlocked` is true, so that
  the limit of README.md:409 is never enforced.  `Pttl` lets every request pass.
* `redis-throttler.storage.ts:40`: a failure between INCR and PEXPIRE leaves a
  counter that never expires (`abandoned` in `CountersEnd`).
* `notifications.gateway.ts:102`: rooms are kept per process and no adapter is
  configured, so that with two replicas an emit reaches the sockets of one.
* `auth.store.ts:48`: logging out clears the tokens before the request
  interceptor of the call, which axios runs asynchronously, reads the access
  token, so that the call is refused and the refresh token stays live
  (`LogoutHeader`), whatever auth.controller.ts:48 says.
* `client.ts:24`: the interceptor excepts login and register, not the exchange,
  and handles its 401 by another exchange; a page whose refresh token is expired
  or revoked exchanges it for ever instead of showing the login page
  (`OnlyDeadTokensHang` names this cause, and shows that there is no other).
* `users.service.ts:23`: the save of a profile that was loaded before its account
  was deactivated writes `isActive` back: the account is active again
  (`DeactivationHolds` names this cause).  `auth.service.ts:65`: an exchange does
  not look at `isActive`; the guards do.
* `ProjectsPage.tsx:122`, `TaskBoardPage.tsx:165`: every save clears the draft of
  the new item, also the answer to an edit, and one that comes after the user
  typed another text; and it closes the dialog that is open by then
  (`TypedIsKept`).  Cancel while the deletion is awaited makes the saved text a
  draft again (`SavedIsNotOffered`).
* `ProjectsPage.tsx:100`: Edit, pressed while the draft is loading, shows the
  draft in the dialog of the item, and Update writes it there
  (`SavesAreOfTheDialog`).
* README.md:603 says that drafts of login and registration are restored:
  `LoginPage.tsx:45` and `RegisterPage.tsx:35` take `clearFormDraft` only, and a
  login form has no field that `hasDraftContent` looks at.
* `auth.store.ts:42`: logging out leaves the notifications, which the next user
  of the page finds in the panel.
* `useSocket.ts:39`: a socket that the backend closed, because its token had
  expired or its lookup failed, is not opened again before the token is renewed:
  the page hears nothing (`Refuse`, `Rejected`).
* `auth.store.ts:60`: an exchange that was under way when the user logged out
  signs him in again when it answers. `SessionsExplained` says that, with none
  under way, nothing but a login does.
* `ProjectsPage.tsx:256`: Delete is shown to editors, and the backend refuses it
  (`projects.controller.ts`, README's matrix): `RefusalsExplained` names it.
* `PaymentsPage.tsx:175`: turning to an organization he does not administer, the
  user makes the page fetch payments by the role he had before; the refusal is
  kept, and shown when he turns to an organization he does administer.
* `TaskBoardPage.tsx:107` and the other pages: a fetch that is overtaken by
  another shows its list all the same, one that fails leaves the list of the
  organization before, and the fetch after an action is for the organization of
  the action (`ListIsCurrent` names these causes).
* `org.store.ts:27`: a list that was asked for by another user replaces the one
  of the user who is signed in (`foreign`); and a list that was served before an
  organization was created drops it.
* `LoginPage.tsx:55`: the navigation after the awaited fetch takes a user who has
  gone on to another page back to the dashboard.
* Two concurrent exchanges of one refresh token both succeed (`TokenLifecycle`
  allows several successors, and does not hold without it), and the last ADMIN
  can leave for good (`OrphanedForever`).

## 6. Not modelled

* Reads that change nothing, the data of a project (one value), names, dates.
* `save` of a project also reconciles its loaded `tasks` relation; a task that
  was created in between makes the save fail, which is an `Abort` here.
* Clocks: an entry or a token expires at some time.  That the list's ttl is 300
  *milliseconds* for cache-manager 5, where the README says five minutes, is
  therefore invisible.
* The guards in front of `Projects`, `Tasks` and `Payments` are modelled in
  `Pipeline` and not composed with them: a request arrives admitted, for an
  organization that existed at that moment.
* The public endpoints in `Pipeline`, and requests whose token is missing,
  forged or expired, which are refused before they read anything.
* `rls-bootstrap.service.ts`, which installs the policies when the backend
  starts: `Pipeline` begins with them in force.
* An explicit `null` in the body of a task update, which `IsOptional` lets
  through and the client never sends.
* `logout` without a token, which the DTO excludes over HTTP.
* In `ClientPages` tokens never expire (`ClientSession` has them); a dialog is
  over before a list of organizations arrives; what an item says and which
  version of it, the other dialogs, and the profile page.
* In `FormDrafts` the other fields of a form than its name or title; drafts of
  other projects, organizations and users, which for tasks have keys of their
  own per project and for projects do not; and the pages of login and
  registration, whose drafts nothing restores.
* `markAsRead` of the notification store, which nothing calls.
* Two pages of one browser, which share a `localStorage` that zustand reads only
  when a page loads.

## 7. Plan

Next, in this order:

1. `Projects` and `Tasks` over one table of projects, with the refinement of
   `Tasks`' environment by `Projects`.
2. The profile page against the auth store, where `updateUser` and the answer of
   an exchange overwrite each other's user.

Theorems planned with them: the refinement of the first, so that what `Tasks`
assumes of the projects is what `Projects` guarantees.
