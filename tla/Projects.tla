------------------------------ MODULE Projects ------------------------------
(***************************************************************************)
(* The projects service (backend/src/projects/projects.service.ts): the    *)
(* table of projects, the list of each organization cached in Redis, and   *)
(* the jobs the service leaves in the notifications queue.                 *)
(*                                                                         *)
(* Database, cache and queue are three systems and every handler touches   *)
(* them one awaited call at a time.  findAll is a cache-aside fill: get,   *)
(* find, set.  A write is: database, del, queue.add.  pc[r] names the call *)
(* request r makes next.  A request arrives here once the guards admitted  *)
(* it.  The contents of a project are one value (name); its tasks and its  *)
(* creator, and getStats, which only counts, are left out.                 *)
(***************************************************************************)
EXTENDS FiniteSets

CONSTANTS
    Orgs,        \* ids of the organizations
    ProjectIds,  \* the uuids the database may draw for projects (bound)
    Names,       \* contents of a project
    Requests,    \* requests in flight at one time (bound)
    NoRow,       \* no entity, no request, no origin
    Miss         \* what the cache answers when it has no entry

Project == [id: ProjectIds, org: Orgs, name: Names]

Request ==
         [op: {"list"}, org: Orgs]
    \cup [op: {"create"}, org: Orgs, name: Names]
    \cup [op: {"update"}, org: Orgs, project: ProjectIds, name: Names]
    \cup [op: {"delete"}, org: Orgs, project: ProjectIds]

\* A cached list.
Entry == [list: SUBSET Project]

Job == [event: {"created", "updated"}, org: Orgs, project: ProjectIds]

ASSUME NullAssumption ==
    /\ NoRow \notin Project
    /\ NoRow \notin Request
    /\ NoRow \notin Orgs
    /\ Miss \notin Entry

Points == {"idle", "get", "find", "set", "insert", "load", "save", "update",
           "reinsert", "remove", "del", "add"}

VARIABLES
    live,      \* organizations that exist: the target of the foreign key
    projects,  \* table projects
    origin,    \* per project id, the organization it was created in
    cache,     \* Redis: per key, an entry or Miss
    jobs,      \* jobs added to the notifications queue so far
    pc,        \* per request, the call it makes next
    arg,       \* per request, its parameters
    entity,    \* per request, the project its handler holds in memory
    list,      \* per request, the list findAll read from the database
    lapsed     \* history: organizations whose list an accident left stale

store  == <<live, projects, origin, cache, jobs, lapsed>>
memory == <<pc, arg, entity, list>>
vars   == <<live, projects, origin, cache, jobs, pc, arg, entity, list, lapsed>>

RowsOf(org) == {p \in projects : p.org = org}

\* `projects:org:${orgId}`
CacheKey(org) == org

\* What the cache serves is what the database holds.
Fresh(o) == cache[CacheKey(o)] \in {Miss, [list |-> RowsOf(o)]}

\* A request that wrote is about to invalidate the list.
Awaited(o) == \E r \in Requests : pc[r] = "del" /\ arg[r].org = o

Init ==
    /\ live = Orgs
    /\ projects = {}
    /\ origin = [id \in ProjectIds |-> NoRow]
    /\ cache = [o \in Orgs |-> Miss]
    /\ jobs = {}
    /\ pc     = [r \in Requests |-> "idle"]
    /\ arg    = [r \in Requests |-> NoRow]
    /\ entity = [r \in Requests |-> NoRow]
    /\ list   = [r \in Requests |-> {}]
    /\ lapsed = {}

-----------------------------------------------------------------------------
(* Request control.                                                        *)

Goto(r, point) == pc' = [pc EXCEPT ![r] = point]

Reply(r) ==
    /\ Goto(r, "idle")
    /\ arg'    = [arg EXCEPT ![r] = NoRow]
    /\ entity' = [entity EXCEPT ![r] = NoRow]
    /\ list'   = [list EXCEPT ![r] = {}]

FirstCall(op) ==
    CASE op = "list" -> "get"
      [] op = "create" -> "insert"
      [] OTHER -> "load"

\* Only members are admitted, so the organization exists at that moment.
Arrive(r) ==
    /\ pc[r] = "idle"
    /\ \E a \in Request :
         /\ a.org \in live
         /\ arg' = [arg EXCEPT ![r] = a]
         /\ Goto(r, FirstCall(a.op))
    /\ UNCHANGED <<store, entity, list>>

-----------------------------------------------------------------------------
(* findAll.                                                                *)

\* A hit is answered at once; an empty list is a hit as well.
GetList(r) ==
    /\ pc[r] = "get"
    /\ \/ /\ cache[CacheKey(arg[r].org)] # Miss
          /\ Reply(r)
       \/ /\ cache[CacheKey(arg[r].org)] = Miss
          /\ Goto(r, "find")
          /\ UNCHANGED <<arg, entity, list>>
    /\ UNCHANGED store

FindList(r) ==
    /\ pc[r] = "find"
    /\ list' = [list EXCEPT ![r] = RowsOf(arg[r].org)]
    /\ Goto(r, "set")
    /\ UNCHANGED <<store, arg, entity>>

\* An old list is an accident if nobody is left to invalidate it.
SetList(r) ==
    /\ pc[r] = "set"
    /\ cache' = [cache EXCEPT ![CacheKey(arg[r].org)] = [list |-> list[r]]]
    /\ lapsed' = IF list[r] = RowsOf(arg[r].org) \/ Awaited(arg[r].org)
                 THEN lapsed ELSE lapsed \cup {arg[r].org}
    /\ Reply(r)
    /\ UNCHANGED <<live, projects, origin, jobs>>

-----------------------------------------------------------------------------
(* create, update, delete.                                                 *)

\* A mutant: create forgets the organization of the path.
NewProject_NoOrg(r, id) == [id |-> id, org |-> NoRow, name |-> arg[r].name]

NewProject(r, id) == [id |-> id, org |-> arg[r].org, name |-> arg[r].name]

\* The INSERT fails on the foreign key if the organization is gone.
InsertProject(r) ==
    /\ pc[r] = "insert"
    /\ \/ /\ arg[r].org \in live
          /\ \E id \in ProjectIds :
               /\ origin[id] = NoRow
               /\ origin' = [origin EXCEPT ![id] = arg[r].org]
               /\ projects' = projects \cup {NewProject(r, id)}
               /\ entity' = [entity EXCEPT ![r] = NewProject(r, id)]
          /\ Goto(r, "del")
          /\ UNCHANGED <<arg, list>>
       \/ /\ arg[r].org \notin live
          /\ Reply(r)
          /\ UNCHANGED <<projects, origin>>
    /\ UNCHANGED <<live, cache, jobs, lapsed>>

\* A mutant: the lookup forgets the organization of the path.
Addressed_AnyTenant(r, p) == p.id = arg[r].project

\* findOne({ id: projectId, organizationId: orgId }).
Addressed(r, p) ==
    /\ p.id = arg[r].project
    /\ p.org = arg[r].org

LoadProject(r) ==
    /\ pc[r] = "load"
    /\ \/ \E p \in projects :
            /\ Addressed(r, p)
            /\ \/ /\ arg[r].op = "update"
                  /\ entity' = [entity EXCEPT ![r] = [p EXCEPT !.name = arg[r].name]]
                  /\ Goto(r, "save")
               \/ /\ arg[r].op = "delete"
                  /\ entity' = [entity EXCEPT ![r] = p]
                  /\ Goto(r, "remove")
            /\ UNCHANGED <<arg, list>>
       \/ /\ \A p \in projects : ~Addressed(r, p)
          /\ Reply(r)
    /\ UNCHANGED store

\* Repository.save looks the row up again: it writes nothing if nothing
\* changed, UPDATEs the row that is there, INSERTs the one that is gone.
SaveProject(r) ==
    /\ pc[r] = "save"
    /\ \/ /\ entity[r] \in projects
          /\ Goto(r, "del")
       \/ /\ entity[r] \notin projects
          /\ Goto(r, IF \E p \in projects : p.id = entity[r].id
                     THEN "update" ELSE "reinsert")
    /\ UNCHANGED <<store, arg, entity, list>>

\* A mutant: update forgets to invalidate the list.
UpdateProject_NoInvalidation(r) ==
    /\ pc[r] = "update"
    /\ projects' = {IF p.id = entity[r].id THEN [p EXCEPT !.name = entity[r].name]
                                           ELSE p : p \in projects}
    /\ Goto(r, "add")
    /\ UNCHANGED <<live, origin, cache, jobs, arg, entity, list, lapsed>>

\* UPDATE projects SET name = ... WHERE id = ...
UpdateProject(r) ==
    /\ pc[r] = "update"
    /\ projects' = {IF p.id = entity[r].id THEN [p EXCEPT !.name = entity[r].name]
                                           ELSE p : p \in projects}
    /\ Goto(r, "del")
    /\ UNCHANGED <<live, origin, cache, jobs, arg, entity, list, lapsed>>

\* The INSERT fails on the primary key or on the foreign key, or it does not.
ReinsertProject(r) ==
    LET insertable == /\ \A p \in projects : p.id # entity[r].id
                      /\ entity[r].org \in live
    IN /\ pc[r] = "reinsert"
       /\ \/ /\ insertable
             /\ projects' = projects \cup {entity[r]}
             /\ Goto(r, "del")
             /\ UNCHANGED <<arg, entity, list>>
          \/ /\ ~insertable
             /\ Reply(r)
             /\ UNCHANGED projects
       /\ UNCHANGED <<live, origin, cache, jobs, lapsed>>

RemoveProject(r) ==
    /\ pc[r] = "remove"
    /\ projects' = {p \in projects : p.id # entity[r].id}
    /\ Goto(r, "del")
    /\ UNCHANGED <<live, origin, cache, jobs, arg, entity, list, lapsed>>

\* A mutant: a deletion forgets to invalidate the list.
InvalidateList_NotOnDelete(r) ==
    /\ pc[r] = "del"
    /\ \/ /\ arg[r].op # "delete"
          /\ cache' = [cache EXCEPT ![CacheKey(arg[r].org)] = Miss]
          /\ lapsed' = lapsed \ {arg[r].org}
          /\ Goto(r, "add")
          /\ UNCHANGED <<arg, entity, list>>
       \/ /\ arg[r].op = "delete"
          /\ Reply(r)
          /\ UNCHANGED <<cache, lapsed>>
    /\ UNCHANGED <<live, projects, origin, jobs>>

\* cacheManager.del, after which a deletion is done.
InvalidateList(r) ==
    /\ pc[r] = "del"
    /\ cache' = [cache EXCEPT ![CacheKey(arg[r].org)] = Miss]
    /\ lapsed' = lapsed \ {arg[r].org}
    /\ \/ /\ arg[r].op # "delete"
          /\ Goto(r, "add")
          /\ UNCHANGED <<arg, entity, list>>
       \/ /\ arg[r].op = "delete"
          /\ Reply(r)
    /\ UNCHANGED <<live, projects, origin, jobs>>

\* notificationsQueue.add of 'project.created' or 'project.updated'.
AddJob(r) ==
    /\ pc[r] = "add"
    /\ jobs' = jobs \cup
         {[event |-> IF arg[r].op = "create" THEN "created" ELSE "updated",
           org |-> arg[r].org, project |-> entity[r].id]}
    /\ Reply(r)
    /\ UNCHANGED <<live, projects, origin, cache, lapsed>>

-----------------------------------------------------------------------------
(* What happens to the service.                                            *)

\* A call of the request fails, or its process dies, before the call.  If it
\* was to invalidate a stale list, that is an accident.
Abort(r) ==
    /\ pc[r] # "idle"
    /\ Reply(r)
    /\ lapsed' = IF pc[r] = "del" /\ ~Fresh(arg[r].org)
                 THEN lapsed \cup {arg[r].org} ELSE lapsed
    /\ UNCHANGED <<live, projects, origin, cache, jobs>>

\* The entry reaches its ttl.
Expire(o) ==
    /\ cache[o] # Miss
    /\ cache' = [cache EXCEPT ![o] = Miss]
    /\ lapsed' = lapsed \ {o}
    /\ UNCHANGED <<live, projects, origin, jobs, pc, arg, entity, list>>

\* OrganizationsService.delete: the database cascades to the projects, and
\* nobody tells the cache.  Bound: the last organization stays.
OrgDeleted(o) ==
    /\ o \in live
    /\ live # {o}
    /\ live' = live \ {o}
    /\ projects' = {p \in projects : p.org # o}
    /\ UNCHANGED <<origin, cache, jobs, pc, arg, entity, list, lapsed>>

ServiceStep(r) ==
    \/ Arrive(r)
    \/ GetList(r) \/ FindList(r) \/ SetList(r)
    \/ InsertProject(r) \/ LoadProject(r) \/ SaveProject(r) \/ UpdateProject(r)
    \/ ReinsertProject(r) \/ RemoveProject(r)
    \/ InvalidateList(r) \/ AddJob(r)

Service == \E r \in Requests : ServiceStep(r)

Environment ==
    \/ \E r \in Requests : Abort(r)
    \/ \E o \in Orgs : Expire(o) \/ OrgDeleted(o)

Next == Service \/ Environment

Spec == Init /\ [][Next]_vars

-----------------------------------------------------------------------------
(* Properties.                                                             *)

\* Table, cache and queue hold what they are declared to hold.
TypeOK ==
    /\ live \subseteq Orgs
    /\ projects \subseteq Project
    /\ origin \in [ProjectIds -> Orgs \cup {NoRow}]
    /\ cache \in [Orgs -> Entry \cup {Miss}]
    /\ jobs \subseteq Job
    /\ pc \in [Requests -> Points]
    /\ arg \in [Requests -> Request \cup {NoRow}]
    /\ entity \in [Requests -> Project \cup {NoRow}]
    /\ list \in [Requests -> SUBSET Project]
    /\ lapsed \subseteq Orgs

\* The list an organization is served from the cache holds projects of that
\* organization only, whichever fill stored it and whatever was written,
\* re-inserted or deleted since.
CachedListsAreTenantLocal ==
    \A o \in Orgs : LET cached == cache[CacheKey(o)] IN
        cached # Miss => \A p \in cached.list : p.org = o /\ origin[p.id] = o

\* A project stays in the organization it was created in, and no member is
\* told about a project of another organization: update addresses a project
\* by its id and takes the room of the announcement from the path.
ProjectsStayInTheirTenant ==
    /\ \A p \in projects : origin[p.id] = p.org
    /\ \A j \in jobs : origin[j.project] = j.org

\* Tenants stay apart in all that the service stores, serves and sends: the
\* table, the cached lists and the announcements, however fills, writes and
\* the deletion of an organization overlap.
TenantsStayApart == CachedListsAreTenantLocal /\ ProjectsStayInTheirTenant

\* A cached list turns stale in three ways only: a write has committed and
\* its request is about to invalidate the list, a fill stores what it read
\* before a write, or the organization is deleted.
StalenessExplained ==
    [][\A o \in Orgs : Fresh(o) /\ ~Fresh(o)' =>
          \/ o \notin live'
          \/ \E r \in Requests :
                /\ pc'[r] # pc[r]
                /\ arg[r].org = o
                /\ \/ pc'[r] = "del"
                   \/ pc[r] = "set" /\ list[r] # RowsOf(o)]_vars

\* A stale list of an organization that exists is about to be invalidated by
\* a request that wrote, unless an accident has kept that from it: the request
\* ended before its del, or a fill stored, after the del, what it had read
\* before the write.  But for these two, a stale list outlives no write that
\* was answered, however writes, re-insertions and deletions overlap.
StaleOnlyUntilInvalidated ==
    \A o \in live : ~Fresh(o) => Awaited(o) \/ o \in lapsed

-----------------------------------------------------------------------------
(* The inductive invariant behind the theorems of Projects_proofs.         *)

\* A request makes the calls of its own endpoint.
Control(r) ==
    /\ pc[r] # "idle" => arg[r] \in Request
    /\ pc[r] \in {"get", "find", "set"} => arg[r].op = "list"
    /\ pc[r] = "insert" => arg[r].op = "create"
    /\ pc[r] = "load" => arg[r].op \in {"update", "delete"}
    /\ pc[r] \in {"save", "update", "reinsert"} => arg[r].op = "update"
    /\ pc[r] = "remove" => arg[r].op = "delete"
    /\ pc[r] \in {"del", "add"} => arg[r].op \in {"create", "update", "delete"}

HoldingPoints == {"save", "update", "reinsert", "remove", "del", "add"}

\* Project p is, and always was, a project of org.
BelongsTo(p, org) == p.org = org /\ origin[p.id] = org

\* What a handler keeps in memory belongs to the organization of its path,
\* however old it is.
Holding(r) ==
    /\ pc[r] \in HoldingPoints => entity[r] \in Project /\ BelongsTo(entity[r], arg[r].org)
    /\ pc[r] = "set" => \A p \in list[r] : BelongsTo(p, arg[r].org)

IInv ==
    /\ TypeOK
    /\ \A r \in Requests : Control(r) /\ Holding(r)
    /\ CachedListsAreTenantLocal
    /\ ProjectsStayInTheirTenant
    /\ StaleOnlyUntilInvalidated
=============================================================================
