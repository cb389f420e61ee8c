-------------------------- MODULE Projects_proofs --------------------------
(***************************************************************************)
(* Theorems about Projects, for any number of organizations, projects and  *)
(* concurrent requests: tenant isolation of the table, the cache and the   *)
(* queue, the only ways a cached list turns stale, and who ends that.      *)
(***************************************************************************)
EXTENDS Projects, TLAPS

MemoryOK ==
    /\ pc \in [Requests -> Points]
    /\ arg \in [Requests -> Request \cup {NoRow}]
    /\ entity \in [Requests -> Project \cup {NoRow}]
    /\ list \in [Requests -> SUBSET Project]

Tables ==
    /\ live \subseteq Orgs
    /\ projects \subseteq Project
    /\ origin \in [ProjectIds -> Orgs \cup {NoRow}]
    /\ cache \in [Orgs -> Entry \cup {Miss}]
    /\ jobs \subseteq Job
    /\ lapsed \subseteq Orgs
    /\ CachedListsAreTenantLocal
    /\ ProjectsStayInTheirTenant

Local(r) == Control(r) /\ Holding(r)

OthersKept(r) ==
    \A q \in Requests \ {r} : /\ pc'[q] = pc[q]
                              /\ arg'[q] = arg[q]
                              /\ entity'[q] = entity[q]
                              /\ list'[q] = list[q]

\* A project id is drawn for one organization and never again.
OriginKept == \A id \in ProjectIds : origin[id] # NoRow => origin'[id] = origin[id]

LEMMA Parts ==
    IInv <=> /\ Tables /\ MemoryOK /\ \A r \in Requests : Local(r)
             /\ StaleOnlyUntilInvalidated
PROOF
    BY DEF IInv, Tables, MemoryOK, Local, TypeOK

LEMMA RequestShape ==
    ASSUME NEW a \in Request
    PROVE  /\ a.op \in {"list", "create", "update", "delete"} /\ a.org \in Orgs
           /\ a.op \in {"update", "delete"} => a.project \in ProjectIds
           /\ a.op \in {"create", "update"} => a.name \in Names
PROOF
    BY DEF Request

\* What other requests do disturbs nothing a handler keeps in memory.
LEMMA Framed ==
    ASSUME OriginKept, MemoryOK, NEW q \in Requests, Local(q), pc'[q] = pc[q],
           arg'[q] = arg[q], entity'[q] = entity[q], list'[q] = list[q]
    PROVE  Local(q)'
PROOF
<1>1. Control(q)'
    BY DEF Local, Control
<1>2. ASSUME NEW p \in Project, NEW org \in Orgs, BelongsTo(p, org)
      PROVE  p.org = org /\ origin'[p.id] = org
    BY <1>2, NullAssumption DEF BelongsTo, OriginKept, Project
<1>3. pc[q] # "idle" => arg[q].org \in Orgs
    BY RequestShape DEF Local, Control
<1>4. list[q] \subseteq Project
    BY DEF MemoryOK
<1>5. pc[q] \in HoldingPoints => entity[q] \in Project /\ BelongsTo(entity[q], arg[q].org)'
  <2> SUFFICES ASSUME pc[q] \in HoldingPoints
               PROVE  entity[q] \in Project /\ BelongsTo(entity[q], arg[q].org)'
      OBVIOUS
  <2>1. entity[q] \in Project /\ BelongsTo(entity[q], arg[q].org) /\ arg[q].org \in Orgs
      BY <1>3 DEF Local, Holding, HoldingPoints
  <2> QED BY <1>2, <2>1 DEF BelongsTo
<1>6. pc[q] = "set" => \A p \in list[q] : p.org = arg[q].org /\ origin'[p.id] = arg[q].org
    BY <1>2, <1>3, <1>4 DEF Local, Holding
<1> QED BY <1>1, <1>5, <1>6 DEF Local, Holding, BelongsTo

LEMMA ReplyOK ==
    ASSUME MemoryOK, NEW r \in Requests, Reply(r)
    PROVE  MemoryOK' /\ OthersKept(r) /\ Local(r)'
PROOF
<1>1. MemoryOK' /\ OthersKept(r) /\ pc'[r] = "idle"
    BY DEF MemoryOK, Reply, Goto, Points, OthersKept
<1> QED BY <1>1 DEF Local, Control, Holding, HoldingPoints

\* A call after which the handler goes on with what it had in memory.
LEMMA GotoOK ==
    ASSUME MemoryOK, NEW r \in Requests, NEW point \in Points, Goto(r, point),
           UNCHANGED <<arg, entity, list>>
    PROVE  MemoryOK' /\ OthersKept(r) /\ pc'[r] = point
PROOF
    BY DEF MemoryOK, Goto, OthersKept

\* The handler holds project p, which is one of its organization, and goes
\* on to a call that its endpoint makes.
LEMMA HoldsOK ==
    ASSUME NEW r \in Requests, NEW p \in Project, arg[r] \in Request,
           pc'[r] \in HoldingPoints, arg'[r] = arg[r], entity'[r] = p,
           p.org = arg[r].org, origin'[p.id] = arg[r].org,
           pc'[r] \in {"save", "update", "reinsert"} => arg[r].op = "update",
           pc'[r] = "remove" => arg[r].op = "delete",
           pc'[r] \in {"del", "add"} => arg[r].op \in {"create", "update", "delete"}
    PROVE  Local(r)'
PROOF
    BY DEF Local, Control, Holding, HoldingPoints, BelongsTo

\* The cached lists and the jobs, when no project changes its organization.
LEMMA CacheKept ==
    ASSUME Tables, OriginKept, UNCHANGED cache
    PROVE  CachedListsAreTenantLocal'
PROOF
<1> SUFFICES ASSUME NEW o \in Orgs, cache[o] # Miss, NEW p \in cache[o].list
             PROVE  p.org = o /\ origin'[p.id] = o
    BY DEF CachedListsAreTenantLocal, CacheKey
<1>1. p.org = o /\ origin[p.id] = o
    BY DEF Tables, CachedListsAreTenantLocal, CacheKey
<1>2. p \in Project
    BY DEF Tables, Entry
<1> QED BY <1>1, <1>2, NullAssumption DEF OriginKept, Project

\* A write that leaves every row in its organization.
LEMMA RowsOK ==
    ASSUME Tables, OriginKept, origin' \in [ProjectIds -> Orgs \cup {NoRow}],
           live' \subseteq Orgs, projects' \subseteq Project,
           \A p \in projects' : origin'[p.id] = p.org, UNCHANGED <<cache, jobs, lapsed>>
    PROVE  Tables'
PROOF
<1>1. CachedListsAreTenantLocal'
    BY CacheKept
<1>2. \A j \in jobs : origin'[j.project] = j.org
  <2> SUFFICES ASSUME NEW j \in jobs PROVE origin'[j.project] = j.org
      OBVIOUS
  <2>1. j.project \in ProjectIds /\ j.org \in Orgs /\ origin[j.project] = j.org
      BY DEF Tables, ProjectsStayInTheirTenant, Job
  <2> QED BY <2>1, NullAssumption DEF OriginKept
<1> QED BY <1>1, <1>2 DEF Tables, ProjectsStayInTheirTenant

LEMMA SameStore ==
    ASSUME Tables, UNCHANGED store
    PROVE  Tables' /\ OriginKept
PROOF
    BY DEF Tables, store, OriginKept, CachedListsAreTenantLocal, ProjectsStayInTheirTenant,
           CacheKey

StepGoal(r) ==
    Tables' /\ MemoryOK' /\ OriginKept /\ OthersKept(r) /\ Local(r)'

LEMMA StepOK ==
    ASSUME Tables, MemoryOK, NEW r \in Requests, Local(r), ServiceStep(r) \/ Abort(r)
    PROVE  StepGoal(r)
PROOF
<1>1. ASSUME Reply(r), Tables', OriginKept PROVE StepGoal(r)
    BY <1>1, ReplyOK DEF StepGoal
<1>2. ASSUME MemoryOK', OthersKept(r), Local(r)', UNCHANGED store PROVE StepGoal(r)
    BY <1>2, SameStore DEF StepGoal
<1>3. CASE Arrive(r)
  <2> PICK a \in Request : /\ a.org \in live
                           /\ arg' = [arg EXCEPT ![r] = a]
                           /\ Goto(r, FirstCall(a.op))
      BY <1>3 DEF Arrive
  <2>1. UNCHANGED <<live, projects, origin, cache, jobs, lapsed, entity, list>>
      BY <1>3 DEF Arrive, store
  <2>2. a.op \in {"list", "create", "update", "delete"}
      BY RequestShape
  <2>3. \/ a.op = "list" /\ FirstCall(a.op) = "get"
        \/ a.op = "create" /\ FirstCall(a.op) = "insert"
        \/ a.op \in {"update", "delete"} /\ FirstCall(a.op) = "load"
      BY <2>2 DEF FirstCall
  <2>4. MemoryOK' /\ OthersKept(r) /\ arg'[r] = a /\ pc'[r] = FirstCall(a.op)
      BY <2>1, <2>3 DEF MemoryOK, Goto, Points, OthersKept
  <2>5. Local(r)'
      BY <2>3, <2>4 DEF Local, Control, Holding, HoldingPoints
  <2> QED BY <1>2, <2>1, <2>4, <2>5 DEF store
<1>4. CASE Abort(r)
  <2>1. /\ pc[r] # "idle" /\ Reply(r) /\ UNCHANGED <<live, projects, origin, cache, jobs>>
        /\ lapsed' = IF pc[r] = "del" /\ ~Fresh(arg[r].org)
                     THEN lapsed \cup {arg[r].org} ELSE lapsed
      BY <1>4 DEF Abort
  <2>2. arg[r].org \in Orgs
      BY <2>1, RequestShape DEF Local, Control
  <2>3. CachedListsAreTenantLocal' /\ OriginKept
      BY <2>1, CacheKept DEF OriginKept
  <2>4. Tables'
      BY <2>1, <2>2, <2>3 DEF Tables, ProjectsStayInTheirTenant
  <2> QED BY <1>1, <2>1, <2>3, <2>4
<1>5. CASE GetList(r)
  <2>1. CASE Goto(r, "find") /\ UNCHANGED <<arg, entity, list>>
    <3>1. UNCHANGED store /\ pc[r] = "get"
        BY <1>5 DEF GetList
    <3>2. MemoryOK' /\ OthersKept(r) /\ pc'[r] = "find"
        BY <2>1, GotoOK DEF Points
    <3>3. Local(r)'
        BY <2>1, <3>1, <3>2 DEF Local, Control, Holding, HoldingPoints
    <3> QED BY <1>2, <3>1, <3>2, <3>3
  <2> QED BY <1>1, <1>5, <2>1, SameStore DEF GetList
<1>6. CASE FindList(r)
  <2>1. /\ pc[r] = "find" /\ Goto(r, "set") /\ UNCHANGED store
        /\ UNCHANGED <<arg, entity>> /\ list' = [list EXCEPT ![r] = RowsOf(arg[r].org)]
      BY <1>6 DEF FindList, store
  <2>2. /\ RowsOf(arg[r].org) \subseteq Project
        /\ \A p \in RowsOf(arg[r].org) : BelongsTo(p, arg[r].org)
      BY DEF RowsOf, Tables, ProjectsStayInTheirTenant, BelongsTo
  <2>3. /\ MemoryOK' /\ OthersKept(r) /\ pc'[r] = "set" /\ arg'[r] = arg[r]
        /\ list'[r] = RowsOf(arg[r].org)
      BY <2>1, <2>2 DEF MemoryOK, Goto, Points, OthersKept
  <2>4. Local(r)'
      BY <2>1, <2>2, <2>3 DEF store, Local, Control, Holding, HoldingPoints, BelongsTo
  <2> QED BY <1>2, <2>1, <2>3, <2>4
<1>7. CASE SetList(r)
  <2>1. /\ pc[r] = "set" /\ Reply(r) /\ UNCHANGED <<live, projects, origin, jobs>>
        /\ cache' = [cache EXCEPT ![CacheKey(arg[r].org)] = [list |-> list[r]]]
        /\ lapsed' \subseteq lapsed \cup {arg[r].org}
      BY <1>7 DEF SetList
  <2>2. arg[r].org \in Orgs
      BY <2>1, RequestShape DEF Local, Control
  <2>3. [list |-> list[r]] \in Entry /\ [list |-> list[r]].list = list[r]
      BY DEF MemoryOK, Entry
  <2>4. \A p \in list[r] : p.org = arg[r].org /\ origin[p.id] = arg[r].org
      BY <2>1 DEF Local, Holding, BelongsTo
  <2>5. \A o \in Orgs : cache'[o] = IF o = arg[r].org THEN [list |-> list[r]] ELSE cache[o]
      BY <2>1 DEF Tables, CacheKey
  <2>6. CachedListsAreTenantLocal'
      BY <2>1, <2>2, <2>3, <2>4, <2>5 DEF Tables, CachedListsAreTenantLocal, CacheKey
  <2>7. cache' \in [Orgs -> Entry \cup {Miss}]
      BY <2>1, <2>3 DEF Tables
  <2>8. Tables' /\ OriginKept
      BY <2>1, <2>2, <2>6, <2>7 DEF Tables, ProjectsStayInTheirTenant, OriginKept
  <2> QED BY <1>1, <2>1, <2>8
<1>8. CASE InsertProject(r)
  <2>1. UNCHANGED <<live, cache, jobs, lapsed>> /\ pc[r] = "insert"
      BY <1>8 DEF InsertProject
  <2>2. CASE Reply(r) /\ UNCHANGED <<projects, origin>>
      BY <1>1, <2>1, <2>2, SameStore DEF store
  <2>3. ASSUME NEW id \in ProjectIds, origin[id] = NoRow,
               origin' = [origin EXCEPT ![id] = arg[r].org],
               projects' = projects \cup {NewProject(r, id)},
               entity' = [entity EXCEPT ![r] = NewProject(r, id)],
               Goto(r, "del"), UNCHANGED <<arg, list>>
        PROVE  StepGoal(r)
    <3>1. arg[r] \in Request /\ arg[r].op = "create" /\ arg[r].org \in Orgs /\ arg[r].name \in Names
        BY <2>1, RequestShape DEF Local, Control
    <3>0. /\ NewProject(r, id) \in Project
          /\ NewProject(r, id).id = id /\ NewProject(r, id).org = arg[r].org
        BY <3>1 DEF NewProject, Project
    <3> PICK p \in Project : p = NewProject(r, id) /\ p.id = id /\ p.org = arg[r].org
        BY <3>0
    <3>2. OriginKept /\ origin' \in [ProjectIds -> Orgs \cup {NoRow}] /\ origin'[p.id] = p.org
        BY <2>3, <3>1 DEF OriginKept, Tables
    <3>3. \A q \in projects : origin[q.id] = q.org /\ q.id \in ProjectIds /\ q.org \in Orgs
        BY DEF Tables, ProjectsStayInTheirTenant, Project
    <3>4. \A q \in projects' : origin'[q.id] = q.org
        BY <2>3, <3>2, <3>3, NullAssumption DEF OriginKept
    <3>5. Tables'
        BY <2>1, <2>3, <3>2, <3>4, RowsOK DEF Tables
    <3>6. /\ MemoryOK' /\ OthersKept(r) /\ pc'[r] = "del" /\ arg'[r] = arg[r]
          /\ entity'[r] = p
        BY <2>3 DEF MemoryOK, Goto, Points, OthersKept
    <3>7. Local(r)'
        BY <3>1, <3>2, <3>6, HoldsOK DEF HoldingPoints
    <3> QED BY <3>2, <3>5, <3>6, <3>7 DEF StepGoal
  <2> QED BY <1>8, <2>2, <2>3 DEF InsertProject
<1>9. CASE LoadProject(r)
  <2>1. pc[r] = "load" /\ UNCHANGED store
      BY <1>9 DEF LoadProject
  <2>2. arg[r] \in Request /\ arg[r].op \in {"update", "delete"}
      BY <2>1 DEF Local, Control
  <2>3. ASSUME NEW p \in Project, p.org = arg[r].org, origin[p.id] = arg[r].org,
               entity' = [entity EXCEPT ![r] = p], UNCHANGED <<arg, list>>,
               \/ arg[r].op = "update" /\ Goto(r, "save")
               \/ arg[r].op = "delete" /\ Goto(r, "remove")
        PROVE  StepGoal(r)
    <3>1. /\ MemoryOK' /\ OthersKept(r) /\ arg'[r] = arg[r] /\ entity'[r] = p
          /\ \/ arg[r].op = "update" /\ pc'[r] = "save"
             \/ arg[r].op = "delete" /\ pc'[r] = "remove"
        BY <2>3 DEF MemoryOK, Goto, Points, OthersKept
    <3>2. Local(r)'
        BY <2>1, <2>2, <2>3, <3>1, HoldsOK DEF HoldingPoints, store
    <3> QED BY <1>2, <2>1, <3>1, <3>2
  <2>4. ASSUME NEW p \in projects, Addressed(r, p), UNCHANGED <<arg, list>>,
               \/ /\ arg[r].op = "update"
                  /\ entity' = [entity EXCEPT ![r] = [p EXCEPT !.name = arg[r].name]]
                  /\ Goto(r, "save")
               \/ /\ arg[r].op = "delete"
                  /\ entity' = [entity EXCEPT ![r] = p]
                  /\ Goto(r, "remove")
        PROVE  StepGoal(r)
    <3>1. p \in Project /\ p.org = arg[r].org /\ origin[p.id] = arg[r].org
        BY <2>4 DEF Tables, ProjectsStayInTheirTenant, Addressed
    <3>2. CASE /\ arg[r].op = "update"
               /\ entity' = [entity EXCEPT ![r] = [p EXCEPT !.name = arg[r].name]]
               /\ Goto(r, "save")
      <4>1. arg[r].name \in Names
          BY <2>2, <3>2, RequestShape
      <4>0. /\ [p EXCEPT !.name = arg[r].name] \in Project
            /\ [p EXCEPT !.name = arg[r].name].id = p.id
            /\ [p EXCEPT !.name = arg[r].name].org = p.org
          BY <3>1, <4>1 DEF Project
      <4> PICK q \in Project : /\ q = [p EXCEPT !.name = arg[r].name]
                               /\ q.id = p.id /\ q.org = p.org
          BY <4>0
      <4>2. q.org = arg[r].org /\ origin[q.id] = arg[r].org
          BY <3>1
      <4>3. entity' = [entity EXCEPT ![r] = q]
          BY <3>2
      <4> QED BY <2>3, <2>4, <3>2, <4>2, <4>3
    <3>3. CASE /\ arg[r].op = "delete"
               /\ entity' = [entity EXCEPT ![r] = p]
               /\ Goto(r, "remove")
        BY <2>3, <2>4, <3>1, <3>3
    <3> QED BY <2>4, <3>2, <3>3
  <2> QED BY <1>1, <1>9, <2>4, SameStore DEF LoadProject
\* The handler goes on with its entity while the rows keep their organization.
<1>10. ASSUME NEW point \in {"update", "reinsert", "del"}, Goto(r, point),
              pc[r] \in {"save", "update", "reinsert", "remove"},
              point # "del" => arg[r].op = "update", Tables', UNCHANGED <<arg, entity, list, origin>>
       PROVE  StepGoal(r)
  <2>1. MemoryOK' /\ OthersKept(r) /\ pc'[r] = point
      BY <1>10, GotoOK DEF Points
  <2>2. /\ arg[r] \in Request /\ arg[r].op \in {"update", "delete"}
        /\ entity[r] \in Project /\ BelongsTo(entity[r], arg[r].org)
      BY <1>10 DEF Local, Control, Holding, HoldingPoints
  <2>3. Local(r)'
      BY <1>10, <2>1, <2>2 DEF Local, Control, Holding, HoldingPoints, BelongsTo
  <2> QED BY <1>10, <2>1, <2>3 DEF StepGoal, OriginKept
<1>11. pc[r] \in {"save", "update", "reinsert", "remove"} =>
          entity[r] \in Project /\ origin[entity[r].id] = entity[r].org
    BY DEF Local, Holding, HoldingPoints, BelongsTo
<1>12. CASE SaveProject(r)
  <2>1. pc[r] = "save" /\ arg[r].op = "update" /\ UNCHANGED store /\ UNCHANGED <<arg, entity, list>>
      BY <1>12 DEF SaveProject, Local, Control, store
  <2>2. PICK point \in {"update", "reinsert", "del"} : Goto(r, point)
      BY <1>12 DEF SaveProject
  <2> QED BY <1>10, <2>1, <2>2, SameStore DEF store
<1>13. CASE UpdateProject(r)
  <2>1. /\ pc[r] = "update" /\ arg[r].op = "update" /\ Goto(r, "del")
        /\ UNCHANGED <<live, origin, cache, jobs, arg, entity, list, lapsed>>
        /\ projects' = {IF p.id = entity[r].id THEN [p EXCEPT !.name = entity[r].name]
                                               ELSE p : p \in projects}
      BY <1>13 DEF UpdateProject, Local, Control
  <2>2. entity[r].name \in Names
      BY <1>11, <2>1 DEF Project
  <2>3. ASSUME NEW q \in projects' PROVE q \in Project /\ origin[q.id] = q.org
    <3>1. PICK p \in projects : q = IF p.id = entity[r].id
                                    THEN [p EXCEPT !.name = entity[r].name] ELSE p
        BY <2>1, <2>3
    <3>2. p \in Project /\ origin[p.id] = p.org
        BY DEF Tables, ProjectsStayInTheirTenant
    <3>3. [p EXCEPT !.name = entity[r].name] \in Project
          /\ [p EXCEPT !.name = entity[r].name].id = p.id
          /\ [p EXCEPT !.name = entity[r].name].org = p.org
        BY <2>2, <3>2 DEF Project
    <3> QED BY <3>1, <3>2, <3>3
  <2>4. Tables'
      BY <2>1, <2>3, RowsOK DEF Tables, OriginKept
  <2> QED BY <1>10, <2>1, <2>4
<1>14. CASE ReinsertProject(r)
  <2>1. pc[r] = "reinsert" /\ arg[r].op = "update" /\ UNCHANGED <<live, origin, cache, jobs, lapsed>>
      BY <1>14 DEF ReinsertProject, Local, Control
  <2>2. CASE /\ projects' = projects \cup {entity[r]}
             /\ Goto(r, "del")
             /\ UNCHANGED <<arg, entity, list>>
    <3>1. Tables'
        BY <1>11, <2>1, <2>2, RowsOK DEF Tables, OriginKept, ProjectsStayInTheirTenant
    <3> QED BY <1>10, <2>1, <2>2, <3>1
  <2> QED BY <1>1, <1>14, <2>1, <2>2, SameStore DEF ReinsertProject, store
<1>15. CASE RemoveProject(r)
  <2>1. /\ pc[r] = "remove" /\ Goto(r, "del") /\ projects' \subseteq projects
        /\ UNCHANGED <<live, origin, cache, jobs, arg, entity, list, lapsed>>
      BY <1>15 DEF RemoveProject
  <2>2. Tables'
      BY <2>1, RowsOK DEF Tables, OriginKept, ProjectsStayInTheirTenant
  <2> QED BY <1>10, <2>1, <2>2
<1>16. CASE InvalidateList(r)
  <2>1. /\ pc[r] = "del" /\ UNCHANGED <<live, projects, origin, jobs>>
        /\ cache' = [cache EXCEPT ![CacheKey(arg[r].org)] = Miss]
        /\ lapsed' \subseteq lapsed
      BY <1>16 DEF InvalidateList
  <2>2. \A o \in Orgs : cache'[o] \in {cache[o], Miss}
      BY <2>1 DEF Tables
  <2>3. CachedListsAreTenantLocal'
      BY <2>1, <2>2 DEF Tables, CachedListsAreTenantLocal, CacheKey
  <2>4. Tables' /\ OriginKept
      BY <2>1, <2>3 DEF Tables, ProjectsStayInTheirTenant, OriginKept
  <2>5. CASE arg[r].op # "delete" /\ Goto(r, "add") /\ UNCHANGED <<arg, entity, list>>
    <3>1. MemoryOK' /\ OthersKept(r) /\ pc'[r] = "add"
        BY <2>5, GotoOK DEF Points
    <3>2. Local(r)'
        BY <2>1, <2>5, <3>1 DEF Local, Control, Holding, HoldingPoints, BelongsTo
    <3> QED BY <2>4, <3>1, <3>2 DEF StepGoal
  <2> QED BY <1>1, <1>16, <2>4, <2>5 DEF InvalidateList
<1>17. CASE AddJob(r)
  <2> DEFINE job == [event |-> IF arg[r].op = "create" THEN "created" ELSE "updated",
                     org |-> arg[r].org, project |-> entity[r].id]
  <2>1. /\ pc[r] = "add" /\ Reply(r) /\ jobs' = jobs \cup {job}
        /\ UNCHANGED <<live, projects, origin, cache, lapsed>>
      BY <1>17 DEF AddJob
  <2>2. arg[r].org \in Orgs /\ entity[r] \in Project /\ origin[entity[r].id] = arg[r].org
      BY <2>1, RequestShape DEF Local, Control, Holding, HoldingPoints, BelongsTo
  <2>3. job \in Job /\ job.project = entity[r].id /\ job.org = arg[r].org
      BY <2>2 DEF Job, Project
  <2> HIDE DEF job
  <2>4. CachedListsAreTenantLocal' /\ OriginKept
      BY <2>1, CacheKept DEF OriginKept
  <2>5. Tables'
      BY <2>1, <2>2, <2>3, <2>4 DEF Tables, ProjectsStayInTheirTenant
  <2> QED BY <1>1, <2>1, <2>4, <2>5
<1> QED BY <1>3, <1>4, <1>5, <1>6, <1>7, <1>8, <1>9, <1>12, <1>13, <1>14, <1>15, <1>16, <1>17
        DEF ServiceStep

(***************************************************************************)
(* The three ways a cached list turns stale.                               *)
(***************************************************************************)

Explained(o) ==
    \/ o \notin live'
    \/ \E r \in Requests :
          /\ pc'[r] # pc[r]
          /\ arg[r].org = o
          /\ \/ pc'[r] = "del"
             \/ pc[r] = "set" /\ list[r] # RowsOf(o)

\* A list that is fresh stays so if it is dropped, or if neither it nor the
\* rows of its organization change.
LEMMA StaysFresh ==
    ASSUME NEW o \in Orgs, Fresh(o),
           \/ cache'[o] = Miss
           \/ cache'[o] = cache[o] /\ RowsOf(o)' = RowsOf(o)
    PROVE  Fresh(o)'
PROOF
    BY DEF Fresh, CacheKey

\* A request that writes a row leaves the lists of other organizations alone.
LEMMA WriteExplained ==
    ASSUME MemoryOK, NEW r \in Requests, NEW o \in Orgs, Fresh(o), UNCHANGED cache,
           pc[r] # "del", Goto(r, "del"), arg[r].org # o => RowsOf(o)' = RowsOf(o)
    PROVE  Fresh(o)' \/ Explained(o)
PROOF
<1>1. CASE arg[r].org = o
    BY <1>1 DEF MemoryOK, Goto, Explained
<1>2. CASE arg[r].org # o
    BY <1>2, StaysFresh
<1> QED BY <1>1, <1>2

LEMMA StepExplained ==
    ASSUME Tables, MemoryOK, NEW r \in Requests, Local(r), ServiceStep(r) \/ Abort(r),
           NEW o \in Orgs, Fresh(o)
    PROVE  Fresh(o)' \/ Explained(o)
PROOF
<1>1. ASSUME UNCHANGED <<projects, cache>> PROVE Fresh(o)'
    BY <1>1, StaysFresh DEF RowsOf
<1>2. pc[r] \in {"save", "update", "reinsert", "remove"} =>
          entity[r].org = arg[r].org /\ origin[entity[r].id] = arg[r].org
    BY DEF Local, Holding, HoldingPoints, BelongsTo
<1>3. \A p \in projects : p \in Project /\ origin[p.id] = p.org
    BY DEF Tables, ProjectsStayInTheirTenant
<1>4. CASE InsertProject(r)
  <2>1. CASE UNCHANGED projects
      BY <1>1, <1>4, <2>1 DEF InsertProject
  <2>2. ASSUME NEW id \in ProjectIds, projects' = projects \cup {NewProject(r, id)}, Goto(r, "del")
        PROVE  Fresh(o)' \/ Explained(o)
    <3>1. arg[r].org # o => RowsOf(o)' = RowsOf(o)
        BY <2>2 DEF RowsOf, NewProject
    <3> QED BY <1>4, <2>2, <3>1, WriteExplained DEF InsertProject
  <2> QED BY <1>4, <2>1, <2>2 DEF InsertProject
<1>5. CASE UpdateProject(r)
  <2>1. /\ pc[r] = "update" /\ Goto(r, "del") /\ UNCHANGED cache
        /\ projects' = {IF p.id = entity[r].id THEN [p EXCEPT !.name = entity[r].name]
                                               ELSE p : p \in projects}
      BY <1>5 DEF UpdateProject
  <2>2. \A p \in projects : [p EXCEPT !.name = entity[r].name].org = p.org
      BY <1>3 DEF Project
  <2>3. \A p \in projects : p.id = entity[r].id => p.org = arg[r].org
      BY <1>2, <1>3, <2>1
  <2>4. ASSUME arg[r].org # o PROVE RowsOf(o)' = RowsOf(o)
    <3>1. ASSUME NEW q \in projects', q.org = o PROVE q \in projects
      <4>1. PICK p \in projects : q = IF p.id = entity[r].id
                                      THEN [p EXCEPT !.name = entity[r].name] ELSE p
          BY <2>1, <3>1
      <4>2. p.id # entity[r].id
          BY <2>2, <2>3, <2>4, <3>1, <4>1
      <4> QED BY <4>1, <4>2
    <3>2. ASSUME NEW p \in projects, p.org = o PROVE p \in projects'
      <4>1. p.id # entity[r].id
          BY <2>3, <2>4, <3>2
      <4> QED BY <2>1, <4>1
    <3> QED BY <3>1, <3>2 DEF RowsOf
  <2> QED BY <2>1, <2>4, WriteExplained
<1>6. CASE ReinsertProject(r)
  <2>1. CASE UNCHANGED projects
      BY <1>1, <1>6, <2>1 DEF ReinsertProject
  <2>2. CASE projects' = projects \cup {entity[r]} /\ Goto(r, "del")
    <3>1. arg[r].org # o => RowsOf(o)' = RowsOf(o)
        BY <1>2, <1>6, <2>2 DEF RowsOf, ReinsertProject
    <3> QED BY <1>6, <2>2, <3>1, WriteExplained DEF ReinsertProject
  <2> QED BY <1>6, <2>1, <2>2 DEF ReinsertProject
<1>7. CASE RemoveProject(r)
  <2>1. /\ pc[r] = "remove" /\ Goto(r, "del") /\ UNCHANGED cache
        /\ projects' = {p \in projects : p.id # entity[r].id}
      BY <1>7 DEF RemoveProject
  <2>2. \A p \in projects : p.id = entity[r].id => p.org = arg[r].org
      BY <1>2, <1>3, <2>1
  <2>3. arg[r].org # o => RowsOf(o)' = RowsOf(o)
      BY <2>1, <2>2 DEF RowsOf
  <2> QED BY <2>1, <2>3, WriteExplained
<1>8. CASE SetList(r)
  <2>1. /\ pc[r] = "set" /\ Reply(r) /\ UNCHANGED projects
        /\ cache' = [cache EXCEPT ![CacheKey(arg[r].org)] = [list |-> list[r]]]
      BY <1>8 DEF SetList
  <2>2. pc'[r] # pc[r]
      BY <2>1 DEF Reply, Goto, MemoryOK
  <2>3. CASE arg[r].org = o /\ list[r] # RowsOf(o)
      BY <2>1, <2>2, <2>3 DEF Explained
  <2>4. CASE arg[r].org = o /\ list[r] = RowsOf(o)
    <3>1. cache'[o] = [list |-> RowsOf(o)] /\ RowsOf(o)' = RowsOf(o)
        BY <2>1, <2>4 DEF Tables, CacheKey, RowsOf
    <3> QED BY <3>1 DEF Fresh, CacheKey
  <2>5. CASE arg[r].org # o
    <3>1. cache'[o] = cache[o] /\ RowsOf(o)' = RowsOf(o)
        BY <2>1, <2>5 DEF Tables, CacheKey, RowsOf
    <3> QED BY <3>1, StaysFresh
  <2> QED BY <2>3, <2>4, <2>5
<1>9. CASE InvalidateList(r)
  <2>1. /\ UNCHANGED projects
        /\ cache' = [cache EXCEPT ![CacheKey(arg[r].org)] = Miss]
      BY <1>9 DEF InvalidateList
  <2>2. cache'[o] = Miss \/ (cache'[o] = cache[o] /\ RowsOf(o)' = RowsOf(o))
      BY <2>1 DEF Tables, CacheKey, RowsOf
  <2> QED BY <2>2, StaysFresh
<1>10. CASE \/ Arrive(r) \/ Abort(r) \/ GetList(r) \/ FindList(r)
            \/ LoadProject(r) \/ SaveProject(r) \/ AddJob(r)
    BY <1>1, <1>10 DEF Arrive, Abort, GetList, FindList, LoadProject, SaveProject, AddJob, store
<1> QED BY <1>4, <1>5, <1>6, <1>7, <1>8, <1>9, <1>10 DEF ServiceStep

(***************************************************************************)
(* Who ends it.                                                            *)
(***************************************************************************)

Covered(o) == Fresh(o) \/ Awaited(o) \/ o \in lapsed

LEMMA LiveKept ==
    ASSUME NEW r \in Requests, ServiceStep(r) \/ Abort(r) PROVE live' = live
PROOF
    BY DEF ServiceStep, Arrive, GetList, FindList, SetList, InsertProject, LoadProject,
           SaveProject, UpdateProject, ReinsertProject, RemoveProject, InvalidateList,
           AddJob, Abort, store

\* Another request invalidates the list yet, whatever r does.
LEMMA AwaitedKept ==
    ASSUME NEW r \in Requests, OthersKept(r), NEW o \in Orgs, Awaited(o),
           pc[r] = "del" => arg[r].org # o
    PROVE  Awaited(o)'
PROOF
<1>1. PICK q \in Requests : pc[q] = "del" /\ arg[q].org = o
    BY DEF Awaited
<1>2. q # r
    BY <1>1
<1> QED BY <1>1, <1>2 DEF Awaited, OthersKept

\* A step that neither invalidates, fills nor fails leaves a list that turns
\* stale to the request that made it so.
LEMMA PlainStepCovered ==
    ASSUME Tables, MemoryOK, NEW r \in Requests, Local(r), ServiceStep(r),
           NEW o \in Orgs, o \in live', Covered(o), UNCHANGED lapsed,
           pc[r] \notin {"del", "set"}, pc'[r] = "del" => arg'[r] = arg[r]
    PROVE  Covered(o)'
PROOF
<1>1. OthersKept(r)
    BY StepOK DEF StepGoal
<1>2. CASE Fresh(o)
  <2>1. Fresh(o)' \/ Explained(o)
      BY <1>2, StepExplained
  <2>2. ASSUME Explained(o) PROVE Awaited(o)'
    <3>1. PICK q \in Requests : /\ pc'[q] # pc[q]
                                /\ arg[q].org = o
                                /\ \/ pc'[q] = "del"
                                   \/ pc[q] = "set" /\ list[q] # RowsOf(o)
        BY <2>2 DEF Explained
    <3>2. q = r
        BY <1>1, <3>1 DEF OthersKept
    <3> QED BY <3>1, <3>2 DEF Awaited
  <2> QED BY <2>1, <2>2 DEF Covered
<1>3. CASE Awaited(o)
    BY <1>1, <1>3, AwaitedKept DEF Covered
<1>4. CASE o \in lapsed
    BY <1>4 DEF Covered
<1> QED BY <1>2, <1>3, <1>4 DEF Covered

LEMMA StepCovered ==
    ASSUME Tables, MemoryOK, NEW r \in Requests, Local(r), ServiceStep(r) \/ Abort(r),
           NEW o \in Orgs, o \in live', Covered(o)
    PROVE  Covered(o)'
PROOF
<1>1. OthersKept(r)
    BY StepOK DEF StepGoal
<1>2. CASE SetList(r)
  <2>1. /\ pc[r] = "set" /\ pc'[r] = "idle"
        /\ lapsed' = IF list[r] = RowsOf(arg[r].org) \/ Awaited(arg[r].org)
                     THEN lapsed ELSE lapsed \cup {arg[r].org}
      BY <1>2 DEF SetList, Reply, Goto, MemoryOK
  <2>2. Awaited(o) => Awaited(o)'
      BY <1>1, <2>1, AwaitedKept
  <2>3. Fresh(o) => Fresh(o)' \/ Explained(o)
      BY StepExplained
  <2>4. ASSUME Explained(o) PROVE arg[r].org = o /\ list[r] # RowsOf(o)
    <3>1. PICK q \in Requests : /\ pc'[q] # pc[q]
                                /\ arg[q].org = o
                                /\ \/ pc'[q] = "del"
                                   \/ pc[q] = "set" /\ list[q] # RowsOf(o)
        BY <2>4 DEF Explained
    <3>2. q = r
        BY <1>1, <3>1 DEF OthersKept
    <3> QED BY <2>1, <3>1, <3>2
  <2> QED BY <2>1, <2>2, <2>3, <2>4 DEF Covered
<1>3. CASE InvalidateList(r)
  <2>1. /\ UNCHANGED projects
        /\ cache' = [cache EXCEPT ![arg[r].org] = Miss]
        /\ lapsed' = lapsed \ {arg[r].org}
      BY <1>3 DEF InvalidateList, CacheKey
  <2>2. CASE arg[r].org = o
    <3>1. cache'[o] = Miss
        BY <2>1, <2>2 DEF Tables
    <3> QED BY <3>1 DEF Covered, Fresh, CacheKey
  <2>3. CASE arg[r].org # o
    <3>1. cache'[o] = cache[o] /\ RowsOf(o)' = RowsOf(o)
        BY <2>1, <2>3 DEF Tables, RowsOf
    <3>2. Fresh(o) => Fresh(o)'
        BY <3>1, StaysFresh
    <3>3. Awaited(o) => Awaited(o)'
        BY <1>1, <2>3, AwaitedKept
    <3> QED BY <2>1, <2>3, <3>2, <3>3 DEF Covered
  <2> QED BY <2>2, <2>3
<1>4. CASE Abort(r)
  <2>1. /\ UNCHANGED <<projects, cache>>
        /\ lapsed' = IF pc[r] = "del" /\ ~Fresh(arg[r].org)
                     THEN lapsed \cup {arg[r].org} ELSE lapsed
      BY <1>4 DEF Abort
  <2>2. Fresh(o) => Fresh(o)'
      BY <2>1, StaysFresh DEF RowsOf
  <2>3. (pc[r] = "del" => arg[r].org # o) /\ Awaited(o) => Awaited(o)'
      BY <1>1, AwaitedKept
  <2>4. pc[r] = "del" /\ arg[r].org = o => Fresh(o) \/ o \in lapsed'
      BY <2>1
  <2> QED BY <2>1, <2>2, <2>3, <2>4 DEF Covered
<1>5. CASE \/ Arrive(r) \/ GetList(r) \/ FindList(r) \/ InsertProject(r)
           \/ LoadProject(r) \/ SaveProject(r) \/ UpdateProject(r)
           \/ ReinsertProject(r) \/ RemoveProject(r) \/ AddJob(r)
  <2>1. UNCHANGED lapsed /\ pc[r] \notin {"del", "set"}
      BY <1>5 DEF Arrive, GetList, FindList, InsertProject, LoadProject, SaveProject,
         UpdateProject, ReinsertProject, RemoveProject, AddJob, store
  <2>2. Reply(r) => pc'[r] = "idle"
      BY DEF Reply, Goto, MemoryOK
  <2>3. CASE Arrive(r)
    <3>1. PICK a \in Request : Goto(r, FirstCall(a.op))
        BY <2>3 DEF Arrive
    <3>2. FirstCall(a.op) \in {"get", "insert", "load"}
        BY RequestShape DEF FirstCall
    <3>3. pc'[r] # "del"
        BY <3>1, <3>2 DEF Goto, MemoryOK
    <3> QED BY <1>5, <2>1, <3>3, PlainStepCovered DEF ServiceStep
  <2>4. CASE ~Arrive(r)
    <3>1. Reply(r) \/ arg' = arg
        BY <1>5, <2>4 DEF GetList, FindList, InsertProject, LoadProject, SaveProject,
           UpdateProject, ReinsertProject, RemoveProject, AddJob
    <3> QED BY <1>5, <2>1, <2>2, <3>1, PlainStepCovered DEF ServiceStep
  <2> QED BY <2>3, <2>4
<1> QED BY <1>2, <1>3, <1>4, <1>5 DEF ServiceStep

LEMMA InitOK == Init => IInv
PROOF
    BY DEF Init, IInv, TypeOK, Points, Control, Holding, HoldingPoints,
           CachedListsAreTenantLocal, ProjectsStayInTheirTenant, CacheKey,
           StaleOnlyUntilInvalidated, Fresh

LEMMA NextOK == IInv /\ [Next]_vars => IInv'
PROOF
<1> SUFFICES ASSUME IInv, [Next]_vars PROVE IInv'
    OBVIOUS
<1>0. /\ Tables /\ MemoryOK /\ \A r \in Requests : Local(r)
      /\ \A o \in live : o \in Orgs /\ Covered(o)
    BY Parts DEF Tables, StaleOnlyUntilInvalidated, Covered
<1>1. SUFFICES /\ Tables' /\ MemoryOK' /\ \A r \in Requests : Local(r)'
               /\ \A o \in live' : Covered(o)'
    BY DEF IInv, Tables, MemoryOK, Local, TypeOK, StaleOnlyUntilInvalidated, Covered
<1>2. ASSUME NEW r \in Requests, ServiceStep(r) \/ Abort(r)
      PROVE  /\ Tables' /\ MemoryOK' /\ \A q \in Requests : Local(q)'
             /\ \A o \in live' : Covered(o)'
  <2>1. StepGoal(r)
      BY <1>0, <1>2, StepOK
  <2>2. ASSUME NEW q \in Requests, q # r PROVE Local(q)'
      BY <1>0, <2>1, <2>2, Framed DEF StepGoal, OthersKept
  <2>3. \A o \in live' : Covered(o)'
      BY <1>0, <1>2, LiveKept, StepCovered
  <2> QED BY <2>1, <2>2, <2>3 DEF StepGoal
<1>3. ASSUME Tables', OriginKept, UNCHANGED <<pc, arg, entity, list>>
      PROVE  Tables' /\ MemoryOK' /\ \A q \in Requests : Local(q)'
  <2>1. \A q \in Requests : Local(q)'
      BY <1>0, <1>3, Framed
  <2> QED BY <1>0, <1>3, <2>1 DEF MemoryOK
\* Nor does a step of the environment leave a list stale, if it leaves one.
<1>7. ASSUME NEW o \in live, NEW u \in Orgs, Awaited(o) => Awaited(o)',
             \/ o = u /\ cache'[u] = Miss
             \/ /\ cache'[o] = cache[o] /\ RowsOf(o)' = RowsOf(o)
                /\ o \in lapsed => o \in lapsed'
      PROVE  Covered(o)'
  <2>1. o \in Orgs /\ Covered(o)
      BY <1>0
  <2>2. Fresh(o) => Fresh(o)' \/ (o = u /\ cache'[u] = Miss)
      BY <1>7, <2>1, StaysFresh
  <2>3. cache'[o] = Miss => Fresh(o)'
      BY DEF Fresh, CacheKey
  <2> QED BY <1>7, <2>1, <2>2, <2>3 DEF Covered
<1>4. ASSUME NEW o \in Orgs, Expire(o)
      PROVE  /\ Tables' /\ MemoryOK' /\ \A q \in Requests : Local(q)'
             /\ \A u \in live' : Covered(u)'
  <2>1. \A u \in Orgs : cache'[u] \in {cache[u], Miss}
      BY <1>0, <1>4 DEF Expire, Tables
  <2>2. CachedListsAreTenantLocal'
      BY <1>0, <1>4, <2>1 DEF Expire, Tables, CachedListsAreTenantLocal, CacheKey
  <2>3. Tables' /\ OriginKept
      BY <1>0, <1>4, <2>2 DEF Expire, Tables, ProjectsStayInTheirTenant, OriginKept
  <2>4. ASSUME NEW u \in live PROVE Covered(u)'
    <3>1. Awaited(u) => Awaited(u)'
        BY <1>4 DEF Expire, Awaited
    <3>2. u # o => /\ cache'[u] = cache[u] /\ RowsOf(u)' = RowsOf(u)
                   /\ u \in lapsed => u \in lapsed'
        BY <1>0, <1>4 DEF Expire, Tables, RowsOf
    <3>3. cache'[o] = Miss
        BY <1>0, <1>4 DEF Expire, Tables
    <3> QED BY <1>7, <3>1, <3>2, <3>3
  <2> QED BY <1>3, <1>4, <2>3, <2>4 DEF Expire
<1>5. ASSUME NEW o \in Orgs, OrgDeleted(o)
      PROVE  /\ Tables' /\ MemoryOK' /\ \A q \in Requests : Local(q)'
             /\ \A u \in live' : Covered(u)'
  <2>1. /\ projects' \subseteq projects /\ live' \subseteq live
        /\ UNCHANGED <<origin, cache, jobs, pc, arg, entity, list, lapsed>>
      BY <1>5 DEF OrgDeleted
  <2>2. Tables'
      BY <1>0, <2>1, RowsOK DEF Tables, OriginKept, ProjectsStayInTheirTenant
  <2>3. ASSUME NEW u \in live' PROVE Covered(u)'
    <3>1. u \in live /\ RowsOf(u)' = RowsOf(u)
        BY <1>5, <2>3 DEF OrgDeleted, RowsOf
    <3>2. Awaited(u) => Awaited(u)'
        BY <2>1 DEF Awaited
    <3> QED BY <1>5, <1>7, <2>1, <3>1, <3>2
  <2> QED BY <1>3, <2>1, <2>2, <2>3 DEF OriginKept
<1>6. CASE UNCHANGED vars
  <2>1. UNCHANGED store /\ UNCHANGED <<pc, arg, entity, list>>
      BY <1>6 DEF vars, store
  <2>2. \A o \in live' : Covered(o)'
      BY <1>0, <2>1 DEF store, Covered, Fresh, RowsOf, CacheKey, Awaited
  <2> QED BY <1>0, <1>3, <2>1, <2>2, SameStore
<1> QED BY <1>2, <1>4, <1>5, <1>6 DEF Next, Service, Environment

LEMMA Invariance == Spec => []IInv
PROOF
    BY InitOK, NextOK, PTL DEF Spec

\* Table, cache and queue hold what they are declared to hold.
THEOREM TypeCorrect == Spec => []TypeOK
PROOF
<1>1. IInv => TypeOK
    BY DEF IInv
<1> QED BY <1>1, Invariance, PTL

\* A stale list of an organization that exists is about to be invalidated,
\* unless its invalidation got lost with its request or a fill came after it
\* with what it had read before the write.
THEOREM WritersInvalidate == Spec => []StaleOnlyUntilInvalidated
PROOF
<1>1. IInv => StaleOnlyUntilInvalidated
    BY DEF IInv
<1> QED BY <1>1, Invariance, PTL

\* However fills and writes interleave and fail, no organization is served a
\* project of another one from the cache, no write moves a project to another
\* organization, a re-insertion of a deleted row included, and no event about
\* it goes to another one's room.
THEOREM TenantIsolation == Spec => []TenantsStayApart
PROOF
<1>1. IInv => TenantsStayApart
    BY DEF IInv, TenantsStayApart
<1> QED BY <1>1, Invariance, PTL

\* A cached list turns stale only by a write whose request goes on to
\* invalidate it, by a fill that read before a write, or with its
\* organization.
THEOREM StalenessIsExplained == Spec => StalenessExplained
PROOF
<1>1. ASSUME IInv, [Next]_vars, NEW o \in Orgs, Fresh(o)
      PROVE  Fresh(o)' \/ Explained(o)
  <2>0. Tables /\ MemoryOK /\ \A r \in Requests : Local(r)
      BY <1>1, Parts
  <2>1. ASSUME NEW r \in Requests, ServiceStep(r) \/ Abort(r)
        PROVE  Fresh(o)' \/ Explained(o)
      BY <1>1, <2>0, <2>1, StepExplained
  <2>2. ASSUME NEW u \in Orgs, Expire(u) PROVE Fresh(o)'
    <3>1. cache'[o] = Miss \/ (cache'[o] = cache[o] /\ RowsOf(o)' = RowsOf(o))
        BY <2>0, <2>2 DEF Expire, Tables, RowsOf
    <3> QED BY <1>1, <3>1, StaysFresh
  <2>3. ASSUME NEW u \in Orgs, OrgDeleted(u) PROVE Fresh(o)' \/ Explained(o)
    <3>1. CASE u = o
        BY <2>3, <3>1 DEF OrgDeleted, Explained
    <3>2. CASE u # o
      <4>1. cache'[o] = cache[o] /\ RowsOf(o)' = RowsOf(o)
          BY <2>3, <3>2 DEF OrgDeleted, RowsOf
      <4> QED BY <1>1, <4>1, StaysFresh
    <3> QED BY <3>1, <3>2
  <2>4. CASE UNCHANGED vars
      BY <1>1, <2>4, StaysFresh DEF vars, RowsOf
  <2> QED BY <1>1, <2>1, <2>2, <2>3, <2>4 DEF Next, Service, Environment
<1>2. IInv /\ [Next]_vars =>
        [\A o \in Orgs : Fresh(o) /\ ~Fresh(o)' =>
          \/ o \notin live'
          \/ \E r \in Requests :
                /\ pc'[r] # pc[r]
                /\ arg[r].org = o
                /\ \/ pc'[r] = "del"
                   \/ pc[r] = "set" /\ list[r] # RowsOf(o)]_vars
    BY <1>1 DEF Explained
<1> QED BY <1>2, Invariance, PTL DEF Spec, StalenessExplained
=============================================================================
