------------------------------- MODULE Tasks -------------------------------
(***************************************************************************)
(* The tasks service (backend/src/tasks/tasks.service.ts): the table of    *)
(* tasks and the 'task.assigned' jobs, with projects that are deleted and  *)
(* re-inserted by the projects service meanwhile.                          *)
(*                                                                         *)
(* Every handler looks the project up in the organization of the path, and *)
(* from then on works with the project's id alone.  pc[r] names the call   *)
(* request r makes next; a request arrives once the guards admitted it.    *)
(* The columns of a task that differ in type only are one, its status.     *)
(***************************************************************************)
EXTENDS FiniteSets

CONSTANTS
    Orgs,       \* ids of the organizations
    ProjectIds, \* ids of the projects
    TaskIds,    \* the uuids the database may draw for tasks (bound)
    Users,      \* ids of the users
    Ghosts,     \* uuids that name no user
    Statuses,   \* contents of a task
    DefaultStatus, \* what a task has whose body gives none: TODO
    Requests,   \* requests in flight at one time (bound)
    NoUser,     \* no assignee, or none given
    NoRow       \* no row, no status given, no request

Task == [project: ProjectIds, assignee: Users \cup {NoUser}, status: Statuses]

Columns == {"assignee", "status"}

\* The loaded task after Object.assign, and whether it was assigned before:
\* loaded is its assignee relation; columns are those that save will UPDATE.
Entity == [id: TaskIds, project: ProjectIds, loaded: Users \cup {NoUser},
           assignee: Users \cup Ghosts \cup {NoUser}, status: Statuses,
           columns: SUBSET Columns]

Body == [assignee: Users \cup Ghosts \cup {NoUser}, status: Statuses \cup {NoRow}]

Request ==
         [op: {"create"}, org: Orgs, project: ProjectIds, body: Body]
    \cup [op: {"update"}, org: Orgs, project: ProjectIds, task: TaskIds, body: Body]
    \cup [op: {"delete"}, org: Orgs, project: ProjectIds, task: TaskIds]

Job == [task: TaskIds, org: Orgs, assignee: Users \cup Ghosts]

ASSUME NullAssumption ==
    /\ NoRow \notin Task \cup Entity \cup Request \cup ProjectIds \cup Statuses
    /\ NoUser \notin Users \cup Ghosts
    /\ Users \cap Ghosts = {}
    /\ DefaultStatus \in Statuses

Points == {"idle", "project", "insert", "find", "save", "update", "reinsert",
           "remove", "add"}

VARIABLES
    orgOf,  \* per project, its organization, for good
    live,   \* projects that exist: the target of the foreign key
    tasks,  \* table tasks: per id, a row or NoRow
    origin, \* history: per task id, the project it was created in, or NoRow
    jobs,   \* 'task.assigned' jobs added so far
    pc,     \* per request, the call it makes next
    arg,    \* per request, its parameters
    entity  \* per request, the task its handler holds in memory

store == <<orgOf, live, tasks, origin, jobs>>
vars  == <<orgOf, live, tasks, origin, jobs, pc, arg, entity>>

Init ==
    /\ orgOf \in [ProjectIds -> Orgs]
    /\ live = ProjectIds
    /\ tasks  = [t \in TaskIds |-> NoRow]
    /\ origin = [t \in TaskIds |-> NoRow]
    /\ jobs = {}
    /\ pc     = [r \in Requests |-> "idle"]
    /\ arg    = [r \in Requests |-> NoRow]
    /\ entity = [r \in Requests |-> NoRow]

-----------------------------------------------------------------------------
(* Request control.                                                        *)

Goto(r, point) == pc' = [pc EXCEPT ![r] = point]

Reply(r) ==
    /\ Goto(r, "idle")
    /\ arg'    = [arg EXCEPT ![r] = NoRow]
    /\ entity' = [entity EXCEPT ![r] = NoRow]

Arrive(r) ==
    /\ pc[r] = "idle"
    /\ \E a \in Request : arg' = [arg EXCEPT ![r] = a]
    /\ Goto(r, "project")
    /\ UNCHANGED <<orgOf, live, tasks, origin, jobs, entity>>

\* A mutant: the project is looked up by its id alone.
InPath_AnyTenant(r) == arg[r].project \in live

\* findOne({ id: projectId, organizationId: orgId }).
InPath(r) == arg[r].project \in live /\ orgOf[arg[r].project] = arg[r].org

\* getProject, which every handler begins with.
CheckProject(r) ==
    /\ pc[r] = "project"
    /\ \/ /\ InPath(r)
          /\ Goto(r, IF arg[r].op = "create" THEN "insert" ELSE "find")
          /\ UNCHANGED <<arg, entity>>
       \/ /\ ~InPath(r)
          /\ Reply(r)
    /\ UNCHANGED store

-----------------------------------------------------------------------------
(* create.                                                                 *)

Given(body, status) == IF body.status = NoRow THEN status ELSE body.status

\* A mutant: the task is stored without its project.
NewTask_NoProject(r) ==
    [project |-> NoRow, assignee |-> arg[r].body.assignee,
     status |-> Given(arg[r].body, DefaultStatus)]

NewTask(r) ==
    [project |-> arg[r].project, assignee |-> arg[r].body.assignee,
     status |-> Given(arg[r].body, DefaultStatus)]

\* The foreign keys to projects and users.
Insertable(project, assignee) == project \in live /\ assignee \notin Ghosts

\* Nobody is told of a task without an assignee.
InsertTask(r) ==
    LET a == arg[r] IN
    /\ pc[r] = "insert"
    /\ \/ /\ Insertable(a.project, a.body.assignee)
          /\ \E t \in TaskIds :
               /\ origin[t] = NoRow
               /\ origin' = [origin EXCEPT ![t] = a.project]
               /\ tasks' = [tasks EXCEPT ![t] = NewTask(r)]
               /\ \/ /\ a.body.assignee # NoUser
                     /\ entity' = [entity EXCEPT
                          ![r] = [id |-> t, project |-> a.project, loaded |-> NoUser,
                                  assignee |-> a.body.assignee,
                                  status |-> Given(a.body, DefaultStatus),
                                  columns |-> {}]]
                     /\ Goto(r, "add")
                     /\ UNCHANGED arg
                  \/ /\ a.body.assignee = NoUser
                     /\ Reply(r)
       \/ /\ ~Insertable(a.project, a.body.assignee)
          /\ Reply(r)
          /\ UNCHANGED <<tasks, origin>>
    /\ UNCHANGED <<orgOf, live, jobs>>

-----------------------------------------------------------------------------
(* update, delete.                                                         *)

\* A mutant: the task is looked up by its id alone.
Addressed_AnyProject(r) == {t \in {arg[r].task} : tasks[t] # NoRow}

\* findOne({ id: taskId, projectId }).
Addressed(r) ==
    {t \in {arg[r].task} : tasks[t] # NoRow /\ tasks[t].project = arg[r].project}

\* Object.assign(task, dto), and what was there before.
Loaded(r, t) ==
    LET row == tasks[t]
        body == IF arg[r].op = "update" THEN arg[r].body
                                        ELSE [assignee |-> NoUser, status |-> NoRow]
    IN [id |-> t, project |-> row.project, loaded |-> row.assignee,
        assignee |-> IF body.assignee = NoUser THEN row.assignee ELSE body.assignee,
        status |-> Given(body, row.status), columns |-> {}]

FindTask(r) ==
    /\ pc[r] = "find"
    /\ \/ \E t \in Addressed(r) :
            /\ entity' = [entity EXCEPT ![r] = Loaded(r, t)]
            /\ Goto(r, IF arg[r].op = "update" THEN "save" ELSE "remove")
            /\ UNCHANGED arg
       \/ /\ Addressed(r) = {}
          /\ Reply(r)
    /\ UNCHANGED store

\* dto.assigneeId && dto.assigneeId !== prevAssignee
Announces(r) == arg[r].body.assignee \notin {NoUser, entity[r].loaded}

\* After the save: queue.add if somebody new was assigned, or the answer.
Saved(r) ==
    \/ Announces(r) /\ Goto(r, "add") /\ UNCHANGED <<arg, entity>>
    \/ ~Announces(r) /\ Reply(r)

\* The columns in which a row differs from the entity in memory.
Differing(row, e) == {c \in Columns : row[c] # e[c]}

\* The entity has a column assigneeId, which the body may have set, and the
\* relation assignee, as it was loaded, if there was one: which of the two is
\* written where they differ is TypeORM's.
Written(e) == IF e.loaded = NoUser THEN {e.assignee} ELSE {e.loaded, e.assignee}

\* Repository.save looks the row up again.
SaveTask(r) ==
    LET row == tasks[entity[r].id] IN
    /\ pc[r] = "save"
    /\ \E assignee \in Written(entity[r]) :
         LET e == [entity[r] EXCEPT !.assignee = assignee] IN
         \/ /\ row # NoRow
            /\ Differing(row, e) # {}
            /\ entity' = [entity EXCEPT ![r] = [e EXCEPT !.columns = Differing(row, e)]]
            /\ Goto(r, "update")
            /\ UNCHANGED arg
         \/ /\ row # NoRow
            /\ Differing(row, e) = {}
            /\ Saved(r)
         \/ /\ row = NoRow
            /\ entity' = [entity EXCEPT ![r] = e]
            /\ Goto(r, "reinsert")
            /\ UNCHANGED arg
    /\ UNCHANGED store

\* UPDATE tasks SET ... WHERE id = ...: no row is fine, a ghost is not.
UpdateTask(r) ==
    LET e == entity[r]
        refused == "assignee" \in e.columns /\ e.assignee \in Ghosts
                       /\ tasks[e.id] # NoRow
    IN
    /\ pc[r] = "update"
    /\ \/ /\ ~refused
          /\ tasks' = [tasks EXCEPT
               ![e.id] = IF @ = NoRow THEN NoRow
                         ELSE [c \in DOMAIN @ |-> IF c \in e.columns THEN e[c] ELSE @[c]]]
          /\ Saved(r)
       \/ /\ refused
          /\ Reply(r)
          /\ UNCHANGED tasks
    /\ UNCHANGED <<orgOf, live, origin, jobs>>

\* INSERT of the whole entity.
ReinsertTask(r) ==
    LET e == entity[r]
        insertable == tasks[e.id] = NoRow /\ Insertable(e.project, e.assignee)
    IN
    /\ pc[r] = "reinsert"
    /\ \/ /\ insertable
          /\ tasks' = [tasks EXCEPT
               ![e.id] = [project |-> e.project, assignee |-> e.assignee,
                          status |-> e.status]]
          /\ Saved(r)
       \/ /\ ~insertable
          /\ Reply(r)
          /\ UNCHANGED tasks
    /\ UNCHANGED <<orgOf, live, origin, jobs>>

RemoveTask(r) ==
    /\ pc[r] = "remove"
    /\ tasks' = [tasks EXCEPT ![entity[r].id] = NoRow]
    /\ Reply(r)
    /\ UNCHANGED <<orgOf, live, origin, jobs>>

\* notificationsQueue.add('task.assigned').
AddJob(r) ==
    /\ pc[r] = "add"
    /\ jobs' = jobs \cup
         {[task |-> entity[r].id, org |-> arg[r].org, assignee |-> arg[r].body.assignee]}
    /\ Reply(r)
    /\ UNCHANGED <<orgOf, live, tasks, origin>>

-----------------------------------------------------------------------------
(* What happens to the service.                                            *)

\* A call of the request fails, or its process dies, before the call.
Abort(r) ==
    /\ pc[r] # "idle"
    /\ Reply(r)
    /\ UNCHANGED store

\* ProjectsService.delete, or the deletion of the organization: the database
\* cascades to the tasks.
ProjectDeleted(p) ==
    /\ p \in live
    /\ live' = live \ {p}
    /\ tasks' = [t \in TaskIds |->
         IF tasks[t] # NoRow /\ tasks[t].project = p THEN NoRow ELSE tasks[t]]
    /\ UNCHANGED <<orgOf, origin, jobs, pc, arg, entity>>

\* ProjectsService.update of a project that was deleted meanwhile: save
\* re-inserts it, in its organization, without its tasks.
ProjectReinserted(p) ==
    /\ p \notin live
    /\ live' = live \cup {p}
    /\ UNCHANGED <<orgOf, tasks, origin, jobs, pc, arg, entity>>

RequestStep(r) ==
    \/ Arrive(r) \/ CheckProject(r)
    \/ InsertTask(r)
    \/ FindTask(r) \/ SaveTask(r) \/ UpdateTask(r) \/ ReinsertTask(r) \/ RemoveTask(r)
    \/ AddJob(r)
    \/ Abort(r)

Next ==
    \/ \E r \in Requests : RequestStep(r)
    \/ \E p \in ProjectIds : ProjectDeleted(p) \/ ProjectReinserted(p)

Spec == Init /\ [][Next]_vars

-----------------------------------------------------------------------------
(* Properties.                                                             *)

\* Tables, queue and requests hold what they are declared to hold.
TypeOK ==
    /\ orgOf \in [ProjectIds -> Orgs]
    /\ live \subseteq ProjectIds
    /\ tasks \in [TaskIds -> Task \cup {NoRow}]
    /\ origin \in [TaskIds -> ProjectIds \cup {NoRow}]
    /\ jobs \subseteq Job
    /\ pc \in [Requests -> Points]
    /\ arg \in [Requests -> Request \cup {NoRow}]
    /\ entity \in [Requests -> Entity \cup {NoRow}]

\* A task stays in the project it was created in, and is gone with it: also
\* when a request that found the project writes after the cascade, and when
\* the project comes back.
TasksStayInTheirProject ==
    \A t \in TaskIds : tasks[t] # NoRow =>
        /\ tasks[t].project = origin[t]
        /\ origin[t] \in live

\* The organization a task belongs to.
TenantOf(t) == orgOf[origin[t]]

\* A task is written on behalf of its own organization only, or deleted with
\* its project: the project is checked once, before the task is even looked
\* up, and everything after goes by ids of the path.
OnlyOwnTenantWrites ==
    [][\A t \in TaskIds : tasks'[t] # tasks[t] =>
          \/ origin[t] \in live \ live'
          \/ \E r \in Requests :
               /\ pc[r] \in {"insert", "update", "reinsert", "remove"}
               /\ arg[r].org = TenantOf(t)'
               /\ arg[r].project = origin'[t]]_vars

\* The room that hears of an assignment is that of the task's organization.
AnnouncedToOwnTenant == \A j \in jobs : j.org = TenantOf(j.task)

\* A task lives and dies in one project, and only the organization of that
\* project hears of it, though the project was checked before anything else
\* and may be gone, and back, by then.
TasksStayHome == TasksStayInTheirProject /\ AnnouncedToOwnTenant

-----------------------------------------------------------------------------
(* The inductive invariant behind the theorems of Tasks_proofs.            *)

\* A request makes the calls of its own endpoint, and past the check works
\* in a project of its organization.
Control(r) ==
    /\ pc[r] # "idle" => arg[r] \in Request
    /\ pc[r] \notin {"idle", "project"} => orgOf[arg[r].project] = arg[r].org
    /\ pc[r] = "insert" => arg[r].op = "create"
    /\ pc[r] = "find" => arg[r].op \in {"update", "delete"}
    /\ pc[r] \in {"save", "update", "reinsert"} => arg[r].op = "update"
    /\ pc[r] = "add" => arg[r].op \in {"create", "update"}

\* What a handler holds was created in the project of its path; whom it
\* announces was named in its body.
Holds(r) ==
    pc[r] \in {"save", "update", "reinsert", "remove", "add"} =>
        /\ entity[r] \in Entity
        /\ origin[entity[r].id] = arg[r].project
        /\ entity[r].project = arg[r].project
        /\ pc[r] = "add" => arg[r].body.assignee # NoUser

IInv ==
    /\ TypeOK
    /\ \A r \in Requests : Control(r) /\ Holds(r)
    /\ TasksStayInTheirProject
    /\ \A j \in jobs : origin[j.task] # NoRow
    /\ AnnouncedToOwnTenant
=============================================================================
