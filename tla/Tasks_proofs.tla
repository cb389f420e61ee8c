--------------------------- MODULE Tasks_proofs ---------------------------
(***************************************************************************)
(* Theorems about Tasks, for any number of organizations, projects, tasks  *)
(* and concurrent requests.                                                *)
(***************************************************************************)
EXTENDS Tasks, TLAPS

Tables ==
    /\ orgOf \in [ProjectIds -> Orgs]
    /\ live \subseteq ProjectIds
    /\ tasks \in [TaskIds -> Task \cup {NoRow}]
    /\ origin \in [TaskIds -> ProjectIds \cup {NoRow}]
    /\ TasksStayInTheirProject

Queue ==
    /\ jobs \subseteq Job
    /\ \A j \in jobs : origin[j.task] # NoRow
    /\ AnnouncedToOwnTenant

MemoryOK ==
    /\ pc \in [Requests -> Points]
    /\ arg \in [Requests -> Request \cup {NoRow}]
    /\ entity \in [Requests -> Entity \cup {NoRow}]

Local(r) == Control(r) /\ Holds(r)

\* Projects keep their organization, tasks the project they were created in.
OriginsKept ==
    /\ orgOf' = orgOf
    /\ \A t \in TaskIds : origin[t] # NoRow => origin'[t] = origin[t]

OthersKept(r) ==
    \A q \in Requests \ {r} :
        pc'[q] = pc[q] /\ arg'[q] = arg[q] /\ entity'[q] = entity[q]

\* What a step of request r establishes and keeps.
Sound(r) == Tables' /\ Queue' /\ MemoryOK' /\ Local(r)' /\ OriginsKept /\ OthersKept(r)

LEMMA Parts ==
    IInv <=> Tables /\ Queue /\ MemoryOK /\ \A r \in Requests : Local(r)
PROOF
    BY DEF IInv, Tables, Queue, MemoryOK, Local, TypeOK

LEMMA RequestShape ==
    ASSUME NEW a \in Request
    PROVE  /\ a # NoRow /\ a.op \in {"create", "update", "delete"}
           /\ a.org \in Orgs /\ a.project \in ProjectIds
           /\ a.op # "delete" => a.body \in Body
           /\ a.op # "create" => a.task \in TaskIds
PROOF
    BY NullAssumption DEF Request

LEMMA EntityShape ==
    ASSUME NEW e \in Entity
    PROVE  /\ e # NoRow /\ e.id \in TaskIds /\ e.project \in ProjectIds
           /\ e.loaded \in Users \cup {NoUser}
           /\ e.assignee \in Users \cup Ghosts \cup {NoUser}
           /\ e.status \in Statuses /\ e.columns \subseteq Columns
PROOF
    BY NullAssumption DEF Entity

LEMMA TaskShape ==
    ASSUME NEW row \in Task
    PROVE  /\ row # NoRow /\ row.project \in ProjectIds
           /\ row.assignee \in Users \cup {NoUser} /\ row.status \in Statuses
           /\ DOMAIN row = {"project", "assignee", "status"}
           /\ row = [project |-> row.project, assignee |-> row.assignee, status |-> row.status]
PROOF
    BY NullAssumption DEF Task

LEMMA GivenShape ==
    ASSUME NEW body \in Body, NEW status \in Statuses
    PROVE  Given(body, status) \in Statuses
PROOF
    BY DEF Body, Given

\* The rules a write of the table has to obey, and that suffice.
LEMMA Write ==
    ASSUME Tables, orgOf' = orgOf, live' = live,
           NEW t \in TaskIds, NEW row \in Task \cup {NoRow},
           tasks' = [tasks EXCEPT ![t] = row],
           \/ origin' = origin
           \/ /\ origin[t] = NoRow
              /\ \E p \in ProjectIds : origin' = [origin EXCEPT ![t] = p],
           row # NoRow => row.project = origin'[t] /\ origin'[t] \in live
    PROVE  Tables'
PROOF
<1>1. /\ orgOf' \in [ProjectIds -> Orgs] /\ live' \subseteq ProjectIds
      /\ tasks' \in [TaskIds -> Task \cup {NoRow}]
      /\ origin' \in [TaskIds -> ProjectIds \cup {NoRow}]
    BY DEF Tables
<1>2. TasksStayInTheirProject'
  <2> SUFFICES ASSUME NEW u \in TaskIds, tasks'[u] # NoRow
               PROVE  tasks'[u].project = origin'[u] /\ origin'[u] \in live'
      BY DEF TasksStayInTheirProject
  <2>1. CASE u = t
      BY <2>1 DEF Tables
  <2>2. CASE u # t
      BY <2>2 DEF Tables, TasksStayInTheirProject
  <2> QED BY <2>1, <2>2
<1> QED BY <1>1, <1>2 DEF Tables

\* Jobs are not disturbed by anything but the queue.
LEMMA QueueKept ==
    ASSUME Queue, jobs' = jobs, OriginsKept
    PROVE  Queue'
PROOF
    BY DEF Queue, OriginsKept, AnnouncedToOwnTenant, TenantOf, Job

\* What a request holds survives the steps of the others.
LEMMA Framed ==
    ASSUME OriginsKept, NEW r \in Requests, OthersKept(r),
           NEW q \in Requests \ {r}, Local(q)
    PROVE  Local(q)'
PROOF
<1>1. pc'[q] = pc[q] /\ arg'[q] = arg[q] /\ entity'[q] = entity[q] /\ orgOf' = orgOf
    BY DEF OthersKept, OriginsKept
<1>2. Control(q)'
    BY <1>1 DEF Local, Control
<1>3. Holds(q)'
  <2> SUFFICES ASSUME pc[q] \in {"save", "update", "reinsert", "remove", "add"}
               PROVE  Holds(q)'
      BY <1>1 DEF Holds
  <2>1. /\ entity[q] \in Entity /\ origin[entity[q].id] = arg[q].project
        /\ entity[q].project = arg[q].project
        /\ pc[q] = "add" => arg[q].body.assignee # NoUser
      BY DEF Local, Holds
  <2>2. arg[q].project # NoRow
      BY <2>1, EntityShape, NullAssumption
  <2>3. origin'[entity[q].id] = arg[q].project
      BY <2>1, <2>2, EntityShape DEF OriginsKept
  <2> QED BY <1>1, <2>1, <2>3 DEF Holds
<1> QED BY <1>2, <1>3 DEF Local

LEMMA Composed ==
    ASSUME IInv, NEW r \in Requests, Sound(r)
    PROVE  IInv'
PROOF
<1>1. \A q \in Requests \ {r} : Local(q)'
    BY Parts, Framed DEF Sound
<1> QED BY <1>1 DEF Sound, IInv, Tables, Queue, MemoryOK, Local, TypeOK

LEMMA Replied ==
    ASSUME MemoryOK, NEW r \in Requests, Reply(r)
    PROVE  MemoryOK' /\ Local(r)' /\ OthersKept(r)
PROOF
    BY DEF MemoryOK, Reply, Goto, Local, Control, Holds, Points, OthersKept

\* A reply that leaves the store alone.
LEMMA Answered ==
    ASSUME IInv, NEW r \in Requests, Reply(r), UNCHANGED store
    PROVE  Sound(r)
PROOF
<1>1. Tables' /\ OriginsKept
    BY Parts DEF Tables, store, TasksStayInTheirProject, OriginsKept
<1> QED BY <1>1, Parts, Replied, QueueKept DEF Sound, store

\* A step of request r that stays within the handler and leaves the store.
LEMMA Moved ==
    ASSUME IInv, NEW r \in Requests, UNCHANGED store,
           NEW point \in Points, Goto(r, point), Local(r)',
           \/ UNCHANGED arg
           \/ \E a \in Request : arg' = [arg EXCEPT ![r] = a],
           \/ UNCHANGED entity
           \/ \E e \in Entity : entity' = [entity EXCEPT ![r] = e]
    PROVE  Sound(r)
PROOF
<1>1. Tables' /\ OriginsKept
    BY Parts DEF Tables, store, TasksStayInTheirProject, OriginsKept
<1>2. MemoryOK' /\ OthersKept(r)
    BY Parts DEF MemoryOK, OthersKept, Goto
<1> QED BY <1>1, <1>2, Parts, QueueKept DEF Sound, store

LEMMA ArriveOK ==
    ASSUME IInv, NEW r \in Requests, Arrive(r)
    PROVE  Sound(r)
PROOF
<1>1. pc'[r] = "project" /\ arg'[r] \in Request
    BY Parts DEF Arrive, Goto, MemoryOK
<1>2. Local(r)'
    BY <1>1 DEF Local, Control, Holds
<1> QED BY <1>2, Moved DEF Arrive, store, Points

LEMMA CheckProjectOK ==
    ASSUME IInv, NEW r \in Requests, CheckProject(r)
    PROVE  Sound(r)
PROOF
<1>1. CASE Reply(r)
    BY <1>1, Answered DEF CheckProject
<1>2. CASE ~Reply(r)
  <2> DEFINE point == IF arg[r].op = "create" THEN "insert" ELSE "find"
  <2>1. InPath(r) /\ Goto(r, point) /\ UNCHANGED <<arg, entity>> /\ UNCHANGED store
      BY <1>2 DEF CheckProject
  <2>2. arg[r] \in Request /\ pc'[r] = point /\ arg'[r] = arg[r] /\ orgOf' = orgOf
      BY <2>1, Parts DEF CheckProject, Local, Control, Goto, MemoryOK, store
  <2>3. Local(r)'
      BY <2>1, <2>2, RequestShape DEF Local, Control, Holds, InPath
  <2>4. point \in Points
      BY DEF Points
  <2> QED BY <2>1, <2>3, <2>4, Moved
<1> QED BY <1>1, <1>2

LEMMA InsertTaskOK ==
    ASSUME IInv, NEW r \in Requests, InsertTask(r)
    PROVE  Sound(r)
PROOF
<1> DEFINE a == arg[r]
<1>0. Tables /\ Queue /\ MemoryOK /\ Local(r)
    BY Parts
<1>1. /\ a \in Request /\ a.op = "create" /\ a.project \in ProjectIds /\ a.body \in Body
      /\ pc[r] = "insert" /\ orgOf[a.project] = a.org
    BY <1>0, RequestShape DEF InsertTask, Local, Control
<1>2. CASE UNCHANGED <<tasks, origin>> /\ Reply(r)
    BY <1>2, Answered DEF InsertTask, store
<1>3. ASSUME Insertable(a.project, a.body.assignee), NEW t \in TaskIds,
             origin[t] = NoRow, origin' = [origin EXCEPT ![t] = a.project],
             tasks' = [tasks EXCEPT ![t] = NewTask(r)]
      PROVE  Tables' /\ Queue' /\ OriginsKept
  <2>1. NewTask(r) \in Task /\ NewTask(r).project = a.project
      BY <1>1, <1>3, GivenShape, NullAssumption DEF NewTask, Task, Insertable, Body
  <2>2. origin'[t] = a.project /\ a.project \in live
      BY <1>0, <1>3 DEF Tables, Insertable
  <2>3. Tables'
      BY <1>0, <1>1, <1>3, <2>1, <2>2, Write DEF InsertTask
  <2>4. OriginsKept
      BY <1>0, <1>3 DEF InsertTask, OriginsKept, Tables
  <2> QED BY <1>0, <2>3, <2>4, QueueKept DEF InsertTask
<1>4. ASSUME NEW t \in TaskIds, origin' = [origin EXCEPT ![t] = a.project],
             a.body.assignee # NoUser, Goto(r, "add"), UNCHANGED arg,
             entity' = [entity EXCEPT
                ![r] = [id |-> t, project |-> a.project, loaded |-> NoUser,
                        assignee |-> a.body.assignee,
                        status |-> Given(a.body, DefaultStatus), columns |-> {}]]
      PROVE  MemoryOK' /\ Local(r)' /\ OthersKept(r)
  <2> DEFINE e == [id |-> t, project |-> a.project, loaded |-> NoUser,
                   assignee |-> a.body.assignee,
                   status |-> Given(a.body, DefaultStatus), columns |-> {}]
  <2>1. e \in Entity /\ e.id = t /\ e.project = a.project
      BY <1>1, GivenShape, NullAssumption DEF Entity, Body
  <2> HIDE DEF e
  <2>2. entity' = [entity EXCEPT ![r] = e]
      BY <1>4 DEF e
  <2>3. MemoryOK' /\ OthersKept(r)
      BY <1>0, <1>4, <2>1, <2>2 DEF MemoryOK, OthersKept, Goto, Points
  <2>4. pc'[r] = "add" /\ arg'[r] = a /\ entity'[r] = e /\ origin'[t] = a.project
      BY <1>0, <1>4, <2>2 DEF MemoryOK, Goto, Tables
  <2>5. Local(r)'
      BY <1>1, <1>4, <2>1, <2>4 DEF Local, Control, Holds, InsertTask
  <2> QED BY <2>3, <2>5
<1>5. CASE ~(UNCHANGED <<tasks, origin>> /\ Reply(r))
  <2>1. PICK t \in TaskIds :
          /\ Insertable(a.project, a.body.assignee)
          /\ origin[t] = NoRow /\ origin' = [origin EXCEPT ![t] = a.project]
          /\ tasks' = [tasks EXCEPT ![t] = NewTask(r)]
          /\ \/ /\ a.body.assignee # NoUser
                /\ entity' = [entity EXCEPT
                     ![r] = [id |-> t, project |-> a.project, loaded |-> NoUser,
                             assignee |-> a.body.assignee,
                             status |-> Given(a.body, DefaultStatus), columns |-> {}]]
                /\ Goto(r, "add") /\ UNCHANGED arg
             \/ Reply(r)
      BY <1>5 DEF InsertTask
  <2>2. Tables' /\ Queue' /\ OriginsKept
      BY <1>3, <2>1
  <2>3. MemoryOK' /\ Local(r)' /\ OthersKept(r)
      BY <1>0, <1>4, <2>1, Replied
  <2> QED BY <2>2, <2>3 DEF Sound
<1> QED BY <1>2, <1>5

LEMMA FindTaskOK ==
    ASSUME IInv, NEW r \in Requests, FindTask(r)
    PROVE  Sound(r)
PROOF
<1>0. Tables /\ MemoryOK /\ Local(r)
    BY Parts
<1>1. /\ arg[r] \in Request /\ pc[r] = "find" /\ arg[r].op \in {"update", "delete"}
      /\ orgOf[arg[r].project] = arg[r].org /\ arg[r].task \in TaskIds
    BY <1>0, RequestShape DEF FindTask, Local, Control
<1>2. CASE Reply(r)
    BY <1>2, Answered DEF FindTask
<1>3. CASE ~Reply(r)
  <2> DEFINE point == IF arg[r].op = "update" THEN "save" ELSE "remove"
  <2>1. PICK t \in Addressed(r) :
            /\ entity' = [entity EXCEPT ![r] = Loaded(r, t)]
            /\ Goto(r, point) /\ UNCHANGED arg
      BY <1>3 DEF FindTask
  <2>2. t \in TaskIds /\ tasks[t] \in Task /\ tasks[t].project = arg[r].project
      BY <1>0, <1>1, <2>1 DEF Addressed, Tables
  <2>3. origin[t] = arg[r].project
      BY <1>0, <2>2, TaskShape DEF Tables, TasksStayInTheirProject
  <2>4. Loaded(r, t) \in Entity /\ Loaded(r, t).id = t
          /\ Loaded(r, t).project = arg[r].project
    <3> DEFINE body == IF arg[r].op = "update" THEN arg[r].body
                                               ELSE [assignee |-> NoUser, status |-> NoRow]
               assigned == IF body.assignee = NoUser THEN tasks[t].assignee ELSE body.assignee
    <3>1. body \in Body
        BY <1>1, RequestShape DEF Body
    <3>2. body.assignee \in Users \cup Ghosts \cup {NoUser}
        BY <3>1 DEF Body
    <3> HIDE DEF body
    <3>3. Given(body, tasks[t].status) \in Statuses /\ assigned \in Users \cup Ghosts \cup {NoUser}
        BY <2>2, <3>1, <3>2, TaskShape, GivenShape
    <3>4. Loaded(r, t) = [id |-> t, project |-> tasks[t].project, loaded |-> tasks[t].assignee,
                          assignee |-> assigned, status |-> Given(body, tasks[t].status),
                          columns |-> {}]
        BY DEF Loaded, body
    <3> HIDE DEF assigned
    <3> QED BY <2>2, <3>3, <3>4, TaskShape DEF Entity
  <2>5. pc'[r] = point /\ arg'[r] = arg[r] /\ entity'[r] = Loaded(r, t)
          /\ origin' = origin /\ orgOf' = orgOf
      BY <1>0, <2>1 DEF FindTask, Goto, MemoryOK, store
  <2>6. Local(r)'
    <3> HIDE DEF point
    <3>1. \/ point = "save" /\ arg[r].op = "update"
          \/ point = "remove" /\ arg[r].op = "delete"
        BY <1>1 DEF point
    <3>2. Control(r)'
        BY <1>1, <2>5, <3>1 DEF Control
    <3>3. Holds(r)'
        BY <2>3, <2>4, <2>5, <3>1 DEF Holds
    <3> QED BY <3>2, <3>3 DEF Local
  <2>7. point \in Points
      BY DEF Points
  <2> QED BY <2>1, <2>4, <2>6, <2>7, Moved DEF FindTask
<1> QED BY <1>2, <1>3

\* Past the save there is a job to add, or an answer.
LEMMA SavedOK ==
    ASSUME MemoryOK, OriginsKept, NEW r \in Requests, Local(r), Saved(r),
           pc[r] \in {"save", "update", "reinsert"}
    PROVE  MemoryOK' /\ Local(r)' /\ OthersKept(r)
PROOF
<1>1. CASE Reply(r)
    BY <1>1, Replied
<1>2. CASE Announces(r) /\ Goto(r, "add") /\ UNCHANGED <<arg, entity>>
  <2>1. MemoryOK' /\ OthersKept(r)
      BY <1>2 DEF MemoryOK, OthersKept, Goto, Points
  <2>2. pc'[r] = "add" /\ arg'[r] = arg[r] /\ entity'[r] = entity[r] /\ orgOf' = orgOf
      BY <1>2 DEF MemoryOK, Goto, OriginsKept
  <2>3. entity[r] \in Entity /\ origin[entity[r].id] = arg[r].project
          /\ entity[r].project = arg[r].project /\ arg[r].op = "update"
          /\ arg[r] \in Request /\ orgOf[arg[r].project] = arg[r].org
      BY DEF Local, Control, Holds
  <2>4. origin'[entity[r].id] = arg[r].project
      BY <2>3, EntityShape, NullAssumption DEF OriginsKept
  <2>5. Local(r)'
      BY <1>2, <2>2, <2>3, <2>4 DEF Local, Control, Holds, Announces
  <2> QED BY <2>1, <2>5
<1> QED BY <1>1, <1>2 DEF Saved

\* What a request that is past FindTask holds.
LEMMA Held ==
    ASSUME IInv, NEW r \in Requests, pc[r] \in {"save", "update", "reinsert", "remove"}
    PROVE  /\ arg[r] \in Request /\ orgOf[arg[r].project] = arg[r].org
           /\ entity[r] \in Entity /\ entity[r].id \in TaskIds
           /\ origin[entity[r].id] = arg[r].project
           /\ entity[r].project = arg[r].project /\ arg[r].project \in ProjectIds
PROOF
<1>1. Local(r)
    BY Parts
<1> QED BY <1>1, EntityShape, RequestShape DEF Local, Control, Holds

LEMMA SaveTaskOK ==
    ASSUME IInv, NEW r \in Requests, SaveTask(r)
    PROVE  Sound(r)
PROOF
<1>0. Tables /\ Queue /\ MemoryOK /\ Local(r) /\ pc[r] = "save" /\ UNCHANGED store
    BY Parts DEF SaveTask
<1>1. Tables' /\ Queue' /\ OriginsKept
  <2>1. Tables' /\ OriginsKept
      BY <1>0 DEF Tables, store, TasksStayInTheirProject, OriginsKept
  <2> QED BY <1>0, <2>1, QueueKept DEF store
<1>2. CASE Saved(r)
    BY <1>0, <1>1, <1>2, SavedOK DEF Sound
<1>3. CASE ~Saved(r)
  <2>1. PICK assignee \in Written(entity[r]), columns \in SUBSET Columns,
             point \in {"update", "reinsert"} :
            /\ \/ entity' = [entity EXCEPT
                     ![r] = [[entity[r] EXCEPT !.assignee = assignee] EXCEPT
                                !.columns = columns]]
               \/ entity' = [entity EXCEPT ![r] = [entity[r] EXCEPT !.assignee = assignee]]
            /\ Goto(r, point)
            /\ UNCHANGED arg
      BY <1>3 DEF SaveTask, Differing
  <2>2. assignee \in Users \cup Ghosts \cup {NoUser}
      BY <1>0, <2>1, Held, EntityShape DEF Written
  <2>3. PICK e \in Entity : /\ entity' = [entity EXCEPT ![r] = e]
                            /\ e.id = entity[r].id /\ e.project = entity[r].project
    <3>1. [[entity[r] EXCEPT !.assignee = assignee] EXCEPT !.columns = columns] \in Entity
        BY <1>0, <2>2, Held DEF Entity
    <3>2. [entity[r] EXCEPT !.assignee = assignee] \in Entity
        BY <1>0, <2>2, Held DEF Entity
    <3>3. /\ [[entity[r] EXCEPT !.assignee = assignee] EXCEPT !.columns = columns].id
                = entity[r].id
          /\ [[entity[r] EXCEPT !.assignee = assignee] EXCEPT !.columns = columns].project
                = entity[r].project
          /\ [entity[r] EXCEPT !.assignee = assignee].id = entity[r].id
          /\ [entity[r] EXCEPT !.assignee = assignee].project = entity[r].project
        BY <1>0, Held DEF Entity
    <3> QED BY <2>1, <3>1, <3>2, <3>3
  <2>4. /\ pc'[r] = point /\ arg'[r] = arg[r] /\ entity'[r] = e
        /\ origin' = origin /\ orgOf' = orgOf
      BY <1>0, <2>1, <2>3 DEF Goto, MemoryOK, store
  <2>5. Local(r)'
      BY <1>0, <2>1, <2>3, <2>4, Held DEF Local, Control, Holds
  <2> QED BY <1>0, <2>1, <2>3, <2>5, Moved DEF Points
<1> QED BY <1>2, <1>3

LEMMA UpdateTaskOK ==
    ASSUME IInv, NEW r \in Requests, UpdateTask(r)
    PROVE  Sound(r)
PROOF
<1> DEFINE e == entity[r]
           row == tasks[e.id]
<1>0. Tables /\ Queue /\ MemoryOK /\ Local(r) /\ pc[r] = "update"
    BY Parts DEF UpdateTask
<1>1. CASE Reply(r) /\ UNCHANGED tasks
    BY <1>1, Answered DEF UpdateTask, store
<1>2. CASE ~(Reply(r) /\ UNCHANGED tasks)
  <2> DEFINE new == IF row = NoRow THEN NoRow
                    ELSE [c \in DOMAIN row |-> IF c \in e.columns THEN e[c] ELSE row[c]]
  <2>1. /\ ~("assignee" \in e.columns /\ e.assignee \in Ghosts /\ row # NoRow)
        /\ tasks' = [tasks EXCEPT
             ![e.id] = IF @ = NoRow THEN NoRow
                       ELSE [c \in DOMAIN @ |-> IF c \in e.columns THEN e[c] ELSE @[c]]]
        /\ Saved(r)
        /\ UNCHANGED <<orgOf, live, origin, jobs>>
      BY <1>2 DEF UpdateTask
  <2>2. e \in Entity /\ e.id \in TaskIds /\ e.columns \subseteq Columns
          /\ e.assignee \in Users \cup Ghosts \cup {NoUser} /\ e.status \in Statuses
      BY <1>0, Held, EntityShape
  <2>3. row \in Task \cup {NoRow}
      BY <1>0, <2>2 DEF Tables
  <2>4. new \in Task \cup {NoRow} /\ (new # NoRow => row # NoRow /\ new.project = row.project)
    <3>1. CASE row = NoRow
        BY <3>1
    <3>2. CASE row # NoRow
      <4>1. row \in Task /\ DOMAIN row = {"project", "assignee", "status"}
              /\ row.project \in ProjectIds /\ row.assignee \in Users \cup {NoUser}
              /\ row.status \in Statuses
          BY <2>3, <3>2, TaskShape
      <4>2. new = [c \in {"project", "assignee", "status"} |->
                      IF c \in e.columns THEN e[c] ELSE row[c]]
          BY <3>2, <4>1
      <4> HIDE DEF new
      <4>3. "project" \notin e.columns
          BY <2>2 DEF Columns
      <4>4. /\ new = [project |-> new.project, assignee |-> new.assignee,
                      status |-> new.status]
            /\ new.project = row.project
            /\ new.assignee \in Users \cup {NoUser} /\ new.status \in Statuses
          BY <2>1, <2>2, <3>2, <4>1, <4>2, <4>3
      <4>5. new \in Task
          BY <4>1, <4>4 DEF Task
      <4> QED BY <3>2, <4>4, <4>5
    <3> QED BY <3>1, <3>2
  <2>5. tasks' = [tasks EXCEPT ![e.id] = new]
      BY <1>0, <2>1, <2>2 DEF Tables
  <2>6. new # NoRow => new.project = origin'[e.id] /\ origin'[e.id] \in live
      BY <1>0, <2>1, <2>2, <2>4 DEF Tables, TasksStayInTheirProject
  <2> HIDE DEF new
  <2>7. Tables'
      BY <1>0, <2>1, <2>2, <2>4, <2>5, <2>6, Write
  <2>8. OriginsKept
      BY <2>1 DEF OriginsKept
  <2> QED BY <1>0, <2>1, <2>7, <2>8, QueueKept, SavedOK DEF Sound
<1> QED BY <1>1, <1>2

LEMMA ReinsertTaskOK ==
    ASSUME IInv, NEW r \in Requests, ReinsertTask(r)
    PROVE  Sound(r)
PROOF
<1> DEFINE e == entity[r]
<1>0. Tables /\ Queue /\ MemoryOK /\ Local(r) /\ pc[r] = "reinsert"
    BY Parts DEF ReinsertTask
<1>1. CASE Reply(r) /\ UNCHANGED tasks
    BY <1>1, Answered DEF ReinsertTask, store
<1>2. CASE ~(Reply(r) /\ UNCHANGED tasks)
  <2> DEFINE new == [project |-> e.project, assignee |-> e.assignee, status |-> e.status]
  <2>1. /\ Insertable(e.project, e.assignee)
        /\ tasks' = [tasks EXCEPT ![e.id] = new]
        /\ Saved(r)
        /\ UNCHANGED <<orgOf, live, origin, jobs>>
      BY <1>2 DEF ReinsertTask
  <2>2. /\ e.id \in TaskIds /\ origin[e.id] = e.project /\ e.project \in ProjectIds
        /\ e.assignee \in Users \cup Ghosts \cup {NoUser} /\ e.status \in Statuses
      BY <1>0, Held, EntityShape
  <2>3. new \in Task /\ new.project = origin'[e.id] /\ origin'[e.id] \in live
      BY <2>1, <2>2 DEF Task, Insertable
  <2> HIDE DEF new
  <2>4. Tables'
      BY <1>0, <2>1, <2>2, <2>3, Write
  <2>5. OriginsKept
      BY <2>1 DEF OriginsKept
  <2> QED BY <1>0, <2>1, <2>4, <2>5, QueueKept, SavedOK DEF Sound
<1> QED BY <1>1, <1>2

LEMMA RemoveTaskOK ==
    ASSUME IInv, NEW r \in Requests, RemoveTask(r)
    PROVE  Sound(r)
PROOF
<1>0. Tables /\ Queue /\ MemoryOK /\ entity[r].id \in TaskIds
    BY Parts, Held DEF RemoveTask
<1>1. Tables' /\ OriginsKept
    BY <1>0, Write DEF RemoveTask, OriginsKept
<1> QED BY <1>0, <1>1, QueueKept, Replied DEF RemoveTask, Sound

LEMMA AddJobOK ==
    ASSUME IInv, NEW r \in Requests, AddJob(r)
    PROVE  Sound(r)
PROOF
<1> DEFINE job == [task |-> entity[r].id, org |-> arg[r].org, assignee |-> arg[r].body.assignee]
<1>0. Tables /\ Queue /\ MemoryOK /\ Local(r) /\ pc[r] = "add"
    BY Parts DEF AddJob
<1>1. /\ arg[r] \in Request /\ arg[r].op \in {"create", "update"}
      /\ orgOf[arg[r].project] = arg[r].org
      /\ entity[r] \in Entity /\ origin[entity[r].id] = arg[r].project
      /\ arg[r].body.assignee # NoUser
    BY <1>0 DEF Local, Control, Holds
<1>2. /\ arg[r].body.assignee \in Users \cup Ghosts /\ arg[r].org \in Orgs
      /\ arg[r].project # NoRow /\ entity[r].id \in TaskIds
    BY <1>1, RequestShape, EntityShape, NullAssumption DEF Body
<1>3. job \in Job /\ job.task = entity[r].id /\ job.org = arg[r].org
    BY <1>2 DEF Job
<1> HIDE DEF job
<1>4. jobs' = jobs \cup {job} /\ UNCHANGED <<orgOf, live, tasks, origin>>
    BY DEF AddJob, job
<1>5. Tables' /\ OriginsKept
    BY <1>0, <1>4 DEF Tables, TasksStayInTheirProject, OriginsKept
<1>6. Queue'
    BY <1>0, <1>1, <1>2, <1>3, <1>4 DEF Queue, AnnouncedToOwnTenant, TenantOf
<1> QED BY <1>0, <1>5, <1>6, Replied DEF AddJob, Sound

LEMMA StepOK ==
    ASSUME IInv, NEW r \in Requests, RequestStep(r)
    PROVE  Sound(r)
PROOF
<1>1. CASE Abort(r)
    BY <1>1, Answered DEF Abort
<1> QED BY <1>1, ArriveOK, CheckProjectOK, InsertTaskOK, FindTaskOK, SaveTaskOK,
           UpdateTaskOK, ReinsertTaskOK, RemoveTaskOK, AddJobOK DEF RequestStep

\* The cascade takes the tasks of a project with it.
LEMMA ProjectDeletedOK ==
    ASSUME IInv, NEW p \in ProjectIds, ProjectDeleted(p)
    PROVE  IInv'
PROOF
<1>0. Tables /\ Queue /\ MemoryOK /\ \A r \in Requests : Local(r)
    BY Parts
<1>1. /\ live' = live \ {p} /\ UNCHANGED <<orgOf, origin, jobs, pc, arg, entity>>
      /\ tasks' = [t \in TaskIds |->
            IF tasks[t] # NoRow /\ tasks[t].project = p THEN NoRow ELSE tasks[t]]
    BY DEF ProjectDeleted
<1>2. tasks' \in [TaskIds -> Task \cup {NoRow}]
    BY <1>0, <1>1 DEF Tables
<1>3. TasksStayInTheirProject'
    BY <1>0, <1>1 DEF Tables, TasksStayInTheirProject
<1>4. Tables'
    BY <1>0, <1>1, <1>2, <1>3 DEF Tables
<1>5. Queue'
    BY <1>0, <1>1, QueueKept DEF OriginsKept
<1>6. MemoryOK' /\ \A r \in Requests : Local(r)'
    BY <1>0, <1>1 DEF MemoryOK, Local, Control, Holds
<1> QED BY <1>4, <1>5, <1>6 DEF IInv, Tables, Queue, MemoryOK, Local, TypeOK

LEMMA ProjectReinsertedOK ==
    ASSUME IInv, NEW p \in ProjectIds, ProjectReinserted(p)
    PROVE  IInv'
PROOF
<1>0. Tables /\ Queue /\ MemoryOK /\ \A r \in Requests : Local(r)
    BY Parts
<1>1. live' = live \cup {p} /\ UNCHANGED <<orgOf, tasks, origin, jobs, pc, arg, entity>>
    BY DEF ProjectReinserted
<1>2. Tables'
    BY <1>0, <1>1 DEF Tables, TasksStayInTheirProject
<1>3. Queue'
    BY <1>0, <1>1, QueueKept DEF OriginsKept
<1>4. MemoryOK' /\ \A r \in Requests : Local(r)'
    BY <1>0, <1>1 DEF MemoryOK, Local, Control, Holds
<1> QED BY <1>2, <1>3, <1>4 DEF IInv, Tables, Queue, MemoryOK, Local, TypeOK

THEOREM Invariance == Spec => []IInv
PROOF
<1>1. Init => IInv
    BY NullAssumption DEF Init, IInv, TypeOK, Points, Control, Holds,
       TasksStayInTheirProject, AnnouncedToOwnTenant
<1>2. IInv /\ [Next]_vars => IInv'
  <2> SUFFICES ASSUME IInv, [Next]_vars PROVE IInv'
      OBVIOUS
  <2>1. CASE UNCHANGED vars
      BY <2>1 DEF vars, IInv, TypeOK, Control, Holds, TasksStayInTheirProject,
         AnnouncedToOwnTenant, TenantOf
  <2>2. ASSUME NEW r \in Requests, RequestStep(r) PROVE IInv'
      BY <2>2, StepOK, Composed
  <2>3. ASSUME NEW p \in ProjectIds, ProjectDeleted(p) \/ ProjectReinserted(p) PROVE IInv'
      BY <2>3, ProjectDeletedOK, ProjectReinsertedOK
  <2> QED BY <2>1, <2>2, <2>3 DEF Next
<1> QED BY <1>1, <1>2, PTL DEF Spec

\* Tables, queue and requests hold what they are declared to hold.
THEOREM TypeCorrect == Spec => []TypeOK
PROOF
<1>1. IInv => TypeOK
    BY DEF IInv
<1> QED BY <1>1, Invariance, PTL

\* A task stays in the project it was created in, is gone with it, and an
\* assignment is announced to the organization of the task.
THEOREM TaskHome == Spec => []TasksStayHome
PROOF
<1>1. IInv => TasksStayHome
    BY DEF IInv, TasksStayHome
<1> QED BY <1>1, Invariance, PTL

\* A task changes on behalf of its own organization, or with its project.
LEMMA WriteStep ==
    ASSUME IInv, [Next]_vars, NEW t \in TaskIds, tasks'[t] # tasks[t]
    PROVE  \/ origin[t] \in live \ live'
           \/ \E r \in Requests :
                /\ pc[r] \in {"insert", "update", "reinsert", "remove"}
                /\ arg[r].org = TenantOf(t)'
                /\ arg[r].project = origin'[t]
PROOF
<1>0. Tables /\ Queue /\ MemoryOK /\ \A r \in Requests : Local(r)
    BY Parts
<1>1. ASSUME NEW r \in Requests, InsertTask(r)
      PROVE  arg[r].org = TenantOf(t)' /\ arg[r].project = origin'[t] /\ pc[r] = "insert"
  <2>1. PICK u \in TaskIds : /\ origin' = [origin EXCEPT ![u] = arg[r].project]
                             /\ tasks' = [tasks EXCEPT ![u] = NewTask(r)]
      BY <1>1 DEF InsertTask
  <2>2. t = u
      BY <1>0, <2>1 DEF Tables
  <2>3. origin'[t] = arg[r].project
      BY <1>0, <2>1, <2>2 DEF Tables
  <2>4. orgOf' = orgOf /\ orgOf[arg[r].project] = arg[r].org /\ pc[r] = "insert"
      BY <1>0, <1>1 DEF InsertTask, Local, Control
  <2> QED BY <2>3, <2>4 DEF TenantOf
<1>2. ASSUME NEW r \in Requests, UpdateTask(r) \/ ReinsertTask(r) \/ RemoveTask(r)
      PROVE  /\ arg[r].org = TenantOf(t)' /\ arg[r].project = origin'[t]
             /\ pc[r] \in {"update", "reinsert", "remove"}
  <2>1. pc[r] \in {"update", "reinsert", "remove"} /\ UNCHANGED <<orgOf, origin>>
      BY <1>2 DEF UpdateTask, ReinsertTask, RemoveTask
  <2>2. t = entity[r].id
      BY <1>0, <1>2 DEF UpdateTask, ReinsertTask, RemoveTask, Tables
  <2> QED BY <2>1, <2>2, Held DEF TenantOf
<1>3. ASSUME NEW p \in ProjectIds, ProjectDeleted(p)
      PROVE  origin[t] \in live \ live'
    BY <1>0, <1>3 DEF ProjectDeleted, Tables, TasksStayInTheirProject
<1>4. \/ \E r \in Requests : InsertTask(r) \/ UpdateTask(r) \/ ReinsertTask(r) \/ RemoveTask(r)
      \/ \E p \in ProjectIds : ProjectDeleted(p)
    BY DEF Next, RequestStep, vars, store, Arrive, CheckProject, FindTask, SaveTask, AddJob,
       Abort, ProjectReinserted
<1> QED BY <1>1, <1>2, <1>3, <1>4

THEOREM TaskTenancy == Spec => OnlyOwnTenantWrites
PROOF
<1>1. IInv /\ [Next]_vars =>
        [\A t \in TaskIds : tasks'[t] # tasks[t] =>
            \/ origin[t] \in live \ live'
            \/ \E r \in Requests :
                 /\ pc[r] \in {"insert", "update", "reinsert", "remove"}
                 /\ arg[r].org = TenantOf(t)'
                 /\ arg[r].project = origin'[t]]_vars
    BY WriteStep
<1> QED BY <1>1, Invariance, PTL DEF Spec, OnlyOwnTenantWrites
=============================================================================
