----------------------- MODULE Organizations_proofs -----------------------
(***************************************************************************)
(* Theorems about Organizations, for any number of users, organizations,   *)
(* memberships and concurrent requests.                                    *)
(***************************************************************************)
EXTENDS Organizations, TLAPS

(***************************************************************************)
(* Type correctness.  TypeOK is inductive only together with Requested:    *)
(* that the rows a request writes are rows depends on which endpoint's     *)
(* parameters it carries.                                                  *)
(***************************************************************************)

MemoryOK ==
    /\ pc \in [Requests -> Points]
    /\ arg \in [Requests -> Request \cup {NoRow}]
    /\ grant \in [Requests -> Membership \cup {NoRow}]
    /\ entity \in [Requests -> Organization \cup Membership \cup {NoRow}]

TablesOK ==
    /\ orgs \subseteq Organization
    /\ memberships \subseteq Membership
    /\ issued \subseteq OrgIds \cup MemberIds

Local(r) == Control(r) /\ Admission(r) /\ Holding(r)

\* A step of r leaves the memory of the other requests alone.
OthersKept(r) ==
    \A q \in Requests \ {r} : /\ pc'[q] = pc[q]
                              /\ arg'[q] = arg[q]
                              /\ grant'[q] = grant[q]
                              /\ entity'[q] = entity[q]

LEMMA Others ==
    ASSUME MemoryOK, NEW r \in Requests, Step(r)
    PROVE  OthersKept(r)
PROOF
<1> USE DEF MemoryOK, OthersKept, Goto, Reply
<1>1. CASE Arrive(r) \/ Abort(r) \/ Guard(r)
    BY <1>1 DEF Arrive, Abort, Guard
<1>2. CASE CheckSlug(r) \/ InsertOrg(r) \/ InsertAdmin(r)
    BY <1>2 DEF CheckSlug, InsertOrg, InsertAdmin, InsertRow
<1>3. CASE FindOrg(r) \/ SaveOrg(r) \/ ReinsertOrg(r) \/ RemoveOrg(r)
    BY <1>3 DEF FindOrg, SaveOrg, ReinsertOrg, RemoveOrg
<1>4. CASE CheckMember(r) \/ InsertMember(r)
    BY <1>4 DEF CheckMember, InsertMember, InsertRow
<1>5. CASE FindMember(r) \/ SaveMember(r)
    BY <1>5 DEF FindMember, SaveMember
<1>6. CASE UpdateMember(r) \/ ReinsertMember(r) \/ RemoveMember(r)
    BY <1>6 DEF UpdateMember, ReinsertMember, RemoveMember, InsertRow
<1> QED BY <1>1, <1>2, <1>3, <1>4, <1>5, <1>6 DEF Step

\* So only the memory of r has to be looked at again.
LEMMA Framed ==
    ASSUME MemoryOK, Requested, NEW r \in Requests, OthersKept(r), Local(r)'
    PROVE  Requested'
PROOF
<1> SUFFICES ASSUME NEW q \in Requests
             PROVE  Local(q)'
    BY DEF Requested, Local
<1>1. CASE q = r
    BY <1>1
<1>2. CASE q # r
    BY <1>2 DEF OthersKept, Requested, Local, Control, Admission, Holding
<1> QED BY <1>1, <1>2

\* The answer of a request clears its memory.
LEMMA ReplyOK ==
    ASSUME MemoryOK, NEW r \in Requests, Reply(r)
    PROVE  MemoryOK' /\ Local(r)'
PROOF
<1>1. MemoryOK' /\ pc'[r] = "idle" /\ grant'[r] = NoRow
    BY DEF MemoryOK, Reply, Goto, Points
<1> QED BY <1>1 DEF Local, Control, Admission, Holding, AdmittedPoints,
              OrgPoints, InvitePoints, HeldPoints

\* An insert adds the row it was given or none.
LEMMA InsertRowOK ==
    ASSUME MemoryOK, TablesOK, NEW r \in Requests, NEW m \in Membership,
           InsertRow(r, m), issued' \subseteq OrgIds \cup MemberIds
    PROVE  MemoryOK' /\ TablesOK' /\ Local(r)'
PROOF
<1>1. MemoryOK' /\ Local(r)'
    BY ReplyOK DEF InsertRow
<1>2. TablesOK'
    BY DEF InsertRow, TablesOK
<1> QED BY <1>1, <1>2

\* A step keeps the tables, the memory of its request and what its handler
\* holds in order.
LEMMA StepOK ==
    ASSUME MemoryOK, TablesOK, Requested, NEW r \in Requests, Step(r)
    PROVE  MemoryOK' /\ TablesOK' /\ Local(r)'
PROOF
<1> DEFINE Goal == MemoryOK' /\ TablesOK' /\ Local(r)'
<1>0. Local(r)
    BY DEF Requested, Local
<1>a. UNCHANGED tables => TablesOK'
    BY DEF TablesOK, tables
<1> HIDE DEF Goal
<1>1. CASE Arrive(r)
  <2> PICK a \in Request : /\ arg' = [arg EXCEPT ![r] = a]
                           /\ Goto(r, IF a.op = "create" THEN "checkSlug" ELSE "guard")
      BY <1>1 DEF Arrive
  <2>1. UNCHANGED <<orgs, memberships, issued, grant, entity>> /\ pc[r] = "idle"
      BY <1>1 DEF Arrive
  <2>2. /\ arg'[r] = a
        /\ pc'[r] = IF a.op = "create" THEN "checkSlug" ELSE "guard"
        /\ MemoryOK'
      BY <2>1 DEF MemoryOK, Goto, Points
  <2>3. Local(r)'
      BY <1>0, <2>1, <2>2 DEF Local, Control, Admission, Holding, AdmittedPoints,
             OrgPoints, InvitePoints, HeldPoints
  <2> QED BY <1>a, <2>1, <2>2, <2>3 DEF Goal, tables
<1>2. CASE Abort(r)
    BY <1>2, <1>a, ReplyOK DEF Abort, Goal
<1>3. CASE Guard(r)
  <2>1. CASE Reply(r)
      BY <1>3, <2>1, <1>a, ReplyOK DEF Guard, Goal
  <2>2. ASSUME NEW m \in memberships, Admits(r, m),
               grant' = [grant EXCEPT ![r] = m],
               Goto(r, FirstStatement(arg[r].op)),
               UNCHANGED <<arg, entity>>
        PROVE  MemoryOK' /\ Local(r)'
    <3>1. arg[r] \in Request /\ arg[r].op # "create"
        BY <1>0, <1>3 DEF Guard, Local, Control
    <3>2. \/ arg[r].op = "invite" /\ FirstStatement(arg[r].op) = "checkMember"
          \/ arg[r].op \in {"update", "delete"} /\ FirstStatement(arg[r].op) = "findOrg"
          \/ arg[r].op \in {"updateRole", "removeMember"}
             /\ FirstStatement(arg[r].op) = "findMember"
      <4>1. arg[r].op \in {"invite", "update", "delete", "updateRole", "removeMember"}
          BY <3>1 DEF Request
      <4> QED BY <4>1, Zenon DEF FirstStatement
    <3> DEFINE point == FirstStatement(arg[r].op)
    <3> HIDE DEF point
    <3>3. MemoryOK' /\ pc'[r] = point /\ arg'[r] = arg[r] /\ grant'[r] = m
        BY <2>2, <3>2 DEF MemoryOK, TablesOK, Goto, Points, point
    <3>4. m \in Membership
        BY DEF TablesOK
    <3>5. Local(r)'
        BY <2>2, <3>1, <3>2, <3>3, <3>4 DEF point, Admits, Local, Control, Admission,
               Holding, AdmittedPoints, OrgPoints, InvitePoints, HeldPoints
    <3> QED BY <3>3, <3>5
  <2> QED BY <1>3, <1>a, <2>1, <2>2 DEF Guard, Goal
<1>4. CASE CheckSlug(r)
  <2>1. CASE Reply(r)
      BY <1>4, <2>1, <1>a, ReplyOK DEF CheckSlug, Goal
  <2>2. CASE Goto(r, "insertOrg") /\ UNCHANGED <<arg, grant, entity>>
      BY <1>0, <1>4, <2>2, <1>a DEF CheckSlug, Goal, Goto, MemoryOK, Points, Local, Control,
             Admission, Holding, AdmittedPoints, OrgPoints, InvitePoints, HeldPoints
  <2> QED BY <1>4, <2>1, <2>2 DEF CheckSlug
<1>5. CASE InsertOrg(r)
  <2> PICK id \in OrgIds \ issued :
         LET o == [id |-> id, slug |-> arg[r].slug] IN
         /\ issued' = issued \cup {id}
         /\ \/ /\ OrgInsertable(o)
               /\ orgs' = orgs \cup {o}
               /\ entity' = [entity EXCEPT ![r] = o]
               /\ Goto(r, "insertAdmin")
               /\ UNCHANGED <<arg, grant>>
            \/ /\ ~OrgInsertable(o)
               /\ Reply(r)
               /\ UNCHANGED orgs
      BY <1>5 DEF InsertOrg
  <2> DEFINE o == [id |-> id, slug |-> arg[r].slug]
  <2>1. o \in Organization
      BY <1>0, <1>5 DEF InsertOrg, Local, Control, Request, Organization
  <2>2. UNCHANGED memberships /\ issued' = issued \cup {id} /\ pc[r] = "insertOrg"
      BY <1>5 DEF InsertOrg
  <2>3. CASE Reply(r) /\ UNCHANGED orgs
      BY <2>2, <2>3, ReplyOK DEF TablesOK, Goal
  <2>4. CASE /\ orgs' = orgs \cup {o}
             /\ entity' = [entity EXCEPT ![r] = o]
             /\ Goto(r, "insertAdmin")
             /\ UNCHANGED <<arg, grant>>
    <3> HIDE DEF o
    <3>1. TablesOK'
        BY <2>1, <2>2, <2>4 DEF TablesOK
    <3>2. /\ MemoryOK' /\ pc'[r] = "insertAdmin" /\ entity'[r] = o
          /\ arg'[r] = arg[r] /\ grant'[r] = grant[r]
        BY <2>1, <2>4 DEF MemoryOK, Goto, Points
    <3>3. Local(r)'
        BY <1>0, <2>1, <2>2, <3>2 DEF Local, Control, Admission, Holding, AdmittedPoints,
               OrgPoints, InvitePoints, HeldPoints
    <3> QED BY <3>1, <3>2, <3>3 DEF Goal
  <2> QED BY <2>3, <2>4
<1>6. CASE InsertAdmin(r)
  <2> PICK id \in MemberIds \ issued :
         /\ issued' = issued \cup {id}
         /\ InsertRow(r, [id |-> id, user |-> arg[r].caller,
                          org |-> entity[r].id, role |-> ADMIN])
      BY <1>6 DEF InsertAdmin
  <2>1. [id |-> id, user |-> arg[r].caller, org |-> entity[r].id, role |-> ADMIN]
           \in Membership
      BY <1>0, <1>6, RolesAssumption DEF InsertAdmin, Local, Control, Holding, Request,
             Organization, Membership
  <2>2. issued' \subseteq OrgIds \cup MemberIds
      BY DEF TablesOK
  <2> QED BY <2>1, <2>2, InsertRowOK DEF Goal
<1>7. CASE FindOrg(r)
  <2>1. CASE Reply(r)
      BY <1>7, <2>1, <1>a, ReplyOK DEF FindOrg, Goal
  <2>2. ASSUME NEW o \in orgs, o.id = arg[r].org,
               entity' = [entity EXCEPT ![r] = o],
               Goto(r, IF arg[r].op = "update" THEN "saveOrg" ELSE "removeOrg"),
               UNCHANGED <<arg, grant>>
        PROVE  MemoryOK' /\ Local(r)'
    <3>1. o \in Organization /\ pc[r] = "findOrg"
        BY <1>7 DEF TablesOK, FindOrg
    <3>2. /\ MemoryOK' /\ entity'[r] = o /\ arg'[r] = arg[r] /\ grant'[r] = grant[r]
          /\ pc'[r] \in {"saveOrg", "removeOrg"}
        BY <2>2, <3>1 DEF MemoryOK, Goto, Points
    <3>3. Local(r)'
        BY <1>0, <2>2, <3>1, <3>2 DEF Local, Control, Admission, Holding, AdmittedPoints,
               OrgPoints, InvitePoints, HeldPoints
    <3> QED BY <3>2, <3>3
  <2> QED BY <1>7, <1>a, <2>1, <2>2 DEF FindOrg, Goal
<1>8. CASE SaveOrg(r)
  <2>1. CASE Reply(r)
      BY <1>8, <2>1, <1>a, ReplyOK DEF SaveOrg, Goal
  <2>2. CASE Goto(r, "reinsertOrg") /\ UNCHANGED <<arg, grant, entity>>
      BY <1>0, <1>8, <2>2, <1>a DEF SaveOrg, Goal, Goto, MemoryOK, Points, Local, Control,
             Admission, Holding, AdmittedPoints, OrgPoints, InvitePoints, HeldPoints
  <2> QED BY <1>8, <2>1, <2>2 DEF SaveOrg
<1>9. CASE ReinsertOrg(r)
  <2>1. entity[r] \in Organization
      BY <1>0, <1>9 DEF ReinsertOrg, Local, Holding
  <2>2. MemoryOK' /\ Local(r)'
      BY <1>9, ReplyOK DEF ReinsertOrg
  <2>3. TablesOK'
      BY <1>9, <2>1 DEF ReinsertOrg, TablesOK
  <2> QED BY <2>2, <2>3 DEF Goal
<1>10. CASE RemoveOrg(r)
  <2>1. MemoryOK' /\ Local(r)'
      BY <1>10, ReplyOK DEF RemoveOrg
  <2>2. TablesOK'
      BY <1>10 DEF RemoveOrg, TablesOK
  <2> QED BY <2>1, <2>2 DEF Goal
<1>11. CASE CheckMember(r)
  <2>1. CASE Reply(r)
      BY <1>11, <2>1, <1>a, ReplyOK DEF CheckMember, Goal
  <2>2. CASE /\ arg[r].user # NoUser
             /\ Goto(r, "insertMember")
             /\ UNCHANGED <<arg, grant, entity>>
      BY <1>0, <1>11, <2>2, <1>a DEF CheckMember, Goal, Goto, MemoryOK, Points, Local, Control,
             Admission, Holding, AdmittedPoints, OrgPoints, InvitePoints, HeldPoints
  <2> QED BY <1>11, <2>1, <2>2 DEF CheckMember
<1>12. CASE InsertMember(r)
  <2> PICK id \in MemberIds \ issued :
         /\ issued' = issued \cup {id}
         /\ InsertRow(r, [id |-> id, user |-> arg[r].user,
                          org |-> arg[r].org, role |-> arg[r].role])
      BY <1>12 DEF InsertMember
  <2>1. [id |-> id, user |-> arg[r].user, org |-> arg[r].org, role |-> arg[r].role]
           \in Membership
      BY <1>0, <1>12 DEF InsertMember, Local, Control, InvitePoints, Request, Membership
  <2>2. issued' \subseteq OrgIds \cup MemberIds
      BY DEF TablesOK
  <2> QED BY <2>1, <2>2, InsertRowOK DEF Goal
<1>13. CASE FindMember(r)
  <2>1. CASE Reply(r)
      BY <1>13, <2>1, <1>a, ReplyOK DEF FindMember, Goal
  <2>2. ASSUME NEW m \in memberships, Addressed(r, m), UNCHANGED <<arg, grant>>,
               \/ /\ arg[r].op = "updateRole"
                  /\ entity' = [entity EXCEPT ![r] = [m EXCEPT !.role = arg[r].role]]
                  /\ Goto(r, "saveMember")
               \/ /\ arg[r].op = "removeMember"
                  /\ entity' = [entity EXCEPT ![r] = m]
                  /\ Goto(r, "removeMember")
        PROVE  MemoryOK' /\ Local(r)'
    <3>1. m \in Membership /\ pc[r] = "findMember" /\ arg[r] \in Request
        BY <1>0, <1>13 DEF TablesOK, FindMember, Local, Control
    <3>2. PICK e \in Membership : /\ entity' = [entity EXCEPT ![r] = e]
                                  /\ e.org = arg[r].org
      <4>1. CASE arg[r].op = "updateRole"
        <5>1. arg[r].role \in Roles
            BY <3>1, <4>1 DEF Request
        <5>2. /\ [m EXCEPT !.role = arg[r].role] \in Membership
              /\ [m EXCEPT !.role = arg[r].role].org = arg[r].org
            BY <2>2, <3>1, <5>1 DEF Membership, Addressed
        <5> QED BY <2>2, <4>1, <5>2
      <4>2. CASE arg[r].op = "removeMember"
          BY <2>2, <3>1, <4>2 DEF Addressed
      <4> QED BY <2>2, <4>1, <4>2
    <3>3. /\ MemoryOK' /\ entity'[r] = e /\ arg'[r] = arg[r] /\ grant'[r] = grant[r]
          /\ pc'[r] \in {"saveMember", "removeMember"}
        BY <2>2, <3>2 DEF MemoryOK, Goto, Points
    <3>4. Local(r)'
        BY <1>0, <3>1, <3>2, <3>3 DEF Local, Control, Admission, Holding, AdmittedPoints,
               OrgPoints, InvitePoints, HeldPoints
    <3> QED BY <3>3, <3>4
  <2> QED BY <1>13, <1>a, <2>1, <2>2 DEF FindMember, Goal
<1>14. CASE SaveMember(r)
  <2>1. CASE Reply(r)
      BY <1>14, <2>1, <1>a, ReplyOK DEF SaveMember, Goal
  <2>2. CASE /\ Goto(r, IF entity[r].id \in MemberIdsOf(memberships)
                        THEN "updateMember" ELSE "reinsertMember")
             /\ UNCHANGED <<arg, grant, entity>>
    <3>1. /\ MemoryOK' /\ entity'[r] = entity[r] /\ arg'[r] = arg[r]
          /\ grant'[r] = grant[r]
          /\ pc'[r] \in {"updateMember", "reinsertMember"} /\ pc[r] = "saveMember"
        BY <1>14, <2>2 DEF SaveMember, MemoryOK, Goto, Points
    <3>2. Local(r)'
        BY <1>0, <3>1 DEF Local, Control, Admission, Holding, AdmittedPoints,
               OrgPoints, InvitePoints, HeldPoints
    <3> QED BY <1>14, <1>a, <3>1, <3>2 DEF SaveMember, Goal
  <2> QED BY <1>14, <2>1, <2>2 DEF SaveMember
<1>15. CASE UpdateMember(r)
  <2>1. entity[r] \in Membership
      BY <1>0, <1>15 DEF UpdateMember, Local, Holding, HeldPoints
  <2>2. MemoryOK' /\ Local(r)'
      BY <1>15, ReplyOK DEF UpdateMember
  <2>3. \A m \in Membership : [m EXCEPT !.role = entity[r].role] \in Membership
      BY <2>1 DEF Membership
  <2>4. TablesOK'
      BY <1>15, <2>3 DEF UpdateMember, TablesOK
  <2> QED BY <2>2, <2>4 DEF Goal
<1>16. CASE ReinsertMember(r)
  <2>1. entity[r] \in Membership
      BY <1>0, <1>16 DEF ReinsertMember, Local, Holding, HeldPoints
  <2>2. issued' \subseteq OrgIds \cup MemberIds
      BY <1>16 DEF ReinsertMember, TablesOK
  <2> QED BY <1>16, <2>1, <2>2, InsertRowOK DEF ReinsertMember, Goal
<1>17. CASE RemoveMember(r)
  <2>1. MemoryOK' /\ Local(r)'
      BY <1>17, ReplyOK DEF RemoveMember
  <2>2. TablesOK'
      BY <1>17 DEF RemoveMember, TablesOK
  <2> QED BY <2>1, <2>2 DEF Goal
<1> QED
    BY <1>1, <1>2, <1>3, <1>4, <1>5, <1>6, <1>7, <1>8, <1>9, <1>10, <1>11, <1>12,
       <1>13, <1>14, <1>15, <1>16, <1>17 DEF Step

LEMMA InitOK == Init => TypeOK /\ Requested
PROOF
    BY DEF Init, TypeOK, Points, Requested, Control, Admission, Holding, AdmittedPoints,
           OrgPoints, InvitePoints, HeldPoints

LEMMA NextOK == TypeOK /\ Requested /\ [Next]_vars => (TypeOK /\ Requested)'
PROOF
<1> SUFFICES ASSUME TypeOK, Requested, [Next]_vars
             PROVE  (TypeOK /\ Requested)'
    OBVIOUS
<1>1. MemoryOK /\ TablesOK
    BY DEF TypeOK, MemoryOK, TablesOK
<1>2. ASSUME NEW r \in Requests, Step(r)
      PROVE  (TypeOK /\ Requested)'
  <2>1. MemoryOK' /\ TablesOK' /\ Local(r)'
      BY <1>1, <1>2, StepOK
  <2>2. OthersKept(r)
      BY <1>1, <1>2, Others
  <2>3. Requested'
      BY <1>1, <2>1, <2>2, Framed
  <2> QED BY <2>1, <2>3 DEF TypeOK, MemoryOK, TablesOK
<1>3. CASE UNCHANGED vars
    BY <1>3 DEF vars, TypeOK, Requested, Control, Admission, Holding
<1> QED BY <1>2, <1>3 DEF Next

\* The tables only ever hold rows, and no handler dereferences anything but
\* the entity or the parameters of its own endpoint.
THEOREM TypeCorrect == Spec => [](TypeOK /\ Requested)
PROOF
    BY InitOK, NextOK, PTL DEF Spec

(***************************************************************************)
(* Tenant isolation.  A handler writes through the entity it loaded, some  *)
(* statements ago and under an id.  The write stays in its tenant because  *)
(* an id never names memberships of two organizations: not in the table,   *)
(* and not in the memory of a handler that may yet re-insert its row.      *)
(***************************************************************************)

Base == TypeOK /\ Requested

LEMMA BaseParts ==
    ASSUME Base
    PROVE  MemoryOK /\ TablesOK /\ \A r \in Requests : Local(r)
PROOF
    BY DEF Base, TypeOK, MemoryOK, TablesOK, Requested, Local

LEMMA BaseStep ==
    ASSUME Base, NEW r \in Requests, Step(r)
    PROVE  Base' /\ OthersKept(r)
PROOF
<1>1. MemoryOK /\ TablesOK /\ Requested
    BY BaseParts DEF Base
<1>2. MemoryOK' /\ TablesOK' /\ Local(r)'
    BY <1>1, StepOK
<1>3. OthersKept(r)
    BY <1>1, Others
<1>4. Requested'
    BY <1>1, <1>2, <1>3, Framed
<1> QED BY <1>2, <1>3, <1>4 DEF Base, TypeOK, MemoryOK, TablesOK

LEMMA KnownFrame ==
    ASSUME NEW r \in Requests, OthersKept(r), NEW n \in Known'
    PROVE  \/ n \in memberships'
           \/ n \in Known
           \/ pc'[r] \in HeldPoints /\ n = entity'[r]
PROOF
    BY DEF Known, OthersKept

OldName(n) == \E m \in Known : m.id = n.id /\ m.org = n.org

\* A row inserted under an id that was just drawn.
NewName(n) ==
    /\ n \in memberships'
    /\ n.id \notin issued
    /\ n.id \in issued'
    /\ n.org \in issued
    /\ \A m \in Known' : m.id = n.id => m = n

\* Where the ids of the rows after a step come from.
LEMMA KnownStep ==
    ASSUME Base, Drawn, NEW r \in Requests, Step(r)
    PROVE  \A n \in Known' : OldName(n) \/ NewName(n)
PROOF
<1>0. OthersKept(r) /\ Local(r) /\ MemoryOK /\ TablesOK /\ memberships \subseteq Known
    BY BaseStep, BaseParts DEF Known
<1> SUFFICES ASSUME NEW n \in Known', n \notin Known
             PROVE  OldName(n) \/ NewName(n)
    BY DEF OldName
<1>1. n \in memberships' \/ (pc'[r] \in HeldPoints /\ n = entity'[r])
    BY <1>0, KnownFrame
<1>2. ASSUME Reply(r) PROVE pc'[r] \notin HeldPoints
    BY <1>0, <1>2 DEF Reply, Goto, MemoryOK, HeldPoints
<1>3. CASE Arrive(r) \/ Abort(r) \/ Guard(r)
    BY <1>0, <1>1, <1>2, <1>3 DEF Arrive, Abort, Guard, tables, Goto, FirstStatement,
           MemoryOK, HeldPoints
<1>4. CASE CheckSlug(r) \/ InsertOrg(r) \/ FindOrg(r) \/ SaveOrg(r) \/ ReinsertOrg(r)
    BY <1>0, <1>1, <1>2, <1>4 DEF CheckSlug, InsertOrg, FindOrg, SaveOrg, ReinsertOrg,
           tables, Goto, MemoryOK, HeldPoints
<1>5. CASE RemoveOrg(r) \/ RemoveMember(r)
    BY <1>0, <1>1, <1>2, <1>5 DEF RemoveOrg, RemoveMember
<1>6. CASE CheckMember(r)
    BY <1>0, <1>1, <1>2, <1>6 DEF CheckMember, tables, Goto, MemoryOK, HeldPoints
<1>7. ASSUME NEW m \in Membership, InsertRow(r, m), issued' = issued \cup {m.id},
             m.id \notin issued, m.org \in issued
      PROVE  NewName(n)
  <2>1. n \in memberships' /\ n = m
      BY <1>0, <1>1, <1>2, <1>7 DEF InsertRow
  <2>2. ASSUME NEW k \in Known', k.id = n.id PROVE k = n
    <3>1. k \notin Known
        BY <1>7, <2>1, <2>2 DEF Drawn
    <3>2. k \in memberships'
        BY <1>0, <1>2, <1>7, <3>1, KnownFrame DEF InsertRow
    <3> QED BY <1>0, <1>7, <2>1, <3>1, <3>2 DEF InsertRow
  <2> QED BY <1>7, <2>1, <2>2 DEF NewName
<1>8. CASE InsertAdmin(r)
  <2> PICK id \in MemberIds \ issued :
         /\ issued' = issued \cup {id}
         /\ InsertRow(r, [id |-> id, user |-> arg[r].caller,
                          org |-> entity[r].id, role |-> ADMIN])
      BY <1>8 DEF InsertAdmin
  <2> DEFINE m == [id |-> id, user |-> arg[r].caller, org |-> entity[r].id, role |-> ADMIN]
  <2>1. m \in Membership
      BY <1>0, <1>8, RolesAssumption DEF InsertAdmin, Local, Control, Holding, Request,
             Organization, Membership
  <2>2. m.id = id /\ m.org \in issued
      BY <1>8 DEF InsertAdmin, Drawn
  <2> QED BY <1>7, <2>1, <2>2
<1>9. CASE InsertMember(r)
  <2> PICK id \in MemberIds \ issued :
         /\ issued' = issued \cup {id}
         /\ InsertRow(r, [id |-> id, user |-> arg[r].user,
                          org |-> arg[r].org, role |-> arg[r].role])
      BY <1>9 DEF InsertMember
  <2> DEFINE m == [id |-> id, user |-> arg[r].user, org |-> arg[r].org, role |-> arg[r].role]
  <2>1. m \in Membership
      BY <1>0, <1>9 DEF InsertMember, Local, Control, InvitePoints, Request, Membership
  <2>2. grant[r] # NoRow /\ grant[r].org = arg[r].org
      BY <1>0, <1>9, NullAssumption DEF InsertMember, Local, Admission, AdmittedPoints,
             InvitePoints
  <2>3. m.id = id /\ m.org \in issued
      BY <2>2 DEF Drawn
  <2> QED BY <1>7, <2>1, <2>3
<1>10. CASE FindMember(r)
  <2>1. CASE Reply(r)
      BY <1>0, <1>1, <1>2, <1>10, <2>1 DEF FindMember, tables
  <2>2. ASSUME NEW m \in memberships,
               \/ entity' = [entity EXCEPT ![r] = [m EXCEPT !.role = arg[r].role]]
               \/ entity' = [entity EXCEPT ![r] = m]
        PROVE  OldName(n)
    <3>1. m \in Membership /\ m \in Known /\ UNCHANGED memberships
        BY <1>0, <1>10 DEF TablesOK, FindMember, tables
    <3>2. n = entity'[r]
        BY <1>0, <1>1, <3>1
    <3>3. n.id = m.id /\ n.org = m.org
        BY <1>0, <2>2, <3>1, <3>2 DEF MemoryOK, Membership
    <3> QED BY <3>1, <3>3 DEF OldName
  <2> QED BY <1>10, <2>1, <2>2 DEF FindMember
<1>11. CASE SaveMember(r)
  <2>1. pc[r] \in HeldPoints => entity[r] \in Known
      BY DEF Known
  <2>2. CASE Reply(r)
      BY <1>0, <1>1, <1>2, <1>11, <2>2 DEF SaveMember, tables
  <2>3. CASE UNCHANGED <<arg, grant, entity>>
      BY <1>0, <1>1, <1>11, <2>1, <2>3 DEF SaveMember, tables, HeldPoints
  <2> QED BY <1>11, <2>2, <2>3 DEF SaveMember
<1>12. CASE UpdateMember(r)
  <2>1. n \in memberships'
      BY <1>1, <1>2, <1>12 DEF UpdateMember
  <2>2. PICK m \in memberships : n = IF m.id = entity[r].id
                                     THEN [m EXCEPT !.role = entity[r].role] ELSE m
      BY <1>12, <2>1 DEF UpdateMember
  <2>3. n.id = m.id /\ n.org = m.org
      BY <1>0, <2>2 DEF TablesOK, Membership
  <2> QED BY <1>0, <2>3 DEF OldName
<1>13. CASE ReinsertMember(r)
  <2>1. entity[r] \in Known
      BY <1>13 DEF ReinsertMember, Known, HeldPoints
  <2> QED BY <1>0, <1>1, <1>2, <1>13, <2>1 DEF ReinsertMember, InsertRow
<1> QED
    BY <1>3, <1>4, <1>5, <1>6, <1>8, <1>9, <1>10, <1>11, <1>12, <1>13 DEF Step

LEMMA IdentityStep ==
    ASSUME Base, Drawn, Identity, NEW r \in Requests, Step(r)
    PROVE  Identity'
PROOF
<1>1. \A n \in Known' : OldName(n) \/ NewName(n)
    BY KnownStep
<1>2. \A n \in Known' : OldName(n) => n.id \in issued
    BY DEF OldName, Drawn
<1> SUFFICES ASSUME NEW m \in Known', NEW n \in Known', m.id = n.id
             PROVE  m.org = n.org
    BY DEF Identity
<1>3. CASE NewName(n)
    BY <1>3 DEF NewName
<1>4. CASE NewName(m)
    BY <1>4 DEF NewName
<1>5. CASE OldName(m) /\ OldName(n)
    BY <1>5 DEF OldName, Identity
<1> QED BY <1>1, <1>3, <1>4, <1>5

\* How a step changes the tables of organizations and of drawn ids, and what
\* TenantGuard and create leave in the memory of their request.
LEMMA Growth ==
    ASSUME Base, NEW r \in Requests, Step(r)
    PROVE  /\ issued \subseteq issued'
           /\ \A o \in orgs' :
                 \/ o \in orgs
                 \/ InsertOrg(r) /\ o.id \in issued' /\ o.id \notin issued
                 \/ ReinsertOrg(r) /\ o = entity[r]
           /\ \/ grant'[r] \in {NoRow, grant[r]}
              \/ grant'[r] \in memberships
           /\ pc'[r] = "insertAdmin" =>
                 /\ InsertOrg(r)
                 /\ entity'[r] \in orgs'
                 /\ entity'[r].id \notin issued
                 /\ entity'[r].id \in issued'
PROOF
<1>0. MemoryOK
    BY BaseParts
<1> USE <1>0 DEF MemoryOK, Goto, Reply, tables
<1>1. CASE Arrive(r) \/ Abort(r) \/ Guard(r)
    BY <1>1 DEF Arrive, Abort, Guard, FirstStatement
<1>2. CASE CheckSlug(r) \/ FindOrg(r) \/ SaveOrg(r) \/ RemoveOrg(r) \/ ReinsertOrg(r)
    BY <1>2 DEF CheckSlug, FindOrg, SaveOrg, RemoveOrg, ReinsertOrg
<1>3. CASE InsertOrg(r)
  <2> PICK id \in OrgIds \ issued :
         LET o == [id |-> id, slug |-> arg[r].slug] IN
         /\ issued' = issued \cup {id}
         /\ \/ /\ OrgInsertable(o)
               /\ orgs' = orgs \cup {o}
               /\ entity' = [entity EXCEPT ![r] = o]
               /\ Goto(r, "insertAdmin")
               /\ UNCHANGED <<arg, grant>>
            \/ /\ ~OrgInsertable(o)
               /\ Reply(r)
               /\ UNCHANGED orgs
      BY <1>3 DEF InsertOrg
  <2> QED BY <1>3
<1>4. CASE InsertAdmin(r) \/ InsertMember(r) \/ ReinsertMember(r)
    BY <1>4 DEF InsertAdmin, InsertMember, ReinsertMember, InsertRow
<1>5. CASE CheckMember(r) \/ FindMember(r) \/ SaveMember(r)
    BY <1>5 DEF CheckMember, FindMember, SaveMember
<1>6. CASE UpdateMember(r) \/ RemoveMember(r)
    BY <1>6 DEF UpdateMember, RemoveMember
<1> QED BY <1>1, <1>2, <1>3, <1>4, <1>5, <1>6 DEF Step

LEMMA DrawnStep ==
    ASSUME Base, Drawn, NEW r \in Requests, Step(r)
    PROVE  Drawn'
PROOF
<1>0. OthersKept(r) /\ Local(r) /\ issued \subseteq issued'
    BY BaseStep, BaseParts, Growth
<1>1. ASSUME NEW o \in orgs' PROVE o.id \in issued'
  <2>1. CASE ReinsertOrg(r) /\ o = entity[r]
    <3>1. grant[r] # NoRow /\ grant[r].org = entity[r].id
        BY <1>0, <2>1, NullAssumption DEF ReinsertOrg, Local, Admission, Holding,
               AdmittedPoints, OrgPoints
    <3> QED BY <1>0, <2>1, <3>1 DEF Drawn
  <2> QED BY <1>0, <2>1, Growth DEF Drawn
<1>2. ASSUME NEW m \in Known' PROVE m.id \in issued' /\ m.org \in issued'
    BY <1>0, KnownStep DEF Drawn, OldName, NewName
<1>3. ASSUME NEW q \in Requests, grant'[q] # NoRow PROVE grant'[q].org \in issued'
  <2>1. CASE q # r
      BY <1>0, <1>3, <2>1 DEF OthersKept, Drawn
  <2>2. CASE q = r
      BY <1>0, <1>3, <2>2, Growth DEF Drawn, Known
  <2> QED BY <2>1, <2>2
<1>4. ASSUME NEW q \in Requests, pc'[q] = "insertAdmin" PROVE entity'[q].id \in issued'
  <2>1. CASE q # r
      BY <1>0, <1>4, <2>1 DEF OthersKept, Drawn
  <2>2. CASE q = r
      BY <1>4, <2>2, Growth
  <2> QED BY <2>1, <2>2
<1> QED BY <1>1, <1>2, <1>3, <1>4 DEF Drawn

Tenancy == Base /\ Drawn /\ Identity

LEMMA InitTenancy == Init => Tenancy
PROOF
    BY InitOK DEF Tenancy, Base, Init, Drawn, Identity, Known, HeldPoints

LEMMA NextTenancy == Tenancy /\ [Next]_vars => Tenancy'
PROOF
<1> SUFFICES ASSUME Tenancy, [Next]_vars PROVE Tenancy'
    OBVIOUS
<1>1. ASSUME NEW r \in Requests, Step(r) PROVE Tenancy'
    BY <1>1, BaseStep, DrawnStep, IdentityStep DEF Tenancy
<1>2. CASE UNCHANGED vars
  <2>1. Base'
      BY <1>2, NextOK DEF Tenancy, Base
  <2>2. Known' = Known
      BY <1>2 DEF vars, Known
  <2> QED BY <1>2, <2>1, <2>2 DEF vars, Tenancy, Drawn, Identity
<1> QED BY <1>1, <1>2 DEF Next

\* What every later theorem rests on: each id in the tables or in a handler's
\* memory was drawn before, and names a membership of one organization for
\* ever, although re-insertions bring removed rows back.
THEOREM TenancyInvariant == Spec => []Tenancy
PROOF
    BY InitTenancy, NextTenancy, PTL DEF Spec

LEMMA ChangeAuthorized ==
    ASSUME Tenancy, NEW r \in Requests, Step(r),
           NEW org \in OrgIds, RowsOf(org)' # RowsOf(org)
    PROVE  /\ pc'[r] # pc[r]
           /\ \/ /\ grant[r] # NoRow
                 /\ grant[r].org = org
                 /\ grant[r].role = ADMIN
                 /\ grant[r].user = arg[r].caller
              \/ /\ pc[r] = "insertAdmin"
                 /\ entity[r].id = org
PROOF
<1>0. MemoryOK /\ TablesOK /\ Local(r)
    BY BaseParts DEF Tenancy
<1>1. ~UNCHANGED memberships
    BY DEF RowsOf
<1>2. ASSUME Reply(r), pc[r] \in AdmittedPoints, arg[r].org = org
      PROVE  /\ pc'[r] # pc[r]
             /\ grant[r] # NoRow
             /\ grant[r].org = org
             /\ grant[r].role = ADMIN
             /\ grant[r].user = arg[r].caller
    BY <1>0, <1>2, NullAssumption DEF MemoryOK, Reply, Goto, Local, Admission,
           AdmittedPoints, OrgPoints, InvitePoints, HeldPoints
<1>3. ASSUME NEW m, InsertRow(r, m) PROVE m.org = org
    BY <1>1, <1>3 DEF InsertRow, RowsOf
<1>4. CASE InsertAdmin(r)
  <2> PICK id \in MemberIds \ issued :
         InsertRow(r, [id |-> id, user |-> arg[r].caller,
                       org |-> entity[r].id, role |-> ADMIN])
      BY <1>4 DEF InsertAdmin
  <2>1. entity[r].id = org
      BY <1>3
  <2> QED BY <1>0, <1>4, <2>1 DEF InsertAdmin, InsertRow, Reply, Goto, MemoryOK
<1>5. CASE InsertMember(r)
  <2> PICK id \in MemberIds \ issued :
         InsertRow(r, [id |-> id, user |-> arg[r].user,
                       org |-> arg[r].org, role |-> arg[r].role])
      BY <1>5 DEF InsertMember
  <2>1. arg[r].org = org
      BY <1>3
  <2> QED BY <1>2, <1>5, <2>1 DEF InsertMember, InsertRow, AdmittedPoints, InvitePoints
<1>6. CASE ReinsertMember(r)
    BY <1>0, <1>2, <1>3, <1>6 DEF ReinsertMember, InsertRow, Local, Holding,
           AdmittedPoints, HeldPoints
<1>7. CASE RemoveOrg(r)
  <2>1. entity[r].id = org
      BY <1>7 DEF RemoveOrg, RowsOf
  <2> QED BY <1>0, <1>2, <1>7, <2>1 DEF RemoveOrg, Local, Holding, AdmittedPoints, OrgPoints
<1>8. ASSUME pc[r] \in HeldPoints,
             \A m \in memberships \ memberships' : m.id = entity[r].id,
             \A n \in memberships' \ memberships : \E m \in memberships :
                 m.id = entity[r].id /\ m.org = n.org
      PROVE  arg[r].org = org
  <2>1. \A m \in memberships : m.id = entity[r].id => m.org = entity[r].org
      BY <1>8 DEF Tenancy, Identity, Known
  <2>2. PICK m : \/ m \in memberships /\ m.org = org /\ m \notin memberships'
                 \/ m \in memberships' /\ m.org = org /\ m \notin memberships
      BY DEF RowsOf
  <2>3. entity[r].org = org
      BY <1>8, <2>1, <2>2
  <2> QED BY <1>0, <1>8, <2>3 DEF Local, Holding
<1>9. CASE RemoveMember(r)
    BY <1>2, <1>8, <1>9 DEF RemoveMember, AdmittedPoints, HeldPoints
<1>10. CASE UpdateMember(r)
  <2>1. \A m \in memberships \ memberships' : m.id = entity[r].id
      BY <1>10 DEF UpdateMember
  <2>2. ASSUME NEW n \in memberships' \ memberships
        PROVE  \E m \in memberships : m.id = entity[r].id /\ m.org = n.org
    <3> PICK m \in memberships : n = IF m.id = entity[r].id
                                     THEN [m EXCEPT !.role = entity[r].role] ELSE m
        BY <1>10 DEF UpdateMember
    <3>1. m.id = entity[r].id /\ n.org = m.org
        BY <1>0, <2>2 DEF TablesOK, Membership
    <3> QED BY <3>1
  <2> QED BY <1>2, <1>8, <1>10, <2>1, <2>2 DEF UpdateMember, AdmittedPoints, HeldPoints
<1> QED BY <1>1, <1>4, <1>5, <1>6, <1>7, <1>9, <1>10
        DEF Step, Arrive, Abort, Guard, CheckSlug, InsertOrg, FindOrg, SaveOrg,
            ReinsertOrg, CheckMember, FindMember, SaveMember, tables

\* Tenant isolation: whatever the number of requests in flight and however
\* their statements interleave, the memberships of an organization change
\* only through a request whose caller was admitted as its ADMIN, or through
\* the request that creates the organization.
THEOREM TenantIsolation == Spec => OnlyAdminsWrite
PROOF
<1>1. Tenancy /\ [Next]_vars => [AuthorizedChange]_vars
  <2> SUFFICES ASSUME Tenancy, NEW r \in Requests, Step(r)
               PROVE  AuthorizedChange
      BY DEF Next
  <2> QED BY ChangeAuthorized DEF AuthorizedChange
<1> QED BY <1>1, TenancyInvariant, PTL DEF Spec, OnlyAdminsWrite

(***************************************************************************)
(* Creation of an organization.  Its second insert cannot be refused,      *)
(* since nobody can have reached the organization between the two.         *)
(***************************************************************************)

\* Only a request admitted to it deletes an organization.
LEMMA OrgKept ==
    ASSUME Base, NEW r \in Requests, Step(r), NEW o \in orgs, o \notin orgs'
    PROVE  grant[r] # NoRow /\ grant[r].org = o.id
PROOF
<1>1. Local(r)
    BY BaseParts
<1>2. RemoveOrg(r)
    BY DEF Step, Arrive, Abort, Guard, CheckSlug, InsertOrg, InsertAdmin, FindOrg, SaveOrg,
           ReinsertOrg, CheckMember, InsertMember, FindMember, SaveMember, UpdateMember,
           ReinsertMember, RemoveMember, InsertRow, tables
<1>3. entity[r].id = o.id
    BY <1>2 DEF RemoveOrg
<1> QED BY <1>1, <1>2, <1>3, NullAssumption DEF RemoveOrg, Local, Admission, Holding,
              AdmittedPoints, OrgPoints

\* The whole inductive invariant.
IInv == Tenancy /\ OneCreator /\ NewOrgUntouched

LEMMA CreationStep ==
    ASSUME IInv, NEW r \in Requests, Step(r)
    PROVE  OneCreator' /\ NewOrgUntouched'
PROOF
<1>0. OthersKept(r) /\ TablesOK /\ Base /\ Drawn /\ Drawn'
    BY BaseStep, BaseParts, DrawnStep DEF IInv, Tenancy
<1>1. ASSUME NEW q \in Requests, q # r, pc'[q] = "insertAdmin"
      PROVE  /\ entity'[q] \in orgs'
             /\ \A m \in memberships' : m.org # entity'[q].id
             /\ \A p \in Requests : grant'[p] # NoRow => grant'[p].org # entity'[q].id
  <2>0. pc[q] = "insertAdmin" /\ entity'[q] = entity[q]
      BY <1>0, <1>1 DEF OthersKept
  <2> PICK o \in orgs : o = entity[q]
      BY <2>0 DEF IInv, NewOrgUntouched
  <2>1. pc[q] = "insertAdmin" /\ entity'[q] = o
      BY <2>0
  <2>2. /\ o \in orgs
        /\ o.id \in OrgIds
        /\ RowsOf(o.id) = {}
        /\ \A p \in Requests : grant[p] # NoRow => grant[p].org # o.id
      BY <1>0, <2>1 DEF IInv, NewOrgUntouched, TablesOK, Organization, RowsOf
  <2>3. o \in orgs'
      BY <1>0, <2>2, OrgKept
  <2>4. ~(pc[r] = "insertAdmin" /\ entity[r].id = o.id)
      BY <1>1, <2>1 DEF IInv, OneCreator
  <2>5. RowsOf(o.id)' = {}
    <3> SUFFICES ASSUME RowsOf(o.id)' # RowsOf(o.id) PROVE FALSE
        BY <2>2
    <3>1. \/ grant[r] # NoRow /\ grant[r].org = o.id
          \/ pc[r] = "insertAdmin" /\ entity[r].id = o.id
        BY <2>2, ChangeAuthorized DEF IInv
    <3> QED BY <2>2, <2>4, <3>1
  <2>6. ASSUME NEW p \in Requests, grant'[p] # NoRow PROVE grant'[p].org # o.id
    <3>1. CASE p # r
        BY <1>0, <2>2, <2>6, <3>1 DEF OthersKept
    <3>2. CASE p = r
        BY <1>0, <2>2, <2>6, <3>2, Growth DEF RowsOf
    <3> QED BY <3>1, <3>2
  <2> QED BY <2>1, <2>3, <2>5, <2>6 DEF RowsOf
<1>2. ASSUME pc'[r] = "insertAdmin"
      PROVE  /\ entity'[r] \in orgs'
             /\ \A m \in memberships' : m.org # entity'[r].id
             /\ \A p \in Requests : grant'[p] # NoRow => grant'[p].org # entity'[r].id
             /\ \A q \in Requests \ {r} :
                   pc'[q] = "insertAdmin" => entity'[q].id # entity'[r].id
  <2>1. InsertOrg(r) /\ entity'[r] \in orgs' /\ entity'[r].id \notin issued
      BY <1>0, <1>2, Growth
  <2>2. UNCHANGED memberships
      BY <2>1 DEF InsertOrg
  <2>3. \A m \in memberships' : m.org # entity'[r].id
      BY <1>0, <2>1, <2>2 DEF Drawn, Known
  <2>4. \/ grant'[r] = NoRow
        \/ grant'[r] = grant[r]
        \/ grant'[r] \in memberships
      BY <1>0, Growth
  <2>5. ASSUME NEW p \in Requests, grant'[p] # NoRow PROVE grant'[p].org \in issued
    <3>1. CASE p # r
        BY <1>0, <2>5, <3>1 DEF OthersKept, Drawn
    <3>2. CASE p = r
        BY <1>0, <2>4, <2>5, <3>2 DEF Drawn, Known
    <3> QED BY <3>1, <3>2
  <2>6. ASSUME NEW q \in Requests \ {r}, pc'[q] = "insertAdmin"
        PROVE  entity'[q].id \in issued
      BY <1>0, <2>6 DEF OthersKept, Drawn
  <2> QED BY <2>1, <2>3, <2>5, <2>6
<1>3. OneCreator'
  <2> SUFFICES ASSUME NEW p \in Requests, NEW q \in Requests, p # q,
                      pc'[p] = "insertAdmin", pc'[q] = "insertAdmin"
               PROVE  entity'[p].id # entity'[q].id
      BY DEF OneCreator
  <2>1. CASE p = r \/ q = r
      BY <1>2, <2>1
  <2>2. CASE p # r /\ q # r
      BY <1>0, <2>2 DEF OthersKept, IInv, OneCreator
  <2> QED BY <2>1, <2>2
<1>4. NewOrgUntouched'
  <2> SUFFICES ASSUME NEW q \in Requests, pc'[q] = "insertAdmin"
               PROVE  /\ entity'[q] \in orgs'
                      /\ \A m \in memberships' : m.org # entity'[q].id
                      /\ \A p \in Requests : grant'[p] # NoRow =>
                            grant'[p].org # entity'[q].id
      BY DEF NewOrgUntouched
  <2>1. CASE q = r
      BY <1>2, <2>1
  <2>2. CASE q # r
      BY <1>1, <2>2
  <2> QED BY <2>1, <2>2
<1> QED BY <1>3, <1>4

LEMMA InitCreation == Init => IInv
PROOF
    BY InitTenancy DEF IInv, Init, OneCreator, NewOrgUntouched

LEMMA NextCreation == IInv /\ [Next]_vars => IInv'
PROOF
<1> SUFFICES ASSUME IInv, [Next]_vars PROVE IInv'
    OBVIOUS
<1>1. Tenancy'
    BY NextTenancy DEF IInv
<1>2. CASE Next
    BY <1>1, <1>2, CreationStep DEF Next, IInv
<1>3. CASE UNCHANGED vars
    BY <1>1, <1>3 DEF vars, IInv, OneCreator, NewOrgUntouched, RowsOf
<1> QED BY <1>2, <1>3

\* For any number of concurrent requests, an organization that is half
\* created is there, empty and out of everybody's reach.
THEOREM CreationUndisturbed == Spec => []NewOrgUntouched
PROOF
<1>1. IInv => NewOrgUntouched
    BY DEF IInv
<1> QED BY <1>1, InitCreation, NextCreation, PTL DEF Spec

(***************************************************************************)
(* Loss of the last ADMIN.                                                 *)
(***************************************************************************)

LEMMA OrphanStep ==
    ASSUME Tenancy, NEW r \in Requests, Step(r), NEW org \in OrgIds, Orphaned(org)
    PROVE  Orphaned(org)'
PROOF
<1>0. Base /\ Drawn /\ OthersKept(r) /\ Local(r) /\ Local(r)'
    BY BaseStep, BaseParts DEF Tenancy, Base, Requested, Local
<1>1. PICK o \in orgs : o.id = org
    BY DEF Orphaned, OrgIdsOf
<1>2. /\ Admins(org) = {}
      /\ \A q \in Requests : grant[q] # NoRow => grant[q].org # org
      /\ \A q \in Requests : pc[q] = "insertAdmin" => entity[q].id # org
    BY DEF Orphaned
<1>3. o \in orgs'
    BY <1>0, <1>1, <1>2, OrgKept
<1>4. RowsOf(org)' = RowsOf(org)
  <2> SUFFICES ASSUME RowsOf(org)' # RowsOf(org) PROVE FALSE
      OBVIOUS
  <2>1. \/ grant[r] # NoRow /\ grant[r].org = org
        \/ pc[r] = "insertAdmin" /\ entity[r].id = org
      BY ChangeAuthorized
  <2> QED BY <1>2, <2>1
<1>5. Admins(org)' = {}
    BY <1>2, <1>4 DEF Admins
<1>6. ASSUME NEW q \in Requests, grant'[q] # NoRow PROVE grant'[q].org # org
  <2>1. CASE q # r
      BY <1>0, <1>2, <1>6, <2>1 DEF OthersKept
  <2>2. CASE q = r
    <3>1. grant'[r].role = ADMIN
        BY <1>0, <1>6, <2>2 DEF Local, Admission
    <3> QED BY <1>0, <1>2, <1>6, <2>2, <3>1, Growth DEF Admins, RowsOf
  <2> QED BY <2>1, <2>2
<1>7. ASSUME NEW q \in Requests, pc'[q] = "insertAdmin" PROVE entity'[q].id # org
  <2>1. CASE q # r
      BY <1>0, <1>2, <1>7, <2>1 DEF OthersKept
  <2>2. CASE q = r
      BY <1>0, <1>1, <1>7, <2>2, Growth DEF Drawn
  <2> QED BY <2>1, <2>2
<1> QED BY <1>1, <1>3, <1>5, <1>6, <1>7 DEF Orphaned, OrgIdsOf

\* No sequence of calls gives an organization without an ADMIN one again.
THEOREM OrphansStayOrphans == Spec => OrphanedForever
PROOF
<1> DEFINE Kept == \A org \in OrgIds : Orphaned(org) => Orphaned(org)'
<1>1. Tenancy /\ [Next]_vars => [Kept]_vars
    BY OrphanStep DEF Next
<1> QED BY <1>1, TenancyInvariant, PTL DEF Spec, OrphanedForever

(***************************************************************************)
(* Consistency of the memberships.                                         *)
(***************************************************************************)

Consistent == TypeOK /\ Requested /\ MembershipsConsistent

LEMMA ConsistentStep ==
    ASSUME Consistent, NEW r \in Requests, Step(r)
    PROVE  MembershipsConsistent'
PROOF
<1>0. Base /\ TablesOK /\ Local(r)
    BY BaseParts DEF Consistent, Base
<1> DEFINE Same(m, n) == (m.user = n.user /\ m.org = n.org) \/ m.id = n.id
<1>1. /\ \A m, n \in memberships : Same(m, n) => m = n
      /\ \A m \in memberships : m.org \in OrgIdsOf(orgs)
    BY DEF Consistent, MembershipsConsistent
<1>2. ASSUME memberships' \subseteq memberships, orgs \subseteq orgs'
      PROVE  MembershipsConsistent'
    BY <1>1, <1>2 DEF MembershipsConsistent, OrgIdsOf
<1>3. ASSUME NEW m, InsertRow(r, m) PROVE MembershipsConsistent'
  <2>1. CASE UNCHANGED memberships
      BY <1>2, <1>3, <2>1 DEF InsertRow
  <2>2. CASE MembershipInsertable(m) /\ memberships' = memberships \cup {m}
      BY <1>1, <1>3, <2>2 DEF InsertRow, MembershipInsertable, MembershipsConsistent,
             OrgIdsOf, MemberIdsOf
  <2> QED BY <1>3, <2>1, <2>2 DEF InsertRow
<1>4. CASE RemoveOrg(r)
  <2>1. \A m \in memberships' : m \in memberships /\ m.org # entity[r].id
      BY <1>4 DEF RemoveOrg
  <2>2. \A m \in memberships' : m.org \in OrgIdsOf(orgs')
      BY <1>1, <1>4, <2>1 DEF RemoveOrg, OrgIdsOf
  <2> QED BY <1>1, <2>1, <2>2 DEF MembershipsConsistent
<1>5. CASE UpdateMember(r)
  <2>1. ASSUME NEW n \in memberships'
        PROVE  \E m \in memberships :
                  /\ n = IF m.id = entity[r].id
                         THEN [m EXCEPT !.role = entity[r].role] ELSE m
                  /\ m.id = n.id /\ m.user = n.user /\ m.org = n.org
    <3> PICK m \in memberships : n = IF m.id = entity[r].id
                                     THEN [m EXCEPT !.role = entity[r].role] ELSE m
        BY <1>5 DEF UpdateMember
    <3> QED BY <1>0 DEF TablesOK, Membership
  <2>2. UNCHANGED orgs
      BY <1>5 DEF UpdateMember
  <2>3. ASSUME NEW x \in memberships', NEW y \in memberships', Same(x, y) PROVE x = y
    <3>1. PICK m \in memberships :
             /\ x = IF m.id = entity[r].id THEN [m EXCEPT !.role = entity[r].role] ELSE m
             /\ m.id = x.id /\ m.user = x.user /\ m.org = x.org
        BY <2>1
    <3>2. PICK n \in memberships :
             /\ y = IF n.id = entity[r].id THEN [n EXCEPT !.role = entity[r].role] ELSE n
             /\ n.id = y.id /\ n.user = y.user /\ n.org = y.org
        BY <2>1
    <3>3. m = n
        BY <1>1, <2>3, <3>1, <3>2
    <3> QED BY <3>1, <3>2, <3>3
  <2> QED BY <1>1, <2>1, <2>2, <2>3 DEF MembershipsConsistent
<1>6. CASE InsertAdmin(r) \/ InsertMember(r) \/ ReinsertMember(r)
    BY <1>3, <1>6 DEF InsertAdmin, InsertMember, ReinsertMember
<1>7. CASE RemoveMember(r)
    BY <1>2, <1>7 DEF RemoveMember
<1>8. CASE InsertOrg(r) \/ ReinsertOrg(r)
    BY <1>2, <1>8 DEF InsertOrg, ReinsertOrg
<1>9. CASE UNCHANGED <<orgs, memberships>>
    BY <1>2, <1>9
<1> QED BY <1>4, <1>5, <1>6, <1>7, <1>8, <1>9
        DEF Step, Arrive, Abort, Guard, CheckSlug, FindOrg, SaveOrg, CheckMember,
            FindMember, SaveMember, tables

\* However many invitations, role changes and deletions race, no user has two
\* memberships of an organization and no membership outlives its organization.
THEOREM MembershipsStayConsistent == Spec => []MembershipsConsistent
PROOF
<1>1. Init => Consistent
    BY InitOK DEF Consistent, Init, MembershipsConsistent
<1>2. Consistent /\ [Next]_vars => Consistent'
  <2> SUFFICES ASSUME Consistent, [Next]_vars PROVE Consistent'
      OBVIOUS
  <2>1. (TypeOK /\ Requested)'
      BY NextOK DEF Consistent
  <2>2. CASE Next
      BY <2>1, <2>2, ConsistentStep DEF Next, Consistent
  <2>3. CASE UNCHANGED vars
      BY <2>1, <2>3 DEF vars, Consistent, MembershipsConsistent, OrgIdsOf
  <2> QED BY <2>2, <2>3
<1>3. Consistent => MembershipsConsistent
    BY DEF Consistent
<1> QED BY <1>1, <1>2, <1>3, PTL DEF Spec
============================================================================
