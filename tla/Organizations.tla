--------------------------- MODULE Organizations ---------------------------
(***************************************************************************)
(* The organizations service (backend/src/organizations) behind its two    *)
(* guards: organizations are created and deleted, members are invited,     *)
(* given a role and removed, by HTTP requests that run concurrently.       *)
(*                                                                         *)
(* A handler is a chain of awaited database statements, so a request is a  *)
(* small process: pc[r] names the statement it executes next, and between  *)
(* two statements any other request may run, or the request may die with   *)
(* its connection or its process (Abort).  Nothing in the service opens a  *)
(* transaction across two statements.                                      *)
(*                                                                         *)
(* The two tables are sets of rows.  Reads that change nothing             *)
(* (findUserOrgs, findOne, getMembers as endpoints) are left out; so are   *)
(* names, descriptions, logos and dates.                                   *)
(***************************************************************************)
EXTENDS FiniteSets

CONSTANTS
    Users,      \* ids of the registered users
    OrgIds,     \* the uuids the database may draw for organizations (bound)
    MemberIds,  \* the uuids it may draw for memberships (bound)
    Slugs,      \* organization slugs
    Roles,      \* ADMIN, EDITOR, VIEWER: only ADMIN is told apart here
    ADMIN,
    Requests,   \* requests in flight at one time (bound)
    NoUser,     \* what an unknown email address resolves to
    NoRow       \* no entity, and no request

ASSUME RolesAssumption == ADMIN \in Roles

Organization == [id: OrgIds, slug: Slugs]
Membership   == [id: MemberIds, user: Users, org: OrgIds, role: Roles]

\* The body and path parameters of each mutating endpoint, with its caller.
Request ==
         [op: {"create"}, caller: Users, slug: Slugs]
    \cup [op: {"update", "delete"}, caller: Users, org: OrgIds]
    \cup [op: {"invite"}, caller: Users, org: OrgIds,
          user: Users \cup {NoUser}, role: Roles]
    \cup [op: {"updateRole"}, caller: Users, org: OrgIds,
          member: MemberIds, role: Roles]
    \cup [op: {"removeMember"}, caller: Users, org: OrgIds, member: MemberIds]

ASSUME NullAssumption ==
    /\ NoUser \notin Users
    /\ NoRow \notin Organization
    /\ NoRow \notin Membership
    /\ NoRow \notin Request

Points == {"idle", "guard",
           "checkSlug", "insertOrg", "insertAdmin",
           "findOrg", "saveOrg", "reinsertOrg", "removeOrg",
           "checkMember", "insertMember",
           "findMember", "saveMember", "updateMember", "reinsertMember",
           "removeMember"}

VARIABLES
    orgs,         \* table organizations
    memberships,  \* table memberships
    issued,       \* uuids drawn so far: a uuid is never drawn twice
    pc,           \* per request, the statement it executes next
    arg,          \* per request, its parameters
    grant,        \* per request, request.membership as TenantGuard stored it
    entity        \* per request, the entity its handler holds in memory

tables == <<orgs, memberships, issued>>
vars   == <<orgs, memberships, issued, pc, arg, grant, entity>>

Init ==
    /\ orgs = {}
    /\ memberships = {}
    /\ issued = {}
    /\ pc     = [r \in Requests |-> "idle"]
    /\ arg    = [r \in Requests |-> NoRow]
    /\ grant  = [r \in Requests |-> NoRow]
    /\ entity = [r \in Requests |-> NoRow]

-----------------------------------------------------------------------------
(* The database.                                                           *)

OrgIdsOf(os)    == {o.id : o \in os}
MemberIdsOf(ms) == {m.id : m \in ms}
RowsOf(org)     == {m \in memberships : m.org = org}
Admins(org)     == {m \in RowsOf(org) : m.role = ADMIN}

\* organizations.slug is unique and the id is the primary key.
OrgInsertable(o) ==
    /\ o.id \notin OrgIdsOf(orgs)
    /\ \A p \in orgs : p.slug # o.slug

\* A mutant: the (userId, organizationId) constraint is missing.
MembershipInsertable_NoUnique(m) ==
    /\ m.id \notin MemberIdsOf(memberships)
    /\ m.org \in OrgIdsOf(orgs)

\* memberships: primary key, @Unique(userId, organizationId), foreign key.
MembershipInsertable(m) ==
    /\ m.id \notin MemberIdsOf(memberships)
    /\ \A n \in memberships : ~(n.user = m.user /\ n.org = m.org)
    /\ m.org \in OrgIdsOf(orgs)

-----------------------------------------------------------------------------
(* Request control.                                                        *)

Goto(r, point) == pc' = [pc EXCEPT ![r] = point]

\* The request answers, with a result or with an error, and is over.
Reply(r) ==
    /\ Goto(r, "idle")
    /\ arg'    = [arg EXCEPT ![r] = NoRow]
    /\ grant'  = [grant EXCEPT ![r] = NoRow]
    /\ entity' = [entity EXCEPT ![r] = NoRow]

Arrive(r) ==
    /\ pc[r] = "idle"
    /\ \E a \in Request :
         /\ arg' = [arg EXCEPT ![r] = a]
         /\ Goto(r, IF a.op = "create" THEN "checkSlug" ELSE "guard")
    /\ UNCHANGED <<orgs, memberships, issued, grant, entity>>

\* The connection or the process dies between two statements.
Abort(r) ==
    /\ pc[r] # "idle"
    /\ Reply(r)
    /\ UNCHANGED tables

FirstStatement(op) ==
    CASE op = "invite" -> "checkMember"
      [] op \in {"update", "delete"} -> "findOrg"
      [] OTHER -> "findMember"

\* A mutant: RolesGuard is forgotten on the controller.
Admits_NoRolesGuard(r, m) ==
    /\ m.user = arg[r].caller
    /\ m.org = arg[r].org

\* TenantGuard finds the caller's membership, RolesGuard requires ADMIN.
Admits(r, m) ==
    /\ m.user = arg[r].caller
    /\ m.org = arg[r].org
    /\ m.role = ADMIN

Guard(r) ==
    /\ pc[r] = "guard"
    /\ \/ \E m \in memberships :
            /\ Admits(r, m)
            /\ grant' = [grant EXCEPT ![r] = m]
            /\ Goto(r, FirstStatement(arg[r].op))
            /\ UNCHANGED <<arg, entity>>
       \/ /\ \A m \in memberships : ~Admits(r, m)
          /\ Reply(r)
    /\ UNCHANGED tables

-----------------------------------------------------------------------------
(* create: two inserts with no transaction around them.                    *)

CheckSlug(r) ==
    /\ pc[r] = "checkSlug"
    /\ \/ /\ \A o \in orgs : o.slug # arg[r].slug
          /\ Goto(r, "insertOrg")
          /\ UNCHANGED <<arg, grant, entity>>
       \/ /\ \E o \in orgs : o.slug = arg[r].slug
          /\ Reply(r)
    /\ UNCHANGED tables

InsertOrg(r) ==
    /\ pc[r] = "insertOrg"
    /\ \E id \in OrgIds \ issued :
         LET o == [id |-> id, slug |-> arg[r].slug] IN
         /\ issued' = issued \cup {id}
         /\ \/ /\ OrgInsertable(o)
               /\ orgs' = orgs \cup {o}
               /\ entity' = [entity EXCEPT ![r] = o]
               /\ Goto(r, "insertAdmin")
               /\ UNCHANGED <<arg, grant>>
            \/ /\ ~OrgInsertable(o)
               /\ Reply(r)
               /\ UNCHANGED orgs
    /\ UNCHANGED memberships

\* Insert the row, or fail on a constraint; the request answers either way.
InsertRow(r, m) ==
    /\ \/ /\ MembershipInsertable(m)
          /\ memberships' = memberships \cup {m}
       \/ /\ ~MembershipInsertable(m)
          /\ UNCHANGED memberships
    /\ Reply(r)
    /\ UNCHANGED orgs

InsertAdmin(r) ==
    /\ pc[r] = "insertAdmin"
    /\ \E id \in MemberIds \ issued :
         /\ issued' = issued \cup {id}
         /\ InsertRow(r, [id |-> id, user |-> arg[r].caller,
                          org |-> entity[r].id, role |-> ADMIN])

-----------------------------------------------------------------------------
(* update and delete of an organization.                                   *)

FindOrg(r) ==
    /\ pc[r] = "findOrg"
    /\ \/ \E o \in orgs :
            /\ o.id = arg[r].org
            /\ entity' = [entity EXCEPT ![r] = o]
            /\ Goto(r, IF arg[r].op = "update" THEN "saveOrg" ELSE "removeOrg")
            /\ UNCHANGED <<arg, grant>>
       \/ /\ arg[r].org \notin OrgIdsOf(orgs)
          /\ Reply(r)
    /\ UNCHANGED tables

\* Repository.save of an entity that has an id looks its row up again: an
\* UPDATE of name and description if it is there, an INSERT if it is gone.
SaveOrg(r) ==
    /\ pc[r] = "saveOrg"
    /\ \/ /\ entity[r].id \in OrgIdsOf(orgs)
          /\ Reply(r)
       \/ /\ entity[r].id \notin OrgIdsOf(orgs)
          /\ Goto(r, "reinsertOrg")
          /\ UNCHANGED <<arg, grant, entity>>
    /\ UNCHANGED tables

ReinsertOrg(r) ==
    /\ pc[r] = "reinsertOrg"
    /\ \/ /\ OrgInsertable(entity[r])
          /\ orgs' = orgs \cup {entity[r]}
       \/ /\ ~OrgInsertable(entity[r])
          /\ UNCHANGED orgs
    /\ Reply(r)
    /\ UNCHANGED <<memberships, issued>>

\* DELETE by id; the memberships go with it (onDelete: 'CASCADE').
RemoveOrg(r) ==
    /\ pc[r] = "removeOrg"
    /\ orgs' = {o \in orgs : o.id # entity[r].id}
    /\ memberships' = {m \in memberships : m.org # entity[r].id}
    /\ Reply(r)
    /\ UNCHANGED issued

-----------------------------------------------------------------------------
(* The members of an organization.                                         *)

\* A mutant: an unknown address is not answered with 404.
CheckMember_AnyEmail(r) ==
    LET refused == \E m \in memberships : /\ m.user = arg[r].user
                                          /\ m.org = arg[r].org
    IN /\ pc[r] = "checkMember"
       /\ IF refused THEN Reply(r)
                     ELSE Goto(r, "insertMember") /\ UNCHANGED <<arg, grant, entity>>
       /\ UNCHANGED tables

\* inviteMember: an unknown address, or a membership that exists, is refused.
CheckMember(r) ==
    LET refused == \/ arg[r].user = NoUser
                   \/ \E m \in memberships : /\ m.user = arg[r].user
                                             /\ m.org = arg[r].org
    IN /\ pc[r] = "checkMember"
       /\ \/ /\ ~refused
             /\ Goto(r, "insertMember")
             /\ UNCHANGED <<arg, grant, entity>>
          \/ /\ refused
             /\ Reply(r)
       /\ UNCHANGED tables

InsertMember(r) ==
    /\ pc[r] = "insertMember"
    /\ \E id \in MemberIds \ issued :
         /\ issued' = issued \cup {id}
         /\ InsertRow(r, [id |-> id, user |-> arg[r].user,
                          org |-> arg[r].org, role |-> arg[r].role])

\* A mutant: the lookup forgets the organization of the path.
Addressed_AnyTenant(r, m) == m.id = arg[r].member

\* findOne({ id: memberId, organizationId: orgId }).
Addressed(r, m) ==
    /\ m.id = arg[r].member
    /\ m.org = arg[r].org

\* updateMemberRole and removeMember load the row they are about to change.
FindMember(r) ==
    /\ pc[r] = "findMember"
    /\ \/ \E m \in memberships :
            /\ Addressed(r, m)
            /\ \/ /\ arg[r].op = "updateRole"
                  /\ entity' = [entity EXCEPT ![r] = [m EXCEPT !.role = arg[r].role]]
                  /\ Goto(r, "saveMember")
               \/ /\ arg[r].op = "removeMember"
                  /\ entity' = [entity EXCEPT ![r] = m]
                  /\ Goto(r, "removeMember")
            /\ UNCHANGED <<arg, grant>>
       \/ /\ \A m \in memberships : ~Addressed(r, m)
          /\ Reply(r)
    /\ UNCHANGED tables

\* Repository.save again: nothing to write, an UPDATE, or an INSERT.
SaveMember(r) ==
    /\ pc[r] = "saveMember"
    /\ \/ /\ entity[r] \in memberships
          /\ Reply(r)
       \/ /\ entity[r] \notin memberships
          /\ Goto(r, IF entity[r].id \in MemberIdsOf(memberships)
                     THEN "updateMember" ELSE "reinsertMember")
          /\ UNCHANGED <<arg, grant, entity>>
    /\ UNCHANGED tables

\* UPDATE memberships SET role = ... WHERE id = ...
UpdateMember(r) ==
    /\ pc[r] = "updateMember"
    /\ memberships' = {IF m.id = entity[r].id THEN [m EXCEPT !.role = entity[r].role]
                                              ELSE m : m \in memberships}
    /\ Reply(r)
    /\ UNCHANGED <<orgs, issued>>

ReinsertMember(r) ==
    /\ pc[r] = "reinsertMember"
    /\ InsertRow(r, entity[r])
    /\ UNCHANGED issued

RemoveMember(r) ==
    /\ pc[r] = "removeMember"
    /\ memberships' = {m \in memberships : m.id # entity[r].id}
    /\ Reply(r)
    /\ UNCHANGED <<orgs, issued>>

-----------------------------------------------------------------------------
Step(r) ==
    \/ Arrive(r) \/ Abort(r) \/ Guard(r)
    \/ CheckSlug(r) \/ InsertOrg(r) \/ InsertAdmin(r)
    \/ FindOrg(r) \/ SaveOrg(r) \/ ReinsertOrg(r) \/ RemoveOrg(r)
    \/ CheckMember(r) \/ InsertMember(r)
    \/ FindMember(r) \/ SaveMember(r) \/ UpdateMember(r)
    \/ ReinsertMember(r) \/ RemoveMember(r)

Next == \E r \in Requests : Step(r)

Spec == Init /\ [][Next]_vars

-----------------------------------------------------------------------------
(* Properties.                                                             *)

\* The tables hold rows, a request in flight has its parameters, and the
\* memory of a request (request.membership, the loaded entity) holds rows.
TypeOK ==
    /\ orgs \subseteq Organization
    /\ memberships \subseteq Membership
    /\ issued \subseteq OrgIds \cup MemberIds
    /\ pc \in [Requests -> Points]
    /\ arg \in [Requests -> Request \cup {NoRow}]
    /\ grant \in [Requests -> Membership \cup {NoRow}]
    /\ entity \in [Requests -> Organization \cup Membership \cup {NoRow}]

\* However invitations, role changes that re-insert a row and deletions of
\* the organization race, a user has at most one membership of an
\* organization and every membership belongs to an organization that exists
\* (inviteMember checks before it writes; only the constraints make it hold).
MembershipsConsistent ==
    /\ \A m, n \in memberships :
         (m.user = n.user /\ m.org = n.org) \/ m.id = n.id => m = n
    /\ \A m \in memberships : m.org \in OrgIdsOf(orgs)

\* Between the two inserts of create nobody else can reach the new
\* organization: it is still there, has no member, and no other request was
\* admitted to it.  So the second insert cannot be refused, and only a crash
\* between the two can leave an organization without its ADMIN.
NewOrgUntouched ==
    \A r \in Requests : pc[r] = "insertAdmin" =>
        /\ entity[r] \in orgs
        /\ \A m \in memberships : m.org # entity[r].id
        /\ \A q \in Requests : grant[q] # NoRow => grant[q].org # entity[r].id

\* The memberships of an organization change only by a step of a request
\* whose caller was admitted as an ADMIN of that very organization, or of
\* the request that creates it.  An ADMIN of one tenant who names a
\* membership of another changes nothing.
AuthorizedChange ==
    \A org \in OrgIds : RowsOf(org)' # RowsOf(org) =>
        \E r \in Requests :
            /\ pc'[r] # pc[r]
            /\ \/ /\ grant[r] # NoRow
                  /\ grant[r].org = org
                  /\ grant[r].role = ADMIN
                  /\ grant[r].user = arg[r].caller
               \/ /\ pc[r] = "insertAdmin"
                  /\ entity[r].id = org

OnlyAdminsWrite == [][AuthorizedChange]_vars

\* An organization that has lost its last ADMIN (nothing stops the last one
\* from leaving or demoting itself) with no request admitted to it in flight
\* is lost for good: no sequence of calls gives it an ADMIN again.
Orphaned(org) ==
    /\ org \in OrgIdsOf(orgs)
    /\ Admins(org) = {}
    /\ \A r \in Requests : /\ grant[r] # NoRow => grant[r].org # org
                           /\ pc[r] = "insertAdmin" => entity[r].id # org

OrphanedForever ==
    [][\A org \in OrgIds : Orphaned(org) => Orphaned(org)']_vars

\* A membership that was removed does not come back: its id is never a row
\* again ("Member removed", removeMember).  updateMemberRole breaks it.
RemovedStaysRemoved ==
    [][\A id \in MemberIds \cap issued :
          id \notin MemberIdsOf(memberships) => id \notin MemberIdsOf(memberships')]_vars

-----------------------------------------------------------------------------
(* The inductive invariant behind the theorems of Organizations_proofs.    *)

OrgPoints      == {"findOrg", "saveOrg", "reinsertOrg", "removeOrg"}
InvitePoints   == {"checkMember", "insertMember"}
HeldPoints     == {"saveMember", "updateMember", "reinsertMember", "removeMember"}
AdmittedPoints == OrgPoints \cup InvitePoints \cup {"findMember"} \cup HeldPoints

\* A request runs the statements of its own endpoint, and those of a guarded
\* endpoint only after its caller was found to be an ADMIN of the path's
\* organization.
Control(r) ==
    /\ pc[r] # "idle" => arg[r] \in Request
    /\ pc[r] = "guard" => arg[r].op # "create"
    /\ pc[r] \in {"checkSlug", "insertOrg", "insertAdmin"} => arg[r].op = "create"
    /\ pc[r] \in OrgPoints => arg[r].op \in {"update", "delete"}
    /\ pc[r] \in InvitePoints => arg[r].op = "invite"
    /\ pc[r] = "insertMember" => arg[r].user # NoUser
    /\ pc[r] \in {"findMember"} \cup HeldPoints =>
         arg[r].op \in {"updateRole", "removeMember"}

Admission(r) ==
    /\ pc[r] \in AdmittedPoints =>
         /\ grant[r] \in Membership
         /\ grant[r].user = arg[r].caller
         /\ grant[r].org = arg[r].org
         /\ grant[r].role = ADMIN
    /\ pc[r] \notin AdmittedPoints => grant[r] = NoRow

\* What a handler holds in memory is of the tenant it was admitted to.
Holding(r) ==
    /\ pc[r] = "insertAdmin" => entity[r] \in Organization
    /\ pc[r] \in {"saveOrg", "reinsertOrg", "removeOrg"} =>
         entity[r] \in Organization /\ entity[r].id = arg[r].org
    /\ pc[r] \in HeldPoints =>
         entity[r] \in Membership /\ entity[r].org = arg[r].org

\* The memberships in the table and those handlers are about to save.
Known == memberships \cup {entity[r] : r \in {q \in Requests : pc[q] \in HeldPoints}}

\* Every id in the tables and in the memory of a request was drawn before.
Drawn ==
    /\ \A o \in orgs : o.id \in issued
    /\ \A m \in Known : m.id \in issued /\ m.org \in issued
    /\ \A r \in Requests : grant[r] # NoRow => grant[r].org \in issued
    /\ \A r \in Requests : pc[r] = "insertAdmin" => entity[r].id \in issued

\* An id names the membership of one organization for ever, in the table and
\* in every handler's memory.
Identity == \A m, n \in Known : m.id = n.id => m.org = n.org

OneCreator ==
    \A q, r \in Requests :
        pc[q] = "insertAdmin" /\ pc[r] = "insertAdmin" /\ q # r
            => entity[q].id # entity[r].id

Requested == \A r \in Requests : Control(r) /\ Admission(r) /\ Holding(r)
=============================================================================
