---------------------------- MODULE ClientPages ----------------------------
(***************************************************************************)
(* The pages of the React client: which organization the user works in,    *)
(* whose items a page shows, and which actions it offers, while the        *)
(* answers of the backend arrive in any order and organizations are        *)
(* switched, created and left.                                             *)
(*                                                                         *)
(* The stores are modelled as a whole, of a page the state its component   *)
(* keeps.  React runs an effect before the next click, so that an effect   *)
(* is part of the step that calls for it.  The backend answers a call at   *)
(* some moment between its sending and its arrival.  Tokens, their renewal *)
(* and 401 are ClientSession's; here a call is made as the user who was    *)
(* signed in when it was sent.                                             *)
(*                                                                         *)
(* An item is a project, task, payment or member; only its organization    *)
(* matters here.  A list of organizations maps an organization to the role *)
(* of the user, or to NoRole where it is not listed.  Every organization   *)
(* in the store has its role (PagesTypeOK), so that useOrgRole never asks  *)
(* the backend for it.                                                     *)
(***************************************************************************)
EXTENDS Naturals, Permissions

CONSTANTS
    Users,      \* ids of users
    Orgs,       \* ids of organizations
    Pages,      \* the pages that are visited
    Calls,      \* calls under way at one time (bound)
    MaxChanges, \* changes of memberships by others (bound)
    NoUser,     \* nobody is signed in
    NoOrg,      \* no organization
    NoRole,     \* not a member, or not listed
    Idle        \* no call

AllPages == {"dashboard", "projects", "board", "payments"}

\* The endpoints that the fetch of a page calls.
Loads ==
    [dashboard |-> {"readProject", "readMembers"},
     projects  |-> {"readProject"},
     board     |-> {"readTask", "readProject", "readMembers"},
     payments  |-> {"readPayments"}]

CanEdit(r) == r \in {"ADMIN", "EDITOR"}

\* The actions that a page shows to a user with role r: New Project, Edit and
\* Delete on the page of projects,
ProjectsOffer(r) == IF CanEdit(r) THEN {"writeProject", "deleteProject"} ELSE {}

\* adding, editing, moving and deleting tasks on the board,
BoardOffers(r) == IF CanEdit(r) THEN {"writeTask", "deleteTask"} ELSE {}

\* Invite on the dashboard,
DashboardOffers(r) == IF r = "ADMIN" THEN {"manageMembers"} ELSE {}

\* A mutant: the page of payments looks at canEdit.
PaymentsOffer_CanEdit(r) == IF CanEdit(r) THEN {"payments"} ELSE {}

\* New Payment, Verify and Refund on the page of payments.
PaymentsOffer(r) == IF r = "ADMIN" THEN {"payments"} ELSE {}

Offers(p, r) ==
    CASE p = "projects"  -> ProjectsOffer(r)
      [] p = "board"     -> BoardOffers(r)
      [] p = "dashboard" -> DashboardOffers(r)
      [] p = "payments"  -> PaymentsOffer(r)

Actions == {"writeProject", "deleteProject", "writeTask", "deleteTask", "manageMembers",
            "payments"}

\* An organization as the store keeps it.
Org == [id: Orgs, role: Roles]
Nothing == [id |-> NoOrg, role |-> NoRole]

Listing == [Orgs -> Roles \cup {NoRole}]
Nobody == [o \in Orgs |-> NoRole]

\* A call of kind login is the fetch of organizations that LoginPage awaits,
\* one of kind orgs that of App.  page is the page that waits for the answer,
\* if it is still there; foreign and late are history fields.
Call == [kind: {"login", "orgs", "create", "load"} \cup Actions,
         user: Users, org: Orgs \cup {NoOrg}, item: Orgs \cup {NoOrg},
         page: Pages \cup {"none"}, foreign: BOOLEAN, late: BOOLEAN,
         answer: {"none", "ok", "403", "404"}, list: Listing]

ASSUME NullAssumption ==
    /\ NoUser \notin Users
    /\ NoOrg \notin Orgs
    /\ NoRole \notin Roles
    /\ Idle \notin Call

ASSUME PagesAssumption == {"dashboard"} \subseteq Pages /\ Pages \subseteq AllPages

ASSUME ChangesAssumption == MaxChanges \in Nat

VARIABLES
    member,        \* backend: the role of a user in an organization
    changes,       \* changes so far (bound)
    user,          \* auth.store: who is signed in
    organizations, \* org.store: the listed organizations
    currentOrg,    \* org.store: the one the user works in
    page,          \* the page, "none" for the login page
    board,         \* the organization of the project in the URL of the board
    shown,         \* whose items the page keeps
    loading,       \* the page shows a spinner
    call,          \* calls under way
    moved,         \* history: roles that changed since a list may have had them
    foreign,       \* history: the store was filled for another user
    overlapped,    \* history: the organization changed while the page waited
    failed         \* history: the last fetch of the page failed

server    == <<member, changes>>
stores    == <<user, organizations, currentOrg, foreign>>
screen    == <<page, board, shown, loading, overlapped, failed>>
pagesVars == <<member, changes, user, organizations, currentOrg, page, board, shown,
               loading, call, moved, foreign, overlapped, failed>>

PagesInit ==
    /\ member \in [Users \X Orgs -> Roles \cup {NoRole}]
    /\ changes = 0
    /\ user = NoUser
    /\ organizations = Nobody
    /\ currentOrg = Nothing
    /\ page = "none"
    /\ board = NoOrg
    /\ shown = NoOrg
    /\ loading = FALSE
    /\ call = [c \in Calls |-> Idle]
    /\ moved = {}
    /\ foreign = FALSE
    /\ overlapped = FALSE
    /\ failed = FALSE

-----------------------------------------------------------------------------
(* Calls.                                                                  *)

Started(kind, u, org, item, p, f) ==
    [kind |-> kind, user |-> u, org |-> org, item |-> item, page |-> p, foreign |-> f,
     late |-> FALSE, answer |-> "none", list |-> Nobody]

\* The fetch of page p, with the project of the board in its path.
Load(p, b, org, f) == Started("load", user, org, IF p = "board" THEN b ELSE org, p, f)

\* The page is left: its fetches change nothing any more, and nobody waits
\* for its other calls.
Left == [c \in Calls |->
           CASE call[c] = Idle -> Idle
             [] call[c] # Idle /\ call[c].kind = "load" -> Idle
             [] call[c] # Idle /\ call[c].kind # "load" -> [call[c] EXCEPT !.page = "none"]]

Free(c) == call[c] = Idle

Waiting(c) == ~Free(c) /\ page # "none" /\ call[c].page = page

\* The page that opens fetches its items for organization o.
Wants(p, o) == p # "none" /\ o # Nothing /\ (p = "payments" => o.role = "ADMIN")

\* A mutant: the effect does not depend on currentOrg.id.
Refetches_OnceOnly(new) == Wants(page, new) /\ currentOrg = Nothing

\* The page fetches again: currentOrg.id or, on the page of payments, isAdmin
\* is another.  useOrgRole keeps the role and follows currentOrg in an effect,
\* so that the page of payments goes by the role before, and then by the new.
Refetches(new) ==
    /\ page # "none"
    /\ new # Nothing
    /\ \/ new.id # currentOrg.id /\ (page = "payments" => currentOrg.role = "ADMIN")
       \/ page = "payments" /\ currentOrg.role # "ADMIN" /\ new.role = "ADMIN"

\* The page of payments fetched by the role before.
Late(new) == page = "payments" /\ new.role # "ADMIN"

\* The user works in organization new from now on.  Call c ends, or is free.
Turn(new, c, f) ==
    /\ currentOrg' = new
    /\ overlapped' = (overlapped \/ (new.id # currentOrg.id /\ \E d \in Calls \ {c} : Waiting(d)))
    /\ \/ /\ Refetches(new)
          /\ call' = [call EXCEPT
                        ![c] = [Load(page, board, new.id, f) EXCEPT !.late = Late(new)]]
          /\ loading' = TRUE
       \/ /\ ~Refetches(new)
          /\ call' = [call EXCEPT ![c] = Idle]
          /\ UNCHANGED loading
    /\ UNCHANGED <<page, board, shown, failed>>

\* Page p opens, for a project of organization b if it is the board.  Call c
\* ends, or is free.
Mount(p, b, o, c, f) ==
    /\ page' = p
    /\ board' = b
    /\ shown' = NoOrg
    /\ overlapped' = FALSE
    /\ failed' = FALSE
    /\ loading' = Wants(p, o)
    /\ call' = [Left EXCEPT ![c] = IF Wants(p, o) THEN Load(p, b, o.id, f) ELSE Idle]

-----------------------------------------------------------------------------
(* The user.                                                               *)

\* LoginPage after the answer to the login, and App, which sees that the
\* user is authenticated: both fetch the organizations.
Login(u) ==
    /\ user = NoUser
    /\ user' = u
    /\ organizations' = Nobody
    /\ currentOrg' = Nothing
    /\ foreign' = FALSE
    /\ \E c, d \in Calls :
         /\ c # d /\ Free(c) /\ Free(d)
         /\ call' = [call EXCEPT ![c] = Started("login", u, NoOrg, NoOrg, "none", FALSE),
                                 ![d] = Started("orgs", u, NoOrg, NoOrg, "none", FALSE)]
    /\ page' = "dashboard"
    /\ UNCHANGED <<server, board, shown, loading, overlapped, failed, moved>>

Logout ==
    /\ user # NoUser
    /\ user' = NoUser
    /\ organizations' = Nobody
    /\ currentOrg' = Nothing
    /\ foreign' = FALSE
    /\ call' = Left
    /\ page' = "none" /\ board' = NoOrg /\ shown' = NoOrg
    /\ loading' = FALSE /\ overlapped' = FALSE /\ failed' = FALSE
    /\ UNCHANGED <<server, moved>>

\* The browser loads the page again; the stores are restored.
Refresh ==
    /\ user # NoUser
    /\ \E c, d \in Calls :
         /\ c # d
         /\ call' = [x \in Calls |->
                       CASE x = c -> Started("orgs", user, NoOrg, NoOrg, "none", FALSE)
                         [] x = d -> IF Wants(page, currentOrg)
                                     THEN Load(page, board, currentOrg.id, foreign) ELSE Idle
                         [] x \notin {c, d} -> Idle]
    /\ loading' = Wants(page, currentOrg)
    /\ shown' = NoOrg /\ overlapped' = FALSE /\ failed' = FALSE
    /\ UNCHANGED <<server, stores, page, board, moved>>

Navigate(p) ==
    /\ user # NoUser
    /\ p # page
    /\ p = "board" => page \in {"projects", "dashboard"} /\ shown # NoOrg /\ ~loading
    /\ \E c \in Calls :
         /\ Left[c] = Idle
         /\ Mount(p, IF p = "board" THEN shown ELSE NoOrg, currentOrg, c, foreign)
    /\ UNCHANGED <<server, stores, moved>>

\* OrgSwitcher.
Select(o) ==
    /\ user # NoUser
    /\ organizations[o] # NoRole
    /\ \E c \in Calls :
         Free(c) /\ Turn([id |-> o, role |-> organizations[o]], c, foreign)
    /\ UNCHANGED <<server, user, organizations, foreign, moved>>

CreateOrg(c) ==
    /\ user # NoUser
    /\ Free(c)
    /\ call' = [call EXCEPT ![c] = Started("create", user, NoOrg, NoOrg, "none", foreign)]
    /\ UNCHANGED <<server, stores, screen, moved>>

\* The organizations that action a may be about: the one of an item that
\* is shown, or for a new item the one in the path.
Targets(a) ==
    (CASE page = "board" -> {board}
       [] a = "deleteProject" -> IF loading THEN {} ELSE {shown}
       [] a = "manageMembers" -> {currentOrg.id}
       [] page # "board" /\ a \in {"writeProject", "payments"} ->
            {currentOrg.id} \cup IF loading THEN {} ELSE {shown}) \ {NoOrg}

\* The user does what the page offers.
Act(c, a) ==
    /\ page # "none"
    /\ currentOrg # Nothing
    /\ a \in Offers(page, currentOrg.role)
    /\ Free(c)
    /\ \E item \in Targets(a) :
         call' = [call EXCEPT ![c] = Started(a, user, currentOrg.id, item, page, foreign)]
    /\ UNCHANGED <<server, stores, screen, moved>>

-----------------------------------------------------------------------------
(* The backend.                                                            *)

Answered(c, answer) == call' = [call EXCEPT ![c].answer = answer]

ServeOrgs(c) ==
    /\ call[c].kind \in {"login", "orgs"}
    /\ call' = [call EXCEPT ![c].answer = "ok",
                            ![c].list = [o \in Orgs |-> member[<<call[c].user, o>>]]]
    /\ UNCHANGED <<server, moved>>

\* An id that was never drawn before.
Fresh(o) == \A u \in Users : member[<<u, o>>] = NoRole /\ <<u, o>> \notin moved

\* A list that was answered before does not have the organization.
ServeCreate(c) ==
    /\ call[c].kind = "create"
    /\ \E o \in Orgs :
         LET own == <<call[c].user, o>> IN
         /\ Fresh(o)
         /\ member' = [member EXCEPT ![own] = "ADMIN"]
         /\ call' = [call EXCEPT ![c].answer = "ok", ![c].org = o]
         /\ moved' = IF \E d \in Calls : /\ ~Free(d)
                                         /\ call[d].kind \in {"login", "orgs"}
                                         /\ call[d].user = call[c].user
                                         /\ call[d].answer = "ok"
                     THEN moved \cup {own} ELSE moved
    /\ UNCHANGED changes

\* The guards, then the item in the path's organization.
Verdict(x, endpoints) ==
    LET r == member[<<x.user, x.org>>] IN
    IF r = NoRole \/ \E e \in endpoints : ~Passes(e, r) THEN "403"
    ELSE IF x.item # x.org THEN "404" ELSE "ok"

ServePage(c) ==
    /\ call[c].kind \in {"load"} \cup Actions
    /\ Answered(c, Verdict(call[c], IF call[c].kind = "load" THEN Loads[call[c].page]
                                    ELSE {call[c].kind}))
    /\ UNCHANGED <<server, moved>>

Serve(c) ==
    /\ ~Free(c)
    /\ call[c].answer = "none"
    /\ ServeOrgs(c) \/ ServeCreate(c) \/ ServePage(c)
    /\ UNCHANGED <<stores, screen>>


\* Other users invite, promote, demote and remove members.
MembershipsChange(u, o) ==
    /\ changes < MaxChanges
    /\ \E v \in Users : member[<<v, o>>] # NoRole
    /\ \E new \in (Roles \cup {NoRole}) \ {member[<<u, o>>]} :
         member' = [member EXCEPT ![<<u, o>>] = new]
    /\ moved' = moved \cup {<<u, o>>}
    /\ changes' = changes + 1
    /\ UNCHANGED <<stores, screen, call>>

-----------------------------------------------------------------------------
(* Answers arrive.                                                         *)

In(list, o) == [id |-> o, role |-> list[o]]

\* A mutant: the organization stays although the user has left it.
Chosen_NeverLeaves(list) ==
    IF currentOrg # Nothing THEN {currentOrg}
    ELSE IF list = Nobody THEN {Nothing}
    ELSE {In(list, o) : o \in {x \in Orgs : list[x] # NoRole}}

\* A mutant: always the first organization of the list.
Chosen_First(list) ==
    IF list = Nobody THEN {Nothing}
    ELSE {In(list, o) : o \in {x \in Orgs : list[x] # NoRole}}

\* stillMember ?? orgs[0] ?? null.  The order of the list is the database's.
Chosen(list) ==
    IF currentOrg # Nothing /\ list[currentOrg.id] # NoRole THEN {In(list, currentOrg.id)}
    ELSE IF list = Nobody THEN {Nothing}
    ELSE {In(list, o) : o \in {x \in Orgs : list[x] # NoRole}}

\* fetchOrganizations, and what LoginPage does after it.
ReceiveOrgs(c) ==
    LET x == call[c] IN
    /\ x.kind \in {"login", "orgs"}
    /\ x.answer = "ok"
    /\ organizations' = x.list
    /\ foreign' = (x.user # user)
    /\ \E new \in Chosen(x.list) :
         \/ /\ x.kind = "login" /\ page \notin {"none", "dashboard"}
            /\ currentOrg' = new
            /\ Mount("dashboard", NoOrg, new, c, foreign')
         \/ /\ x.kind = "orgs" \/ page \in {"none", "dashboard"}
            /\ Turn(new, c, foreign')

\* An organization that a fetch has brought already is listed twice; the
\* second entry is never looked up.
ReceiveCreate(c) ==
    LET x == call[c] IN
    /\ x.kind = "create"
    /\ x.answer = "ok"
    /\ organizations' = [organizations EXCEPT ![x.org] = IF @ = NoRole THEN "ADMIN" ELSE @]
    /\ foreign' = (foreign \/ x.user # user)
    /\ Turn(IF currentOrg = Nothing THEN [id |-> x.org, role |-> "ADMIN"] ELSE currentOrg,
            c, foreign')

ReceiveLoad(c) ==
    LET x == call[c] IN
    /\ x.kind = "load"
    /\ loading' = FALSE
    /\ failed' = (x.answer # "ok")
    /\ shown' = IF x.answer = "ok" THEN x.org ELSE shown
    /\ call' = [call EXCEPT ![c] = Idle]
    /\ UNCHANGED <<organizations, currentOrg, foreign, page, board, overlapped>>

\* The page fetches again, for the organization it acted in.
ReceiveAction(c) ==
    LET x == call[c] IN
    /\ x.kind \in Actions
    /\ x.answer = "ok" /\ x.page # "none"
    /\ call' = [call EXCEPT ![c] = Load(page, board, x.org, foreign)]
    /\ loading' = TRUE
    /\ UNCHANGED <<organizations, currentOrg, foreign, page, board, shown, overlapped, failed>>

\* A refusal is shown or logged; nobody waits for the answer to an action
\* of a page that was left.
ReceiveRest(c) ==
    /\ call[c].kind \in Actions
    /\ call[c].answer # "ok" \/ call[c].page = "none"
    /\ call' = [call EXCEPT ![c] = Idle]
    /\ UNCHANGED <<organizations, currentOrg, foreign, screen>>

Receive(c) ==
    /\ ~Free(c)
    /\ call[c].answer # "none"
    /\ \/ ReceiveOrgs(c) \/ ReceiveCreate(c) \/ ReceiveLoad(c) \/ ReceiveAction(c)
       \/ ReceiveRest(c)
    /\ UNCHANGED <<server, user, moved>>

\* The failure of a call arrives, which was served or not.
Fail(c) ==
    /\ ~Free(c)
    /\ call' = [call EXCEPT ![c] = Idle]
    /\ \/ /\ call[c].kind = "load"
          /\ loading' = FALSE
          /\ failed' = TRUE
       \/ /\ call[c].kind # "load"
          /\ UNCHANGED <<loading, failed>>
    /\ UNCHANGED <<server, stores, page, board, shown, overlapped, moved>>

PagesNext ==
    \/ \E u \in Users : Login(u)
    \/ Logout \/ Refresh
    \/ \E p \in Pages : Navigate(p)
    \/ \E o \in Orgs : Select(o)
    \/ \E c \in Calls : CreateOrg(c) \/ Serve(c) \/ Fail(c) \/ Receive(c)
    \/ \E c \in Calls, a \in Actions : Act(c, a)
    \/ \E u \in Users, o \in Orgs : MembershipsChange(u, o)

PagesSpec == PagesInit /\ [][PagesNext]_pagesVars

-----------------------------------------------------------------------------
(* Properties.                                                             *)

\* The stores: the user works in an organization that is listed, with the
\* role of the list, and in one whenever one is listed.
PagesTypeOK ==
    /\ member \in [Users \X Orgs -> Roles \cup {NoRole}]
    /\ changes \in 0 .. MaxChanges
    /\ user \in Users \cup {NoUser}
    /\ organizations \in Listing
    /\ currentOrg \in Org \cup {Nothing}
    /\ page \in Pages \cup {"none"}
    /\ {board, shown} \subseteq Orgs \cup {NoOrg}
    /\ call \in [Calls -> Call \cup {Idle}]
    /\ moved \subseteq Users \X Orgs
    /\ {loading, foreign, overlapped, failed} \subseteq BOOLEAN
    /\ user = NoUser <=> page = "none"
    /\ currentOrg # Nothing => currentOrg = In(organizations, currentOrg.id)
    /\ currentOrg = Nothing => organizations = Nobody

\* The answers that arrive late never take the user to another organization
\* than the one he chose, as long as he stays a member of it: his choice
\* counts even if he makes it while the list is fetched.  Exempt are an
\* organization that was created while a list was under way that lacks it,
\* and a list that was asked for by the user before him.
SelectionRespected ==
    [][\A c \in Calls :
         Receive(c) /\ currentOrg # Nothing /\ currentOrg'.id # currentOrg.id =>
            \/ foreign \/ foreign'
            \/ <<user, currentOrg.id>> \in moved]_pagesVars

\* A page neither fetches nor offers what the backend refuses the user, but
\* for the deletion of a project, which it offers to editors, for payments
\* that are fetched by the role in the organization before, for roles that
\* changed after they were listed, and for lists of the user before him.
RefusalsExplained ==
    \A c \in Calls :
        ~Free(c) /\ call[c].answer = "403" =>
            \/ call[c].foreign \/ call[c].late
            \/ <<call[c].user, call[c].org>> \in moved
            \/ call[c].kind = "deleteProject" /\ member[<<call[c].user, call[c].org>>] = "EDITOR"

\* A page shows the items of the organization the user works in, unless he
\* switched while the page waited for an answer, or its last fetch failed.
ListIsCurrent ==
    Wants(page, currentOrg) /\ shown # NoOrg /\ ~loading /\ ~overlapped /\ ~failed
        => shown = currentOrg.id
=============================================================================
