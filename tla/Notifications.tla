---------------------------- MODULE Notifications ----------------------------
(***************************************************************************)
(* Real-time notifications: the queue the services add jobs to (BullMQ in  *)
(* Redis), and per replica of the backend a worker                         *)
(* (backend/src/notifications/notifications.processor.ts) and a gateway    *)
(* with the sockets connected to it (notifications.gateway.ts).            *)
(*                                                                         *)
(* handleConnection awaits the memberships of the user; the database       *)
(* answers (Query) before the handler goes on (EnterRooms), and anything   *)
(* may happen before, between and after.  The queue is at-least-once: a    *)
(* job whose worker dies is taken again, up to a limit.  Sockets that are  *)
(* closed, or whose replica died, never come back: a client that           *)
(* reconnects is a new socket.                                             *)
(***************************************************************************)
EXTENDS Integers, FiniteSets

CONSTANTS
    Users,      \* ids of the users
    Orgs,       \* ids of the organizations
    Sockets,    \* ids of the sockets that will ever connect (bound)
    Jobs,       \* jobs that will ever be added (bound)
    Replicas,   \* processes running the backend
    MaxStalls,  \* maxStalledCount of BullMQ: how often a job is taken again
    MaxCrashes, \* how often a process dies (bound)
    None        \* no user, no replica, no organization, no entry, no job

ASSUME NoneAssumption ==
    /\ None \notin Users \cup Replicas \cup Orgs \cup Jobs
    /\ \A orgIds \in SUBSET Orgs : None # orgIds

ASSUME CountAssumption == MaxStalls \in Nat /\ MaxCrashes \in Nat

VARIABLES
    members, \* pairs of a user and an organization: table memberships
    home,    \* per socket, the replica it is connected to, or None
    user,    \* per socket, the user of its token
    phase,   \* per socket, where handleConnection is
    found,   \* per socket, the organizations handleConnection read
    entry,   \* connectedUsers: per socket, orgIds or None
    rooms,   \* per organization, the sockets in `org:${orgId}`
    late,    \* history: sockets that closed while handleConnection ran
    job,     \* per job, its state in the queue
    about,   \* per job, the organization it is about
    stalls,  \* per job, how often its worker died
    taken,   \* per replica, the job its worker processes, or None
    emitted, \* history: jobs that were emitted at least once
    heard,   \* history: per socket, the jobs emitted to it
    crashes  \* processes that died so far

gateway == <<home, user, phase, found, entry, rooms, late>>
queue   == <<job, about, stalls, taken, emitted, heard>>
vars    == <<members, home, user, phase, found, entry, rooms, late,
             job, about, stalls, taken, emitted, heard, crashes>>

Phases    == {"none", "query", "enter", "done"}
JobStates == {"none", "waiting", "active", "emitted", "done", "failed"}

Init ==
    /\ members \in SUBSET (Users \X Orgs)
    /\ home  = [s \in Sockets |-> None]
    /\ user  = [s \in Sockets |-> None]
    /\ phase = [s \in Sockets |-> "none"]
    /\ found = [s \in Sockets |-> {}]
    /\ entry = [s \in Sockets |-> None]
    /\ rooms = [o \in Orgs |-> {}]
    /\ late  = {}
    /\ job     = [j \in Jobs |-> "none"]
    /\ about   = [j \in Jobs |-> None]
    /\ stalls  = [j \in Jobs |-> 0]
    /\ taken   = [p \in Replicas |-> None]
    /\ emitted = {}
    /\ heard   = [s \in Sockets |-> {}]
    /\ crashes = 0

Connected(s) == home[s] # None

-----------------------------------------------------------------------------
(* Memberships change under the gateway's feet: it is told of none of it.  *)

MembershipsChange ==
    /\ \E u \in Users, o \in Orgs :
         \/ members' = members \cup {<<u, o>>}
         \/ members' = members \ {<<u, o>>}
    /\ UNCHANGED <<gateway, queue, crashes>>

-----------------------------------------------------------------------------
(* The gateway.                                                            *)

\* A socket connects with a token that verifies.  One that does not, or that
\* has none, is disconnected at once and leaves no trace.
Connect(s) ==
    /\ phase[s] = "none"
    /\ \E p \in Replicas, u \in Users :
         /\ home' = [home EXCEPT ![s] = p]
         /\ user' = [user EXCEPT ![s] = u]
    /\ phase' = [phase EXCEPT ![s] = "query"]
    /\ UNCHANGED <<members, found, entry, rooms, late, queue, crashes>>

OrgsOf(u) == {o \in Orgs : <<u, o>> \in members}

\* membershipRepo.find({ userId }): what the database answers.
Query(s) ==
    /\ phase[s] = "query"
    /\ found' = [found EXCEPT ![s] = OrgsOf(user[s])]
    /\ phase' = [phase EXCEPT ![s] = "enter"]
    /\ UNCHANGED <<members, home, user, entry, rooms, late, queue, crashes>>

\* A mutant: the rooms of all organizations.
Joins_Any(s) == Orgs

Joins(s) == found[s]

\* The rest of handleConnection.  join does nothing on a closed socket, but
\* connectedUsers.set does.
EnterRooms(s) ==
    /\ phase[s] = "enter"
    /\ phase' = [phase EXCEPT ![s] = "done"]
    /\ entry' = [entry EXCEPT ![s] = found[s]]
    /\ rooms' = [o \in Orgs |-> IF Connected(s) /\ o \in Joins(s)
                                THEN rooms[o] \cup {s} ELSE rooms[o]]
    /\ UNCHANGED <<members, home, user, found, late, queue, crashes>>

\* What a socket leaves behind when it closes: nothing in the rooms.
Close(closing) ==
    /\ home'  = [s \in Sockets |-> IF s \in closing THEN None ELSE home[s]]
    /\ rooms' = [o \in Orgs |-> rooms[o] \ closing]

\* A mutant: handleDisconnect leaves the entry.
Forget_Nothing(s) == UNCHANGED entry

\* handleDisconnect.
Forget(s) == entry' = [entry EXCEPT ![s] = None]

\* The client leaves, or the connection breaks.
Disconnect(s) ==
    /\ Connected(s)
    /\ Close({s})
    /\ Forget(s)
    /\ late' = IF phase[s] = "done" THEN late ELSE late \cup {s}
    /\ UNCHANGED <<members, user, phase, found, queue, crashes>>

\* The lookup fails: handleConnection catches and disconnects.
QueryFails(s) ==
    /\ phase[s] = "query"
    /\ phase' = [phase EXCEPT ![s] = "done"]
    /\ Close({s})
    /\ Forget(s)
    /\ UNCHANGED <<members, user, found, late, queue, crashes>>

\* info && info.orgIds.includes(data.orgId)
MayJoin(s, o) == entry[s] # None /\ o \in entry[s]

\* handleJoinOrg, with any organization a client may name.
JoinOrg(s) ==
    /\ Connected(s)
    /\ \E o \in Orgs :
         /\ MayJoin(s, o)
         /\ rooms' = [rooms EXCEPT ![o] = @ \cup {s}]
    /\ UNCHANGED <<members, home, user, phase, found, entry, late, queue, crashes>>

-----------------------------------------------------------------------------
(* The queue and its workers.                                              *)

\* A service adds a job about one of its organizations.
Add(j) ==
    /\ job[j] = "none"
    /\ \E o \in Orgs : about' = [about EXCEPT ![j] = o]
    /\ job' = [job EXCEPT ![j] = "waiting"]
    /\ UNCHANGED <<members, gateway, stalls, taken, emitted, heard, crashes>>

\* A worker takes one job at a time.
Take(p) ==
    /\ taken[p] = None
    /\ \E j \in Jobs :
         /\ job[j] = "waiting"
         /\ job' = [job EXCEPT ![j] = "active"]
         /\ taken' = [taken EXCEPT ![p] = j]
    /\ UNCHANGED <<members, gateway, about, stalls, emitted, heard, crashes>>

\* server.to(`org:${orgId}`)
Room(j) == rooms[about[j]]

\* process: the job is emitted to the room.  Without an adapter between the
\* replicas, the room is the part of it connected to this replica.
Process(p) ==
    LET j == taken[p] IN
    /\ j # None
    /\ job[j] = "active"
    /\ heard' = [s \in Sockets |-> IF s \in Room(j) /\ home[s] = p
                                   THEN heard[s] \cup {j} ELSE heard[s]]
    /\ emitted' = emitted \cup {j}
    /\ job' = [job EXCEPT ![j] = "emitted"]
    /\ UNCHANGED <<members, gateway, about, stalls, taken, crashes>>

\* BullMQ completes the job when process has returned.
Finish(p) ==
    LET j == taken[p] IN
    /\ j # None
    /\ job[j] = "emitted"
    /\ job' = [job EXCEPT ![j] = "done"]
    /\ taken' = [taken EXCEPT ![p] = None]
    /\ UNCHANGED <<members, gateway, about, stalls, emitted, heard, crashes>>

\* The process dies, with its sockets and with connectedUsers, and is
\* started again.  Its job stays active, without a worker.
Crash(p) ==
    LET mine == {s \in Sockets : home[s] = p} IN
    /\ crashes < MaxCrashes
    /\ crashes' = crashes + 1
    /\ Close(mine)
    /\ entry' = [s \in Sockets |-> IF s \in mine THEN None ELSE entry[s]]
    /\ phase' = [s \in Sockets |-> IF s \in mine THEN "done" ELSE phase[s]]
    /\ taken' = [taken EXCEPT ![p] = None]
    /\ UNCHANGED <<members, user, found, late, job, about, stalls, emitted, heard>>

\* A mutant: a stalled job gets a state no worker looks for.
AfterStall_Stalled(j) == "stalled"

\* A mutant: a stalled job is failed at once.
AfterStall_Fails(j) == "failed"

AfterStall(j) == IF stalls[j] < MaxStalls THEN "waiting" ELSE "failed"

\* The lock of a job whose worker died runs out.
Stall(j) ==
    /\ job[j] \in {"active", "emitted"}
    /\ \A p \in Replicas : taken[p] # j
    /\ stalls' = [stalls EXCEPT ![j] = @ + 1]
    /\ job' = [job EXCEPT ![j] = AfterStall(j)]
    /\ UNCHANGED <<members, gateway, about, taken, emitted, heard, crashes>>

GatewayStep(s) ==
    \/ Connect(s) \/ Query(s) \/ EnterRooms(s) \/ QueryFails(s)
    \/ Disconnect(s) \/ JoinOrg(s)

WorkerStep(p) == Take(p) \/ Process(p) \/ Finish(p)

Next ==
    \/ MembershipsChange
    \/ \E s \in Sockets : GatewayStep(s)
    \/ \E p \in Replicas : WorkerStep(p) \/ Crash(p)
    \/ \E j \in Jobs : Add(j) \/ Stall(j)

Spec == Init /\ [][Next]_vars

\* Workers work, a started process resumes, and BullMQ looks for stalled
\* jobs at an interval.
Fairness ==
    /\ \A p \in Replicas : WF_vars(WorkerStep(p))
    /\ \A j \in Jobs : WF_vars(Stall(j))

FairSpec == Spec /\ Fairness

-----------------------------------------------------------------------------
(* Properties.                                                             *)

\* Gateways, queue and histories hold what they are declared to hold.
TypeOK ==
    /\ members \subseteq Users \X Orgs
    /\ home \in [Sockets -> Replicas \cup {None}]
    /\ user \in [Sockets -> Users \cup {None}]
    /\ phase \in [Sockets -> Phases]
    /\ found \in [Sockets -> SUBSET Orgs]
    /\ entry \in [Sockets -> (SUBSET Orgs) \cup {None}]
    /\ rooms \in [Orgs -> SUBSET Sockets]
    /\ late \subseteq Sockets
    /\ job \in [Jobs -> JobStates]
    /\ about \in [Jobs -> Orgs \cup {None}]
    /\ stalls \in [Jobs -> 0 .. MaxStalls + 1]
    /\ taken \in [Replicas -> Jobs \cup {None}]
    /\ emitted \subseteq Jobs
    /\ heard \in [Sockets -> SUBSET Jobs]
    /\ crashes \in 0 .. MaxCrashes

RoomsOf(s) == {o \in Orgs : s \in rooms[o]}

\* A socket is in the rooms connectedUsers names for it, in all of them and
\* in no other, as long as it is connected, and in none before and after:
\* whatever it asks to join, and whenever it closes or its lookup answers.
RoomsMatchEntries ==
    \A s \in Sockets :
        RoomsOf(s) = IF Connected(s) /\ entry[s] # None THEN entry[s] ELSE {}

\* connectedUsers outlives its socket in one case only: the socket closed
\* while handleConnection was still running.
LeaksExplained ==
    \A s \in Sockets : entry[s] # None => Connected(s) \/ s \in late

\* The gateway is in order.
GatewayTidy == RoomsMatchEntries /\ LeaksExplained

\* No one is told about an organization whose members did not include him
\* when he connected.
OnlyKnownMembersHear ==
    \A s \in Sockets : \A j \in heard[s] : about[j] \in found[s]

\* "jobs survive restarts": a job that was added is emitted, as long as
\* processes do not die more often than BullMQ takes a job again.
JobsSurvive == \A j \in Jobs : job[j] = "waiting" ~> j \in emitted

-----------------------------------------------------------------------------
(* The inductive invariant behind the theorems of Notifications_proofs.    *)

\* Where handleConnection is, and what it and its socket left.  No socket
\* hears a job before its lookup, so that found[s] is what it was heard with.
SocketOK(s) ==
    /\ phase[s] = "none" => ~Connected(s)
    /\ phase[s] \in {"none", "query", "enter"} => entry[s] = None
    /\ phase[s] \in {"query", "enter"} => Connected(s) \/ s \in late
    /\ entry[s] # None => entry[s] = found[s]
    /\ phase[s] \in {"none", "query"} => heard[s] = {}
    /\ heard[s] \subseteq emitted

JobOK(j) ==
    /\ job[j] # "none" => about[j] \in Orgs
    /\ job[j] \in {"none", "waiting", "active", "emitted"} => stalls[j] <= MaxStalls
    /\ j \in emitted => job[j] # "none"

IInv ==
    /\ TypeOK
    /\ \A s \in Sockets : SocketOK(s)
    /\ \A j \in Jobs : JobOK(j)
    /\ RoomsMatchEntries
    /\ LeaksExplained
    /\ OnlyKnownMembersHear
=============================================================================
