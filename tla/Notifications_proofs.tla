------------------------ MODULE Notifications_proofs ------------------------
(***************************************************************************)
(* Theorems about Notifications and ClientNotifications, for any number of *)
(* users, organizations, sockets, jobs and replicas, and any number of     *)
(* crashes.                                                                *)
(***************************************************************************)
EXTENDS ClientNotifications, SequenceTheorems, TLAPS

LEMMA InitOK == Init => IInv
PROOF
<1> SUFFICES ASSUME Init PROVE IInv
    OBVIOUS
<1>1. TypeOK
    BY CountAssumption DEF Init, TypeOK, Phases, JobStates
<1>2. \A s \in Sockets : SocketOK(s)
    BY DEF Init, SocketOK, Connected
<1>3. \A j \in Jobs : JobOK(j)
    BY CountAssumption DEF Init, JobOK
<1>4. RoomsMatchEntries /\ LeaksExplained /\ OnlyKnownMembersHear
    BY DEF Init, RoomsMatchEntries, LeaksExplained, OnlyKnownMembersHear, Connected, RoomsOf
<1> QED BY <1>1, <1>2, <1>3, <1>4 DEF IInv

LEMMA StutterOK ==
    ASSUME IInv, UNCHANGED <<gateway, queue, crashes>>, members' \subseteq Users \X Orgs
    PROVE  IInv'
PROOF
    BY DEF IInv, TypeOK, SocketOK, JobOK, RoomsMatchEntries, LeaksExplained,
           OnlyKnownMembersHear, Connected, RoomsOf, gateway, queue

\* What one socket does leaves the others, their rooms and the queue alone.
OthersKept(s) ==
    /\ \A q \in Sockets \ {s} :
           /\ home'[q] = home[q] /\ phase'[q] = phase[q] /\ found'[q] = found[q]
           /\ entry'[q] = entry[q] /\ RoomsOf(q)' = RoomsOf(q)
           /\ q \in late => q \in late'
    /\ UNCHANGED <<members, queue, crashes>>

\* A step of socket s keeps the invariant if it keeps it for s.
LEMMA SocketStepOK ==
    ASSUME IInv, NEW s \in Sockets, OthersKept(s), TypeOK', SocketOK(s)',
           RoomsOf(s)' = (IF Connected(s) /\ entry[s] # None THEN entry[s] ELSE {})',
           entry'[s] # None => home'[s] # None \/ s \in late',
           \A j \in heard[s] : about[j] \in found'[s]
    PROVE  IInv'
PROOF
<1>1. \A q \in Sockets : SocketOK(q)'
  <2> SUFFICES ASSUME NEW q \in Sockets \ {s} PROVE SocketOK(q)'
      OBVIOUS
  <2> QED BY DEF IInv, SocketOK, OthersKept, Connected, queue
<1>2. \A j \in Jobs : JobOK(j)'
    BY DEF IInv, JobOK, OthersKept, queue
<1>3. RoomsMatchEntries'
    BY DEF IInv, RoomsMatchEntries, OthersKept, Connected
<1>4. LeaksExplained'
    BY DEF IInv, LeaksExplained, OthersKept, Connected
<1>5. OnlyKnownMembersHear'
    BY DEF IInv, OnlyKnownMembersHear, OthersKept, queue
<1> QED BY <1>1, <1>2, <1>3, <1>4, <1>5 DEF IInv

LEMMA ConnectOK ==
    ASSUME IInv, NEW s \in Sockets, Connect(s)
    PROVE  IInv'
PROOF
<1>1. PICK p \in Replicas, u \in Users :
          home' = [home EXCEPT ![s] = p] /\ user' = [user EXCEPT ![s] = u]
    BY DEF Connect
<1>2. home'[s] = p /\ p # None /\ phase'[s] = "query" /\ phase[s] = "none"
    BY <1>1, NoneAssumption DEF Connect, IInv, TypeOK
<1>3. entry[s] = None /\ RoomsOf(s) = {} /\ heard[s] = {} /\ RoomsOf(s)' = RoomsOf(s)
    BY <1>2 DEF IInv, SocketOK, RoomsMatchEntries, Connect, RoomsOf
<1>4. OthersKept(s) /\ UNCHANGED <<found, entry, rooms, late>>
    BY <1>1 DEF OthersKept, Connect, IInv, TypeOK, RoomsOf
<1>5. TypeOK'
    BY <1>1 DEF IInv, TypeOK, Connect, Phases, queue
<1>6. SocketOK(s)'
    BY <1>2, <1>3, <1>4 DEF SocketOK, Connected, IInv, OthersKept, queue
<1> QED BY <1>2, <1>3, <1>4, <1>5, <1>6, SocketStepOK

LEMMA QueryOK ==
    ASSUME IInv, NEW s \in Sockets, Query(s)
    PROVE  IInv'
PROOF
<1>1. phase[s] = "query" /\ phase'[s] = "enter" /\ found'[s] = OrgsOf(user[s])
    BY DEF Query, IInv, TypeOK
<1>2. entry[s] = None /\ heard[s] = {} /\ (Connected(s) \/ s \in late) /\ RoomsOf(s) = {}
    BY <1>1 DEF IInv, SocketOK, RoomsMatchEntries
<1>3. OthersKept(s) /\ UNCHANGED <<home, entry, rooms, late>> /\ RoomsOf(s)' = RoomsOf(s)
    BY DEF OthersKept, Query, IInv, TypeOK, RoomsOf
<1>4. TypeOK'
    BY DEF IInv, TypeOK, Query, Phases, OrgsOf, queue
<1>5. SocketOK(s)'
    BY <1>1, <1>2, <1>3 DEF SocketOK, Connected, OthersKept, queue
<1> QED BY <1>2, <1>3, <1>4, <1>5, SocketStepOK DEF Connected

LEMMA EnterRoomsOK ==
    ASSUME IInv, NEW s \in Sockets, EnterRooms(s)
    PROVE  IInv'
PROOF
<1>1. phase[s] = "enter" /\ phase'[s] = "done" /\ entry'[s] = found[s] /\ found[s] \in SUBSET Orgs
    BY DEF EnterRooms, IInv, TypeOK
<1>2. entry[s] = None /\ (Connected(s) \/ s \in late) /\ RoomsOf(s) = {} /\ found[s] # None
    BY <1>1, NoneAssumption DEF IInv, SocketOK, RoomsMatchEntries
<1>3. RoomsOf(s)' = IF Connected(s) THEN found[s] ELSE {}
    BY <1>1, <1>2 DEF EnterRooms, RoomsOf, Joins
<1>4. OthersKept(s) /\ UNCHANGED <<home, found, late, heard, emitted, about>>
    BY DEF OthersKept, EnterRooms, IInv, TypeOK, RoomsOf, queue
<1>5. TypeOK'
    BY DEF IInv, TypeOK, EnterRooms, Phases, queue
<1>6. SocketOK(s)'
    BY <1>1, <1>2, <1>4 DEF SocketOK, Connected, IInv
<1>7. \A j \in heard[s] : about[j] \in found'[s]
    BY <1>4 DEF IInv, OnlyKnownMembersHear
<1> QED BY <1>1, <1>2, <1>3, <1>4, <1>5, <1>6, <1>7, SocketStepOK DEF Connected

LEMMA DisconnectOK ==
    ASSUME IInv, NEW s \in Sockets, Disconnect(s)
    PROVE  IInv'
PROOF
<1>1. /\ home'[s] = None /\ entry'[s] = None /\ RoomsOf(s)' = {}
      /\ UNCHANGED <<phase, found, heard, emitted, about>>
      /\ phase[s] # "done" => s \in late'
    BY DEF Disconnect, Close, Forget, IInv, TypeOK, RoomsOf, queue
<1>2. OthersKept(s)
    BY DEF OthersKept, Disconnect, Close, Forget, IInv, TypeOK, RoomsOf
<1>3. TypeOK'
    BY DEF IInv, TypeOK, Disconnect, Close, Forget, queue
<1>4. SocketOK(s)'
  <2>1. SocketOK(s) /\ phase[s] \in Phases
      BY DEF IInv, TypeOK
  <2> QED BY <1>1, <2>1 DEF SocketOK, Connected, Phases
<1>5. \A j \in heard[s] : about[j] \in found'[s]
    BY <1>1 DEF IInv, OnlyKnownMembersHear
<1> QED BY <1>1, <1>2, <1>3, <1>4, <1>5, SocketStepOK DEF Connected

LEMMA QueryFailsOK ==
    ASSUME IInv, NEW s \in Sockets, QueryFails(s)
    PROVE  IInv'
PROOF
<1>1. /\ home'[s] = None /\ entry'[s] = None /\ RoomsOf(s)' = {} /\ phase'[s] = "done"
      /\ UNCHANGED <<found, heard, emitted, about>>
    BY DEF QueryFails, Close, Forget, IInv, TypeOK, RoomsOf, queue
<1>2. OthersKept(s)
    BY DEF OthersKept, QueryFails, Close, Forget, IInv, TypeOK, RoomsOf
<1>3. TypeOK'
    BY DEF IInv, TypeOK, QueryFails, Close, Forget, Phases, queue
<1>4. SocketOK(s)'
  <2>1. SocketOK(s) /\ phase[s] \in Phases
      BY DEF IInv, TypeOK
  <2> QED BY <1>1, <2>1 DEF SocketOK, Connected, Phases
<1>5. \A j \in heard[s] : about[j] \in found'[s]
    BY <1>1 DEF IInv, OnlyKnownMembersHear
<1> QED BY <1>1, <1>2, <1>3, <1>4, <1>5, SocketStepOK DEF Connected

\* joinOrg adds no room that handleConnection did not.
LEMMA JoinOrgOK ==
    ASSUME IInv, NEW s \in Sockets, JoinOrg(s)
    PROVE  IInv'
PROOF
<1>1. PICK o \in Orgs : MayJoin(s, o) /\ rooms' = [rooms EXCEPT ![o] = @ \cup {s}]
    BY DEF JoinOrg
<1>2. s \in rooms[o]
    BY <1>1 DEF MayJoin, JoinOrg, IInv, RoomsMatchEntries, RoomsOf
<1>3. rooms' = rooms
    BY <1>1, <1>2 DEF IInv, TypeOK
<1> QED BY <1>3, StutterOK DEF JoinOrg, IInv, TypeOK, gateway

-----------------------------------------------------------------------------
(* The queue.                                                              *)

\* A step of the queue that emits nothing.
LEMMA QueueStepOK ==
    ASSUME IInv, TypeOK', UNCHANGED <<members, gateway, emitted, heard>>,
           \A j \in Jobs : JobOK(j)',
           \A j \in emitted : about'[j] = about[j]
    PROVE  IInv'
PROOF
<1>1. \A s \in Sockets : SocketOK(s)'
    BY DEF IInv, SocketOK, Connected, gateway
<1>2. RoomsMatchEntries' /\ LeaksExplained'
    BY DEF IInv, RoomsMatchEntries, LeaksExplained, RoomsOf, Connected, gateway
<1>3. OnlyKnownMembersHear'
    BY DEF IInv, SocketOK, OnlyKnownMembersHear, gateway
<1> QED BY <1>1, <1>2, <1>3 DEF IInv

LEMMA AddOK ==
    ASSUME IInv, NEW j \in Jobs, Add(j)
    PROVE  IInv'
PROOF
<1>1. TypeOK'
    BY DEF IInv, TypeOK, Add, JobStates, gateway
<1>2. \A k \in Jobs : JobOK(k)'
    BY DEF IInv, TypeOK, JobOK, Add
<1>3. \A k \in emitted : about'[k] = about[k]
    BY DEF IInv, TypeOK, JobOK, Add
<1> QED BY <1>1, <1>2, <1>3, QueueStepOK DEF Add

LEMMA TakeOK ==
    ASSUME IInv, NEW p \in Replicas, Take(p)
    PROVE  IInv'
PROOF
<1>1. PICK j \in Jobs : /\ job[j] = "waiting" /\ job' = [job EXCEPT ![j] = "active"]
                        /\ taken' = [taken EXCEPT ![p] = j]
    BY DEF Take
<1>2. TypeOK'
    BY <1>1 DEF IInv, TypeOK, Take, JobStates, gateway
<1>3. \A k \in Jobs : JobOK(k)'
    BY <1>1 DEF IInv, TypeOK, JobOK, Take
<1> QED BY <1>2, <1>3, QueueStepOK DEF Take

LEMMA FinishOK ==
    ASSUME IInv, NEW p \in Replicas, Finish(p)
    PROVE  IInv'
PROOF
<1>1. TypeOK'
    BY DEF IInv, TypeOK, Finish, JobStates, gateway
<1>2. \A k \in Jobs : JobOK(k)'
    BY DEF IInv, TypeOK, JobOK, Finish
<1> QED BY <1>1, <1>2, QueueStepOK DEF Finish

LEMMA StallOK ==
    ASSUME IInv, NEW j \in Jobs, Stall(j)
    PROVE  IInv'
PROOF
<1>1. stalls[j] \in 0 .. MaxStalls
    BY CountAssumption DEF IInv, TypeOK, JobOK, Stall
<1>2. TypeOK'
  <2>1. stalls' \in [Jobs -> 0 .. MaxStalls + 1]
      BY <1>1, CountAssumption DEF IInv, TypeOK, Stall
  <2>2. job' \in [Jobs -> JobStates]
      BY DEF IInv, TypeOK, Stall, AfterStall, JobStates
  <2> QED BY <2>1, <2>2 DEF IInv, TypeOK, Stall, gateway
<1>3. \A k \in Jobs : JobOK(k)'
  <2>1. JobOK(j)'
      BY <1>1, CountAssumption DEF IInv, TypeOK, JobOK, Stall, AfterStall
  <2>2. \A k \in Jobs \ {j} : JobOK(k)'
      BY DEF IInv, TypeOK, JobOK, Stall
  <2> QED BY <2>1, <2>2
<1> QED BY <1>2, <1>3, QueueStepOK DEF Stall

\* Whoever hears a job is in its room, and entered with what he had found.
LEMMA ProcessOK ==
    ASSUME IInv, NEW p \in Replicas, Process(p)
    PROVE  IInv'
PROOF
<1> DEFINE j == taken[p]
<1>1. j \in Jobs /\ job[j] = "active" /\ about[j] \in Orgs
    BY DEF IInv, TypeOK, JobOK, Process
<1>2. /\ heard' = [s \in Sockets |-> IF s \in rooms[about[j]] /\ home[s] = p
                                     THEN heard[s] \cup {j} ELSE heard[s]]
      /\ emitted' = emitted \cup {j} /\ job' = [job EXCEPT ![j] = "emitted"]
      /\ UNCHANGED <<members, gateway, about, stalls, taken, crashes>>
    BY DEF Process, Room
<1> HIDE DEF j
<1>3. \A s \in Sockets : s \in rooms[about[j]] =>
          about[j] \in found[s] /\ phase[s] = "done"
  <2> SUFFICES ASSUME NEW s \in Sockets, s \in rooms[about[j]]
               PROVE  about[j] \in found[s] /\ phase[s] = "done"
      OBVIOUS
  <2>1. entry[s] # None /\ about[j] \in entry[s]
      BY <1>1 DEF IInv, RoomsMatchEntries, RoomsOf
  <2>2. SocketOK(s) /\ phase[s] \in Phases
      BY DEF IInv, TypeOK
  <2> QED BY <2>1, <2>2 DEF SocketOK, Phases
<1>4. TypeOK'
    BY <1>1, <1>2 DEF IInv, TypeOK, JobStates, gateway
<1>5. \A s \in Sockets : SocketOK(s)'
  <2> SUFFICES ASSUME NEW s \in Sockets PROVE SocketOK(s)'
      OBVIOUS
  <2>1. SocketOK(s)
      BY DEF IInv
  <2>2. /\ heard'[s] \subseteq emitted'
        /\ phase[s] \in {"none", "query"} => heard'[s] = {}
      BY <1>2, <1>3, <2>1 DEF SocketOK
  <2> QED BY <1>2, <2>1, <2>2 DEF SocketOK, Connected, gateway
<1>6. \A k \in Jobs : JobOK(k)'
    BY <1>1, <1>2 DEF IInv, TypeOK, JobOK
<1>7. RoomsMatchEntries' /\ LeaksExplained'
    BY <1>2 DEF IInv, RoomsMatchEntries, LeaksExplained, RoomsOf, Connected, gateway
<1>8. OnlyKnownMembersHear'
    BY <1>2, <1>3 DEF IInv, OnlyKnownMembersHear, gateway
<1> QED BY <1>4, <1>5, <1>6, <1>7, <1>8 DEF IInv

\* With the process, its sockets, their rooms and their entries are gone.
LEMMA CrashOK ==
    ASSUME IInv, NEW p \in Replicas, Crash(p)
    PROVE  IInv'
PROOF
<1> DEFINE mine == {s \in Sockets : home[s] = p}
<1>1. /\ home'  = [s \in Sockets |-> IF s \in mine THEN None ELSE home[s]]
      /\ rooms' = [o \in Orgs |-> rooms[o] \ mine]
      /\ entry' = [s \in Sockets |-> IF s \in mine THEN None ELSE entry[s]]
      /\ phase' = [s \in Sockets |-> IF s \in mine THEN "done" ELSE phase[s]]
      /\ taken' = [taken EXCEPT ![p] = None] /\ crashes < MaxCrashes /\ crashes' = crashes + 1
      /\ UNCHANGED <<members, user, found, late, job, about, stalls, emitted, heard>>
    BY DEF Crash, Close
<1> HIDE DEF mine
<1>2. TypeOK'
  <2>1. crashes' \in 0 .. MaxCrashes
      BY <1>1, CountAssumption DEF IInv, TypeOK
  <2> QED BY <1>1, <2>1 DEF IInv, TypeOK, Phases
<1>3. \A s \in Sockets : SocketOK(s)'
  <2> SUFFICES ASSUME NEW s \in Sockets PROVE SocketOK(s)'
      OBVIOUS
  <2>1. SocketOK(s)
      BY DEF IInv
  <2> QED BY <1>1, <2>1 DEF SocketOK, Connected
<1>4. \A j \in Jobs : JobOK(j)'
    BY <1>1 DEF IInv, JobOK
<1>5. RoomsMatchEntries'
  <2> SUFFICES ASSUME NEW s \in Sockets
               PROVE  RoomsOf(s)' = (IF Connected(s) /\ entry[s] # None
                                     THEN entry[s] ELSE {})'
      BY DEF RoomsMatchEntries
  <2>1. RoomsOf(s) = IF Connected(s) /\ entry[s] # None THEN entry[s] ELSE {}
      BY DEF IInv, RoomsMatchEntries
  <2>2. RoomsOf(s)' = IF s \in mine THEN {} ELSE RoomsOf(s)
      BY <1>1 DEF RoomsOf
  <2> QED BY <1>1, <2>1, <2>2 DEF Connected
<1>6. LeaksExplained' /\ OnlyKnownMembersHear'
    BY <1>1 DEF IInv, LeaksExplained, OnlyKnownMembersHear, Connected
<1> QED BY <1>2, <1>3, <1>4, <1>5, <1>6 DEF IInv

-----------------------------------------------------------------------------
(* Theorems.                                                               *)

LEMMA Inductive ==
    ASSUME IInv, [Next]_vars
    PROVE  IInv'
PROOF
<1>1. CASE UNCHANGED vars
    BY <1>1, StutterOK DEF vars, gateway, queue, IInv, TypeOK
<1>2. CASE MembershipsChange
    BY <1>2, StutterOK DEF MembershipsChange, IInv, TypeOK
<1>3. ASSUME NEW s \in Sockets, GatewayStep(s) PROVE IInv'
    BY <1>3, ConnectOK, QueryOK, EnterRoomsOK, QueryFailsOK, DisconnectOK, JoinOrgOK
       DEF GatewayStep
<1>4. ASSUME NEW p \in Replicas, WorkerStep(p) \/ Crash(p) PROVE IInv'
    BY <1>4, TakeOK, ProcessOK, FinishOK, CrashOK DEF WorkerStep
<1>5. ASSUME NEW j \in Jobs, Add(j) \/ Stall(j) PROVE IInv'
    BY <1>5, AddOK, StallOK
<1> QED BY <1>1, <1>2, <1>3, <1>4, <1>5 DEF Next

\* Every reachable state satisfies the inductive invariant.
THEOREM Invariance == Spec => []IInv
PROOF
<1>1. Init => IInv
    BY InitOK
<1>2. IInv /\ [Next]_vars => IInv'
    BY Inductive
<1> QED BY <1>1, <1>2, PTL DEF Spec

\* Gateways and queue keep their types.
THEOREM TypeCorrect == Spec => []TypeOK
PROOF
<1>1. IInv => TypeOK
    BY DEF IInv
<1> QED BY <1>1, Invariance, PTL

\* A connected socket is in the rooms handleConnection found for it, others are
\* in none, and an entry outlives its socket only by the race of disconnect with
\* handleConnection.
THEOREM GatewayStaysTidy == Spec => []GatewayTidy
PROOF
<1>1. IInv => GatewayTidy
    BY DEF IInv, GatewayTidy
<1> QED BY <1>1, Invariance, PTL

\* Nobody hears of an organization he did not belong to when he connected.
THEOREM TenantNews == Spec => []OnlyKnownMembersHear
PROOF
<1>1. IInv => OnlyKnownMembersHear
    BY DEF IInv
<1> QED BY <1>1, Invariance, PTL

-----------------------------------------------------------------------------
(* The page.                                                               *)

\* Whatever the page does, the backend behaves as Notifications says.
LEMMA BackendStep == [CNext]_cvars => [Next]_vars
PROOF
<1> SUFFICES ASSUME [CNext]_cvars PROVE [Next]_vars
    OBVIOUS
<1>1. CASE \/ SignIn \/ Renew \/ SignOut \/ Refuse \/ Reconnect \/ Reload
           \/ MarkAllAsRead \/ ClearAll \/ (\E j \in Jobs : Receive(j)) \/ UNCHANGED cvars
    BY <1>1 DEF SignIn, Renew, SignOut, Refuse, Reconnect, Reload, MarkAllAsRead, ClearAll,
                Receive, cvars
<1>2. CASE \E s \in Sockets : Meet(s) \/ Rejected(s)
    BY <1>2 DEF Meet, Rejected, Next, GatewayStep
<1>3. CASE \/ MembershipsChange
           \/ \E s \in Sockets : Query(s) \/ EnterRooms(s) \/ Disconnect(s) \/ JoinOrg(s)
           \/ \E p \in Replicas : Take(p) \/ Process(p) \/ Finish(p) \/ Crash(p)
           \/ \E j \in Jobs : Add(j) \/ Stall(j)
    BY <1>3 DEF Next, GatewayStep, WorkerStep
<1> QED BY <1>1, <1>2, <1>3 DEF CNext

\* With the page the backend is still the one of Notifications, so that what was
\* proved of it holds beside any page.
THEOREM BackendUnchanged == CSpec => Spec
PROOF
<1>1. CInit => Init
    BY DEF CInit
<1> QED BY <1>1, BackendStep, PTL DEF CSpec, Spec

LEMMA PageInitOK == CInit /\ IInv => PageInv
PROOF
<1> SUFFICES ASSUME CInit, IInv PROVE PageInv
    OBVIOUS
<1>1. panel \in Seq(News) /\ Len(panel) = 0
    BY EmptySeq DEF CInit
<1>2. PageTypeOK
    BY <1>1, PanelAssumption DEF CInit, PageTypeOK
<1>3. SocketIsTheReaders /\ BadgeCounts
    BY <1>1 DEF CInit, SocketIsTheReaders, BadgeCounts
<1>4. \A j \in Jobs : times[j] + Pending(j) <= Emissions(j)
    BY DEF CInit, Init, Pending, Emissions
<1> QED BY <1>2, <1>3, <1>4 DEF PageInv

LEMMA Counts ==
    ASSUME IInv, PageInv, NEW j \in Jobs
    PROVE  /\ times[j] \in Nat /\ Pending(j) \in {0, 1} /\ stalls[j] \in Nat
           /\ Emissions(j) = IF job[j] \in {"emitted", "done"} THEN stalls[j] + 1 ELSE stalls[j]
           /\ times[j] + Pending(j) <= Emissions(j)
PROOF
<1>1. stalls[j] \in Nat /\ times[j] \in Nat
    BY CountAssumption DEF IInv, TypeOK, PageInv, PageTypeOK
<1> QED BY <1>1 DEF Pending, Emissions, PageInv

\* A page with another socket, or with none: what was under way is forgotten.
LEMMA SwitchOK ==
    ASSUME IInv, PageInv, UNCHANGED <<vars, panel, unread, times>>, Open \/ Leave,
           reader' \in Users \cup {None}, socket' # None => reader' # None
    PROVE  PageInv'
PROOF
<1>1. /\ socket' \in Sockets \cup {None} /\ got' = {}
      /\ socket' # None => phase[socket'] = "none" /\ heard[socket'] = {}
    BY DEF Open, Leave, Fresh, IInv, SocketOK
<1>2. PageTypeOK'
    BY <1>1 DEF PageInv, PageTypeOK
<1>3. SocketIsTheReaders'
    BY <1>1 DEF SocketIsTheReaders, vars
<1>4. \A j \in Jobs : times'[j] + Pending(j)' <= Emissions(j)'
  <2> SUFFICES ASSUME NEW j \in Jobs PROVE times'[j] + Pending(j)' <= Emissions(j)'
      OBVIOUS
  <2>1. Pending(j)' = 0 /\ UNCHANGED <<times, stalls, job>>
      BY <1>1 DEF Pending, vars
  <2> QED BY <2>1, Counts DEF Emissions
<1>5. BadgeCounts'
    BY DEF PageInv, BadgeCounts
<1> QED BY <1>2, <1>3, <1>4, <1>5 DEF PageInv

LEMMA ReloadOK ==
    ASSUME IInv, PageInv, Reload PROVE PageInv'
PROOF
<1>1. /\ socket' \in Sockets \cup {None} /\ got' = {}
      /\ socket' # None => reader # None /\ phase[socket'] = "none" /\ heard[socket'] = {}
      /\ UNCHANGED <<vars, reader>>
    BY DEF Reload, Open, Leave, Fresh, IInv, SocketOK
<1>2. panel' = <<>> /\ unread' = 0 /\ times' = [j \in Jobs |-> 0]
    BY DEF Reload
<1>3. panel' \in Seq(News) /\ Len(panel') = 0 /\ DOMAIN panel' = {}
    BY <1>2, EmptySeq
<1>4. PageTypeOK'
    BY <1>1, <1>2, <1>3, PanelAssumption DEF PageInv, PageTypeOK
<1>5. SocketIsTheReaders'
    BY <1>1 DEF SocketIsTheReaders, vars
<1>6. \A j \in Jobs : times'[j] + Pending(j)' <= Emissions(j)'
  <2> SUFFICES ASSUME NEW j \in Jobs PROVE times'[j] + Pending(j)' <= Emissions(j)'
      OBVIOUS
  <2>1. times'[j] = 0 /\ Pending(j)' = 0 /\ UNCHANGED <<stalls, job>>
      BY <1>1, <1>2 DEF Pending, vars
  <2> QED BY <2>1, Counts DEF Emissions
<1>7. BadgeCounts'
    BY <1>2, <1>3 DEF BadgeCounts
<1> QED BY <1>4, <1>5, <1>6, <1>7 DEF PageInv

LEMMA Prepended ==
    ASSUME NEW S, NEW x \in S, NEW s \in Seq(S), NEW t, t = <<x>> \o s
    PROVE  /\ t \in Seq(S) /\ Len(t) = Len(s) + 1
           /\ t[1] = x
           /\ \A k \in 2 .. Len(s) + 1 : t[k] = s[k - 1]
PROOF
<1>1. <<x>> \in Seq(S) /\ Len(<<x>>) = 1 /\ <<x>>[1] = x
    OBVIOUS
<1>2. /\ t \in Seq(S)
      /\ Len(t) = 1 + Len(s)
      /\ \A i \in 1 .. 1 + Len(s) : t[i] = IF i <= 1 THEN <<x>>[i] ELSE s[i - 1]
    BY <1>1, ConcatProperties
<1> QED BY <1>1, <1>2

\* The panel after addNotification: the new one first, and perhaps without the last.
LEMMA CutOK ==
    ASSUME NEW S, NEW news \in Seq(S), news # <<>>
    PROVE  /\ Cut(news) \in Seq(S) /\ Len(Cut(news)) <= MaxPanel /\ Len(Cut(news)) <= Len(news)
           /\ Len(Cut(news)) < MaxPanel => Len(Cut(news)) = Len(news)
           /\ DOMAIN Cut(news) = 1 .. Len(Cut(news)) /\ Len(Cut(news)) \in Nat
           /\ \A k \in DOMAIN Cut(news) : Cut(news)[k] = news[k]
PROOF
<1> DEFINE n == IF Len(news) < MaxPanel THEN Len(news) ELSE MaxPanel
<1>1. n \in Nat \ {0} /\ n <= Len(news) /\ n <= MaxPanel /\ Len(news) \in Nat
    BY PanelAssumption, EmptySeq, LenProperties
<1>2. Cut(news) = SubSeq(news, 1, n)
    BY DEF Cut
<1> HIDE DEF n
<1>3. /\ Cut(news) \in Seq(S) /\ Len(Cut(news)) = n
      /\ \A k \in 1 .. n : Cut(news)[k] = news[k]
    BY <1>1, <1>2, SubSeqProperties
<1>4. n < MaxPanel => n = Len(news)
    BY <1>1, PanelAssumption DEF n
<1> QED BY <1>1, <1>3, <1>4

LEMMA ReceiveOK ==
    ASSUME IInv, PageInv, NEW j \in Jobs, Receive(j) PROVE PageInv'
PROOF
<1> DEFINE news == <<New(j)>> \o panel
<1>1. /\ panel \in Seq(News) /\ unread \in Nat /\ Len(panel) \in Nat
      /\ DOMAIN panel = 1 .. Len(panel)
    BY DEF PageInv, PageTypeOK
<1>2. New(j) \in News /\ New(j).read = FALSE
    BY DEF New, News
<1>3. /\ news \in Seq(News) /\ Len(news) = Len(panel) + 1
      /\ news[1] = New(j) /\ \A k \in 2 .. Len(panel) + 1 : news[k] = panel[k - 1]
  <2>1. New(j) \in News /\ news = <<New(j)>> \o panel
      BY <1>2
  <2> HIDE DEF news
  <2> QED BY <1>1, <2>1, Prepended
<1>4. /\ panel' = Cut(news) /\ unread' = unread + 1
      /\ times' = [times EXCEPT ![j] = @ + 1] /\ got' = got \cup {j}
      /\ UNCHANGED <<vars, reader, socket>>
      /\ socket # None /\ j \in heard[socket] \ got
    BY DEF Receive
<1> HIDE DEF news
<1>5. /\ panel' \in Seq(News) /\ Len(panel') <= MaxPanel
      /\ Len(panel') < MaxPanel => Len(panel') = Len(panel) + 1
      /\ DOMAIN panel' \subseteq 1 .. Len(panel) + 1
      /\ \A k \in DOMAIN panel' : panel'[k] = IF k = 1 THEN New(j) ELSE panel[k - 1]
  <2>1. news # <<>>
      BY <1>1, <1>3, EmptySeq
  <2>2. PICK p : p = Cut(news) /\ panel' = p
      BY <1>4
  <2>3. /\ p \in Seq(News) /\ Len(p) <= MaxPanel
        /\ Len(p) < MaxPanel => Len(p) = Len(panel) + 1
      BY <1>3, <2>1, <2>2, CutOK
  <2>4. DOMAIN p = 1 .. Len(p) /\ Len(p) \in Nat /\ Len(p) <= Len(panel) + 1
      BY <1>3, <2>1, <2>2, CutOK
  <2>5. Len(panel) \in Nat
      BY <1>1
  <2>6. DOMAIN p \subseteq 1 .. Len(panel) + 1
      BY <2>4, <2>5
  <2>7. \A k \in DOMAIN p : p[k] = news[k]
      BY <1>3, <2>1, <2>2, CutOK
  <2>8. ASSUME NEW k \in DOMAIN p
        PROVE  p[k] = IF k = 1 THEN New(j) ELSE panel[k - 1]
    <3>1. k \in 1 .. Len(panel) + 1 /\ p[k] = news[k]
        BY <2>6, <2>7
    <3>2. k = 1 \/ k \in 2 .. Len(panel) + 1
        BY <2>5, <3>1
    <3> QED BY <1>3, <3>1, <3>2
  <2> QED BY <2>2, <2>3, <2>6, <2>8
<1>6. PageTypeOK'
    BY <1>1, <1>4, <1>5 DEF PageInv, PageTypeOK
<1>7. SocketIsTheReaders'
    BY <1>4 DEF PageInv, SocketIsTheReaders, vars
<1>8. \A k \in Jobs : times'[k] + Pending(k)' <= Emissions(k)'
  <2> SUFFICES ASSUME NEW k \in Jobs PROVE times'[k] + Pending(k)' <= Emissions(k)'
      OBVIOUS
  <2>1. Emissions(k)' = Emissions(k)
      BY <1>4 DEF Emissions, vars
  <2>2. CASE k = j
    <3>1. times'[j] = times[j] + 1 /\ Pending(j) = 1 /\ Pending(j)' = 0
        BY <1>4 DEF PageInv, PageTypeOK, Pending, vars
    <3> QED BY <2>1, <2>2, <3>1, Counts
  <2>3. CASE k # j
    <3>1. times'[k] = times[k] /\ Pending(k)' = Pending(k)
        BY <1>4, <2>3 DEF PageInv, PageTypeOK, Pending, vars
    <3> QED BY <2>1, <3>1, Counts
  <2> QED BY <2>2, <2>3
<1>9. BadgeCounts'
  <2>1. ASSUME NEW k \in DOMAIN panel' PROVE panel'[k].read <=> k > unread'
    <3>1. CASE k = 1
        BY <1>1, <1>2, <1>4, <1>5, <3>1
    <3>2. CASE k # 1
      <4>1. k - 1 \in DOMAIN panel /\ panel'[k] = panel[k - 1] /\ k \in Int
          BY <1>1, <1>5, <3>2
      <4>2. panel[k - 1].read <=> k - 1 > unread
          BY <4>1 DEF PageInv, BadgeCounts
      <4> QED BY <1>1, <1>4, <4>1, <4>2
    <3> QED BY <3>1, <3>2
  <2>2. Len(panel') < MaxPanel => unread' <= Len(panel')
      BY <1>1, <1>4, <1>5, PanelAssumption DEF PageInv, BadgeCounts
  <2> QED BY <2>1, <2>2 DEF BadgeCounts
<1> QED BY <1>6, <1>7, <1>8, <1>9 DEF PageInv

\* Reading and clearing change nothing about the socket.
LEMMA ReadingOK ==
    ASSUME IInv, PageInv, MarkAllAsRead \/ ClearAll PROVE PageInv'
PROOF
<1>1. UNCHANGED <<vars, reader, socket, got, times>> /\ unread' = 0
    BY DEF MarkAllAsRead, ClearAll
<1>2. /\ panel' \in Seq(News) /\ Len(panel') <= MaxPanel
      /\ \A k \in DOMAIN panel' : panel'[k].read /\ k > 0
      /\ Len(panel') \in Nat
  <2>1. CASE ClearAll
      BY <2>1, EmptySeq, PanelAssumption DEF ClearAll
  <2>2. CASE MarkAllAsRead
    <3>1. panel \in Seq(News) /\ Len(panel) <= MaxPanel
        BY DEF PageInv, PageTypeOK
    <3>2. panel' = [k \in 1 .. Len(panel) |-> [panel[k] EXCEPT !.read = TRUE]]
        BY <2>2, <3>1 DEF MarkAllAsRead
    <3>3. /\ Len(panel) \in Nat /\ DOMAIN panel' = 1 .. Len(panel)
          /\ \A k \in 1 .. Len(panel) :
               /\ panel'[k] \in News
               /\ panel'[k].read = TRUE
      <4>1. Len(panel) \in Nat /\ DOMAIN panel' = 1 .. Len(panel)
          BY <3>1, <3>2
      <4>2. ASSUME NEW k \in 1 .. Len(panel)
            PROVE  /\ panel'[k] \in News
                   /\ panel'[k].read = TRUE
        <5>1. panel[k] \in News
            BY <3>1
        <5>2. panel'[k] = [panel[k] EXCEPT !.read = TRUE]
            BY <3>2
        <5> QED BY <5>1, <5>2 DEF News
      <4> QED BY <4>1, <4>2
    <3>4. panel' \in Seq(News) /\ Len(panel') = Len(panel)
        BY <3>2, <3>3
    <3> QED BY <3>1, <3>3, <3>4
  <2> QED BY <2>1, <2>2
<1>3. PageTypeOK'
    BY <1>1, <1>2 DEF PageInv, PageTypeOK
<1>4. SocketIsTheReaders'
    BY <1>1 DEF PageInv, SocketIsTheReaders, vars
<1>5. \A j \in Jobs : times'[j] + Pending(j)' <= Emissions(j)'
    BY <1>1 DEF PageInv, Pending, Emissions, vars
<1>6. BadgeCounts'
    BY <1>1, <1>2 DEF BadgeCounts
<1> QED BY <1>3, <1>4, <1>5, <1>6 DEF PageInv


\* A step of the backend that emits nothing: no emission is forgotten by it.
LEMMA QuietOK ==
    ASSUME IInv, PageInv, UNCHANGED <<reader, panel, unread, times>>,
           \/ UNCHANGED <<heard, socket, got>>
           \/ socket' = None /\ got' = {},
           SocketIsTheReaders',
           \A j \in Jobs : Emissions(j)' \in Int /\ Emissions(j) <= Emissions(j)'
    PROVE  PageInv'
PROOF
<1>1. PageTypeOK' /\ BadgeCounts'
    BY DEF PageInv, PageTypeOK, BadgeCounts
<1>2. ASSUME NEW j \in Jobs PROVE times'[j] + Pending(j)' <= Emissions(j)'
  <2>1. Pending(j)' \in {0, Pending(j)} /\ Emissions(j) \in Int
      BY Counts DEF Pending
  <2> QED BY <2>1, Counts
<1> QED BY <1>1, <1>2 DEF PageInv

\* A socket stays the user's, and is met once.
LEMMA SameUsers ==
    ASSUME PageInv, UNCHANGED <<socket, reader, user>>,
           \A s \in Sockets : phase'[s] = "none" <=> phase[s] = "none"
    PROVE  SocketIsTheReaders'
PROOF
    BY DEF PageInv, PageTypeOK, SocketIsTheReaders

LEMMA SameEmissions ==
    ASSUME IInv, PageInv, UNCHANGED <<stalls, job>>
    PROVE  \A j \in Jobs : Emissions(j)' \in Int /\ Emissions(j) <= Emissions(j)'
PROOF
<1> SUFFICES ASSUME NEW j \in Jobs
             PROVE  Emissions(j)' \in Int /\ Emissions(j) <= Emissions(j)'
    OBVIOUS
<1>1. Emissions(j)' = Emissions(j)
    BY DEF Emissions
<1>2. Emissions(j) \in Int
    BY Counts
<1> QED BY <1>1, <1>2

LEMMA MeetOK ==
    ASSUME IInv, PageInv, NEW s \in Sockets, Meet(s) PROVE PageInv'
PROOF
<1>1. SocketIsTheReaders'
  <2> SUFFICES ASSUME socket # None, socket # s, phase'[socket] # "none"
               PROVE  user'[socket] = reader
      BY DEF Meet, PageInv, SocketIsTheReaders, page
  <2>1. phase'[socket] = phase[socket] /\ user'[socket] = user[socket]
      BY DEF Meet, Connect, PageInv, PageTypeOK, IInv, TypeOK
  <2> QED BY <2>1 DEF PageInv, SocketIsTheReaders
<1> QED BY <1>1, SameEmissions, QuietOK DEF Meet, Connect, page, queue

LEMMA RejectedOK ==
    ASSUME IInv, PageInv, NEW s \in Sockets, Rejected(s) PROVE PageInv'
PROOF
<1>1. CASE s = socket
  <2>1. SocketIsTheReaders'
      BY <1>1 DEF Rejected, Leave, SocketIsTheReaders
  <2> QED BY <1>1, <2>1, SameEmissions, QuietOK DEF Rejected, QueryFails, Leave, queue
<1>2. CASE s # socket
  <2>1. SocketIsTheReaders'
      BY <1>2, SameUsers DEF Rejected, QueryFails, IInv, TypeOK
  <2> QED BY <1>2, <2>1, SameEmissions, QuietOK DEF Rejected, QueryFails, queue
<1> QED BY <1>1, <1>2

LEMMA GatewayQuiet ==
    ASSUME IInv, PageInv, UNCHANGED page,
           \/ MembershipsChange
           \/ \E s \in Sockets : Query(s) \/ EnterRooms(s) \/ Disconnect(s) \/ JoinOrg(s)
           \/ \E p \in Replicas : Crash(p)
    PROVE  PageInv'
PROOF
<1>1. UNCHANGED <<heard, stalls, job, user>>
    BY DEF MembershipsChange, Query, EnterRooms, Disconnect, JoinOrg, Crash, gateway, queue
<1>2. \A s \in Sockets : phase'[s] = "none" <=> phase[s] = "none"
  <2>1. CASE MembershipsChange \/ \E s \in Sockets : Disconnect(s) \/ JoinOrg(s)
      BY <2>1 DEF MembershipsChange, Disconnect, JoinOrg, gateway
  <2>2. CASE \E s \in Sockets : Query(s) \/ EnterRooms(s)
      BY <2>2 DEF Query, EnterRooms, IInv, TypeOK
  <2>3. CASE \E p \in Replicas : Crash(p)
    <3>1. PICK p \in Replicas :
             phase' = [s \in Sockets |-> IF s \in {q \in Sockets : home[q] = p}
                                         THEN "done" ELSE phase[s]]
        BY <2>3 DEF Crash
    <3>2. \A s \in Sockets : home[s] = p => phase[s] # "none"
        BY NoneAssumption DEF IInv, SocketOK, Connected
    <3> QED BY <3>1, <3>2
  <2> QED BY <2>1, <2>2, <2>3
<1>3. SocketIsTheReaders'
    BY <1>1, <1>2, SameUsers DEF page
<1> QED BY <1>1, <1>3, SameEmissions, QuietOK DEF page

\* Emissions are counted by the stalls between them.
LEMMA QueueQuiet ==
    ASSUME IInv, PageInv, UNCHANGED page,
           \/ \E p \in Replicas : Take(p) \/ Finish(p)
           \/ \E j \in Jobs : Add(j) \/ Stall(j)
    PROVE  PageInv'
PROOF
<1>1. UNCHANGED <<heard, user, phase>>
    BY DEF Take, Finish, Add, Stall, gateway
<1>2. SocketIsTheReaders'
    BY <1>1, SameUsers DEF page
<1>3. ASSUME NEW k \in Jobs
      PROVE  Emissions(k)' \in Int /\ Emissions(k) <= Emissions(k)'
  <2>1. /\ stalls[k] \in Nat
        /\ stalls'[k] \in {stalls[k], stalls[k] + 1}
        /\ job[k] \in {"emitted", "done"} /\ stalls'[k] = stalls[k] => job'[k] \in {"emitted", "done"}
    <3>1. ASSUME NEW p \in Replicas, Take(p) \/ Finish(p)
          PROVE  /\ stalls' = stalls
                 /\ job[k] \in {"emitted", "done"} => job'[k] \in {"emitted", "done"}
        BY <3>1 DEF Take, Finish, IInv, TypeOK
    <3>2. ASSUME NEW j \in Jobs, Add(j)
          PROVE  /\ stalls' = stalls
                 /\ job[k] \in {"emitted", "done"} => job'[k] \in {"emitted", "done"}
        BY <3>2 DEF Add, IInv, TypeOK
    <3>3. ASSUME NEW j \in Jobs, Stall(j)
          PROVE  \/ k # j /\ stalls'[k] = stalls[k] /\ job'[k] = job[k]
                 \/ stalls'[k] = stalls[k] + 1
        BY <3>3 DEF Stall, IInv, TypeOK
    <3> QED BY <3>1, <3>2, <3>3, Counts
  <2> QED BY <2>1, Counts DEF Emissions
<1> QED BY <1>1, <1>2, <1>3, QuietOK DEF page

\* An emission reaches the socket of the page once, and is counted.
LEMMA PageProcessOK ==
    ASSUME IInv, PageInv, UNCHANGED page, NEW p \in Replicas, Process(p) PROVE PageInv'
PROOF
<1> DEFINE j == taken[p]
<1>1. /\ j \in Jobs /\ job[j] = "active"
      /\ job' = [job EXCEPT ![j] = "emitted"] /\ stalls' = stalls
      /\ \A s \in Sockets : heard'[s] \in {heard[s], heard[s] \cup {j}}
      /\ UNCHANGED <<user, phase>>
    BY DEF Process, IInv, TypeOK, gateway
<1> HIDE DEF j
<1>2. PageTypeOK' /\ BadgeCounts'
    BY DEF PageInv, PageTypeOK, BadgeCounts, page
<1>3. SocketIsTheReaders'
    BY <1>1, SameUsers DEF page
<1>4. ASSUME NEW k \in Jobs PROVE times'[k] + Pending(k)' <= Emissions(k)'
  <2>1. CASE k = j
    <3>1. Emissions(k) = stalls[k] /\ Emissions(k)' = stalls[k] + 1
        BY <1>1, <2>1, Counts DEF Emissions, IInv, TypeOK
    <3>2. Pending(k)' \in {0, 1} /\ times' = times
        BY DEF Pending, page
    <3> QED BY <3>1, <3>2, Counts
  <2>2. CASE k # j
    <3>1. Emissions(k)' = Emissions(k)
        BY <1>1, <2>2 DEF Emissions, IInv, TypeOK
    <3>2. Pending(k)' = Pending(k) /\ times' = times
        BY <1>1, <2>2 DEF Pending, page, PageInv, PageTypeOK
    <3> QED BY <3>1, <3>2, Counts
  <2> QED BY <2>1, <2>2
<1> QED BY <1>2, <1>3, <1>4 DEF PageInv


LEMMA PageNextOK ==
    ASSUME IInv, PageInv, [CNext]_cvars PROVE PageInv'
PROOF
<1>1. CASE UNCHANGED cvars
    BY <1>1 DEF cvars, vars, page, PageInv, PageTypeOK, SocketIsTheReaders, Pending, Emissions,
                BadgeCounts
<1>2. CASE SignIn \/ Renew \/ SignOut \/ Refuse \/ Reconnect
  <2>1. SignIn => PageInv'
      BY SwitchOK, NoneAssumption DEF SignIn
  <2>2. Renew \/ SignOut \/ Refuse => PageInv'
      BY SwitchOK DEF Renew, SignOut, Refuse, Leave, PageInv, PageTypeOK
  <2>3. Reconnect => PageInv'
      BY SwitchOK DEF Reconnect, PageInv, PageTypeOK, SocketIsTheReaders
  <2> QED BY <1>2, <2>1, <2>2, <2>3
<1>3. CASE Reload \/ MarkAllAsRead \/ ClearAll \/ \E j \in Jobs : Receive(j)
    BY <1>3, ReloadOK, ReadingOK, ReceiveOK
<1>4. CASE \E s \in Sockets : Meet(s) \/ Rejected(s)
    BY <1>4, MeetOK, RejectedOK
<1>5. CASE /\ \/ MembershipsChange
              \/ \E s \in Sockets : Query(s) \/ EnterRooms(s) \/ Disconnect(s) \/ JoinOrg(s)
              \/ \E p \in Replicas : Take(p) \/ Process(p) \/ Finish(p) \/ Crash(p)
              \/ \E j \in Jobs : Add(j) \/ Stall(j)
           /\ UNCHANGED page
    BY <1>5, GatewayQuiet, QueueQuiet, PageProcessOK
<1> QED BY <1>1, <1>2, <1>3, <1>4, <1>5 DEF CNext

LEMMA PageInvariance == CSpec => []PageInv
PROOF
<1>1. CInit /\ IInv => PageInv
    BY PageInitOK
<1>2. IInv /\ PageInv /\ [CNext]_cvars => PageInv'
    BY PageNextOK
<1>3. CSpec => []IInv
    BY BackendUnchanged, Invariance
<1> QED BY <1>1, <1>2, <1>3, PTL DEF CSpec

\* The count of unread notifications agrees with the panel, whatever is cut.
THEOREM BadgeIsRight == CSpec => []BadgeCounts
PROOF
<1>1. PageInv => BadgeCounts
    BY DEF PageInv
<1> QED BY <1>1, PageInvariance, PTL

\* The page is told of what concerns its reader, and twice only after a stall.
THEOREM NewsOnceToTheReader == CSpec => NewsAreTheReaders
PROOF
<1> DEFINE A == \A j \in Jobs : times'[j] > times[j] =>
                    /\ reader # None
                    /\ user[socket] = reader
                    /\ about[j] \in found[socket]
                    /\ times'[j] <= stalls[j] + 1
<1>1. ASSUME IInv, PageInv, [CNext]_cvars PROVE [A]_cvars
  <2> SUFFICES ASSUME NEW j \in Jobs, times'[j] > times[j]
               PROVE  /\ reader # None
                      /\ user[socket] = reader
                      /\ about[j] \in found[socket]
                      /\ times'[j] <= stalls[j] + 1
      OBVIOUS
  <2>1. times[j] \in Nat
      BY <1>1 DEF PageInv, PageTypeOK
  <2>2. times'[j] # times[j] /\ times'[j] # 0
      BY <2>1
  <2>3. Receive(j)
    <3>1. PICK k \in Jobs : Receive(k)
        BY <1>1, <2>2 DEF CNext, cvars, page, SignIn, Renew, SignOut, Refuse, Reconnect, Reload,
                          MarkAllAsRead, ClearAll, Meet, Rejected
    <3>2. k = j
        BY <1>1, <2>2, <3>1 DEF Receive, PageInv, PageTypeOK
    <3> QED BY <3>1, <3>2
  <2>4. socket \in Sockets /\ j \in heard[socket] /\ phase[socket] # "none"
      BY <1>1, <2>3 DEF Receive, PageInv, PageTypeOK, IInv, SocketOK
  <2>5. reader # None /\ user[socket] = reader
      BY <1>1, <2>4, NoSocketAssumption DEF PageInv, SocketIsTheReaders
  <2>6. about[j] \in found[socket]
      BY <1>1, <2>4 DEF IInv, OnlyKnownMembersHear
  <2>7. times'[j] = times[j] + 1 /\ Pending(j) = 1
      BY <1>1, <2>3 DEF Receive, Pending, PageInv, PageTypeOK
  <2>8. times[j] + 1 <= stalls[j] + 1
      BY <1>1, <2>7, Counts
  <2> QED BY <2>5, <2>6, <2>7, <2>8
<1>2. CSpec => []IInv
    BY BackendUnchanged, Invariance
<1> QED BY <1>1, <1>2, PageInvariance, PTL DEF CSpec, NewsAreTheReaders

=============================================================================
