------------------------ MODULE ClientNotifications ------------------------
(***************************************************************************)
(* A page of the client among the sockets of Notifications: the socket it  *)
(* opens for whoever is signed in (frontend/src/hooks/useSocket.ts), and   *)
(* the notifications and the count of unread ones that it keeps            *)
(* (stores/notification.store.ts).                                         *)
(*                                                                         *)
(* The effect of useSocket runs when isAuthenticated or accessToken has    *)
(* become another: it leaves the socket it had, and opens a new one.  The  *)
(* backend learns of either later.  socket.io-client opens a new socket    *)
(* when the connection breaks, and none when the backend has closed it.    *)
(***************************************************************************)
EXTENDS Notifications, Sequences

CONSTANT MaxPanel \* how many notifications the page keeps

ASSUME PanelAssumption == MaxPanel \in Nat \ {0}

ASSUME NoSocketAssumption == None \notin Sockets

VARIABLES
    reader, \* auth store: the user who is signed in, or None
    socket, \* socketRef: the socket the page listens to, or None
    got,    \* notifications of this socket that the page has received
    panel,  \* notifications, the newest first
    unread, \* unreadCount
    times   \* history: per job, how often the page was told of it

page  == <<reader, socket, got, panel, unread, times>>
cvars == <<vars, page>>

CInit ==
    /\ Init
    /\ reader = None
    /\ socket = None
    /\ got = {}
    /\ panel = <<>>
    /\ unread = 0
    /\ times = [j \in Jobs |-> 0]

-----------------------------------------------------------------------------
(* The socket of the page.                                                 *)

Fresh == {s \in Sockets : phase[s] = "none" /\ s # socket}

\* One id of a new socket is as good as another.
Open ==
    /\ Fresh # {}
    /\ socket' = CHOOSE s \in Fresh : TRUE
    /\ got' = {}

\* A mutant: the effect has no cleanup.
Leave_Open == UNCHANGED <<socket, got>>

\* The effect is cleaned up.
Leave == socket' = None /\ got' = {}

\* login.
SignIn ==
    /\ reader = None
    /\ reader' \in Users
    /\ Open
    /\ UNCHANGED <<vars, panel, unread, times>>

\* The access token is renewed: another one, for the same user.
Renew ==
    /\ reader # None
    /\ Open
    /\ UNCHANGED <<vars, reader, panel, unread, times>>

\* logout does not touch the notifications.
SignOut ==
    /\ reader # None
    /\ reader' = None
    /\ Leave
    /\ UNCHANGED <<vars, panel, unread, times>>

\* The page is loaded again: the auth store is persisted, the notifications are
\* not.
Reload ==
    /\ IF reader = None THEN Leave ELSE Open
    /\ panel' = <<>>
    /\ unread' = 0
    /\ times' = [j \in Jobs |-> 0]
    /\ UNCHANGED <<vars, reader>>

\* The backend meets the socket of the page, or that of another client.
Meet(s) ==
    /\ Connect(s)
    /\ s = socket => user'[s] = reader
    /\ UNCHANGED page

\* The token of the page does not verify any more: the backend closes the
\* socket, and leaves no trace of it.
Refuse ==
    /\ socket # None
    /\ phase[socket] = "none"
    /\ Leave
    /\ UNCHANGED <<vars, reader, panel, unread, times>>

\* The lookup fails, and the client is told that its socket is closed.
Rejected(s) ==
    /\ QueryFails(s)
    /\ IF s = socket THEN Leave ELSE UNCHANGED <<socket, got>>
    /\ UNCHANGED <<reader, panel, unread, times>>

\* The client notices that the connection broke, and tries again.
Reconnect ==
    /\ socket # None
    /\ phase[socket] # "none"
    /\ ~Connected(socket)
    /\ Open
    /\ UNCHANGED <<vars, reader, panel, unread, times>>

-----------------------------------------------------------------------------
(* The store.                                                              *)

News == [job: Jobs, read: BOOLEAN]

New(j) == [job |-> j, read |-> FALSE]

\* A mutant: the oldest are kept.
Cut_Newest(news) == IF Len(news) > MaxPanel THEN Tail(news) ELSE news

\* slice(0, 50)
Cut(news) == SubSeq(news, 1, IF Len(news) < MaxPanel THEN Len(news) ELSE MaxPanel)

\* addNotification, for what was emitted to the socket; what has not arrived
\* when the page leaves the socket never does.
Receive(j) ==
    /\ socket # None
    /\ j \in heard[socket] \ got
    /\ got' = got \cup {j}
    /\ panel' = Cut(<<New(j)>> \o panel)
    /\ unread' = unread + 1
    /\ times' = [times EXCEPT ![j] = @ + 1]
    /\ UNCHANGED <<vars, reader, socket>>

\* The panel can be opened by the user who is signed in.
MarkAllAsRead ==
    /\ reader # None
    /\ panel' = [k \in DOMAIN panel |-> [panel[k] EXCEPT !.read = TRUE]]
    /\ unread' = 0
    /\ UNCHANGED <<vars, reader, socket, got, times>>

ClearAll ==
    /\ reader # None
    /\ panel' = <<>>
    /\ unread' = 0
    /\ UNCHANGED <<vars, reader, socket, got, times>>

-----------------------------------------------------------------------------

CNext ==
    \/ SignIn \/ Renew \/ SignOut \/ Refuse \/ Reconnect \/ Reload
    \/ MarkAllAsRead \/ ClearAll
    \/ \E j \in Jobs : Receive(j)
    \/ \E s \in Sockets : Meet(s) \/ Rejected(s)
    \/ /\ \/ MembershipsChange
          \/ \E s \in Sockets : Query(s) \/ EnterRooms(s) \/ Disconnect(s) \/ JoinOrg(s)
          \/ \E p \in Replicas : Take(p) \/ Process(p) \/ Finish(p) \/ Crash(p)
          \/ \E j \in Jobs : Add(j) \/ Stall(j)
       /\ UNCHANGED page

CSpec == CInit /\ [][CNext]_cvars

CFairSpec == CSpec /\ Fairness

-----------------------------------------------------------------------------
(* Properties.                                                             *)

\* unreadCount and the marks of the panel agree, though each is kept by itself:
\* the newest unreadCount are unread, the others are read, and the count is past
\* the panel only if it was cut.
BadgeCounts ==
    /\ \A k \in DOMAIN panel : panel[k].read <=> k > unread
    /\ Len(panel) < MaxPanel => unread <= Len(panel)

\* The page is told only while somebody is signed in, only what is about an
\* organization of his when his socket connected, and twice only if a worker
\* died: whatever was under way when he signed in or out, his token was renewed
\* or a connection broke.
NewsAreTheReaders ==
    [][\A j \in Jobs : times'[j] > times[j] =>
          /\ reader # None
          /\ user[socket] = reader
          /\ about[j] \in found[socket]
          /\ times'[j] <= stalls[j] + 1]_cvars

-----------------------------------------------------------------------------
(* The inductive invariant behind the theorems of Notifications_proofs.    *)

PageTypeOK ==
    /\ reader \in Users \cup {None}
    /\ socket \in Sockets \cup {None}
    /\ got \subseteq Jobs
    /\ panel \in Seq(News) /\ Len(panel) <= MaxPanel
    /\ unread \in Nat
    /\ times \in [Jobs -> Nat]

SocketIsTheReaders ==
    socket # None =>
        /\ reader # None
        /\ phase[socket] # "none" => user[socket] = reader

\* An emission of job j is on its way to the page.
Pending(j) == IF socket # None /\ j \in heard[socket] \ got THEN 1 ELSE 0

Emissions(j) == stalls[j] + IF job[j] \in {"emitted", "done"} THEN 1 ELSE 0

PageInv ==
    /\ PageTypeOK
    /\ SocketIsTheReaders
    /\ \A j \in Jobs : times[j] + Pending(j) <= Emissions(j)
    /\ BadgeCounts
=============================================================================
