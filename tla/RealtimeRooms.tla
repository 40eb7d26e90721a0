---------------------------- MODULE RealtimeRooms ----------------------------
(***************************************************************************)
(* RealtimeService of apps/realtime: sockets join and leave rooms, say     *)
(* that they type, disconnect, and resume under the session they had.      *)
(* What a handler does before its first await is one step; the presence of *)
(* a room is fetched, and sent in a later one.  Socket.IO keeps the rooms  *)
(* that sockets joined, and takes a socket out of them when it goes; the   *)
(* service's own typing entries in the adapter's map it does not know of.  *)
(***************************************************************************)
EXTENDS Absent, Naturals, Sequences, FiniteSets

CONSTANTS
    Sockets,     \* connections: an id is never used twice
    Listeners,   \* user ids, which the client names
    RSessions,   \* session ids, which the client may name
    Rooms,
    MaxRequests, \* of a user, in a window of Window ticks
    Window,
    MaxTick      \* bound on the clock

VARIABLES
    socket,      \* socket.data, and whether it is connected
    members,     \* the adapter's rooms
    typing,      \* its typing: entries
    recovery,    \* recoveryStore
    fetched,     \* the presence that a handler has fetched and not sent
    presence,    \* the last one that was sent to each room
    buckets,     \* the limiter's timestamps of each user
    tick

realtimeVars == <<socket, members, typing, recovery, fetched, presence, buckets, tick>>

RealtimeTypeOK ==
    /\ socket \in [Sockets -> [at : {"new", "open", "closed"}, user : Listeners \cup {None},
                               session : RSessions \cup {None}, rooms : SUBSET Rooms]]
    /\ members \in [Rooms -> SUBSET Sockets] /\ typing \in [Rooms -> SUBSET Sockets]
    /\ recovery \in [RSessions -> [user : Listeners, rooms : SUBSET Rooms] \cup {None}]
    /\ fetched \in [Sockets -> [room : Rooms, users : SUBSET Listeners] \cup {None}]
    /\ presence \in [Rooms -> SUBSET Listeners]
    /\ \A u \in Listeners : buckets[u] \in Seq(0..MaxTick)
    /\ tick \in 0..MaxTick

ASSUME NoSessionAssumption == None \notin [user : Listeners, rooms : SUBSET Rooms]
ASSUME TickAssumption == MaxTick \in Nat /\ MaxRequests \in Nat

RealtimeInit ==
    /\ socket = [s \in Sockets |-> [at |-> "new", user |-> None, session |-> None, rooms |-> {}]]
    /\ members = [r \in Rooms |-> {}] /\ typing = [r \in Rooms |-> {}]
    /\ recovery = [x \in RSessions |-> None]
    /\ fetched = [s \in Sockets |-> None]
    /\ presence = [r \in Rooms |-> {}]
    /\ buckets = [u \in Listeners |-> <<>>] /\ tick = 0

\* InMemoryRateLimiter.allow: a request that is refused is not counted.
Recent(u) == Picked(buckets[u], {i \in DOMAIN buckets[u] : buckets[u][i] + Window > tick})

Allowed(s) == Len(Recent(socket[s].user)) < MaxRequests

Counted(s) ==
    LET u == socket[s].user
    IN  buckets' = [buckets EXCEPT ![u] = IF Allowed(s) THEN Append(Recent(u), tick)
                                                        ELSE Recent(u)]

\* A user's request is refused: nothing but the bucket changes.
Limited(s) ==
    /\ socket[s].at = "open" /\ ~Allowed(s)
    /\ Counted(s)
    /\ UNCHANGED <<socket, members, typing, recovery, fetched, presence, tick>>

Handles(s) == socket[s].at = "open" /\ Allowed(s) /\ Counted(s)

\* The connection handler: a session that the client does not name is new.
Connect(s) ==
    /\ socket[s].at = "new"
    /\ \E u \in Listeners, x \in RSessions :
           socket' = [socket EXCEPT ![s] = [at |-> "open", user |-> u, session |-> x, rooms |-> {}]]
    /\ UNCHANGED <<members, typing, recovery, fetched, presence, buckets, tick>>

UsersOf(connections) == {socket[s].user : s \in connections}

\* handleJoinRoom, until the presence has been fetched; a socket has one such handler at a
\* time here.
JoinRoom(s) ==
    /\ Handles(s) /\ fetched[s] = None
    /\ \E r \in Rooms :
           /\ members' = [members EXCEPT ![r] = @ \cup {s}]
           /\ socket' = [socket EXCEPT ![s].rooms = @ \cup {r}]
           /\ fetched' = [fetched EXCEPT ![s] = [room |-> r, users |-> UsersOf(members'[r])]]
    /\ UNCHANGED <<typing, recovery, presence, tick>>

\* handleLeaveRoom: what it types there stays.
LeaveRoom(s) ==
    /\ Handles(s) /\ fetched[s] = None
    /\ \E r \in Rooms :
           /\ members' = [members EXCEPT ![r] = @ \ {s}]
           /\ socket' = [socket EXCEPT ![s].rooms = @ \ {r}]
           /\ fetched' = [fetched EXCEPT ![s] = [room |-> r, users |-> UsersOf(members'[r])]]
    /\ UNCHANGED <<typing, recovery, presence, tick>>

\* The end of broadcastPresence: what was fetched is sent, whatever happened since.
SendPresence(s) ==
    /\ fetched[s] # None
    /\ presence' = [presence EXCEPT ![fetched[s].room] = fetched[s].users]
    /\ fetched' = [fetched EXCEPT ![s] = None]
    /\ UNCHANGED <<socket, members, typing, recovery, buckets, tick>>

\* handleNotification, handleListening, handleComment: they send, and keep nothing.
Send(s) ==
    /\ Handles(s)
    /\ UNCHANGED <<socket, members, typing, recovery, fetched, presence, tick>>

\* handleTypingStart: of any room, joined or not.
StartTyping(s) ==
    /\ Handles(s)
    /\ \E r \in Rooms : typing' = [typing EXCEPT ![r] = @ \cup {s}]
    /\ UNCHANGED <<socket, members, recovery, fetched, presence, tick>>

StopTyping(s) ==
    /\ Handles(s)
    /\ \E r \in Rooms : typing' = [typing EXCEPT ![r] = @ \ {s}]
    /\ UNCHANGED <<socket, members, recovery, fetched, presence, tick>>

\* handleRecoveryResume: any session, by anybody; the rooms are joined, and are not put into
\* socket.data.
Resume(s) ==
    /\ socket[s].at = "open"
    /\ \E x \in RSessions :
           /\ recovery[x] # None
           /\ members' = [r \in Rooms |-> IF r \in recovery[x].rooms THEN members[r] \cup {s}
                                                                     ELSE members[r]]
           /\ recovery' = [recovery EXCEPT ![x] = None]
    /\ UNCHANGED <<socket, typing, fetched, presence, buckets, tick>>

Gone(s) ==
    /\ socket' = [socket EXCEPT ![s].at = "closed"]
    /\ members' = [r \in Rooms |-> members[r] \ {s}]
    /\ recovery' = [recovery EXCEPT ![socket[s].session] =
                        [user |-> socket[s].user, rooms |-> socket[s].rooms]]

\* Mutant: the typing entries are left to Socket.IO.
DisconnectUncleaned(s) ==
    /\ socket[s].at = "open"
    /\ Gone(s)
    /\ UNCHANGED <<typing, fetched, presence, buckets, tick>>

\* handleDisconnect: the rooms in socket.data are stored under the session, over what is
\* there, and it no longer types in them.
Disconnect(s) ==
    /\ socket[s].at = "open"
    /\ Gone(s)
    /\ typing' = [r \in Rooms |-> IF r \in socket[s].rooms THEN typing[r] \ {s} ELSE typing[r]]
    /\ UNCHANGED <<fetched, presence, buckets, tick>>

Tick ==
    /\ tick < MaxTick
    /\ tick' = tick + 1
    /\ UNCHANGED <<socket, members, typing, recovery, fetched, presence, buckets>>

RealtimeNext ==
    \/ \E s \in Sockets :
           \/ Connect(s) \/ JoinRoom(s) \/ LeaveRoom(s) \/ SendPresence(s) \/ Send(s)
           \/ StartTyping(s) \/ StopTyping(s) \/ Limited(s) \/ Resume(s) \/ Disconnect(s)
    \/ Tick

-----------------------------------------------------------------------------
\* A connection that is gone is shown as typing only in rooms that it had not joined when
\* it went, and is in none; the rooms that are stored under a session are all of those that
\* one connection of it, now gone, had joined itself (handleDisconnect, cleanupTypingState).
GoneLeavesLittle ==
    /\ \A s \in Sockets, r \in Rooms :
           socket[s].at = "closed" =>
               s \notin members[r] /\ (s \in typing[r] => r \notin socket[s].rooms)
    /\ \A x \in RSessions : recovery[x] # None =>
           \E s \in Sockets : /\ socket[s].at = "closed" /\ socket[s].session = x
                              /\ socket[s].rooms = recovery[x].rooms

\* However its messages fall into the windows, and whatever is let in of them, no user has
\* more requests counted than a window admits (InMemoryRateLimiter.allow).
WindowsHold == \A u \in Listeners : Len(buckets[u]) <= MaxRequests
=============================================================================
