--------------------------- MODULE MessagingGateway ---------------------------
(***************************************************************************)
(* messaging.gateway.ts: the sockets, the rooms of the conversations, and  *)
(* the messages pushed to them; together with the service, the whole of    *)
(* messaging.  Only what a socket sends is pushed: a message posted over   *)
(* HTTP is not, and nothing calls emitMessageUpdate, emitMessageDeleted or *)
(* emitConversationUpdate.                                                 *)
(***************************************************************************)
EXTENDS MessagingService

CONSTANTS
    Sockets,       \* connections, each made once
    NoUser,        \* client.userId is undefined
    Invitations    \* participant ids a client may send

ASSUME NoUserAssumption == NoUser \notin Users
ASSUME InvitationsAssumption == Invitations \subseteq SUBSET Users

VARIABLES
    socket,        \* what each connection has got to, and the user its token names
    userSockets,   \* the gateway's map, as a set of <<user, socket>>
    rooms,         \* sockets in the room of each conversation
    joining,       \* join-conversation requests past their check
    synced,        \* conversations whose messages a client fetched after it joined
    view           \* messages a client has been shown

gatewayVars == <<socket, userSockets, rooms, joining, synced, view>>
vars == <<serviceVars, gatewayVars>>

Init ==
    /\ ServiceInit
    /\ socket = [s \in Sockets |-> [state |-> "new", user |-> NoUser]]
    /\ userSockets = {}
    /\ rooms = [c \in Convs |-> {}]
    /\ joining = {}
    /\ synced = [s \in Sockets |-> {}]
    /\ view = [s \in Sockets |-> {}]

In(s, state)  == socket[s].state = state
UserOf(s)     == socket[s].user
Become(s, st) == socket' = [socket EXCEPT ![s].state = st]

-----------------------------------------------------------------------------
(* Connections                                                             *)

\* handleConnection up to the verification of the token.
Connect(s, u) ==
    /\ In(s, "new")
    /\ socket' = [socket EXCEPT ![s] = [state |-> "verifying", user |-> u]]
    /\ UNCHANGED <<serviceVars, userSockets, rooms, joining, synced, view>>

\* The rest of handleConnection, which does not ask whether the client is still there.
Verified(s) ==
    /\ \/ In(s, "verifying") /\ Become(s, "open")
       \/ In(s, "dropped") /\ Become(s, "ghost")
    /\ userSockets' = userSockets \union {<<UserOf(s), s>>}
    /\ UNCHANGED <<serviceVars, rooms, joining, synced, view>>

\* A bad token: the server disconnects the client, whose userId is not set.
Rejected(s) ==
    /\ socket[s].state \in {"verifying", "dropped"}
    /\ Become(s, "closed")
    /\ UNCHANGED <<serviceVars, userSockets, rooms, joining, synced, view>>

\* What socket.io forgets of a connection that is gone.
Forget(S) ==
    /\ rooms' = [c \in Convs |-> rooms[c] \ S]
    /\ joining' = {j \in joining : j.socket \notin S}
    /\ synced' = [s \in Sockets |-> IF s \in S THEN {} ELSE synced[s]]
    /\ view' = [s \in Sockets |-> IF s \in S THEN {} ELSE view[s]]

\* handleDisconnect before userId is set changes nothing.
DropEarly(s) ==
    /\ In(s, "verifying")
    /\ Become(s, "dropped")
    /\ UNCHANGED <<serviceVars, userSockets, rooms, joining, synced, view>>

\* Mutant: the rooms keep the socket.
DisconnectRoomsMutant(s) ==
    /\ In(s, "open")
    /\ Become(s, "closed")
    /\ userSockets' = userSockets \ {<<UserOf(s), s>>}
    /\ UNCHANGED <<serviceVars, rooms, joining, synced, view>>

Disconnect(s) ==
    /\ In(s, "open")
    /\ Become(s, "closed")
    /\ userSockets' = userSockets \ {<<UserOf(s), s>>}
    /\ Forget({s})
    /\ UNCHANGED serviceVars

\* The process dies: its requests and connections end, the tables remain.
Restart ==
    /\ failed' = failed \union {r \in Requests : req[r].step \in Waiting}
    /\ socket' = [s \in Sockets |->
                    IF In(s, "new") THEN socket[s] ELSE [socket[s] EXCEPT !.state = "closed"]]
    /\ userSockets' = {}
    /\ Forget(Sockets)
    /\ UNCHANGED <<clock, tables, req>>

-----------------------------------------------------------------------------
(* Rooms                                                                   *)

\* handleJoinConversation up to the answer of the service.
AskToJoin(s, c) ==
    /\ In(s, "open")
    /\ IsMember(c, UserOf(s))
    /\ joining' = joining \union {[socket |-> s, conv |-> c]}
    /\ UNCHANGED <<serviceVars, socket, userSockets, rooms, synced, view>>

\* A leave-conversation handled meanwhile does not stop it.
Join(j) ==
    /\ rooms' = [rooms EXCEPT ![j.conv] = @ \union {j.socket}]
    /\ joining' = joining \ {j}
    /\ UNCHANGED <<serviceVars, socket, userSockets, synced, view>>

Leave(s, c) ==
    /\ In(s, "open")
    /\ rooms' = [rooms EXCEPT ![c] = @ \ {s}]
    /\ synced' = [synced EXCEPT ![s] = @ \ {c}]
    /\ UNCHANGED <<serviceVars, socket, userSockets, joining, view>>

\* getMessages, asked for over HTTP by the client that holds s, within one page.
Fetch(s, c) ==
    /\ In(s, "open")
    /\ IsMember(c, UserOf(s))
    /\ view' = [view EXCEPT ![s] = @ \union {m \in DOMAIN messages : messages[m].conv = c}]
    /\ synced' = [synced EXCEPT ![s] = IF s \in rooms[c] THEN @ \union {c} ELSE @]
    /\ UNCHANGED <<serviceVars, socket, userSockets, rooms, joining>>

\* Mutant: the sender's sockets are skipped.
EmitMutant(r) ==
    /\ At(r, "emit")
    /\ view' = [s \in Sockets |->
                  IF s \in rooms[req[r].conv] /\ UserOf(s) # messages[req[r].msg].sender
                  THEN view[s] \union {req[r].msg} ELSE view[s]]
    /\ Goto(r, "sent")
    /\ UNCHANGED <<clock, failed, tables, socket, userSockets, rooms, joining, synced>>

\* The rest of handleSendMessage: to all that are in the room by now.
Emit(r) ==
    /\ At(r, "emit")
    /\ view' = [s \in Sockets |->
                  IF s \in rooms[req[r].conv] THEN view[s] \union {req[r].msg} ELSE view[s]]
    /\ Goto(r, "sent")
    /\ UNCHANGED <<clock, failed, tables, socket, userSockets, rooms, joining, synced>>

-----------------------------------------------------------------------------
Open(r) ==
    \/ \E u \in Users, k \in Classes \union {NoClass}, ids \in Invitations,
          type \in {"group", "class", "school_wide"} :
            StartConversation(r, u, type, k, ids)
    \/ \E u \in Users, k \in Classes : OpenClassConversation(r, u, k)
    \/ \E u \in Users : OpenSchoolConversation(r, u)

Populate(r) ==
    \/ \E c \in Convs : InsertConversation(r, c)
    \/ InsertCreator(r)
    \/ InsertInvited(r)
    \/ InsertClass(r)

Write(r) ==
    \/ \E u \in Users, c \in DOMAIN conversations : Send(r, u, c, "http")
    \/ \E s \in Sockets, c \in DOMAIN conversations :
            In(s, "open") /\ Send(r, UserOf(s), c, "socket")
    \/ \E m \in Msgs : SaveMessage(r, m)
    \/ TouchConversation(r)
    \/ \E u \in Users, m \in DOMAIN messages :
            LoadToEdit(r, u, m) \/ LoadToDelete(r, u, m)
    \/ SaveEdit(r)
    \/ SaveDelete(r)

Read(r) ==
    \/ \E u \in Users, m \in DOMAIN messages : FindRead(r, u, m)
    \/ InsertRead(r)
    \/ LoadRead(r)
    \/ MarkRead(r)

Service(r) == Open(r) \/ Populate(r) \/ Write(r) \/ Read(r) \/ Fail(r)

Connection(s) ==
    \/ \E u \in Users : Connect(s, u)
    \/ Verified(s)
    \/ Rejected(s)
    \/ DropEarly(s)
    \/ Disconnect(s)

Room(s) == \E c \in Convs : AskToJoin(s, c) \/ Leave(s, c) \/ Fetch(s, c)

Next ==
    \/ \E r \in Requests : Service(r) /\ UNCHANGED gatewayVars
    \/ \E r \in Requests : Emit(r)
    \/ \E s \in Sockets : Connection(s) \/ Room(s)
    \/ \E j \in joining : Join(j)
    \/ Restart
    \/ Tick /\ UNCHANGED gatewayVars

Spec == Init /\ [][Next]_vars

-----------------------------------------------------------------------------
(* Properties                                                              *)

SocketStates == {"new", "verifying", "dropped", "open", "ghost", "closed"}

\* Ids are those of rows that exist, and only open sockets are in rooms.
TypeOK ==
    /\ clock \in Nat \ {0}
    /\ DOMAIN conversations \subseteq Convs /\ DOMAIN messages \subseteq Msgs
    /\ conversations \in [DOMAIN conversations -> ConversationRows]
    /\ participants \subseteq ParticipantRows
    /\ messages \in [DOMAIN messages -> MessageRows]
    /\ reads \subseteq (DOMAIN messages) \X Users
    /\ req \in [Requests -> RequestStates] /\ failed \subseteq Requests
    /\ socket \in [Sockets -> [state : SocketStates, user : Users \union {NoUser}]]
    /\ userSockets \subseteq Users \X Sockets
    /\ rooms \in [Convs -> SUBSET {s \in Sockets : In(s, "open")}]
    /\ joining \subseteq [socket : {s \in Sockets : In(s, "open")}, conv : Convs]
    /\ synced \in [Sockets -> SUBSET Convs]
    /\ view \in [Sockets -> SUBSET Msgs]

\* The four saves of createConversation never clash with the unique constraint on
\* conversation and user, which would leave the conversation half peopled.
OneRowPerMember ==
    \A p, q \in participants : p.conv = q.conv /\ p.user = q.user => p = q

\* Whoever was meant to be in a conversation is, once its creation has ended well.
AudienceComplete ==
    \A r \in Requests : At(r, "opened") =>
        /\ req[r].invited \union {req[r].user} \subseteq Members(req[r].conv)
        /\ req[r].type = "class" /\ req[r].class # NoClass =>
              Pupils[req[r].class] \union Teachers \subseteq Members(req[r].conv)

\* Two requests that searched before creating make two conversations for one class, or
\* two for the school, only if neither's was there when the other searched.
HasRow(r) == req[r].step \in {"creator", "invite", "class", "opened"}

DuplicatesOnlyByOverlap ==
    \A q, r \in Requests :
        /\ q # r /\ HasRow(q) /\ HasRow(r) /\ req[r].searched
        /\ req[q].type = req[r].type /\ req[q].class = req[r].class
        => req[q].conv \notin req[r].seen

\* Creating a conversation, save by save and next to other creations: each member is
\* saved once, all who were meant are members, and a second conversation for a class or
\* the school comes only of overlapping requests.
ConversationsSound == OneRowPerMember /\ AudienceComplete /\ DuplicatesOnlyByOverlap

\* A request that will save a row it loaded before another one saved it.
Stale(r) == (At(r, "edit") \/ At(r, "delete")) /\ req[r].copy # messages[req[r].msg]

\* A step that brings a deleted message back, or the text an edit replaced.
Lost(m) ==
    \/ messages[m].deleted /\ ~messages'[m].deleted
    \/ messages'[m].text = "original" /\ messages[m].text # "original"

\* A deleted message comes back, and the text of an edit is lost, only when the save
\* that does it had loaded the message before.
ChangesLostOnlyByOverlap ==
    [][\A m \in DOMAIN messages :
          Lost(m) => \E r \in Requests : Stale(r) /\ req[r].msg = m]_vars

\* The message of a request is off the unread count of its user.
Settled(r) == req[r].msg \notin Unread(messages[req[r].msg].conv, req[r].user)

\* A markAsRead that ends well, even as the retry of one that failed midway, leaves
\* the message off the reader's unread count.
ReadSettles ==
    [][\A r \in Requests : ~At(r, "marked") /\ At(r, "marked")' => Settled(r)']_vars

\* No request undoes another's work on a message unless they overlap: deletions, edits
\* and read marks stand.
ChangesStand == ChangesLostOnlyByOverlap /\ ReadSettles

\* A message sent from a socket is pushed to every connected participant: what the
\* comment on handleSendMessage says, where the code pushes to the room.
EmitReachesParticipants ==
    [][\A r \in Requests, s \in Sockets :
          At(r, "emit") /\ At(r, "sent")' /\ In(s, "open") /\ IsMember(req[r].conv, UserOf(s))
          => req[r].msg \in view'[s]]_vars

\* Only participants' sockets are in the room of a conversation.
NoStrangersInRoom ==
    \A c \in Convs : \A s \in rooms[c] : IsMember(c, UserOf(s))

\* A client that joined a conversation, then fetched its messages, and has not left
\* has been shown every message whose sending from a socket has ended well, however
\* the sending overlapped with the joining and the fetch.
NothingMissed ==
    \A s \in Sockets, r \in Requests :
        At(r, "sent") /\ req[r].via = "socket" /\ req[r].conv \in synced[s]
        => req[r].msg \in view[s]

\* userSockets holds the open sockets and those that left while their token was being
\* verified; the latter stay for as long as the process runs.
OnlyRaceLeavesGhosts ==
    \A s \in Sockets :
        /\ In(s, "open") => <<UserOf(s), s>> \in userSockets
        /\ \A u \in Users : <<u, s>> \in userSockets => socket[s].state \in {"open", "ghost"}

\* The gateway's rooms and sockets: members only, none forgotten by a disconnection but
\* for the race with verification, and no sent message missed by who joined and fetched.
RoomsSound == NoStrangersInRoom /\ OnlyRaceLeavesGhosts /\ NothingMissed
=============================================================================
