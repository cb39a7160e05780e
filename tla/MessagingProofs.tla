--------------------------- MODULE MessagingProofs ---------------------------
(***************************************************************************)
(* What messaging keeps for any number of users, requests, sockets,        *)
(* conversations and messages.                                             *)
(***************************************************************************)
EXTENDS MessagingGateway, TLAPS

MembersIn(ps, c) == {p.user : p \in {q \in ps : q.conv = c}}

CreationSteps == {"creator", "invite", "class", "opened"}
ConvSteps == CreationSteps \union {"found", "save", "touch", "emit", "sent"}
MsgSteps  == {"touch", "emit", "sent", "edit", "delete",
              "insertRead", "read", "mark", "marked"}

\* The ids a request holds are those of rows, and what it has read of columns that
\* no update changes still holds.
RequestOK(q, cs, ms) ==
    /\ q \in RequestStates
    /\ q.step \in ConvSteps => q.conv \in DOMAIN cs
    /\ q.step \in MsgSteps => q.msg \in DOMAIN ms
    /\ q.step \in {"touch", "emit", "sent"} => ms[q.msg].conv = q.conv
    /\ q.step \in {"edit", "delete"} =>
          /\ q.copy.conv = ms[q.msg].conv
          /\ q.copy.createdAt = ms[q.msg].createdAt
    /\ q.step \in {"mark", "marked"} => q.date >= 1 /\ ms[q.msg].createdAt <= q.date
    /\ q.step \in CreationSteps => cs[q.conv].type = q.type /\ cs[q.conv].class = q.class
    /\ q.step \in CreationSteps \union {"create"} /\ q.searched =>
          \A c \in q.seen :
             /\ c \in DOMAIN cs
             /\ ~(cs[c].type = q.type /\ cs[c].class = q.class)

\* How far a creation has got, and who is in its conversation.
PeopledOK(q, ps) ==
    /\ q.step = "creator" => MembersIn(ps, q.conv) = {}
    /\ q.step = "invite" => MembersIn(ps, q.conv) = {q.user}
    /\ q.step = "class" => q.class # NoClass
    /\ q.step \in {"class", "opened"} =>
          q.invited \union {q.user} \subseteq MembersIn(ps, q.conv)
    /\ q.step = "opened" /\ q.type = "class" /\ q.class # NoClass =>
          Pupils[q.class] \union Teachers \subseteq MembersIn(ps, q.conv)

TablesOK ==
    /\ clock \in Nat \ {0}
    /\ DOMAIN conversations \subseteq Convs /\ DOMAIN messages \subseteq Msgs
    /\ conversations \in [DOMAIN conversations -> ConversationRows]
    /\ participants \subseteq ParticipantRows
    /\ messages \in [DOMAIN messages -> MessageRows]
    /\ reads \subseteq (DOMAIN messages) \X Users
    /\ \A p \in participants : p.conv \in DOMAIN conversations
    /\ \A m \in DOMAIN messages : messages[m].createdAt <= clock

RequestsOK ==
    /\ req \in [Requests -> RequestStates] /\ failed \subseteq Requests
    /\ \A r \in Requests : RequestOK(req[r], conversations, messages)

PeopleOK ==
    /\ OneRowPerMember
    /\ \A r \in Requests : PeopledOK(req[r], participants)
    /\ \A q, r \in Requests : q # r /\ HasRow(q) /\ HasRow(r) => req[q].conv # req[r].conv

ServiceOK == TablesOK /\ RequestsOK /\ PeopleOK

GatewayTypes ==
    /\ socket \in [Sockets -> [state : SocketStates, user : Users \union {NoUser}]]
    /\ userSockets \subseteq Users \X Sockets
    /\ rooms \in [Convs -> SUBSET {s \in Sockets : In(s, "open")}]
    /\ joining \subseteq [socket : {s \in Sockets : In(s, "open")}, conv : Convs]
    /\ synced \in [Sockets -> SUBSET Convs]
    /\ view \in [Sockets -> SUBSET Msgs]

RoomsOK ==
    /\ NoStrangersInRoom
    /\ \A j \in joining : IsMember(j.conv, UserOf(j.socket))
    /\ \A s \in Sockets : \A c \in synced[s] : s \in rooms[c]
    /\ NothingMissed

SocketsOK ==
    /\ \A s \in Sockets :
          socket[s].state \in {"verifying", "dropped", "open", "ghost"} => UserOf(s) \in Users
    /\ \A s \in Sockets : In(s, "open") => <<UserOf(s), s>> \in userSockets
    /\ \A u \in Users, s \in Sockets :
          <<u, s>> \in userSockets => u = UserOf(s) /\ socket[s].state \in {"open", "ghost"}

GatewayOK == GatewayTypes /\ RoomsOK /\ SocketsOK

IInv == ServiceOK /\ GatewayOK

-----------------------------------------------------------------------------
(* Steps of the service                                                    *)

\* Columns no update changes, of rows no one deletes.
Kept ==
    /\ DOMAIN conversations \subseteq DOMAIN conversations'
    /\ DOMAIN messages \subseteq DOMAIN messages'
    /\ \A c \in DOMAIN conversations :
          /\ conversations'[c].type = conversations[c].type
          /\ conversations'[c].class = conversations[c].class
    /\ \A m \in DOMAIN messages :
          /\ messages'[m].conv = messages[m].conv
          /\ messages'[m].createdAt = messages[m].createdAt

MembersGrow == \A c \in Convs : Members(c) \subseteq MembersIn(participants', c)

\* Only the gateway ends the sending of a message from a socket.
NoNewSent ==
    \A r \in Requests :
        req'[r].step = "sent" /\ req'[r].via = "socket" => req'[r] = req[r]

MarksSettle ==
    \A r \in Requests : ~At(r, "marked") /\ At(r, "marked")' => Settled(r)'

LossesOverlap ==
    \A m \in DOMAIN messages : Lost(m) => \E r \in Requests : Stale(r) /\ req[r].msg = m

ServiceStep ==
    /\ ServiceOK' /\ Kept /\ MembersGrow /\ NoNewSent /\ failed \subseteq failed'
    /\ MarksSettle /\ LossesOverlap

LEMMA MembersDef == \A c : Members(c) = MembersIn(participants, c)
BY DEF Members, MembersIn

\* The step tells the fields of a request.
LEMMA Shape ==
    ASSUME NEW q \in RequestStates
    PROVE  /\ q.step = "create" => q \in Opening
           /\ q.step \in CreationSteps => q \in Populating
           /\ q.step = "found" => q \in [step : {"found"}, conv : Convs]
           /\ q.step = "save" => q \in Saving
           /\ q.step \in {"touch", "emit", "sent"} => q \in Sending
           /\ q.step \in {"edit", "delete"} => q \in Changing
           /\ q.step \in {"insertRead", "read"} => q \in Finding
           /\ q.step \in {"mark", "marked"} => q \in Marking
BY DEF RequestStates, Free, Opening, Populating, Finished, Saving, Sending, Changing,
       Finding, Marking, CreationSteps

\* A request is none the wiser for what others do to the tables.
LEMMA StillOK ==
    ASSUME NEW q, RequestOK(q, conversations, messages), Kept
    PROVE  RequestOK(q, conversations', messages')
BY DEF RequestOK, Kept, CreationSteps, ConvSteps, MsgSteps

LEMMA OthersStay ==
    ASSUME ServiceOK, NEW r \in Requests, NEW q, req' = [req EXCEPT ![r] = q],
           RequestOK(q, conversations', messages'), Kept, failed' \subseteq Requests
    PROVE  RequestsOK'
<1> USE DEF ServiceOK, RequestsOK
<1>1. req' \in [Requests -> RequestStates]
    BY DEF RequestOK
<1>2. ASSUME NEW i \in Requests PROVE RequestOK(req'[i], conversations', messages')
    BY StillOK
<1> QED BY <1>1, <1>2

\* A step that is no part of a creation and adds no participant.
LEMMA PlainOK ==
    ASSUME ServiceOK, NEW r \in Requests, NEW q, req' = [req EXCEPT ![r] = q],
           RequestOK(q, conversations', messages'), TablesOK', Kept,
           failed' \subseteq Requests, q.step \notin CreationSteps,
           \A c : MembersIn(participants', c) = MembersIn(participants, c),
           OneRowPerMember'
    PROVE  ServiceOK' /\ MembersGrow
<1>1. RequestsOK'
    BY OthersStay
<1>2. \A i \in Requests : req'[i] = IF i = r THEN q ELSE req[i]
    BY DEF ServiceOK, RequestsOK
<1>3. PeopleOK'
  <2>1. \A i \in Requests : PeopledOK(req'[i], participants')
      BY <1>2 DEF PeopledOK, ServiceOK, PeopleOK, CreationSteps
  <2>2. \A i, j \in Requests :
           i # j /\ HasRow(i)' /\ HasRow(j)' => req'[i].conv # req'[j].conv
      BY <1>2 DEF ServiceOK, PeopleOK, HasRow, CreationSteps
  <2> QED BY <2>1, <2>2 DEF PeopleOK
<1>4. MembersGrow
    BY MembersDef DEF MembersGrow
<1> QED BY <1>1, <1>3, <1>4 DEF ServiceOK

LEMMA PlainStep ==
    ASSUME ServiceOK, NEW r \in Requests, NEW q, req' = [req EXCEPT ![r] = q],
           RequestOK(q, conversations', messages'), TablesOK', Kept,
           failed' \subseteq Requests, failed \subseteq failed',
           q.step \notin CreationSteps, q.step = "sent" => q.via # "socket",
           q.step # "marked",
           \A c : MembersIn(participants', c) = MembersIn(participants, c),
           OneRowPerMember', LossesOverlap
    PROVE  ServiceStep
<1>1. ServiceOK' /\ MembersGrow
    BY PlainOK
<1>2. \A i \in Requests : req'[i] = IF i = r THEN q ELSE req[i]
    BY DEF ServiceOK, RequestsOK
<1>3. NoNewSent
    BY <1>2 DEF NoNewSent
<1>4. MarksSettle
    BY <1>2 DEF MarksSettle, At
<1> QED BY <1>1, <1>3, <1>4 DEF ServiceStep

\* A step that changes nothing but the request.
LEMMA ReadStep ==
    ASSUME ServiceOK, NEW r \in Requests, NEW q, req' = [req EXCEPT ![r] = q],
           RequestOK(q, conversations, messages), UNCHANGED <<clock, failed, tables>>,
           q.step \notin CreationSteps, q.step = "sent" => q.via # "socket",
           q.step # "marked"
    PROVE  ServiceStep
<1>1. TablesOK' /\ OneRowPerMember' /\ Kept /\ LossesOverlap
    BY DEF LossesOverlap, Lost, ServiceOK, TablesOK, PeopleOK, OneRowPerMember, Kept, tables
<1>2. /\ failed' \subseteq Requests /\ failed \subseteq failed'
      /\ conversations' = conversations /\ messages' = messages
      /\ participants' = participants
    BY DEF ServiceOK, RequestsOK, tables
<1> QED BY <1>1, <1>2, PlainStep

\* A step of a creation that adds rows for users its conversation has not.
LEMMA CreationStep ==
    ASSUME ServiceOK, NEW r \in Requests, HasRow(r),
           NEW q, q.step \in CreationSteps, q.conv = req[r].conv,
           req' = [req EXCEPT ![r] = q], RequestOK(q, conversations, messages),
           NEW N \in SUBSET ParticipantRows, participants' = participants \union N,
           \A p \in N : p.conv = q.conv /\ p.user \notin Members(q.conv),
           \A p1, p2 \in N : p1.user = p2.user => p1 = p2,
           PeopledOK(q, participants'),
           UNCHANGED <<clock, failed, conversations, messages, reads>>
    PROVE  ServiceStep
<1>1. q.conv \in DOMAIN conversations
    BY DEF RequestOK, ConvSteps
<1>2. TablesOK' /\ Kept
    BY <1>1 DEF ServiceOK, TablesOK, Kept
<1>3. RequestsOK'
    BY <1>2, OthersStay DEF ServiceOK, RequestsOK
<1>4. \A i \in Requests : req'[i] = IF i = r THEN q ELSE req[i]
    BY DEF ServiceOK, RequestsOK
<1>5. PeopleOK'
  <2>1. OneRowPerMember'
      BY DEF ServiceOK, PeopleOK, OneRowPerMember, Members
  <2>2. \A c : c # q.conv => MembersIn(participants', c) = MembersIn(participants, c)
      BY DEF MembersIn
  <2>3. ASSUME NEW i \in Requests PROVE PeopledOK(req'[i], participants')
    <3>1. CASE i = r
        BY <3>1, <1>4
    <3>2. CASE i # r
      <4>1. HasRow(i) => req[i].conv # req[r].conv
          BY <3>2 DEF ServiceOK, PeopleOK
      <4>2. HasRow(i) =>
               MembersIn(participants', req[i].conv) = MembersIn(participants, req[i].conv)
          BY <4>1, <2>2
      <4>3. PeopledOK(req[i], participants)
          BY DEF ServiceOK, PeopleOK
      <4>4. PeopledOK(req[i], participants')
          BY <4>2, <4>3 DEF PeopledOK, HasRow
      <4> QED BY <3>2, <4>4, <1>4
    <3> QED BY <3>1, <3>2
  <2>4. \A i, j \in Requests :
           i # j /\ HasRow(i)' /\ HasRow(j)' => req'[i].conv # req'[j].conv
      BY <1>4 DEF ServiceOK, PeopleOK, HasRow, CreationSteps
  <2> QED BY <2>1, <2>3, <2>4 DEF PeopleOK
<1>6. MembersGrow
    BY DEF MembersGrow, Members, MembersIn
<1>7. NoNewSent /\ MarksSettle /\ LossesOverlap
    BY <1>4 DEF NoNewSent, CreationSteps, MarksSettle, At, LossesOverlap, Lost
<1> QED BY <1>2, <1>3, <1>5, <1>6, <1>7 DEF ServiceStep, ServiceOK

-----------------------------------------------------------------------------
(* Each action of the service                                              *)

LEMMA CreatingOK ==
    ASSUME ServiceOK, NEW r \in Requests, NEW u \in Users, NEW type \in Types,
           NEW class \in Classes \union {NoClass}, NEW ids \in SUBSET Users,
           NEW searched \in BOOLEAN, NEW seen \in SUBSET DOMAIN conversations,
           searched => Found(type, class) \intersect seen = {},
           type # "class" /\ searched => class = NoClass,
           req' = [req EXCEPT ![r] = Creating(u, type, class, ids, searched, seen)],
           UNCHANGED <<clock, failed, tables>>
    PROVE  ServiceStep
<1> DEFINE q == Creating(u, type, class, ids, searched, seen)
<1>1. q \in Opening /\ q.step = "create" /\ q.searched = searched /\ q.seen = seen
      /\ q.type = type /\ q.class = class
    BY DEF Creating, Opening, ServiceOK, TablesOK
<1>2. searched => \A c \in seen : 
          c \in DOMAIN conversations /\ ~(conversations[c].type = type /\ conversations[c].class = class)
    BY DEF Found
<1>3. RequestOK(q, conversations, messages)
    BY <1>1, <1>2 DEF RequestOK, RequestStates, CreationSteps, ConvSteps, MsgSteps
<1> QED BY <1>1, <1>3, ReadStep DEF CreationSteps

LEMMA StartConversationOK ==
    ASSUME ServiceOK, NEW r \in Requests, NEW u \in Users, NEW type \in Types,
           NEW class \in Classes \union {NoClass}, NEW ids \in SUBSET Users,
           StartConversation(r, u, type, class, ids)
    PROVE  ServiceStep
<1>1. req' = [req EXCEPT ![r] = Creating(u, type, class, ids, FALSE, {})]
      /\ UNCHANGED <<clock, failed, tables>>
    BY DEF StartConversation, Go, tables
<1>2. {} \in SUBSET DOMAIN conversations /\ FALSE \in BOOLEAN
    OBVIOUS
<1> QED BY <1>1, <1>2, CreatingOK

LEMMA FindOrCreateOK ==
    ASSUME ServiceOK, NEW r \in Requests, NEW u \in Users, NEW type \in Types,
           NEW class \in Classes \union {NoClass}, NEW ids \in SUBSET Users,
           type # "class" => class = NoClass,
           FindOrCreate(r, u, type, class, ids)
    PROVE  ServiceStep
<1>1. ASSUME NEW c \in Found(type, class), Go(r, [step |-> "found", conv |-> c])
      PROVE  ServiceStep
  <2> DEFINE q == [step |-> "found", conv |-> c]
  <2>1. c \in Convs /\ c \in DOMAIN conversations
      BY DEF Found, ServiceOK, TablesOK
  <2>2. RequestOK(q, conversations, messages)
      BY <2>1 DEF RequestOK, RequestStates, Finished, CreationSteps, ConvSteps, MsgSteps
  <2> QED BY <1>1, <2>2, ReadStep DEF CreationSteps, Go, FindOrCreate
<1>2. ASSUME Found(type, class) = {},
             Go(r, Creating(u, type, class, ids, TRUE, DOMAIN conversations))
      PROVE  ServiceStep
  <2>1. req' = [req EXCEPT ![r] = Creating(u, type, class, ids, TRUE, DOMAIN conversations)]
        /\ UNCHANGED <<clock, failed, tables>>
      BY <1>2 DEF FindOrCreate, Go, tables
  <2>2. DOMAIN conversations \in SUBSET DOMAIN conversations /\ TRUE \in BOOLEAN
        /\ Found(type, class) \intersect DOMAIN conversations = {}
      BY <1>2
  <2> QED BY <2>1, <2>2, CreatingOK
<1> QED BY <1>1, <1>2 DEF FindOrCreate

LEMMA InsertConversationOK ==
    ASSUME ServiceOK, NEW r \in Requests, NEW c \in Convs, InsertConversation(r, c)
    PROVE  ServiceStep
<1> DEFINE q == [step |-> "creator", user |-> req[r].user, type |-> req[r].type,
                 class |-> req[r].class, invited |-> req[r].invited,
                 searched |-> req[r].searched, seen |-> req[r].seen, conv |-> c]
           row == [type |-> req[r].type, class |-> req[r].class,
                   creator |-> req[r].user, lastMessageAt |-> Never]
<1>1. req[r] \in Opening /\ RequestOK(req[r], conversations, messages) /\ req[r].step = "create"
    BY Shape DEF InsertConversation, At, ServiceOK, RequestsOK
<1>2. q \in Populating /\ row \in ConversationRows
    BY <1>1 DEF Populating, Opening, ConversationRows, Never, Types
<1>3. /\ c \notin DOMAIN conversations
      /\ DOMAIN conversations' = DOMAIN conversations \union {c}
      /\ conversations'[c] = row
      /\ \A d \in DOMAIN conversations : conversations'[d] = conversations[d]
      /\ conversations' \in [DOMAIN conversations' -> ConversationRows]
      /\ UNCHANGED <<clock, failed, participants, messages, reads>>
    BY <1>2 DEF InsertConversation, Extend, ServiceOK, TablesOK
<1>4. TablesOK' /\ Kept
    BY <1>3 DEF ServiceOK, TablesOK, Kept
<1>5. RequestOK(q, conversations', messages')
    BY <1>1, <1>2, <1>3 DEF RequestOK, RequestStates, CreationSteps, ConvSteps, MsgSteps
<1>6. req' = [req EXCEPT ![r] = q]
    BY DEF InsertConversation, Go
<1>7. RequestsOK'
    BY <1>3, <1>4, <1>5, <1>6, OthersStay DEF ServiceOK, RequestsOK
<1>8. \A i \in Requests : req'[i] = IF i = r THEN q ELSE req[i]
    BY <1>6 DEF ServiceOK, RequestsOK
<1>9. PeopleOK'
  <2>1. MembersIn(participants, c) = {}
      BY <1>3 DEF MembersIn, ServiceOK, TablesOK
  <2>2. PeopledOK(q, participants)
      BY <2>1 DEF PeopledOK
  <2>3. \A i \in Requests : PeopledOK(req'[i], participants')
      BY <2>2, <1>3, <1>8 DEF ServiceOK, PeopleOK
  <2>4. \A i \in Requests : HasRow(i) => req[i].conv # c
      BY <1>3 DEF HasRow, ServiceOK, RequestsOK, RequestOK, ConvSteps, CreationSteps
  <2>5. \A i, j \in Requests :
           i # j /\ HasRow(i)' /\ HasRow(j)' => req'[i].conv # req'[j].conv
      BY <2>4, <1>8 DEF HasRow, ServiceOK, PeopleOK
  <2> QED BY <2>3, <2>5, <1>3 DEF PeopleOK, OneRowPerMember, ServiceOK
<1>10. MembersGrow /\ NoNewSent /\ MarksSettle /\ LossesOverlap
    BY <1>3, <1>8, MembersDef
    DEF MembersGrow, NoNewSent, MarksSettle, At, LossesOverlap, Lost
<1> QED BY <1>3, <1>4, <1>7, <1>9, <1>10 DEF ServiceStep, ServiceOK

LEMMA NextStepOfCreation ==
    ASSUME ServiceOK, NEW r \in Requests, HasRow(r),
           NEW st \in CreationSteps
    PROVE  LET q == [req[r] EXCEPT !.step = st]
           IN  /\ q.step = st /\ q.conv = req[r].conv /\ q.user = req[r].user
               /\ q.invited = req[r].invited /\ q.type = req[r].type /\ q.class = req[r].class
               /\ RequestOK(q, conversations, messages)
               /\ req[r].conv \in Convs /\ req[r].user \in Users
               /\ req[r].invited \in SUBSET Users
               /\ req[r].class \in Classes \union {NoClass}
<1> DEFINE q == [req[r] EXCEPT !.step = st]
<1>1. req[r] \in Populating /\ RequestOK(req[r], conversations, messages)
      /\ req[r].step \in CreationSteps
    BY Shape DEF ServiceOK, RequestsOK, HasRow, CreationSteps
<1>2. q \in Populating /\ q.step = st /\ q.conv = req[r].conv /\ q.user = req[r].user
      /\ q.invited = req[r].invited /\ q.type = req[r].type /\ q.class = req[r].class
      /\ q.searched = req[r].searched /\ q.seen = req[r].seen
    BY <1>1 DEF Populating, CreationSteps
<1>3. RequestOK(q, conversations, messages)
    BY <1>1, <1>2 DEF RequestOK, RequestStates, CreationSteps, ConvSteps, MsgSteps
<1> QED BY <1>1, <1>2, <1>3 DEF Populating

LEMMA RowOK ==
    ASSUME TablesOK, NEW c \in Convs, NEW u \in Users, NEW role \in {"admin", "member"}
    PROVE  Row(c, u, role) \in ParticipantRows /\ Row(c, u, role).conv = c
           /\ Row(c, u, role).user = u
BY DEF Row, ParticipantRows, TablesOK, Never

LEMMA InsertCreatorOK ==
    ASSUME ServiceOK, NEW r \in Requests, InsertCreator(r)
    PROVE  ServiceStep
<1> DEFINE q == [req[r] EXCEPT !.step = "invite"]
           N == {Row(req[r].conv, req[r].user, "admin")}
<1>1. HasRow(r) /\ req[r].step = "creator" /\ "invite" \in CreationSteps
    BY DEF InsertCreator, At, HasRow, CreationSteps
<1>2. /\ q.step = "invite" /\ q.conv = req[r].conv /\ q.user = req[r].user
      /\ RequestOK(q, conversations, messages)
      /\ req[r].conv \in Convs /\ req[r].user \in Users
    BY <1>1, NextStepOfCreation
<1>3. N \in SUBSET ParticipantRows /\ \A p \in N : p.conv = q.conv /\ p.user = q.user
    BY <1>2, RowOK DEF ServiceOK
<1>4. Members(q.conv) = {}
    BY <1>1, <1>2, MembersDef DEF ServiceOK, PeopleOK, PeopledOK
<1>5. participants' = participants \union N /\ req' = [req EXCEPT ![r] = q]
      /\ UNCHANGED <<clock, failed, conversations, messages, reads>>
    BY DEF InsertCreator, Goto
<1>6. MembersIn(participants', q.conv) = {q.user}
    BY <1>3, <1>4, <1>5 DEF Members, MembersIn
<1>7. PeopledOK(q, participants')
    BY <1>2, <1>6 DEF PeopledOK
<1> HIDE DEF N, q
<1>8. \A p1, p2 \in N : p1.user = p2.user => p1 = p2
    BY DEF N
<1>9. q.step \in CreationSteps
    BY <1>2 DEF CreationSteps
<1> QED BY <1>1, <1>2, <1>3, <1>4, <1>5, <1>7, <1>8, <1>9, CreationStep

LEMMA InsertInvitedOK ==
    ASSUME ServiceOK, NEW r \in Requests, InsertInvited(r)
    PROVE  ServiceStep
<1> DEFINE st == IF req[r].type = "class" /\ req[r].class # NoClass THEN "class" ELSE "opened"
           q == [req[r] EXCEPT !.step = st]
           N == {Row(req[r].conv, u, "member") : u \in req[r].invited \ {req[r].user}}
<1>1. HasRow(r) /\ req[r].step = "invite" /\ st \in CreationSteps
    BY DEF InsertInvited, At, HasRow, CreationSteps
<1>2. /\ q.step = st /\ q.conv = req[r].conv /\ q.user = req[r].user
      /\ q.invited = req[r].invited /\ q.type = req[r].type /\ q.class = req[r].class
      /\ RequestOK(q, conversations, messages)
      /\ req[r].conv \in Convs /\ req[r].user \in Users /\ req[r].invited \in SUBSET Users
    BY <1>1, NextStepOfCreation
<1>3. \A u \in req[r].invited :
         /\ Row(req[r].conv, u, "member") \in ParticipantRows
         /\ Row(req[r].conv, u, "member").conv = req[r].conv
         /\ Row(req[r].conv, u, "member").user = u
    BY <1>2, RowOK DEF ServiceOK
<1>4. Members(q.conv) = {q.user}
    BY <1>1, <1>2, MembersDef DEF ServiceOK, PeopleOK, PeopledOK
<1>5. participants' = participants \union N /\ req' = [req EXCEPT ![r] = q]
      /\ UNCHANGED <<clock, failed, conversations, messages, reads>>
    BY DEF InsertInvited, Goto
<1>6. N \in SUBSET ParticipantRows /\ \A p \in N : p.conv = q.conv /\ p.user \notin Members(q.conv)
    BY <1>2, <1>3, <1>4
<1>7. \A p1, p2 \in N : p1.user = p2.user => p1 = p2
    BY <1>3
<1>8. q.invited \union {q.user} \subseteq MembersIn(participants', q.conv)
  <2>1. q.user \in MembersIn(participants', q.conv)
      BY <1>4, <1>5 DEF Members, MembersIn
  <2>2. ASSUME NEW u \in q.invited, u # q.user PROVE u \in MembersIn(participants', q.conv)
    <3>1. Row(req[r].conv, u, "member") \in participants'
        BY <1>2, <1>5, <2>2
    <3> QED BY <3>1, <1>2, <1>3, <2>2 DEF MembersIn
  <2> QED BY <2>1, <2>2
<1>9. PeopledOK(q, participants')
    BY <1>2, <1>8 DEF PeopledOK
<1> HIDE DEF N, q, st
<1>10. q.step \in CreationSteps
    BY <1>1, <1>2
<1> QED BY <1>1, <1>2, <1>5, <1>6, <1>7, <1>9, <1>10, CreationStep

LEMMA InsertClassOK ==
    ASSUME ServiceOK, NEW r \in Requests, InsertClass(r)
    PROVE  ServiceStep
<1> DEFINE q == [req[r] EXCEPT !.step = "opened"]
           A == ClassAudience(req[r].class) \ Members(req[r].conv)
           N == {Row(req[r].conv, u, "member") : u \in A}
<1>1. HasRow(r) /\ req[r].step = "class" /\ "opened" \in CreationSteps
    BY DEF InsertClass, At, HasRow, CreationSteps
<1>2. /\ q.step = "opened" /\ q.conv = req[r].conv /\ q.user = req[r].user
      /\ q.invited = req[r].invited /\ q.type = req[r].type /\ q.class = req[r].class
      /\ RequestOK(q, conversations, messages)
      /\ req[r].conv \in Convs /\ req[r].class \in Classes \union {NoClass}
    BY <1>1, NextStepOfCreation
<1>3. PeopledOK(req[r], participants)
    BY DEF ServiceOK, PeopleOK
<1>4. A \in SUBSET Users
    BY <1>1, <1>2, <1>3, AccountsAssumption DEF ClassAudience, Teachers, PeopledOK
<1>5. \A u \in A : /\ Row(req[r].conv, u, "member") \in ParticipantRows
                  /\ Row(req[r].conv, u, "member").conv = req[r].conv
                  /\ Row(req[r].conv, u, "member").user = u
    BY <1>2, <1>4, RowOK DEF ServiceOK
<1>6. participants' = participants \union N /\ req' = [req EXCEPT ![r] = q]
      /\ UNCHANGED <<clock, failed, conversations, messages, reads>>
    BY DEF InsertClass, Goto
<1>7. N \in SUBSET ParticipantRows /\ \A p \in N : p.conv = q.conv /\ p.user \notin Members(q.conv)
    BY <1>2, <1>5
<1>8. \A p1, p2 \in N : p1.user = p2.user => p1 = p2
    BY <1>5
<1>9. MembersIn(participants, q.conv) \subseteq MembersIn(participants', q.conv)
    BY <1>6 DEF MembersIn
<1>10. ClassAudience(q.class) \subseteq MembersIn(participants', q.conv)
  <2>1. ASSUME NEW u \in ClassAudience(q.class), u \notin Members(q.conv)
        PROVE  u \in MembersIn(participants', q.conv)
    <3>1. Row(req[r].conv, u, "member") \in participants' /\ u \in A
        BY <1>2, <1>6, <2>1
    <3> QED BY <3>1, <1>2, <1>5 DEF MembersIn
  <2> QED BY <2>1, <1>9, MembersDef
<1>11. PeopledOK(q, participants')
  <2>1. q.invited \union {q.user} \subseteq MembersIn(participants, q.conv)
      BY <1>1, <1>2, <1>3 DEF PeopledOK
  <2> QED BY <1>2, <1>9, <1>10, <2>1 DEF PeopledOK, ClassAudience
<1> HIDE DEF N, q, A
<1>12. q.step \in CreationSteps
    BY <1>1, <1>2
<1> QED BY <1>1, <1>2, <1>6, <1>7, <1>8, <1>11, <1>12, CreationStep

LEMMA SendOK ==
    ASSUME ServiceOK, NEW r \in Requests, NEW u \in Users, NEW c \in DOMAIN conversations,
           NEW via \in {"http", "socket"}, Send(r, u, c, via)
    PROVE  ServiceStep
<1> DEFINE q == [step |-> "save", user |-> u, conv |-> c, via |-> via]
<1>1. c \in Convs
    BY DEF ServiceOK, TablesOK
<1>2. q \in Saving
    BY <1>1 DEF Saving
<1>3. RequestOK(q, conversations, messages)
    BY <1>2 DEF RequestOK, RequestStates, CreationSteps, ConvSteps, MsgSteps
<1> QED BY <1>3, ReadStep DEF Send, Go, CreationSteps

LEMMA SaveMessageOK ==
    ASSUME ServiceOK, NEW r \in Requests, NEW m \in Msgs, SaveMessage(r, m)
    PROVE  ServiceStep
<1> DEFINE q == [step |-> "touch", conv |-> req[r].conv, via |-> req[r].via,
                 msg |-> m, date |-> clock]
           row == [conv |-> req[r].conv, sender |-> req[r].user, createdAt |-> clock,
                   text |-> "original", deleted |-> FALSE]
<1>1. req[r] \in Saving /\ RequestOK(req[r], conversations, messages) /\ req[r].step = "save"
    BY Shape DEF SaveMessage, At, ServiceOK, RequestsOK
<1>2. q \in Sending /\ row \in MessageRows /\ row.createdAt = clock /\ row.conv = req[r].conv
    BY <1>1 DEF Saving, Sending, MessageRows, ServiceOK, TablesOK
<1>3. /\ m \notin DOMAIN messages
      /\ DOMAIN messages' = DOMAIN messages \union {m}
      /\ messages'[m] = row
      /\ \A n \in DOMAIN messages : messages'[n] = messages[n]
      /\ messages' \in [DOMAIN messages' -> MessageRows]
      /\ UNCHANGED <<clock, failed, conversations, participants, reads>>
    BY <1>2 DEF SaveMessage, Extend, ServiceOK, TablesOK
<1>4. TablesOK' /\ Kept
    BY <1>2, <1>3 DEF ServiceOK, TablesOK, Kept
<1>5. RequestOK(q, conversations', messages')
    BY <1>1, <1>2, <1>3 DEF RequestOK, RequestStates, CreationSteps, ConvSteps, MsgSteps
<1>6. OneRowPerMember' /\ failed' \subseteq Requests /\ LossesOverlap
    BY <1>3 DEF ServiceOK, PeopleOK, RequestsOK, OneRowPerMember, LossesOverlap, Lost
<1> QED BY <1>3, <1>4, <1>5, <1>6, PlainStep DEF SaveMessage, Go, CreationSteps

LEMMA TouchConversationOK ==
    ASSUME ServiceOK, NEW r \in Requests, TouchConversation(r)
    PROVE  ServiceStep
<1> DEFINE st == IF req[r].via = "socket" THEN "emit" ELSE "sent"
           q == [req[r] EXCEPT !.step = st]
<1>1. req[r] \in Sending /\ RequestOK(req[r], conversations, messages) /\ req[r].step = "touch"
    BY Shape DEF TouchConversation, At, ServiceOK, RequestsOK
<1>2. q \in Sending /\ q.step = st /\ q.conv = req[r].conv /\ q.msg = req[r].msg
      /\ q.via = req[r].via /\ req[r].conv \in DOMAIN conversations /\ req[r].date \in Nat
    BY <1>1 DEF Sending, RequestOK, ConvSteps
<1>3. /\ conversations' = [conversations EXCEPT ![req[r].conv] =
                             [@ EXCEPT !.lastMessageAt = req[r].date]]
      /\ UNCHANGED <<clock, failed, participants, messages, reads>>
    BY DEF TouchConversation
<1>4. [conversations[req[r].conv] EXCEPT !.lastMessageAt = req[r].date] \in ConversationRows
      /\ [conversations[req[r].conv] EXCEPT !.lastMessageAt = req[r].date].type
            = conversations[req[r].conv].type
      /\ [conversations[req[r].conv] EXCEPT !.lastMessageAt = req[r].date].class
            = conversations[req[r].conv].class
    BY <1>2 DEF ServiceOK, TablesOK, ConversationRows
<1>5. TablesOK' /\ Kept
    BY <1>2, <1>3, <1>4 DEF ServiceOK, TablesOK, Kept
<1>6. RequestOK(q, conversations', messages')
  <2>1. RequestOK(q, conversations, messages)
      BY <1>1, <1>2 DEF RequestOK, RequestStates, CreationSteps, ConvSteps, MsgSteps
  <2> QED BY <2>1, <1>5, StillOK
<1>7. OneRowPerMember' /\ failed' \subseteq Requests /\ LossesOverlap
    BY <1>3 DEF ServiceOK, PeopleOK, RequestsOK, OneRowPerMember, LossesOverlap, Lost
<1>8. req' = [req EXCEPT ![r] = q] /\ participants' = participants /\ failed' = failed
    BY DEF TouchConversation, Goto
<1>9. q.step \notin CreationSteps /\ (q.step = "sent" => q.via # "socket")
      /\ q.step # "marked"
    BY <1>2 DEF CreationSteps
<1> HIDE DEF q
<1> QED BY <1>5, <1>6, <1>7, <1>8, <1>9, PlainStep

LEMMA LoadedOK ==
    ASSUME ServiceOK, NEW r \in Requests, NEW m \in DOMAIN messages,
           NEW st \in {"edit", "delete"},
           req' = [req EXCEPT ![r] = [step |-> st, msg |-> m, copy |-> messages[m]]],
           UNCHANGED <<clock, failed, tables>>
    PROVE  ServiceStep
<1> DEFINE q == [step |-> st, msg |-> m, copy |-> messages[m]]
<1>1. q \in Changing
    BY DEF Changing, ServiceOK, TablesOK
<1>2. RequestOK(q, conversations, messages)
    BY <1>1 DEF RequestOK, RequestStates, CreationSteps, ConvSteps, MsgSteps
<1> QED BY <1>2, ReadStep DEF CreationSteps

LEMMA LoadToEditOK ==
    ASSUME ServiceOK, NEW r \in Requests, NEW u \in Users, NEW m \in DOMAIN messages,
           LoadToEdit(r, u, m)
    PROVE  ServiceStep
BY LoadedOK DEF LoadToEdit, Go

LEMMA LoadToDeleteOK ==
    ASSUME ServiceOK, NEW r \in Requests, NEW u \in Users, NEW m \in DOMAIN messages,
           LoadToDelete(r, u, m)
    PROVE  ServiceStep
BY LoadedOK DEF LoadToDelete, Go

\* A row with the conversation and the date of the one it replaces.
LEMMA SavedOK ==
    ASSUME ServiceOK, NEW r \in Requests, req[r].step \in {"edit", "delete"},
           NEW row \in MessageRows,
           row.conv = req[r].copy.conv, row.createdAt = req[r].copy.createdAt,
           messages' = [messages EXCEPT ![req[r].msg] = row],
           req' = [req EXCEPT ![r] = [step |-> "done"]],
           UNCHANGED <<clock, failed, conversations, participants, reads>>,
           LossesOverlap
    PROVE  ServiceStep
<1> DEFINE q == [step |-> "done"]
<1>1. RequestOK(req[r], conversations, messages) /\ req[r].msg \in DOMAIN messages
    BY DEF ServiceOK, RequestsOK, RequestOK, MsgSteps
<1>2. row.conv = messages[req[r].msg].conv /\ row.createdAt = messages[req[r].msg].createdAt
    BY <1>1 DEF RequestOK
<1>3. DOMAIN messages' = DOMAIN messages
      /\ \A n \in DOMAIN messages :
            messages'[n] = IF n = req[r].msg THEN row ELSE messages[n]
    BY DEF ServiceOK, TablesOK
<1>4. messages' \in [DOMAIN messages' -> MessageRows]
    BY DEF ServiceOK, TablesOK
<1>5. TablesOK' /\ Kept
    BY <1>1, <1>2, <1>3, <1>4 DEF ServiceOK, TablesOK, Kept
<1>6. RequestOK(q, conversations', messages')
    BY DEF RequestOK, RequestStates, Finished, CreationSteps, ConvSteps, MsgSteps
<1>7. OneRowPerMember' /\ failed' \subseteq Requests
    BY DEF ServiceOK, PeopleOK, RequestsOK, OneRowPerMember
<1> QED BY <1>5, <1>6, <1>7, PlainStep DEF CreationSteps

LEMMA SaveEditOK ==
    ASSUME ServiceOK, NEW r \in Requests, SaveEdit(r)
    PROVE  ServiceStep
<1> DEFINE row == [req[r].copy EXCEPT !.text = r]
<1>1. req[r] \in Changing /\ req[r].step = "edit"
    BY Shape DEF SaveEdit, At, ServiceOK, RequestsOK
<1>2. row \in MessageRows /\ row.conv = req[r].copy.conv
      /\ row.createdAt = req[r].copy.createdAt
    BY <1>1 DEF Changing, MessageRows
<1>3. messages' = [messages EXCEPT ![req[r].msg] = row] /\ At(r, "edit")
    BY DEF SaveEdit
<1>4. LossesOverlap
  <2> SUFFICES ASSUME NEW m \in DOMAIN messages, Lost(m) PROVE Stale(r) /\ req[r].msg = m
      BY DEF LossesOverlap
  <2>1. messages'[m] = IF m = req[r].msg THEN row ELSE messages[m]
      BY <1>3 DEF ServiceOK, TablesOK
  <2>2. m = req[r].msg /\ messages'[m] = row
      BY <2>1 DEF Lost
  <2>3. req[r].copy # messages[m]
      BY <1>1, <2>2, TextAssumption DEF Lost, Changing, MessageRows
  <2> QED BY <1>3, <2>2, <2>3 DEF Stale
<1> QED BY <1>1, <1>2, <1>4, SavedOK DEF SaveEdit, Go

LEMMA SaveDeleteOK ==
    ASSUME ServiceOK, NEW r \in Requests, SaveDelete(r)
    PROVE  ServiceStep
<1> DEFINE row == [req[r].copy EXCEPT !.deleted = TRUE]
<1>1. req[r] \in Changing /\ req[r].step = "delete"
    BY Shape DEF SaveDelete, At, ServiceOK, RequestsOK
<1>2. row \in MessageRows /\ row.conv = req[r].copy.conv
      /\ row.createdAt = req[r].copy.createdAt
    BY <1>1 DEF Changing, MessageRows
<1>3. messages' = [messages EXCEPT ![req[r].msg] = row] /\ At(r, "delete")
    BY DEF SaveDelete
<1>4. LossesOverlap
  <2> SUFFICES ASSUME NEW m \in DOMAIN messages, Lost(m) PROVE Stale(r) /\ req[r].msg = m
      BY DEF LossesOverlap
  <2>1. messages'[m] = IF m = req[r].msg THEN row ELSE messages[m]
      BY <1>3 DEF ServiceOK, TablesOK
  <2>2. m = req[r].msg /\ messages'[m] = row
      BY <2>1 DEF Lost
  <2>3. req[r].copy # messages[m]
      BY <1>1, <2>2 DEF Lost, Changing, MessageRows
  <2> QED BY <1>3, <2>2, <2>3 DEF Stale
<1> QED BY <1>1, <1>2, <1>4, SavedOK DEF SaveDelete, Go

LEMMA FindReadOK ==
    ASSUME ServiceOK, NEW r \in Requests, NEW u \in Users, NEW m \in DOMAIN messages,
           FindRead(r, u, m)
    PROVE  ServiceStep
<1> DEFINE st == IF <<m, u>> \in reads THEN "read" ELSE "insertRead"
           q == [step |-> st, user |-> u, msg |-> m]
<1>1. q \in Finding /\ q.step \in {"read", "insertRead"}
    BY DEF Finding, ServiceOK, TablesOK
<1>2. RequestOK(q, conversations, messages)
    BY <1>1 DEF RequestOK, RequestStates, CreationSteps, ConvSteps, MsgSteps
<1> QED BY <1>1, <1>2, ReadStep DEF FindRead, Go, CreationSteps

LEMMA LoadReadOK ==
    ASSUME ServiceOK, NEW r \in Requests, LoadRead(r)
    PROVE  ServiceStep
<1> DEFINE q == [step |-> "mark", user |-> req[r].user, msg |-> req[r].msg, date |-> clock]
<1>1. req[r] \in Finding /\ RequestOK(req[r], conversations, messages) /\ req[r].step = "read"
    BY Shape DEF LoadRead, At, ServiceOK, RequestsOK
<1>2. q \in Marking /\ clock >= 1 /\ messages[req[r].msg].createdAt <= clock
      /\ req[r].msg \in DOMAIN messages
    BY <1>1 DEF Finding, Marking, RequestOK, MsgSteps, ServiceOK, TablesOK
<1>3. RequestOK(q, conversations, messages)
    BY <1>2 DEF RequestOK, RequestStates, CreationSteps, ConvSteps, MsgSteps
<1> QED BY <1>3, ReadStep DEF LoadRead, Go, CreationSteps

\* Nothing but the clock, the read marks and the failures.
LEMMA IdleStep ==
    ASSUME ServiceOK, UNCHANGED <<conversations, participants, messages, req>>,
           clock' \in Nat, clock <= clock', failed \subseteq failed', failed' \subseteq Requests,
           reads' \subseteq (DOMAIN messages) \X Users
    PROVE  ServiceStep
<1>1. TablesOK' /\ Kept
    BY DEF ServiceOK, TablesOK, Kept, MessageRows
<1>2. RequestsOK' /\ PeopleOK'
    BY DEF ServiceOK, RequestsOK, PeopleOK, OneRowPerMember, HasRow
<1>3. MembersGrow /\ NoNewSent /\ MarksSettle /\ LossesOverlap
    BY MembersDef DEF MembersGrow, NoNewSent, MarksSettle, At, LossesOverlap, Lost
<1> QED BY <1>1, <1>2, <1>3 DEF ServiceStep, ServiceOK

LEMMA InsertReadOK ==
    ASSUME ServiceOK, NEW r \in Requests, InsertRead(r)
    PROVE  ServiceStep
<1> DEFINE row == <<req[r].msg, req[r].user>>
           q == [req[r] EXCEPT !.step = "read"]
<1>1. req[r] \in Finding /\ RequestOK(req[r], conversations, messages)
      /\ req[r].step = "insertRead"
    BY Shape DEF InsertRead, At, ServiceOK, RequestsOK
<1>2. q \in Finding /\ q.step = "read" /\ q.msg = req[r].msg
      /\ req[r].msg \in DOMAIN messages /\ row \in (DOMAIN messages) \X Users
    BY <1>1 DEF Finding, RequestOK, MsgSteps
<1>3. CASE row \in reads
  <2>1. /\ failed' = failed \union {r}
        /\ UNCHANGED <<reads, req, clock, conversations, participants, messages>>
      BY <1>3 DEF InsertRead
  <2> QED BY <2>1, IdleStep DEF ServiceOK, TablesOK, RequestsOK
<1>4. CASE row \notin reads
  <2>1. /\ reads' = reads \union {row} /\ req' = [req EXCEPT ![r] = q]
        /\ UNCHANGED <<failed, clock, conversations, participants, messages>>
      BY <1>4 DEF InsertRead, Goto
  <2>2. TablesOK' /\ Kept /\ OneRowPerMember' /\ failed' \subseteq Requests
        /\ LossesOverlap
      BY <2>1, <1>2 DEF ServiceOK, TablesOK, Kept, OneRowPerMember, PeopleOK, RequestsOK,
                        LossesOverlap, Lost
  <2>3. RequestOK(q, conversations, messages)
      BY <1>1, <1>2 DEF RequestOK, RequestStates, CreationSteps, ConvSteps, MsgSteps
  <2>4. q.step \notin CreationSteps /\ q.step # "sent" /\ q.step # "marked"
      BY <1>2 DEF CreationSteps
  <2> HIDE DEF q
  <2> QED BY <2>1, <2>2, <2>3, <2>4, PlainStep
<1> QED BY <1>3, <1>4

\* The row that MarkRead leaves of a participant.
Marked(p, q) == IF p.conv = messages[q.msg].conv /\ p.user = q.user
                THEN [p EXCEPT !.lastReadAt = q.date] ELSE p

LEMMA MarkedRows ==
    ASSUME TablesOK, NEW q \in Marking, NEW p \in participants
    PROVE  /\ Marked(p, q) \in ParticipantRows
           /\ Marked(p, q).conv = p.conv /\ Marked(p, q).user = p.user
           /\ p.conv = messages[q.msg].conv /\ p.user = q.user =>
                 Marked(p, q).lastReadAt = q.date
BY DEF Marked, TablesOK, ParticipantRows, Marking

LEMMA MarkReadOK ==
    ASSUME ServiceOK, NEW r \in Requests, MarkRead(r)
    PROVE  ServiceStep
<1> DEFINE q == [req[r] EXCEPT !.step = "marked"]
<1>1. req[r] \in Marking /\ RequestOK(req[r], conversations, messages)
      /\ req[r].step = "mark"
    BY Shape DEF MarkRead, At, ServiceOK, RequestsOK
<1>2. q \in Marking /\ q.step = "marked" /\ q.msg = req[r].msg /\ q.date = req[r].date
      /\ q.user = req[r].user
    BY <1>1 DEF Marking
<1>3. /\ participants' = {Marked(p, req[r]) : p \in participants}
      /\ req' = [req EXCEPT ![r] = q]
      /\ UNCHANGED <<clock, failed, conversations, messages, reads>>
    BY DEF MarkRead, Goto, Marked
<1>4. \A p \in participants : /\ Marked(p, req[r]) \in ParticipantRows
                              /\ Marked(p, req[r]).conv = p.conv
                              /\ Marked(p, req[r]).user = p.user
    BY <1>1, MarkedRows DEF ServiceOK
<1>5. TablesOK' /\ Kept
    BY <1>3, <1>4 DEF ServiceOK, TablesOK, Kept
<1>6. OneRowPerMember'
    BY <1>3, <1>4 DEF ServiceOK, PeopleOK, OneRowPerMember
<1>7. \A c : MembersIn(participants', c) = MembersIn(participants, c)
  <2> TAKE c
  <2>1. ASSUME NEW p \in participants, p.conv = c PROVE p.user \in MembersIn(participants', c)
    <3>1. Marked(p, req[r]) \in participants'
        BY <1>3
    <3> QED BY <3>1, <1>4, <2>1 DEF MembersIn
  <2>2. ASSUME NEW p \in participants', p.conv = c PROVE p.user \in MembersIn(participants, c)
    <3>1. PICK o \in participants : p = Marked(o, req[r])
        BY <1>3
    <3> QED BY <3>1, <1>4, <2>2 DEF MembersIn
  <2> QED BY <2>1, <2>2 DEF MembersIn
<1>8. RequestOK(q, conversations', messages')
    BY <1>1, <1>2, <1>3 DEF RequestOK, RequestStates, CreationSteps, ConvSteps, MsgSteps
<1>9. q.step \notin CreationSteps /\ q.step # "sent" /\ failed' \subseteq Requests
    BY <1>2, <1>3 DEF CreationSteps, ServiceOK, RequestsOK
<1> HIDE DEF q
<1>10. \A i \in Requests : req'[i] = IF i = r THEN q ELSE req[i]
    BY <1>3 DEF ServiceOK, RequestsOK
<1>11. Settled(r)'
  <2> DEFINE m == req[r].msg
  <2>1. m \in DOMAIN messages /\ req[r].date >= 1 /\ messages[m].createdAt <= req[r].date
        /\ req[r].date \in Nat /\ messages[m].createdAt \in Nat
      BY <1>1 DEF RequestOK, MsgSteps, Marking, ServiceOK, TablesOK, MessageRows
  <2>2. ASSUME NEW p \in participants', p.conv = messages[m].conv, p.user = req[r].user
        PROVE  p.lastReadAt = req[r].date
    <3>1. PICK o \in participants : p = Marked(o, req[r])
        BY <1>3
    <3>2. o.conv = messages[m].conv /\ o.user = req[r].user
        BY <3>1, <1>4, <2>2
    <3> QED BY <3>1, <3>2, <1>1, MarkedRows DEF ServiceOK
  <2>3. req'[r].msg = m /\ req'[r].user = req[r].user /\ messages' = messages
      BY <1>1, <1>2, <1>3, <1>10
  <2> HIDE DEF m
  <2> QED BY <2>1, <2>2, <2>3 DEF Settled, Unread, Never
<1>12. NoNewSent /\ MarksSettle /\ LossesOverlap
    BY <1>3, <1>9, <1>10, <1>11 DEF NoNewSent, MarksSettle, At, LossesOverlap, Lost
<1>13. ServiceOK' /\ MembersGrow
    BY <1>3, <1>5, <1>6, <1>7, <1>8, <1>9, PlainOK
<1> QED BY <1>3, <1>5, <1>12, <1>13 DEF ServiceStep

LEMMA FailOK ==
    ASSUME ServiceOK, NEW r \in Requests, Fail(r)
    PROVE  ServiceStep
BY IdleStep DEF Fail, tables, ServiceOK, TablesOK, RequestsOK

LEMMA TickOK ==
    ASSUME ServiceOK, Tick
    PROVE  ServiceStep
BY IdleStep DEF Tick, tables, ServiceOK, TablesOK, RequestsOK

LEMMA ServiceActionOK ==
    ASSUME ServiceOK, NEW r \in Requests, Service(r),
           \A s \in Sockets : In(s, "open") => UserOf(s) \in Users
    PROVE  ServiceStep
<1>1. CASE Open(r)
  <2>1. ASSUME NEW u \in Users, NEW k \in Classes \union {NoClass}, NEW ids \in Invitations,
               NEW type \in {"group", "class", "school_wide"},
               StartConversation(r, u, type, k, ids)
        PROVE  ServiceStep
      BY <2>1, StartConversationOK, InvitationsAssumption DEF Types
  <2>2. ASSUME NEW u \in Users, NEW k \in Classes, OpenClassConversation(r, u, k)
        PROVE  ServiceStep
    <3>1. FindOrCreate(r, u, "class", k, {u})
        BY <2>2 DEF OpenClassConversation
    <3>2. "class" \in Types /\ {u} \in SUBSET Users
        BY DEF Types
    <3> QED BY <3>1, <3>2, FindOrCreateOK
  <2>3. ASSUME NEW u \in Users, OpenSchoolConversation(r, u)
        PROVE  ServiceStep
    <3>1. FindOrCreate(r, u, "school_wide", NoClass, Active)
        BY <2>3 DEF OpenSchoolConversation
    <3>2. "school_wide" \in Types /\ Active \in SUBSET Users
        BY AccountsAssumption DEF Types
    <3> QED BY <3>1, <3>2, FindOrCreateOK
  <2> QED BY <1>1, <2>1, <2>2, <2>3 DEF Open
<1>2. CASE Populate(r)
    BY <1>2, InsertConversationOK, InsertCreatorOK, InsertInvitedOK, InsertClassOK
    DEF Populate
<1>3. CASE Write(r)
  <2>1. ASSUME NEW u \in Users, NEW c \in DOMAIN conversations, Send(r, u, c, "http")
        PROVE  ServiceStep
      BY <2>1, SendOK
  <2>2. ASSUME NEW s \in Sockets, NEW c \in DOMAIN conversations,
               In(s, "open"), Send(r, UserOf(s), c, "socket")
        PROVE  ServiceStep
      BY <2>2, SendOK
  <2> QED BY <1>3, <2>1, <2>2, SaveMessageOK, TouchConversationOK, LoadToEditOK,
             LoadToDeleteOK, SaveEditOK, SaveDeleteOK DEF Write
<1>4. CASE Read(r)
    BY <1>4, FindReadOK, InsertReadOK, LoadReadOK, MarkReadOK DEF Read
<1> QED BY <1>1, <1>2, <1>3, <1>4, FailOK DEF Service

-----------------------------------------------------------------------------
(* Steps of the gateway                                                    *)

\* What a service step leaves the gateway with.
LEMMA GatewayKept ==
    ASSUME IInv, ServiceStep, UNCHANGED gatewayVars
    PROVE  GatewayOK'
<1>1. UNCHANGED <<socket, userSockets, rooms, joining, synced, view>>
    BY DEF gatewayVars
<1>2. GatewayTypes' /\ SocketsOK'
    BY <1>1 DEF IInv, GatewayOK, GatewayTypes, SocketsOK, In, UserOf
<1>3. RoomsOK'
  <2>1. ASSUME NEW c \in Convs, NEW u, IsMember(c, u) PROVE IsMember(c, u)'
      BY <2>1, MembersDef DEF ServiceStep, MembersGrow, IsMember, Members, MembersIn
  <2>2. NoStrangersInRoom'
      BY <1>1, <2>1 DEF IInv, GatewayOK, RoomsOK, NoStrangersInRoom, UserOf
  <2>3. (\A j \in joining : IsMember(j.conv, UserOf(j.socket)))'
    <3>1. \A j \in joining : j.conv \in Convs
        BY DEF IInv, GatewayOK, GatewayTypes
    <3> QED BY <1>1, <2>1, <3>1 DEF IInv, GatewayOK, RoomsOK, UserOf
  <2>4. NothingMissed'
      BY <1>1 DEF IInv, GatewayOK, RoomsOK, NothingMissed, ServiceStep, NoNewSent, At
  <2> QED BY <1>1, <2>2, <2>3, <2>4 DEF IInv, GatewayOK, RoomsOK
<1> QED BY <1>2, <1>3 DEF GatewayOK

LEMMA SameMembers ==
    ASSUME participants' = participants
    PROVE  \A c, u : IsMember(c, u)' <=> IsMember(c, u)
BY DEF IsMember, Members

LEMMA ServiceSame ==
    ASSUME ServiceOK, UNCHANGED serviceVars
    PROVE  ServiceOK'
BY IdleStep DEF serviceVars, ServiceStep, ServiceOK, TablesOK, RequestsOK

\* A socket that is in no room changes its state.
LEMMA SocketStep ==
    ASSUME IInv, NEW s \in Sockets, ~In(s, "open"),
           NEW v \in [state : SocketStates, user : Users \union {NoUser}],
           socket' = [socket EXCEPT ![s] = v], userSockets' \subseteq Users \X Sockets,
           UNCHANGED <<serviceVars, rooms, joining, synced, view>>
    PROVE  GatewayTypes' /\ RoomsOK'
<1> USE DEF IInv, GatewayOK
<1>1. \A x \in Sockets : socket'[x] = IF x = s THEN v ELSE socket[x]
    BY DEF GatewayTypes
<1>2. {x \in Sockets : In(x, "open")} \subseteq {x \in Sockets : In(x, "open")'}
    BY <1>1 DEF In
<1>3. GatewayTypes'
  <2>1. rooms' \in [Convs -> SUBSET {x \in Sockets : In(x, "open")'}]
      BY <1>2 DEF GatewayTypes
  <2>2. joining' \subseteq [socket : {x \in Sockets : In(x, "open")'}, conv : Convs]
      BY <1>2 DEF GatewayTypes
  <2> QED BY <2>1, <2>2 DEF GatewayTypes
<1>4. participants' = participants /\ req' = req /\ failed' = failed
    BY DEF serviceVars
<1>5. \A c \in Convs : \A x \in rooms[c] : x \in Sockets /\ UserOf(x)' = UserOf(x)
    BY <1>1 DEF GatewayTypes, UserOf, In
<1>6. \A j \in joining : UserOf(j.socket)' = UserOf(j.socket)
    BY <1>1 DEF GatewayTypes, UserOf, In
<1>7. NoStrangersInRoom'
    BY <1>4, <1>5, SameMembers DEF RoomsOK, NoStrangersInRoom
<1>8. (\A j \in joining : IsMember(j.conv, UserOf(j.socket)))'
    BY <1>4, <1>6, SameMembers DEF RoomsOK
<1>9. NothingMissed'
    BY <1>4 DEF RoomsOK, NothingMissed, At
<1> QED BY <1>3, <1>7, <1>8, <1>9 DEF RoomsOK

LEMMA ConnectionOK ==
    ASSUME IInv, NEW s \in Sockets, Connection(s), ~Disconnect(s)
    PROVE  GatewayOK'
<1> USE DEF IInv, GatewayOK
<1>1. socket[s] \in [state : SocketStates, user : Users \union {NoUser}]
    BY DEF GatewayTypes
<1>2. ASSUME NEW u \in Users, Connect(s, u) PROVE GatewayOK'
  <2>1. ~In(s, "open") /\ [state |-> "verifying", user |-> u] \in
            [state : SocketStates, user : Users \union {NoUser}]
      BY <1>2 DEF Connect, In, SocketStates
  <2>2. GatewayTypes' /\ RoomsOK'
      BY <1>2, <2>1, SocketStep DEF Connect, GatewayTypes
  <2>3. \A x \in Sockets : socket'[x] = IF x = s THEN [state |-> "verifying", user |-> u]
                                        ELSE socket[x]
      BY <1>2 DEF Connect, GatewayTypes
  <2>4. SocketsOK'
      BY <1>2, <2>3 DEF Connect, SocketsOK, In, UserOf
  <2> QED BY <2>2, <2>4
<1>3. ASSUME Verified(s) PROVE GatewayOK'
  <2>1. PICK st \in {"open", "ghost"} :
           /\ socket' = [socket EXCEPT ![s] = [socket[s] EXCEPT !.state = st]]
           /\ socket[s].state \in {"verifying", "dropped"}
      BY <1>3 DEF Verified, Become, In
  <2> DEFINE v == [socket[s] EXCEPT !.state = st]
  <2>2. v \in [state : SocketStates, user : Users \union {NoUser}]
        /\ v.user = UserOf(s) /\ v.state = st
      BY <1>1 DEF SocketStates, UserOf
  <2>3. ~In(s, "open") /\ UserOf(s) \in Users
      BY <2>1 DEF In, SocketsOK
  <2>4. userSockets' = userSockets \union {<<UserOf(s), s>>}
        /\ UNCHANGED <<serviceVars, rooms, joining, synced, view>>
      BY <1>3 DEF Verified
  <2> HIDE DEF v
  <2>5. userSockets' \subseteq Users \X Sockets
      BY <2>3, <2>4 DEF GatewayTypes
  <2>6. GatewayTypes' /\ RoomsOK'
      BY <2>1, <2>2, <2>3, <2>4, <2>5, SocketStep DEF v
  <2>7. \A x \in Sockets : socket'[x] = IF x = s THEN v ELSE socket[x]
      BY <2>1 DEF GatewayTypes, v
  <2>8. SocketsOK'
      BY <2>1, <2>2, <2>3, <2>4, <2>7 DEF SocketsOK, In, UserOf
  <2> QED BY <2>6, <2>8
<1>4. ASSUME NEW st \in {"closed", "dropped"}, Become(s, st),
             socket[s].state \in {"verifying", "dropped"},
             UNCHANGED <<serviceVars, userSockets, rooms, joining, synced, view>>
      PROVE  GatewayOK'
  <2> DEFINE v == [socket[s] EXCEPT !.state = st]
  <2>1. v \in [state : SocketStates, user : Users \union {NoUser}]
        /\ v.user = UserOf(s) /\ v.state = st
      BY <1>1 DEF SocketStates, UserOf
  <2>2. socket' = [socket EXCEPT ![s] = v] /\ ~In(s, "open")
      BY <1>4 DEF Become, In
  <2> HIDE DEF v
  <2>3. GatewayTypes' /\ RoomsOK'
      BY <1>4, <2>1, <2>2, SocketStep DEF GatewayTypes
  <2>4. \A x \in Sockets : socket'[x] = IF x = s THEN v ELSE socket[x]
      BY <2>2 DEF GatewayTypes
  <2>5. SocketsOK'
      BY <1>4, <2>1, <2>4 DEF SocketsOK, In, UserOf
  <2> QED BY <2>3, <2>5
<1> QED BY <1>2, <1>3, <1>4 DEF Connection, Rejected, DropEarly, In

\* Sockets are forgotten and the others stay as they are.
LEMMA ForgetOK ==
    ASSUME IInv, NEW S \in SUBSET Sockets, Forget(S),
           socket' \in [Sockets -> [state : SocketStates, user : Users \union {NoUser}]],
           \A x \in Sockets \ S : socket'[x] = socket[x],
           userSockets' \subseteq userSockets,
           UNCHANGED <<tables, req>>, failed \subseteq failed'
    PROVE  GatewayTypes' /\ RoomsOK'
<1> USE DEF IInv, GatewayOK
<1>1. \A c \in Convs : rooms'[c] = rooms[c] \ S
    BY DEF Forget
<1>2. \A x \in Sockets : In(x, "open") /\ x \notin S => In(x, "open")'
    BY DEF In
<1>3. rooms' \in [Convs -> SUBSET {x \in Sockets : In(x, "open")'}]
    BY <1>2 DEF GatewayTypes, Forget
<1>4. joining' \subseteq [socket : {x \in Sockets : In(x, "open")'}, conv : Convs]
    BY <1>2 DEF GatewayTypes, Forget
<1>5. synced' \in [Sockets -> SUBSET Convs] /\ view' \in [Sockets -> SUBSET Msgs]
      /\ \A x \in Sockets : /\ synced'[x] = IF x \in S THEN {} ELSE synced[x]
                            /\ view'[x] = IF x \in S THEN {} ELSE view[x]
    BY DEF GatewayTypes, Forget
<1>6. GatewayTypes'
    BY <1>3, <1>4, <1>5 DEF GatewayTypes
<1>7. participants' = participants /\ req' = req
    BY DEF tables
<1>8. NoStrangersInRoom'
    BY <1>1, <1>7, SameMembers DEF GatewayTypes, RoomsOK, NoStrangersInRoom, UserOf
<1>9. (\A j \in joining : IsMember(j.conv, UserOf(j.socket)))'
  <2> SUFFICES ASSUME NEW j \in joining' PROVE IsMember(j.conv, UserOf(j.socket))'
      OBVIOUS
  <2>1. j \in joining /\ j.socket \in Sockets \ S
      BY DEF Forget, GatewayTypes
  <2>2. UserOf(j.socket)' = UserOf(j.socket)
      BY <2>1 DEF UserOf
  <2> QED BY <2>1, <2>2, <1>7, SameMembers DEF RoomsOK
<1>10. (\A x \in Sockets : \A c \in synced[x] : x \in rooms[c])'
    BY <1>1, <1>5 DEF RoomsOK, GatewayTypes
<1>11. NothingMissed'
    BY <1>5, <1>7 DEF RoomsOK, NothingMissed, At
<1> QED BY <1>6, <1>8, <1>9, <1>10, <1>11 DEF RoomsOK

LEMMA DisconnectOK ==
    ASSUME IInv, NEW s \in Sockets, Disconnect(s)
    PROVE  GatewayOK'
<1> USE DEF IInv, GatewayOK
<1> DEFINE v == [socket[s] EXCEPT !.state = "closed"]
<1>1. v \in [state : SocketStates, user : Users \union {NoUser}] /\ v.state = "closed"
    BY DEF GatewayTypes, SocketStates
<1>2. socket' = [socket EXCEPT ![s] = v] /\ Forget({s})
      /\ userSockets' = userSockets \ {<<UserOf(s), s>>} /\ UNCHANGED serviceVars
    BY DEF Disconnect, Become
<1> HIDE DEF v
<1>3. \A x \in Sockets : socket'[x] = IF x = s THEN v ELSE socket[x]
    BY <1>2 DEF GatewayTypes
<1>4. socket' \in [Sockets -> [state : SocketStates, user : Users \union {NoUser}]]
    BY <1>1, <1>2 DEF GatewayTypes
<1>5. GatewayTypes' /\ RoomsOK'
    BY <1>2, <1>3, <1>4, ForgetOK DEF serviceVars, tables
<1>6. SocketsOK'
    BY <1>1, <1>2, <1>3 DEF SocketsOK, In, UserOf
<1> QED BY <1>5, <1>6

LEMMA RestartOK ==
    ASSUME IInv, Restart
    PROVE  ServiceOK' /\ GatewayOK'
<1> USE DEF IInv, GatewayOK
<1>1. ServiceOK'
    BY IdleStep DEF Restart, tables, ServiceStep, ServiceOK, TablesOK, RequestsOK
<1>2. \A x \in Sockets : socket'[x] = IF In(x, "new") THEN socket[x]
                                      ELSE [socket[x] EXCEPT !.state = "closed"]
    BY DEF Restart
<1>3. ASSUME NEW x \in Sockets
      PROVE  /\ socket'[x] \in [state : SocketStates, user : Users \union {NoUser}]
             /\ socket'[x].state \in {"new", "closed"}
  <2>1. socket[x] \in [state : SocketStates, user : Users \union {NoUser}]
      BY DEF GatewayTypes
  <2> QED BY <2>1, <1>2 DEF In, SocketStates
<1>4. socket' \in [Sockets -> [state : SocketStates, user : Users \union {NoUser}]]
    BY <1>3 DEF Restart
<1>5. GatewayTypes' /\ RoomsOK'
    BY <1>4, ForgetOK DEF Restart
<1>6. SocketsOK'
    BY <1>3 DEF Restart, SocketsOK, In, UserOf
<1> QED BY <1>1, <1>5, <1>6

\* Nothing but joining, rooms, what is fetched and what is shown.
LEMMA RoomStep ==
    ASSUME IInv, GatewayTypes',
           \A c \in Convs : rooms'[c] \subseteq rooms[c]
                            \union {j.socket : j \in {i \in joining : i.conv = c}},
           \A j \in joining' : j \in joining \/ IsMember(j.conv, UserOf(j.socket)),
           (\A s \in Sockets : \A c \in synced[s] : s \in rooms[c])',
           NothingMissed',
           UNCHANGED <<serviceVars, socket, userSockets>>
    PROVE  GatewayOK'
<1> USE DEF IInv, GatewayOK
<1>1. participants' = participants
    BY DEF serviceVars
<1>2. SocketsOK'
    BY DEF SocketsOK, In, UserOf
<1>3. \A x : UserOf(x)' = UserOf(x)
    BY DEF UserOf
<1>4. NoStrangersInRoom'
  <2> SUFFICES ASSUME NEW c \in Convs, NEW s \in rooms'[c] PROVE IsMember(c, UserOf(s))'
      BY DEF NoStrangersInRoom
  <2>1. IsMember(c, UserOf(s))
      BY DEF RoomsOK, NoStrangersInRoom
  <2> QED BY <2>1, <1>1, <1>3, SameMembers
<1>5. (\A j \in joining : IsMember(j.conv, UserOf(j.socket)))'
    BY <1>1, <1>3, SameMembers DEF RoomsOK
<1> QED BY <1>2, <1>4, <1>5 DEF RoomsOK

LEMMA RoomOK ==
    ASSUME IInv, NEW s \in Sockets, Room(s)
    PROVE  GatewayOK'
<1> USE DEF IInv, GatewayOK
<1> PICK c \in Convs : AskToJoin(s, c) \/ Leave(s, c) \/ Fetch(s, c)
    BY DEF Room
<1>1. CASE AskToJoin(s, c)
  <2>1. GatewayTypes'
      BY <1>1 DEF AskToJoin, GatewayTypes, In
  <2>2. NothingMissed'
      BY <1>1 DEF AskToJoin, RoomsOK, NothingMissed, At, serviceVars
  <2> QED BY <1>1, <2>1, <2>2, RoomStep DEF AskToJoin, RoomsOK
<1>2. CASE Leave(s, c)
  <2>1. \A x \in Sockets : synced'[x] = IF x = s THEN synced[x] \ {c} ELSE synced[x]
      BY <1>2 DEF Leave, GatewayTypes
  <2>2. \A d \in Convs : rooms'[d] = IF d = c THEN rooms[d] \ {s} ELSE rooms[d]
      BY <1>2 DEF Leave, GatewayTypes
  <2>3. GatewayTypes'
      BY <1>2 DEF Leave, GatewayTypes, In
  <2>4. NothingMissed'
      BY <1>2, <2>1 DEF Leave, RoomsOK, NothingMissed, At, serviceVars
  <2>5. (\A x \in Sockets : \A d \in synced[x] : x \in rooms[d])'
      BY <2>1, <2>2 DEF RoomsOK, GatewayTypes
  <2> QED BY <1>2, <2>2, <2>3, <2>4, <2>5, RoomStep DEF Leave
<1>3. CASE Fetch(s, c)
  <2> DEFINE M == {m \in DOMAIN messages : messages[m].conv = c}
  <2>1. \A x \in Sockets : view'[x] = IF x = s THEN view[x] \union M ELSE view[x]
      BY <1>3 DEF Fetch, GatewayTypes
  <2>2. \A x \in Sockets :
           synced'[x] = IF x = s /\ s \in rooms[c] THEN synced[x] \union {c} ELSE synced[x]
      BY <1>3 DEF Fetch, GatewayTypes
  <2>3. GatewayTypes'
    <3>1. M \subseteq Msgs
        BY DEF ServiceOK, TablesOK
    <3>2. view' \in [Sockets -> SUBSET Msgs] /\ synced' \in [Sockets -> SUBSET Convs]
        BY <1>3, <3>1, <2>1, <2>2 DEF Fetch, GatewayTypes
    <3> QED BY <1>3, <3>2 DEF Fetch, GatewayTypes, In
  <2>4. NothingMissed'
    <3> SUFFICES ASSUME NEW x \in Sockets, NEW r \in Requests, At(r, "sent"),
                        req[r].via = "socket", req[r].conv \in synced'[x]
                 PROVE  req[r].msg \in view'[x]
        BY <1>3 DEF Fetch, NothingMissed, At, serviceVars
    <3>1. req[r].msg \in DOMAIN messages /\ messages[req[r].msg].conv = req[r].conv
        BY DEF ServiceOK, RequestsOK, RequestOK, MsgSteps, At
    <3>2. CASE req[r].conv \in synced[x]
        BY <3>2, <2>1 DEF RoomsOK, NothingMissed
    <3>3. CASE req[r].conv \notin synced[x]
      <4>1. x = s /\ req[r].conv = c
          BY <3>3, <2>2
      <4> QED BY <4>1, <3>1, <2>1
    <3> QED BY <3>2, <3>3
  <2>5. (\A x \in Sockets : \A d \in synced[x] : x \in rooms[d])'
      BY <1>3, <2>2 DEF Fetch, RoomsOK
  <2> QED BY <1>3, <2>3, <2>4, <2>5, RoomStep DEF Fetch, RoomsOK
<1> QED BY <1>1, <1>2, <1>3

LEMMA JoinOK ==
    ASSUME IInv, NEW j \in joining, Join(j)
    PROVE  GatewayOK'
<1> USE DEF IInv, GatewayOK
<1>1. j.conv \in Convs /\ j.socket \in Sockets /\ In(j.socket, "open")
    BY DEF GatewayTypes
<1>2. \A d \in Convs : rooms'[d] = IF d = j.conv THEN rooms[d] \union {j.socket} ELSE rooms[d]
    BY DEF Join, GatewayTypes
<1>3. GatewayTypes'
    BY <1>1 DEF Join, GatewayTypes, In
<1>4. NothingMissed'
    BY DEF Join, RoomsOK, NothingMissed, At, serviceVars
<1>5. (\A x \in Sockets : \A d \in synced[x] : x \in rooms[d])'
    BY <1>2 DEF Join, RoomsOK, GatewayTypes
<1> QED BY <1>2, <1>3, <1>4, <1>5, RoomStep DEF Join

LEMMA EmitOK ==
    ASSUME IInv, NEW r \in Requests, Emit(r)
    PROVE  ServiceOK' /\ GatewayOK'
<1> USE DEF IInv, GatewayOK
<1> DEFINE q == [req[r] EXCEPT !.step = "sent"]
<1>1. req[r] \in Sending /\ RequestOK(req[r], conversations, messages) /\ req[r].step = "emit"
    BY Shape DEF Emit, At, ServiceOK, RequestsOK
<1>2. q \in Sending /\ q.step = "sent" /\ q.conv = req[r].conv /\ q.msg = req[r].msg
      /\ q.via = req[r].via /\ req[r].msg \in Msgs
    BY <1>1 DEF Sending
<1>3. RequestOK(q, conversations, messages)
    BY <1>1, <1>2 DEF RequestOK, RequestStates, CreationSteps, ConvSteps, MsgSteps
<1>4. req' = [req EXCEPT ![r] = q]
      /\ UNCHANGED <<clock, failed, tables, socket, userSockets, rooms, joining, synced>>
    BY DEF Emit, Goto
<1> HIDE DEF q
<1>5. ServiceOK'
  <2>1. TablesOK' /\ Kept /\ OneRowPerMember' /\ failed' \subseteq Requests
        /\ conversations' = conversations /\ messages' = messages
        /\ participants' = participants
      BY <1>4 DEF ServiceOK, TablesOK, Kept, OneRowPerMember, PeopleOK, RequestsOK, tables
  <2> QED BY <1>2, <1>3, <1>4, <2>1, PlainOK DEF CreationSteps
<1>6. \A x \in Sockets : view'[x] = IF x \in rooms[req[r].conv]
                                    THEN view[x] \union {req[r].msg} ELSE view[x]
    BY DEF Emit
<1>7. GatewayTypes'
  <2>1. view' \in [Sockets -> SUBSET Msgs]
      BY <1>2, <1>6 DEF GatewayTypes, Emit
  <2> QED BY <2>1, <1>4 DEF GatewayTypes, In
<1>8. SocketsOK'
    BY <1>4 DEF SocketsOK, In, UserOf
<1>9. participants' = participants
    BY <1>4 DEF tables
<1>10. NoStrangersInRoom' /\ (\A j \in joining : IsMember(j.conv, UserOf(j.socket)))'
    BY <1>4, <1>9, SameMembers DEF RoomsOK, NoStrangersInRoom, UserOf
<1>11. NothingMissed'
  <2> SUFFICES ASSUME NEW x \in Sockets, NEW i \in Requests, At(i, "sent")',
                      req'[i].via = "socket", req'[i].conv \in synced[x]
               PROVE  req'[i].msg \in view'[x]
      BY <1>4 DEF NothingMissed
  <2>1. req'[i] = IF i = r THEN q ELSE req[i]
      BY <1>4 DEF ServiceOK, RequestsOK
  <2>2. CASE i = r
    <3>1. req[r].conv \in synced[x] /\ req'[i].msg = req[r].msg
        BY <2>1, <2>2, <1>2
    <3>2. x \in rooms[req[r].conv]
        BY <3>1 DEF RoomsOK
    <3> QED BY <3>1, <3>2, <1>6
  <2>3. CASE i # r
    <3>1. At(i, "sent")
        BY <2>1, <2>3, <1>4 DEF At
    <3>2. req'[i] = req[i]
        BY <2>1, <2>3
    <3>3. req[i].msg \in view[x]
        BY <3>1, <3>2 DEF RoomsOK, NothingMissed
    <3> QED BY <3>2, <3>3, <1>6
  <2> QED BY <2>2, <2>3
<1>12. (\A x \in Sockets : \A d \in synced[x] : x \in rooms[d])'
    BY <1>4 DEF RoomsOK
<1> QED BY <1>5, <1>7, <1>8, <1>10, <1>11, <1>12 DEF RoomsOK

-----------------------------------------------------------------------------
(* The invariant                                                           *)

LEMMA InitIInv == Init => IInv
<1> SUFFICES ASSUME Init PROVE IInv
    OBVIOUS
<1>1. TablesOK /\ OneRowPerMember
  <2>1. PICK d \in Earlier :
           /\ conversations = d.conversations /\ participants = d.participants
           /\ messages = d.messages /\ reads = d.reads
      BY DEF Init, ServiceInit
  <2>2. clock = 1
      BY DEF Init, ServiceInit
  <2> QED BY <2>1, <2>2, EarlierAssumption DEF TablesOK, OneRowPerMember
<1>2. \A r \in Requests : req[r] = Free
    BY DEF Init, ServiceInit
<1>3. Free \in RequestStates /\ RequestOK(Free, conversations, messages)
      /\ PeopledOK(Free, participants)
    BY DEF Free, RequestStates, RequestOK, PeopledOK, CreationSteps, ConvSteps, MsgSteps
<1>4. RequestsOK
    BY <1>2, <1>3 DEF RequestsOK, Init, ServiceInit
<1>5. PeopleOK
    BY <1>1, <1>2, <1>3 DEF PeopleOK, HasRow, Free
<1>6. GatewayTypes /\ SocketsOK
    BY DEF Init, GatewayTypes, SocketsOK, In, SocketStates
<1>7. RoomsOK
    BY DEF Init, RoomsOK, NoStrangersInRoom, NothingMissed
<1> QED BY <1>1, <1>4, <1>5, <1>6, <1>7 DEF IInv, ServiceOK, GatewayOK

LEMMA NextIInv ==
    ASSUME IInv, [Next]_vars
    PROVE  IInv' /\ MarksSettle /\ LossesOverlap
<1> USE DEF IInv
<1>1. ASSUME UNCHANGED serviceVars PROVE ServiceOK' /\ MarksSettle /\ LossesOverlap
    BY <1>1, ServiceSame DEF serviceVars, MarksSettle, LossesOverlap, Lost, At
<1>2. ASSUME NEW r \in Requests, Service(r), UNCHANGED gatewayVars
      PROVE  IInv' /\ MarksSettle /\ LossesOverlap
  <2>1. ServiceStep
      BY <1>2, ServiceActionOK DEF GatewayOK, SocketsOK, In
  <2> QED BY <1>2, <2>1, GatewayKept DEF ServiceStep
<1>3. ASSUME NEW r \in Requests, Emit(r) PROVE IInv' /\ MarksSettle /\ LossesOverlap
  <2>1. MarksSettle
    <3> SUFFICES ASSUME NEW i \in Requests, ~At(i, "marked"), At(i, "marked")' PROVE FALSE
        BY DEF MarksSettle
    <3>1. req[r] \in Sending /\ req' = [req EXCEPT ![r] = [req[r] EXCEPT !.step = "sent"]]
          /\ failed' = failed
        BY <1>3, Shape DEF Emit, At, Goto, ServiceOK, RequestsOK
    <3>2. [req[r] EXCEPT !.step = "sent"].step = "sent"
        BY <3>1 DEF Sending
    <3> QED BY <3>1, <3>2 DEF At, ServiceOK, RequestsOK
  <2>2. LossesOverlap
      BY <1>3 DEF Emit, tables, LossesOverlap, Lost
  <2> QED BY <1>3, <2>1, <2>2, EmitOK
<1>4. ASSUME NEW s \in Sockets, Connection(s) PROVE IInv' /\ MarksSettle /\ LossesOverlap
  <2>1. UNCHANGED serviceVars
      BY <1>4 DEF Connection, Connect, Verified, Rejected, DropEarly, Disconnect
  <2> QED BY <1>1, <1>4, <2>1, ConnectionOK, DisconnectOK
<1>5. ASSUME NEW s \in Sockets, Room(s) PROVE IInv' /\ MarksSettle /\ LossesOverlap
  <2>1. UNCHANGED serviceVars
      BY <1>5 DEF Room, AskToJoin, Leave, Fetch
  <2> QED BY <1>1, <1>5, <2>1, RoomOK
<1>6. ASSUME NEW j \in joining, Join(j) PROVE IInv' /\ MarksSettle /\ LossesOverlap
  <2>1. UNCHANGED serviceVars
      BY <1>6 DEF Join
  <2> QED BY <1>1, <1>6, <2>1, JoinOK
<1>7. ASSUME Restart PROVE IInv' /\ MarksSettle /\ LossesOverlap
  <2>1. MarksSettle /\ LossesOverlap
      BY <1>7 DEF Restart, tables, MarksSettle, LossesOverlap, Lost, At
  <2> QED BY <1>7, <2>1, RestartOK
<1>8. ASSUME Tick, UNCHANGED gatewayVars PROVE IInv' /\ MarksSettle /\ LossesOverlap
    BY <1>8, TickOK, GatewayKept DEF ServiceStep
<1>9. ASSUME UNCHANGED vars PROVE IInv' /\ MarksSettle /\ LossesOverlap
  <2>1. UNCHANGED serviceVars /\ UNCHANGED gatewayVars
      BY <1>9 DEF vars
  <2>2. ServiceStep
      BY <2>1, IdleStep DEF serviceVars, ServiceOK, TablesOK, RequestsOK
  <2> QED BY <2>1, <2>2, GatewayKept DEF ServiceStep
<1> QED BY <1>2, <1>3, <1>4, <1>5, <1>6, <1>7, <1>8, <1>9 DEF Next

\* The inductive invariant: rows, requests, people and rooms.
THEOREM Invariant == Spec => []IInv
<1>1. IInv /\ [Next]_vars => IInv'
    BY NextIInv
<1> QED BY InitIInv, <1>1, PTL DEF Spec

\* Requests hold the fields their step needs and the ids of rows that exist, and
\* rooms hold open sockets only: what handleDisconnect and the foreign keys promise.
THEOREM TypeCorrect == Spec => []TypeOK
<1>1. IInv => TypeOK
    BY DEF IInv, ServiceOK, TablesOK, RequestsOK, GatewayOK, GatewayTypes, TypeOK
<1> QED BY <1>1, Invariant, PTL

\* createConversation and addClassParticipants never insert a participant twice,
\* however many creations overlap: the unique constraint cannot fail them.
THEOREM MembersOnce == Spec => []OneRowPerMember
<1>1. IInv => OneRowPerMember
    BY DEF IInv, ServiceOK, PeopleOK
<1> QED BY <1>1, Invariant, PTL

\* A creation that ends well leaves in the conversation its creator, all invited, and
\* the pupils and teachers of a class.
THEOREM CreationsComplete == Spec => []AudienceComplete
<1>1. IInv => AudienceComplete
  <2> SUFFICES ASSUME IInv, NEW r \in Requests, At(r, "opened")
               PROVE  /\ req[r].invited \union {req[r].user} \subseteq Members(req[r].conv)
                      /\ req[r].type = "class" /\ req[r].class # NoClass =>
                            Pupils[req[r].class] \union Teachers \subseteq Members(req[r].conv)
      BY DEF AudienceComplete
  <2>1. PeopledOK(req[r], participants)
      BY DEF IInv, ServiceOK, PeopleOK
  <2> QED BY <2>1, MembersDef DEF PeopledOK, At
<1> QED BY <1>1, Invariant, PTL

\* createClassConversation and createSchoolWideConversation make a second conversation
\* only when the first was saved after the second request had searched for it.
THEOREM DuplicatesNeedOverlap == Spec => []DuplicatesOnlyByOverlap
<1>1. IInv => DuplicatesOnlyByOverlap
  <2> SUFFICES ASSUME IInv, NEW q \in Requests, NEW r \in Requests, HasRow(q), HasRow(r),
                      req[r].searched, req[q].type = req[r].type,
                      req[q].class = req[r].class, req[q].conv \in req[r].seen
               PROVE  FALSE
      BY DEF DuplicatesOnlyByOverlap
  <2>1. RequestOK(req[q], conversations, messages) /\ RequestOK(req[r], conversations, messages)
      BY DEF IInv, ServiceOK, RequestsOK
  <2>2. conversations[req[q].conv].type = req[q].type
        /\ conversations[req[q].conv].class = req[q].class
      BY <2>1 DEF RequestOK, HasRow, CreationSteps
  <2> QED BY <2>1, <2>2 DEF RequestOK, HasRow, CreationSteps
<1> QED BY <1>1, Invariant, PTL

\* A socket in the room of a conversation belongs to a participant: the check of
\* handleJoinConversation cannot go stale while participants never leave.
THEOREM RoomsHoldMembers == Spec => []NoStrangersInRoom
<1>1. IInv => NoStrangersInRoom
    BY DEF IInv, GatewayOK, RoomsOK
<1> QED BY <1>1, Invariant, PTL

\* Joining first and fetching next leaves no gap in what a client is shown of the
\* messages that handleSendMessage pushes.
THEOREM JoinThenFetch == Spec => []NothingMissed
<1>1. IInv => NothingMissed
    BY DEF IInv, GatewayOK, RoomsOK
<1> QED BY <1>1, Invariant, PTL

\* userSockets is exact but for clients gone while handleConnection awaited the token.
THEOREM GhostsNeedRace == Spec => []OnlyRaceLeavesGhosts
<1>1. IInv => OnlyRaceLeavesGhosts
    BY DEF IInv, GatewayOK, SocketsOK, OnlyRaceLeavesGhosts
<1> QED BY <1>1, Invariant, PTL

\* updateMessage and deleteMessage undo each other only when they overlap.
THEOREM LossesNeedOverlap == Spec => ChangesLostOnlyByOverlap
<1>1. IInv /\ [Next]_vars =>
         [\A m \in DOMAIN messages :
             Lost(m) => \E r \in Requests : Stale(r) /\ req[r].msg = m]_vars
    BY NextIInv DEF LossesOverlap
<1> QED BY <1>1, Invariant, PTL DEF Spec, ChangesLostOnlyByOverlap

\* markAsRead settles the unread count even when it repeats one that failed midway.
THEOREM ReadMarksSettle == Spec => ReadSettles
<1>1. IInv /\ [Next]_vars =>
         [\A r \in Requests : ~At(r, "marked") /\ At(r, "marked")' => Settled(r)']_vars
    BY NextIInv DEF MarksSettle
<1> QED BY <1>1, Invariant, PTL DEF Spec, ReadSettles

\* The three facts about createConversation and its callers together.
THEOREM ConversationsStaySound == Spec => []ConversationsSound
<1>1. OneRowPerMember /\ AudienceComplete /\ DuplicatesOnlyByOverlap => ConversationsSound
    BY DEF ConversationsSound
<1> QED BY <1>1, MembersOnce, CreationsComplete, DuplicatesNeedOverlap, PTL

\* The three facts about the gateway's rooms and sockets together.
THEOREM RoomsStaySound == Spec => []RoomsSound
<1>1. NoStrangersInRoom /\ OnlyRaceLeavesGhosts /\ NothingMissed => RoomsSound
    BY DEF RoomsSound
<1> QED BY <1>1, RoomsHoldMembers, GhostsNeedRace, JoinThenFetch, PTL

\* Edits, deletions and read marks stand, but for overlapping requests.
THEOREM ChangesStayDone == Spec => ChangesStand
BY LossesNeedOverlap, ReadMarksSettle DEF ChangesStand
=============================================================================
