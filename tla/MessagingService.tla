--------------------------- MODULE MessagingService ---------------------------
(***************************************************************************)
(* messaging.service.ts as overlapping requests see it.  One step is one   *)
(* query with the code that runs on until the next await.  Nothing here is *)
(* wrapped in a transaction: a request that fails midway leaves what it    *)
(* has saved.  A request that is refused changes nothing and is no step.   *)
(*                                                                         *)
(* `leftAt: null' and `deletedAt: null' in a where clause are ignored by   *)
(* TypeORM, and no code sets leftAt: a participant stays one for good, and *)
(* a deleted message is fetched and counted like any other.                *)
(***************************************************************************)
EXTENDS Naturals

CONSTANTS
    Users,         \* accounts
    Role,          \* the role of each
    Active,        \* accounts with active = true
    Classes,       \* class ids
    NoClass,       \* classId IS NULL
    Pupils,        \* accounts of the students enrolled in a class of that name
    Convs,         \* ids the conversations table can hold
    Msgs,          \* ids the messages table can hold
    Requests,      \* requests served, each once
    MaxClock,      \* bound on the clock
    Earlier        \* what earlier requests may have left in the tables

Roles == {"admin", "director", "teacher", "hod", "student", "parent"}

ASSUME AccountsAssumption ==
    /\ Role \in [Users -> Roles] /\ Active \subseteq Users
    /\ NoClass \notin Classes /\ Pupils \in [Classes -> SUBSET Users]
ASSUME MaxClockAssumption == MaxClock \in Nat \ {0}
ASSUME TextAssumption == "original" \notin Requests

Never == 0           \* lastReadAt IS NULL, lastMessageAt IS NULL

ConversationRows ==
    [type : {"group", "class", "school_wide"}, class : Classes \union {NoClass},
     creator : Users, lastMessageAt : Nat]
ParticipantRows ==
    [conv : Convs, user : Users, role : {"admin", "member"},
     joinedAt : Nat, lastReadAt : Nat]

\* The text is known by the edit that wrote it.
MessageRows ==
    [conv : Convs, sender : Users, createdAt : Nat,
     text : {"original"} \union Requests, deleted : BOOLEAN]

\* Tables that finished requests can leave behind, before the clock starts at 1.
ASSUME EarlierAssumption ==
    \A d \in Earlier :
       /\ DOMAIN d.conversations \subseteq Convs /\ DOMAIN d.messages \subseteq Msgs
       /\ d.conversations \in [DOMAIN d.conversations -> ConversationRows]
       /\ d.participants \subseteq ParticipantRows
       /\ d.messages \in [DOMAIN d.messages -> MessageRows]
       /\ d.reads \subseteq (DOMAIN d.messages) \X Users
       /\ \A p \in d.participants : p.conv \in DOMAIN d.conversations
       /\ \A p, q \in d.participants : p.conv = q.conv /\ p.user = q.user => p = q
       /\ \A m \in DOMAIN d.messages :
             d.messages[m].conv \in DOMAIN d.conversations /\ d.messages[m].createdAt <= 1

VARIABLES
    clock,
    conversations,   \* the rows, by id
    participants,    \* rows: one for each conversation and member
    messages,        \* the rows, by id
    reads,           \* message_reads, unique on <<message, user>>
    req,             \* what each request has read, and where it is
    failed           \* requests that ended there with an error

tables == <<conversations, participants, messages, reads>>
serviceVars == <<clock, conversations, participants, messages, reads, req, failed>>

Free == [step |-> "free"]

Rulers   == {u \in Users : Role[u] \in {"admin", "director"}}
Teachers == {u \in Users : Role[u] \in {"teacher", "hod"}}

ServiceInit ==
    /\ clock = 1
    /\ \E d \in Earlier :
          /\ conversations = d.conversations /\ participants = d.participants
          /\ messages = d.messages /\ reads = d.reads
    /\ req = [r \in Requests |-> Free]
    /\ failed = {}

Members(c)     == {p.user : p \in {q \in participants : q.conv = c}}
IsMember(c, u) == u \in Members(c)      \* getConversationById finds it

At(r, step)   == req[r].step = step /\ r \notin failed
Go(r, state)  == req' = [req EXCEPT ![r] = state]
Goto(r, step) == req' = [req EXCEPT ![r].step = step]

Extend(f, x, v) == [y \in DOMAIN f \union {x} |-> IF y = x THEN v ELSE f[y]]

Row(c, u, role) ==
    [conv |-> c, user |-> u, role |-> role, joinedAt |-> clock, lastReadAt |-> Never]

-----------------------------------------------------------------------------
(* Opening a conversation                                                  *)

\* createConversation begins, for a type, a class and a set of participant ids.
\* `seen' is history: what a search before it could find, {} if there was none.
Creating(u, type, class, invited, searched, seen) ==
    [step |-> "create", user |-> u, type |-> type, class |-> class,
     invited |-> invited, searched |-> searched, seen |-> seen]

\* createConversation called by the controller: it searches for nothing.
StartConversation(r, u, type, class, invited) ==
    /\ At(r, "free")
    /\ type = "school_wide" => u \in Rulers
    /\ Go(r, Creating(u, type, class, invited, FALSE, {}))
    /\ UNCHANGED <<clock, failed, tables>>

\* What findOne may return.
Found(type, class) ==
    {c \in DOMAIN conversations :
        conversations[c].type = type
        /\ (type = "class" => conversations[c].class = class)}

\* An existing conversation ends the request, for a participant with that
\* conversation and for anyone else with a NotFoundException.
FindOrCreate(r, u, type, class, invited) ==
    /\ At(r, "free")
    /\ \/ \E c \in Found(type, class) :
            Go(r, [step |-> "found", conv |-> c])
       \/ /\ Found(type, class) = {}
          /\ Go(r, Creating(u, type, class, invited, TRUE, DOMAIN conversations))
    /\ UNCHANGED <<clock, failed, tables>>

OpenClassConversation(r, u, class) ==
    /\ u \in Teachers \union Rulers
    /\ FindOrCreate(r, u, "class", class, {u})

OpenSchoolConversation(r, u) ==
    /\ u \in Rulers
    /\ FindOrCreate(r, u, "school_wide", NoClass, Active)

InsertConversation(r, c) ==
    /\ At(r, "create")
    /\ c \in Convs \ DOMAIN conversations
    /\ conversations' = Extend(conversations, c,
           [type |-> req[r].type, class |-> req[r].class, creator |-> req[r].user,
            lastMessageAt |-> Never])
    /\ Go(r, [step |-> "creator", user |-> req[r].user, type |-> req[r].type,
              class |-> req[r].class, invited |-> req[r].invited,
              searched |-> req[r].searched, seen |-> req[r].seen, conv |-> c])
    /\ UNCHANGED <<clock, failed, participants, messages, reads>>

InsertCreator(r) ==
    /\ At(r, "creator")
    /\ participants' = participants \union {Row(req[r].conv, req[r].user, "admin")}
    /\ Goto(r, "invite")
    /\ UNCHANGED <<clock, failed, conversations, messages, reads>>

InsertInvited(r) ==
    /\ At(r, "invite")
    /\ participants' = participants \union
           {Row(req[r].conv, u, "member") : u \in req[r].invited \ {req[r].user}}
    /\ Goto(r, IF req[r].type = "class" /\ req[r].class # NoClass THEN "class" ELSE "opened")
    /\ UNCHANGED <<clock, failed, conversations, messages, reads>>

\* Mutant: the teachers are left out.
ClassAudienceMutant(class) == Pupils[class]

ClassAudience(class) == Pupils[class] \union Teachers

\* addClassParticipants: those who are not participants yet.
InsertClass(r) ==
    /\ At(r, "class")
    /\ participants' = participants \union
           {Row(req[r].conv, u, "member") :
               u \in ClassAudience(req[r].class) \ Members(req[r].conv)}
    /\ Goto(r, "opened")
    /\ UNCHANGED <<clock, failed, conversations, messages, reads>>

-----------------------------------------------------------------------------
(* Messages                                                                *)

\* sendMessage up to its first save.
Send(r, u, c, via) ==
    /\ At(r, "free")
    /\ IsMember(c, u)
    /\ Go(r, [step |-> "save", user |-> u, conv |-> c, via |-> via])
    /\ UNCHANGED <<clock, failed, tables>>

\* With the date for the conversation, taken when the save returns.
SaveMessage(r, m) ==
    /\ At(r, "save")
    /\ m \in Msgs \ DOMAIN messages
    /\ messages' = Extend(messages, m,
           [conv |-> req[r].conv, sender |-> req[r].user, createdAt |-> clock,
            text |-> "original", deleted |-> FALSE])
    /\ Go(r, [step |-> "touch", conv |-> req[r].conv, via |-> req[r].via,
              msg |-> m, date |-> clock])
    /\ UNCHANGED <<clock, failed, conversations, participants, reads>>

\* A request over HTTP ends here; one from a socket goes on, after a last query for
\* the row, to the gateway.
TouchConversation(r) ==
    /\ At(r, "touch")
    /\ conversations' = [conversations EXCEPT ![req[r].conv].lastMessageAt = req[r].date]
    /\ Goto(r, IF req[r].via = "socket" THEN "emit" ELSE "sent")
    /\ UNCHANGED <<clock, failed, participants, messages, reads>>

\* updateMessage and deleteMessage load the whole row, and later save all of it.
LoadToEdit(r, u, m) ==
    /\ At(r, "free")
    /\ messages[m].sender = u
    /\ Go(r, [step |-> "edit", msg |-> m, copy |-> messages[m]])
    /\ UNCHANGED <<clock, failed, tables>>

\* Mutant: an edit clears the deletion.
SaveEditMutant(r) ==
    /\ At(r, "edit")
    /\ messages' = [messages EXCEPT ![req[r].msg] =
                       [req[r].copy EXCEPT !.text = r, !.deleted = FALSE]]
    /\ Go(r, [step |-> "done"])
    /\ UNCHANGED <<clock, failed, conversations, participants, reads>>

SaveEdit(r) ==
    /\ At(r, "edit")
    /\ messages' = [messages EXCEPT ![req[r].msg] = [req[r].copy EXCEPT !.text = r]]
    /\ Go(r, [step |-> "done"])
    /\ UNCHANGED <<clock, failed, conversations, participants, reads>>

LoadToDelete(r, u, m) ==
    /\ At(r, "free")
    /\ \/ messages[m].sender = u
       \/ u \in Rulers
       \/ conversations[messages[m].conv].creator = u
    /\ Go(r, [step |-> "delete", msg |-> m, copy |-> messages[m]])
    /\ UNCHANGED <<clock, failed, tables>>

SaveDelete(r) ==
    /\ At(r, "delete")
    /\ messages' = [messages EXCEPT ![req[r].msg] = [req[r].copy EXCEPT !.deleted = TRUE]]
    /\ Go(r, [step |-> "done"])
    /\ UNCHANGED <<clock, failed, conversations, participants, reads>>

-----------------------------------------------------------------------------
(* Reading                                                                 *)

\* markAsRead asks for no membership.
FindRead(r, u, m) ==
    /\ At(r, "free")
    /\ Go(r, [step |-> IF <<m, u>> \in reads THEN "read" ELSE "insertRead",
              user |-> u, msg |-> m])
    /\ UNCHANGED <<clock, failed, tables>>

\* The unique constraint fails the second of two inserts.
InsertRead(r) ==
    LET row == <<req[r].msg, req[r].user>>
    IN /\ At(r, "insertRead")
       /\ \/ row \in reads /\ failed' = failed \union {r} /\ UNCHANGED <<reads, req>>
          \/ row \notin reads /\ reads' = reads \union {row} /\ Goto(r, "read")
                /\ UNCHANGED failed
       /\ UNCHANGED <<clock, conversations, participants, messages>>

\* The message is loaded for its conversation, and the date taken.
LoadRead(r) ==
    /\ At(r, "read")
    /\ Go(r, [step |-> "mark", user |-> req[r].user, msg |-> req[r].msg, date |-> clock])
    /\ UNCHANGED <<clock, failed, tables>>

MarkRead(r) ==
    /\ At(r, "mark")
    /\ participants' =
         {IF p.conv = messages[req[r].msg].conv /\ p.user = req[r].user
          THEN [p EXCEPT !.lastReadAt = req[r].date] ELSE p : p \in participants}
    /\ Goto(r, "marked")
    /\ UNCHANGED <<clock, failed, conversations, messages, reads>>

\* The messages getUnreadCount counts.
Unread(c, u) ==
    {m \in DOMAIN messages :
        /\ messages[m].conv = c /\ messages[m].sender # u
        /\ \E p \in participants :
              /\ p.conv = c /\ p.user = u
              /\ messages[m].createdAt >
                   (IF p.lastReadAt # Never THEN p.lastReadAt ELSE p.joinedAt)}

-----------------------------------------------------------------------------
\* The awaited call of a request is rejected: the request ends with an error.
Waiting == {"create", "creator", "invite", "class", "save", "touch", "emit", "edit",
            "delete", "insertRead", "read", "mark"}

Fail(r) ==
    /\ req[r].step \in Waiting /\ r \notin failed
    /\ failed' = failed \union {r}
    /\ UNCHANGED <<clock, tables, req>>

Types == {"group", "class", "school_wide"}

Opening ==
    [step : {"create"}, user : Users, type : Types, class : Classes \union {NoClass},
     invited : SUBSET Users, searched : BOOLEAN, seen : SUBSET Convs]
Populating ==
    [step : {"creator", "invite", "class", "opened"}, user : Users, type : Types,
     class : Classes \union {NoClass}, invited : SUBSET Users, searched : BOOLEAN,
     seen : SUBSET Convs, conv : Convs]
Finished == [step : {"found"}, conv : Convs] \union [step : {"done"}]
Saving   == [step : {"save"}, user : Users, conv : Convs, via : {"http", "socket"}]
Sending  == [step : {"touch", "emit", "sent"}, conv : Convs,
             via : {"http", "socket"}, msg : Msgs, date : Nat]
Changing == [step : {"edit", "delete"}, msg : Msgs, copy : MessageRows]
Finding  == [step : {"insertRead", "read"}, user : Users, msg : Msgs]
Marking  == [step : {"mark", "marked"}, user : Users, msg : Msgs, date : Nat]

RequestStates ==
    {Free} \union Opening \union Populating \union Finished \union Saving
        \union Sending \union Changing \union Finding \union Marking

Tick ==
    /\ clock < MaxClock
    /\ clock' = clock + 1
    /\ UNCHANGED <<failed, tables, req>>
=============================================================================
