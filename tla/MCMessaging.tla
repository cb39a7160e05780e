----------------------------- MODULE MCMessaging -----------------------------
EXTENDS MessagingGateway, FiniteSets, TLC

CONSTANTS c1, m1

MCRole        == "t" :> "teacher" @@ "a" :> "admin" @@ "p" :> "student"
MCPupils      == 7 :> {"p"}
MCInvitations == {{"t", "p"}}

\* Two ways to start: nothing yet, or a group opened by t in which p has written.
Nothing == [conversations |-> <<>>, participants |-> {}, messages |-> <<>>, reads |-> {}]
Chat ==
    [conversations |-> c1 :> [type |-> "group", class |-> NoClass, creator |-> "t",
                              lastMessageAt |-> 1],
     participants  |-> {[conv |-> c1, user |-> "t", role |-> "admin",
                         joinedAt |-> 0, lastReadAt |-> Never],
                        [conv |-> c1, user |-> "p", role |-> "member",
                         joinedAt |-> 0, lastReadAt |-> Never]},
     messages      |-> m1 :> [conv |-> c1, sender |-> "p", createdAt |-> 1,
                              text |-> "original", deleted |-> FALSE],
     reads         |-> {}]
MCEarlier == {Nothing, Chat}

RequestSymmetry == Permutations(Requests)

\* Bounds: no sockets while a request opens a conversation, and the sockets connect
\* before any other request begins.
Openers == {r \in Requests : req[r].step \in {"create", "found"} \/ HasRow(r)}

SocketsFirst ==
    /\ Openers # {} => clock = 1 /\ \A s \in Sockets : In(s, "new")
    /\ Openers = {} /\ (\E r \in Requests : ~At(r, "free")) =>
          \A s \in Sockets : socket[s].state \in {"open", "closed"}
=============================================================================
