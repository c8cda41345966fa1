------------------------------- MODULE Session -------------------------------
(***************************************************************************)
(* The server process of sternhalma-server: the Server task, a handshake   *)
(* and a Client task per connection, the remote clients.  The process ends *)
(* when the Server task does.                                              *)
(***************************************************************************)
EXTENDS Server, Client

vars == <<channelVars, serverVars, remoteVars, handshakeVars>>

Init ==
    /\ ChannelsInit
    /\ ServerInit
    /\ RemoteInit
    /\ HandshakeInit

\* A connection some task of the server still serves.
Served(c) == hs[c] \in {"asked", "spawned"} \/ c \in running

----------------------------------------------------------------------------
\* One step of each task, and of a remote client.  main returns when the
\* Server task ends, and takes every other task with it.

ServerStep == ServerNext /\ UNCHANGED <<remoteVars, handshakeVars>>

ClientStep(c) == srv # "done" /\ ClientTask(c) /\ UNCHANGED serverVars

HandshakeStep(c) == srv # "done" /\ HandshakeTask(c) /\ UNCHANGED serverVars

Open(c) == srv # "done" /\ Request(c) /\ UNCHANGED serverVars

Choose(c) ==
    srv # "done" /\ RemoteChoose(c) /\ UNCHANGED <<serverVars, handshakeVars>>

Stray(c) ==
    srv # "done" /\ RemoteStray(c) /\ UNCHANGED <<serverVars, handshakeVars>>

Close(c) ==
    /\ srv # "done" /\ Served(c)
    /\ RemoteClose(c)
    /\ UNCHANGED <<serverVars, handshakeVars>>

Next ==
    \/ ServerStep
    \/ \E c \in Conns :
        \/ ClientStep(c) \/ HandshakeStep(c)
        \/ Open(c) \/ Choose(c) \/ Stray(c) \/ Close(c)

Spec == Init /\ [][Next]_vars

\* The runtime keeps every task of the server going.  A task that sends to a
\* far end waits in sink.send until it reads: here far ends read what they are
\* sent, if late, or close.
TaskFairness ==
    /\ WF_vars(ServerStep)
    /\ \A c \in Conns : WF_vars(ClientStep(c)) /\ WF_vars(HandshakeStep(c))

\* Remote players answer their Turns and leave once told to; whether they
\* come back is up to them.
RemoteFairness ==
    \A c \in Conns :
        /\ WF_vars(Choose(c))
        /\ WF_vars(Close(c) /\ Received(c, "Disconnect"))

\* The tasks go on, whatever the remote clients send or fail to send.
TaskSpec == Spec /\ TaskFairness

LiveSpec == TaskSpec /\ RemoteFairness

----------------------------------------------------------------------------
\* Types of the state of every task and channel.
TypeOK ==
    /\ ChannelsTypeOK
    /\ ServerTypeOK
    /\ RemoteTypeOK
    /\ HandshakeTypeOK

\* While the match is on, every player either has a channel or is marked as
\* one that may come back, never both, never neither: else a turn would fail
\* with "Unable to find player", or a player could never resume.
SeatOrAway ==
    srv \in {"turn", "select"} =>
        \A p \in Players : Seated(p) # (p \in disconnected)

\* A player has one session, and its seat belongs to a connection of that
\* session: neither a late Hello nor the races of the handshake can give
\* the seat to somebody else.
SeatOwner ==
    /\ \A s, t \in Conns :
        sessions[s] = sessions[t] /\ sessions[s] # NoPlayer => s = t
    /\ \A p \in Players : Seated(p) =>
        LET c == clients_tx[p] IN
        /\ player[c] = p
        /\ session[c] # NoConn /\ sessions[session[c]] = p

\* When the Server waits for a player whose connection is up, the Turn it
\* waits an answer to has reached the player or is on its way: handle_turn
\* does not send it to a player who is away, Reconnect has to.
TurnOnItsWay ==
    srv = "select" /\ Current \notin disconnected =>
        LET c == clients_tx[Current] IN
        c \in running /\ c \notin closed =>
            \/ \E i \in 1..Len(server_rx[c]) : server_rx[c][i] = status.turns
            \/ \E i \in Got(c, "Turn") : inbox[c][i].turn = status.turns

\* Turns are offered to the player whose turn it is, and to nobody else.
TurnRouting ==
    \A c \in Conns :
        /\ \A i \in 1..Len(server_rx[c]) : Mover(server_rx[c][i]) = player[c]
        /\ \A i \in Got(c, "Turn") : Mover(inbox[c][i].turn) = player[c]

\* The server with its tasks, channels and connections forgotten.
Phase ==
    CASE srv = "connect" -> "gathering"
      [] srv \in {"turn", "select"} -> "playing"
      [] srv = "stop" ->
            IF \E i \in 1..Len(broadcast) : broadcast[i].type = "GameFinished"
            THEN "concluded" ELSE "abandoned"
      [] OTHER -> "closed"

Table == INSTANCE Table WITH
    phase <- Phase,
    registered <- {p \in Players : \E s \in Conns : sessions[s] = p},
    log <- broadcast

\* However connections come and go, what the Server does is to play one match
\* at a table of two players and to tell it in its broadcasts.
TableSpec == Table!TableSpec

\* The broadcasts tell the match, whatever choices arrive when.
Transcript == Table!Transcript

\* A Movement is shown to a remote player as its own (Player1) exactly when
\* its player made it.
Perspective ==
    \A c \in Conns : \A i \in Got(c, "Movement") :
        (inbox[c][i].player = Player1) <=> (Mover(inbox[c][i].turn) = player[c])

\* The broadcasts among the messages delivered to c, by their places in its
\* inbox, and which of them the one at place i is.
Heard(c) == {i \in 1..Len(inbox[c]) :
                inbox[c][i].type \in {"Movement", "GameFinished", "Disconnect"}}

Nth(c, i) == Cardinality({j \in Heard(c) : j <= i})

Same(m, n) == m.type = n.type /\ m.turn = n.turn

\* A player who has stayed connected since its Hello has been told every
\* move, in order, up to where its Client has read: the subscription is made
\* before the Server hears of the player.
HearsEveryMove ==
    \A c \in Conns :
        sessions[c] # NoPlayer /\ c \in running /\ c \notin closed =>
            /\ Cardinality(Heard(c)) = cursor[c]
            /\ \A i \in Heard(c) : Same(inbox[c][i], broadcast[Nth(c, i)])

\* A player who comes back is told again every move from its subscription on,
\* in order.  It may have missed some meanwhile, but unless it was hasty (then
\* the Clients of both its connections pass the same moves on) it hears none
\* twice, whatever was still on its way to the connection it has left.
HearsInOrder ==
    \A c \in Conns : \E missed \in 0..Len(broadcast) :
        /\ missed + Cardinality(Heard(c)) <= Len(broadcast)
        /\ c \in running \ closed =>
            missed + Cardinality(Heard(c)) = cursor[c]
        /\ session[c] \notin {c, NoConn} /\ c \notin hasty =>
            Cardinality(Heard(session[c])) <= missed
        /\ \A i \in Heard(c) :
            Same(inbox[c][i], broadcast[missed + Nth(c, i)])

\* What m tells was broadcast before what n tells.
Precedes(m, n) ==
    \E k, l \in 1..Len(broadcast) :
        k < l /\ Same(m, broadcast[k]) /\ Same(n, broadcast[l])

\* However late its Clients read, and however often it comes back, a player
\* hears of no move out of order on a connection and of none twice: neither on
\* one connection of its session nor on two of which one was left before the
\* other was asked for.
HearsNoneTwice ==
    /\ \A c \in Conns : \A i, j \in Heard(c) :
        i < j => Precedes(inbox[c][i], inbox[c][j])
    /\ \A c, d \in Conns :
        c # d /\ session[c] = session[d] /\ session[c] # NoConn
          /\ {c, d} \cap hasty = {} =>
            \A i \in Heard(c), j \in Heard(d) : ~Same(inbox[c][i], inbox[d][j])

\* A handshake that waits for its answer has either its request in main_rx,
\* once, or the answer: none is lost, none answered twice.
OneExchange ==
    \A c \in Conns :
        Cardinality({i \in 1..Len(main_rx) :
                        main_rx[i].conn = c
                        /\ main_rx[i].type \in {"RequestFreePlayer",
                                                "ClientReconnectedHandle"}})
            + Len(reply[c]) = IF hs[c] = "asked" THEN 1 ELSE 0

\* A seat passes to another connection only after it has been empty: nobody
\* takes the place of a player who is there.
SeatsEmptyFirst ==
    [][\A p \in Players :
        Seated(p) => clients_tx'[p] \in {clients_tx[p], NoConn}]_vars

----------------------------------------------------------------------------
\* Properties of remote clients that answer, and of those that stay.

HeardToTheEnd(c) ==
    /\ Cardinality(Heard(c)) = Len(broadcast)
    /\ \E i \in Heard(c) :
        Nth(c, i) = Len(broadcast) /\ inbox[c][i].type = "Disconnect"

\* A choice is applied to the turn it was made for: the Server cannot tell,
\* it only has an index, but a player that answers each Turn once never has
\* an answer under way when its next turn begins.
AnswersThisTurn ==
    [][status' # status => Head(clients_rx).turn = status.turns]_vars

\* c has been closed, or a frame of its own may have ended its stream.
MayHaveEnded(c) == c \in closed \cup (stray \cap Tcp)

\* Not before it had heard the end.
Stays(c) == Reliable \/ (MayHaveEnded(c) => Received(c, "Disconnect"))

\* No other connection has been welcomed as p.
Only(c, p) == \A d \in Conns : player[d] = p => d = c

\* When the process exits, whoever has stayed connected since its Hello has
\* been told everything, although every Client learns the end from a queue of
\* its own, and whatever the other player's connections do.  It is the only
\* one welcomed as its player, since a Disconnect names no more than that:
\* see GracefulShutdown in Promises.
EveryoneSawTheEnd ==
    srv = "done" => \A c \in Conns :
        sessions[c] # NoPlayer /\ Stays(c) /\ Only(c, sessions[c]) =>
            HeardToTheEnd(c)

\* Every match comes to its end and the process exits.
Terminates == <>(srv = "done")

\* The Server's wait for a move ends.
TurnsAdvance == srv = "select" ~> srv \in {"turn", "stop"}

----------------------------------------------------------------------------
\* Progress whatever the connections send, and whenever they close.

Waiting == {c \in Conns : hs[c] = "asked"}

Orphans == {c \in running : ~HasSender(c)}

\* Every handshake is answered, unless the Server has stopped reading
\* main_rx.  A connection asks once, so the waiting of all comes to an end.
HandshakesAnswered ==
    Waiting # {} ~> Waiting = {} \/ srv \in {"drain", "done"}

\* A Client the Server no longer holds a channel to comes to an end, so its
\* remote client learns that the connection is of no more use.
OrphansEnd == Orphans # {} ~> Orphans = {} \/ srv = "done"

\* A paused turn has no timeout: it ends when its player comes back.  So a
\* connection that asks to resume the session of the player waited for gets
\* the Turn, unless it closes, the match is given up, or meanwhile the pause
\* ends otherwise: another connection of the player is given the seat, or a
\* choice made before the pause is applied.  One refused already is excepted:
\* a session is announced in the Welcome before the Server knows it, and a
\* Reconnect read in between is answered as unknown.
Returning(c, p) == session[c] # NoConn /\ sessions[session[c]] = p

PausedFor(c) ==
    /\ srv = "select" /\ Current \in disconnected
    /\ hs[c] = "asked" /\ ~MayHaveEnded(c) /\ reply[c] # <<NoPlayer>>
    /\ Returning(c, Current)

ReturnEndsPause ==
    \A c \in Conns :
        PausedFor(c) ~>
            \/ Received(c, "Turn") \/ MayHaveEnded(c)
            \/ srv \in {"stop", "drain", "done"}
            \/ ~Returning(c, Current) \/ clients_tx[Current] \notin {c, NoConn}

\* However late a Client reads its broadcasts, what it loses is the oldest:
\* once it has caught up it has heard the last BroadcastCapacity of them, the
\* result and the Disconnect among them.
LagKeepsTheLast ==
    \A c \in Conns :
        sessions[c] # NoPlayer /\ c \in running /\ c \notin closed
          /\ cursor[c] = Len(broadcast) =>
            \A n \in 1..Len(broadcast) :
                n > Len(broadcast) - BroadcastCapacity =>
                    \E i \in Heard(c) : Same(inbox[c][i], broadcast[n])

=============================================================================
