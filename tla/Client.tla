------------------------------- MODULE Client -------------------------------
(***************************************************************************)
(* The Client task of a connection (server/client.rs): it multiplexes its  *)
(* server_rx, its broadcast_rx and the network stream.  tokio::select!     *)
(* picks at random among the branches that are ready, so each branch is an *)
(* action of its own.  What a branch receives it handles to the end before *)
(* the next select.                                                        *)
(***************************************************************************)
EXTENDS Handshake

\* Mutant of RelativePlayer: the absolute player is passed on.
AbsolutePlayer(c, p) == p

\* Client::relative_player
RelativePlayer(c, p) ==
    IF player[c] = Player1 \/ p = NoPlayer THEN p ELSE Opponent(p)

\* A sender half of c's server_rx still exists: the Server holds it, or it
\* travels in a message, or the handshake has yet to send it.
HasSender(c) ==
    \/ hs[c] = "spawned"
    \/ \E p \in Players : clients_tx[p] = c
    \/ \E i \in 1..Len(main_rx) :
        /\ main_rx[i].conn = c
        /\ main_rx[i].type \in {"ClientConnected", "ClientReconnected"}

\* run returns: the receivers and the network stream are dropped.
EndTask(c) ==
    /\ running' = running \ {c}
    /\ server_rx' = [server_rx EXCEPT ![c] = <<>>]
    /\ to_server' = [to_server EXCEPT ![c] = <<>>]

----------------------------------------------------------------------------
\* server_rx.recv()

\* The Turn is passed on; a sink error ends the task, with no Disconnect.
RecvTurn(c) ==
    /\ c \in running /\ server_rx[c] # <<>>
    /\ \/ /\ Deliver(c, [type |-> "Turn", player |-> Player1,
                         turn |-> Head(server_rx[c])])
          /\ server_rx' = [server_rx EXCEPT ![c] = Tail(@)]
          /\ UNCHANGED <<running, to_server>>
       \/ /\ SinkFails(c)
          /\ EndTask(c)
          /\ UNCHANGED <<inbox, chosen>>
    /\ UNCHANGED <<main_rx, clients_rx, clients_tx, broadcast, cursor, reply,
                   stray, closed, handshakeVars>>

\* Mutant of ServerRxClosed: the end of the channel is noticed only
\* when the remote client has left.
ServerRxClosedIgnored(c) ==
    /\ c \in running /\ server_rx[c] = <<>> /\ c \in closed
    /\ ~HasSender(c)
    /\ EndTask(c)
    /\ UNCHANGED <<main_rx, clients_rx, clients_tx, broadcast, cursor, reply,
                   inbox, chosen, stray, closed, handshakeVars>>

\* The channel is closed: the Server dropped or replaced this connection.
ServerRxClosed(c) ==
    /\ c \in running /\ server_rx[c] = <<>>
    /\ ~HasSender(c)
    /\ EndTask(c)
    /\ UNCHANGED <<main_rx, clients_rx, clients_tx, broadcast, cursor, reply,
                   inbox, chosen, stray, closed, handshakeVars>>

----------------------------------------------------------------------------
\* broadcast_rx.recv()

Lag(c) == Len(broadcast) - cursor[c]

\* Mutant of RecvBroadcast: the message may be read again.
RecvBroadcastTwice(c) ==
    /\ c \in running
    /\ Lag(c) \in 1..BroadcastCapacity
    /\ LET m == broadcast[cursor[c] + 1] IN
        /\ Deliver(c, [m EXCEPT !.player = RelativePlayer(c, m.player)])
        /\ cursor' \in {cursor, [cursor EXCEPT ![c] = @ + 1]}
    /\ UNCHANGED <<main_rx, clients_rx, clients_tx, server_rx, broadcast,
                   reply, running, to_server, stray, closed, handshakeVars>>

RecvBroadcast(c) ==
    /\ c \in running
    /\ Lag(c) \in 1..BroadcastCapacity
    /\ LET m == broadcast[cursor[c] + 1] IN
        \/ /\ Deliver(c, [m EXCEPT !.player = RelativePlayer(c, m.player)])
           /\ cursor' = [cursor EXCEPT ![c] = @ + 1]
           /\ UNCHANGED <<running, server_rx, to_server>>
        \/ /\ SinkFails(c)
           /\ EndTask(c)
           /\ UNCHANGED <<inbox, chosen, cursor>>
    /\ UNCHANGED <<main_rx, clients_rx, clients_tx, broadcast, reply, stray,
                   closed, handshakeVars>>

\* Mutant of SkipBroadcasts: the receiver starts afresh.
SkipToTheEnd(c) ==
    /\ c \in running
    /\ Lag(c) > BroadcastCapacity
    /\ cursor' = [cursor EXCEPT ![c] = Len(broadcast)]
    /\ UNCHANGED <<main_rx, clients_rx, clients_tx, server_rx, broadcast,
                   reply, running, remoteVars, handshakeVars>>

\* Mutant of SkipBroadcasts: the channel keeps one value, as a watch does.
SkipToTheNewest(c) ==
    /\ c \in running
    /\ Lag(c) > 1
    /\ cursor' = [cursor EXCEPT ![c] = Len(broadcast) - 1]
    /\ UNCHANGED <<main_rx, clients_rx, clients_tx, server_rx, broadcast,
                   reply, running, remoteVars, handshakeVars>>

\* Lagged: the receiver skips to the oldest message kept, the loss is logged.
SkipBroadcasts(c) ==
    /\ c \in running
    /\ Lag(c) > BroadcastCapacity
    /\ cursor' = [cursor EXCEPT ![c] = Len(broadcast) - BroadcastCapacity]
    /\ UNCHANGED <<main_rx, clients_rx, clients_tx, server_rx, broadcast,
                   reply, running, remoteVars, handshakeVars>>

----------------------------------------------------------------------------
\* stream.next()

\* The next item of the stream.
Arrived(c, types) == to_server[c] # <<>> /\ Head(to_server[c]).type \in types

\* Mutant of RecvChoice: the message may be read again.
RecvChoiceTwice(c) ==
    /\ c \in running /\ Arrived(c, {"Choice"})
    /\ HasRoom(clients_rx)
    /\ clients_rx' = Append(clients_rx, [type   |-> "Choice",
                                         player |-> player[c],
                                         turn   |-> Head(to_server[c]).turn])
    /\ to_server' \in {to_server, [to_server EXCEPT ![c] = Tail(@)]}
    /\ UNCHANGED <<main_rx, clients_tx, server_rx, broadcast, cursor, reply,
                   running, inbox, chosen, stray, closed, handshakeVars>>

\* A Choice is forwarded to the Server under the player's name.
RecvChoice(c) ==
    /\ c \in running /\ Arrived(c, {"Choice"})
    /\ HasRoom(clients_rx)
    /\ clients_rx' = Append(clients_rx, [type   |-> "Choice",
                                         player |-> player[c],
                                         turn   |-> Head(to_server[c]).turn])
    /\ to_server' = [to_server EXCEPT ![c] = Tail(@)]
    /\ UNCHANGED <<main_rx, clients_tx, server_rx, broadcast, cursor, reply,
                   running, inbox, chosen, stray, closed, handshakeVars>>

\* A message that has no place here, or an error: logged and passed over.
RecvStray(c) ==
    /\ c \in running /\ Arrived(c, {"Other", "Garbled"})
    /\ to_server' = [to_server EXCEPT ![c] =
                        IF Head(@).type = "Garbled"
                        THEN AfterError(c, Tail(@)) ELSE Tail(@)]
    /\ UNCHANGED <<channelVars, inbox, chosen, stray, closed, handshakeVars>>

StreamEnds(c) ==
    \/ c \in closed /\ to_server[c] = <<>>
    \/ Arrived(c, {"Eof"})

\* Mutant of RemoteGone: the Server is not told.
RemoteGoneSilently(c) ==
    /\ c \in running /\ StreamEnds(c)
    /\ UNCHANGED clients_rx
    /\ EndTask(c)
    /\ UNCHANGED <<main_rx, clients_tx, broadcast, cursor, reply, inbox,
                   chosen, stray, closed, handshakeVars>>

\* End of stream: the only way out that tells the Server.
RemoteGone(c) ==
    /\ c \in running /\ StreamEnds(c)
    /\ HasRoom(clients_rx)
    /\ clients_rx' = Append(clients_rx, [type   |-> "Disconnect",
                                         player |-> player[c], turn |-> 0])
    /\ EndTask(c)
    /\ UNCHANGED <<main_rx, clients_tx, broadcast, cursor, reply, inbox,
                   chosen, stray, closed, handshakeVars>>

ClientTask(c) ==
    \/ RecvTurn(c) \/ ServerRxClosed(c)
    \/ RecvBroadcast(c) \/ SkipBroadcasts(c)
    \/ RecvChoice(c) \/ RecvStray(c) \/ RemoteGone(c)

=============================================================================
