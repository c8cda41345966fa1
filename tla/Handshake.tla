------------------------------ MODULE Handshake ------------------------------
(***************************************************************************)
(* handle_handshake (server/handshake.rs): one task per connection.        *)
(*                                                                         *)
(*   new       waiting for the first message                               *)
(*   asked     waiting for the Server's answer on the oneshot channel      *)
(*   spawned   Welcome sent, Client task spawned, about to notify the      *)
(*             Server with the sender half of the Client's server_rx       *)
(*   done      returned                                                    *)
(***************************************************************************)
EXTENDS Remote

VARIABLES
    hs,
    session,        \* connection -> session id it was given or asked for
    player,         \* connection -> Client::player, once the task exists
    hasty           \* history, read by properties only: connections that
                    \* asked for a session while another of it was up

handshakeVars == <<hs, session, player, hasty>>

HandshakeInit ==
    /\ hs = [c \in Conns |-> "new"]
    /\ session = [c \in Conns |-> NoConn]
    /\ player = [c \in Conns |-> NoPlayer]
    /\ hasty = {}

HandshakeTypeOK ==
    /\ hs \in [Conns -> {"new", "asked", "spawned", "done"}]
    /\ session \in [Conns -> Conns \cup {NoConn}]
    /\ player \in [Conns -> Players \cup {NoPlayer}]
    /\ hasty \in SUBSET Conns

\* A connection the server has given up: its sink and stream are dropped.
Dropped(c) == hs[c] = "done" /\ c \notin running

\* Nothing more is heard on it.
Left(c) == c \in closed \/ Dropped(c)

----------------------------------------------------------------------------
\* The first message is read and the Server is asked.  A connection that
\* closes first leaves no trace: it stays "new".

Ask(c, type, s) ==
    /\ hs[c] = "new"
    /\ HasRoom(main_rx)
    /\ main_rx' = Append(main_rx, [type |-> type, conn |-> c,
                                   player |-> NoPlayer, session |-> s])
    /\ hs' = [hs EXCEPT ![c] = "asked"]
    /\ session' = [session EXCEPT ![c] = s]
    /\ UNCHANGED <<clients_rx, clients_tx, server_rx, broadcast, cursor,
                   reply, running, remoteVars, player>>

Hello(c) == Ask(c, "RequestFreePlayer", NoConn) /\ UNCHANGED hasty

\* A remote client asks for the session of a Welcome it was sent, whether or
\* not it still has a connection of that session: nothing is checked here.
AskReconnect(c, s) ==
    /\ session[s] = s /\ Received(s, "Welcome")
    /\ Ask(c, "ClientReconnectedHandle", s)
    /\ hasty' = IF \A d \in Conns : session[d] = s => Left(d)
                THEN hasty ELSE hasty \cup {c}

\* The first item of the stream is an error or another message: the
\* connection is dropped, were it only for a Ping.
BadFirst(c) ==
    /\ hs[c] = "new"
    /\ MayStray(c)
    /\ stray' = stray \cup {c}
    /\ hs' = [hs EXCEPT ![c] = "done"]
    /\ UNCHANGED <<channelVars, inbox, to_server, chosen, closed, session,
                   player, hasty>>

\* No free player, or unknown session.
Reject(c) ==
    /\ hs[c] = "asked" /\ reply[c] = <<NoPlayer>>
    /\ Deliver(c, [type |-> "Reject", player |-> NoPlayer, turn |-> 0])
    /\ reply' = [reply EXCEPT ![c] = <<>>]
    /\ hs' = [hs EXCEPT ![c] = "done"]
    /\ UNCHANGED <<main_rx, clients_rx, clients_tx, server_rx, broadcast,
                   cursor, running, to_server, stray, closed, session, player,
                   hasty>>

\* Mutant of Welcome: the answer None is taken for a player.
WelcomeUnchecked(c) ==
    /\ hs[c] = "asked"
    /\ reply[c] # <<>>
    /\ Deliver(c, [type |-> "Welcome", player |-> NoPlayer, turn |-> 0])
    /\ hs' = [hs EXCEPT ![c] = "spawned"]
    /\ session' = IF session[c] = NoConn THEN [session EXCEPT ![c] = c]
                  ELSE session
    /\ player' = [player EXCEPT ![c] = Head(reply[c])]
    /\ reply' = [reply EXCEPT ![c] = <<>>]
    /\ running' = running \cup {c}
    /\ cursor' = [cursor EXCEPT ![c] = Len(broadcast)]
    /\ UNCHANGED <<main_rx, clients_rx, clients_tx, server_rx, broadcast,
                   to_server, stray, closed, hasty>>

\* Mutant of Welcome: the broadcasts are told from the first one on.
WelcomeFromStart(c) ==
    /\ hs[c] = "asked"
    /\ reply[c] # <<>> /\ reply[c] # <<NoPlayer>>
    /\ Deliver(c, [type |-> "Welcome", player |-> NoPlayer, turn |-> 0])
    /\ hs' = [hs EXCEPT ![c] = "spawned"]
    /\ session' = IF session[c] = NoConn THEN [session EXCEPT ![c] = c]
                  ELSE session
    /\ player' = [player EXCEPT ![c] = Head(reply[c])]
    /\ reply' = [reply EXCEPT ![c] = <<>>]
    /\ running' = running \cup {c}
    /\ UNCHANGED <<main_rx, clients_rx, clients_tx, server_rx, broadcast,
                   cursor, to_server, stray, closed, hasty>>

\* The Server names a player: send Welcome, subscribe to the broadcasts,
\* make the server_rx channel and spawn the Client.  Nothing is awaited
\* between, and no one can tell the Welcome from the subscription.
Welcome(c) ==
    /\ hs[c] = "asked"
    /\ reply[c] # <<>> /\ reply[c] # <<NoPlayer>>
    /\ Deliver(c, [type |-> "Welcome", player |-> NoPlayer, turn |-> 0])
    /\ hs' = [hs EXCEPT ![c] = "spawned"]
    /\ session' = IF session[c] = NoConn THEN [session EXCEPT ![c] = c]
                  ELSE session
    /\ player' = [player EXCEPT ![c] = Head(reply[c])]
    /\ reply' = [reply EXCEPT ![c] = <<>>]
    /\ running' = running \cup {c}
    /\ cursor' = [cursor EXCEPT ![c] = Len(broadcast)]
    /\ UNCHANGED <<main_rx, clients_rx, clients_tx, server_rx, broadcast,
                   to_server, stray, closed, hasty>>

\* The Welcome cannot be sent: the handshake gives up, the Server is not told.
WelcomeFails(c) ==
    /\ hs[c] = "asked"
    /\ reply[c] # <<>> /\ reply[c] # <<NoPlayer>>
    /\ SinkFails(c)
    /\ reply' = [reply EXCEPT ![c] = <<>>]
    /\ hs' = [hs EXCEPT ![c] = "done"]
    /\ UNCHANGED <<main_rx, clients_rx, clients_tx, server_rx, broadcast,
                   cursor, running, remoteVars, session, player, hasty>>

\* ClientConnected for a new session, ClientReconnected for an old one.
Notify(c) ==
    /\ hs[c] = "spawned"
    /\ HasRoom(main_rx)
    /\ main_rx' = Append(main_rx,
          [type |-> IF session[c] = c THEN "ClientConnected"
                    ELSE "ClientReconnected",
           conn |-> c, player |-> player[c], session |-> session[c]])
    /\ hs' = [hs EXCEPT ![c] = "done"]
    /\ UNCHANGED <<clients_rx, clients_tx, server_rx, broadcast, cursor,
                   reply, running, remoteVars, session, player, hasty>>

\* What a remote client starts, and how the task then goes on.
Request(c) ==
    Hello(c) \/ BadFirst(c) \/ \E s \in Conns \ {c} : AskReconnect(c, s)

HandshakeTask(c) == Reject(c) \/ Welcome(c) \/ WelcomeFails(c) \/ Notify(c)

=============================================================================
