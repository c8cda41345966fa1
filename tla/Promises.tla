------------------------------ MODULE Promises ------------------------------
(***************************************************************************)
(* What the documentation, comments and tests of the repository say of the *)
(* server and its code does not always do.  Each has a counterexample in   *)
(* Session.                                                                *)
(***************************************************************************)
EXTENDS Session

HasNotice(c) ==
    \E i \in 1..Len(main_rx) : main_rx[i].conn = c

\* tests/connection.rs: a Hello sent when two players have been welcomed
\* "should receive Reject".  But a seat is taken only by ClientConnected,
\* which the handshake sends after the Welcome: until the Server has read it,
\* the next RequestFreePlayer is answered with the same player.
ExcessRejected ==
    \A c \in Conns :
        []( /\ hs[c] = "new"
            /\ {player[d] : d \in {e \in Conns : Received(e, "Welcome")}} = Players
            => []~(session[c] = c /\ Received(c, "Welcome")) )

\* docs/protocol.md, "Game Loop", and tests/gameplay.rs: the opponent's
\* Movement is delivered before the Turn it leads to.  But they travel in
\* two channels, between which the Client's select! picks at random.
MovementBeforeTurn ==
    \A c \in Conns : \A i \in Got(c, "Turn") :
        sessions[c] # NoPlayer /\ inbox[c][i].turn > 0 =>
            \E j \in Got(c, "Movement") :
                j < i /\ inbox[c][j].turn = inbox[c][i].turn - 1

\* README.md, "Reconnection Tests": a player who reconnects with its session
\* ID resumes the game.  Of one that had its Turn, closed its connection and
\* then came back.  But the Server confirms any session it knows, and drops
\* the reconnected Client if it has not yet read the old one's Disconnect.
WelcomedResumes ==
    srv \in {"turn", "select"} =>
        \A c \in Conns :
            /\ hs[c] = "done" /\ ~HasNotice(c)
            /\ session[c] # c /\ Received(c, "Welcome")
            /\ session[c] \in closed /\ Received(session[c], "Turn")
            /\ c \notin hasty \cup closed
            => clients_tx[player[c]] = c

\* server/mod.rs, on a Disconnect: "We continue waiting for other players or
\* reconnection".  But a Turn sent before the Disconnect is read finds the
\* receiver gone, and the error ends the match.
DisconnectOnlyPauses ==
    srv \in {"drain", "done"}
      /\ (\A p \in Players : \E s \in Conns : sessions[s] = p)
        => \E i \in 1..Len(broadcast) : broadcast[i].type = "GameFinished"

\* server/mod.rs, disconnect_players: "Gracefully shuts down connections by
\* sending a broadcast disconnect signal and waiting for clients to
\* acknowledge/close."  But a Disconnect names a player: that of a connection
\* without a seat is taken for the one of the seat, and the process exits
\* before the Client of the seat has passed the signal on.
GracefulShutdown ==
    srv = "done" =>
        \A c \in running \ closed :
            sessions[c] # NoPlayer => Received(c, "Disconnect")

\* bin/sternhalma-server.rs: "If the server logic fails or finishes, it
\* triggers a full application shutdown".  But disconnect_players waits for a
\* Disconnect from every seat, and a Client that ends on a sink error sends
\* none.
ShutsDown == srv = "stop" ~> srv = "done"

=============================================================================
