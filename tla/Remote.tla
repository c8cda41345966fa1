------------------------------- MODULE Remote -------------------------------
(***************************************************************************)
(* The network and the remote clients at its far end.  They are not part   *)
(* of the server: what they may do is taken from how server/client.rs and  *)
(* server/handshake.rs read the stream and use the sink, and from the      *)
(* clients of the tests.  A connection delivers in order; it may close at  *)
(* any moment, losing what was under way in either direction.              *)
(***************************************************************************)
EXTENDS Transport, FiniteSets

CONSTANTS ChoicesPerTurn,   \* answers a remote player sends to one Turn
          Reliable,         \* TRUE: connections close only after a Disconnect
          MaxClosed,        \* bound of the model: closures of connections
          MaxStray          \* bound of the model: messages not called for

ASSUME RemoteAssumption ==
    /\ ChoicesPerTurn \in Nat \ {0}
    /\ Reliable \in BOOLEAN
    /\ MaxClosed \in Nat
    /\ MaxStray \in Nat

VARIABLES
    inbox,          \* connection -> every RemoteOutMessage delivered on it
    to_server,      \* connection -> frames under way
    chosen,         \* connection -> Choices sent since the last Turn
    stray,          \* connections that have sent what nobody asked for
    closed          \* connections closed from the far end

remoteVars == <<inbox, to_server, chosen, stray, closed>>

\* player is relative: every remote player sees itself as Player1.
RemoteOutMessages ==
    [type : {"Welcome", "Reject", "Disconnect", "Turn", "Movement",
             "GameFinished"},
     player : Players \cup {NoPlayer}, turn : Nat]

RemoteInit ==
    /\ inbox = [c \in Conns |-> <<>>]
    /\ to_server = [c \in Conns |-> <<>>]
    /\ chosen = [c \in Conns |-> 0]
    /\ stray = {}
    /\ closed = {}

RemoteTypeOK ==
    /\ inbox \in [Conns -> Seq(RemoteOutMessages)]
    /\ to_server \in [Conns -> Seq(Frames)]
    /\ chosen \in [Conns -> Nat]
    /\ stray \in SUBSET Conns
    /\ closed \in SUBSET Conns

Got(c, type) == {i \in 1..Len(inbox[c]) : inbox[c][i].type = type}

Received(c, type) == Got(c, type) # {}

\* sink.send returned Ok: the message arrives, unless the far end is gone.
\* It may await room in the socket for as long as an open far end does not
\* read; here it completes at once.  So a far end reads what it is sent, if
\* late, or closes: an assumption, which all fairness of a Client rests on.
\* A new Turn starts a new answer.
Deliver(c, m) ==
    IF c \in closed
    THEN UNCHANGED <<inbox, chosen>>
    ELSE /\ inbox' = [inbox EXCEPT ![c] = Append(@, m)]
         /\ chosen' = IF m.type = "Turn" THEN [chosen EXCEPT ![c] = 0]
                      ELSE chosen

\* Only a connection whose far end is gone makes sink.send fail.
SinkFails(c) == c \in closed

----------------------------------------------------------------------------
\* The remote player answers the last Turn it was sent.  (What it sends on a
\* connection the server has dropped is lost.)
RemoteChoose(c) ==
    /\ c \in running /\ c \notin closed
    /\ chosen[c] < ChoicesPerTurn
    /\ \E i \in Got(c, "Turn") :
        /\ \A j \in Got(c, "Turn") : j <= i
        /\ to_server' = [to_server EXCEPT ![c] =
                            Append(@, Choice(inbox[c][i].turn))]
    /\ chosen' = [chosen EXCEPT ![c] = @ + 1]
    /\ UNCHANGED <<inbox, stray, closed, channelVars>>

MayStray(c) == c \notin stray /\ Cardinality(stray) < MaxStray

\* A second Hello or Reconnect, or a frame that is no message.  The latter
\* ends a TCP connection, which a reliable player does not do.
RemoteStray(c) ==
    /\ c \in running /\ c \notin closed
    /\ MayStray(c)
    /\ \E type \in {"Other", "Garbled"} :
        /\ Reliable /\ c \in Tcp /\ type = "Garbled" =>
            Received(c, "Disconnect")
        /\ to_server' = [to_server EXCEPT ![c] = Append(@, Frame(type))]
    /\ stray' = stray \cup {c}
    /\ UNCHANGED <<inbox, chosen, closed, channelVars>>

\* The remote client leaves, or the connection breaks: a suffix of what it
\* sent is lost with it.
RemoteClose(c) ==
    /\ c \notin closed
    /\ Reliable => Received(c, "Disconnect")
    /\ Cardinality(closed) < MaxClosed
    /\ closed' = closed \cup {c}
    /\ \E n \in 0..Len(to_server[c]) :
        to_server' = [to_server EXCEPT ![c] = SubSeq(@, 1, n)]
    /\ UNCHANGED <<inbox, chosen, stray, channelVars>>

=============================================================================
