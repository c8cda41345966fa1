------------------------------ MODULE Transport ------------------------------
(***************************************************************************)
(* What a ClientStream yields of what the far end sends: the codec of the  *)
(* raw TCP connections (server/protocol.rs, in a tokio_util Framed) and    *)
(* the adapter of the WebSockets (server/ws.rs).                           *)
(*                                                                         *)
(*   Choice    RemoteInMessage::Choice, by the turn it answers             *)
(*   Other     another RemoteInMessage                                     *)
(*   Garbled   no RemoteInMessage: on a WebSocket also a control or text   *)
(*             frame, a Ping for one                                       *)
(*   Eof       the end of the stream                                       *)
(***************************************************************************)
EXTENDS Channels

CONSTANT Tcp        \* the connections over raw TCP; the others are WebSockets

ASSUME TransportAssumption == Tcp \subseteq Conns

Frames == [type : {"Choice", "Other", "Garbled", "Eof"}, turn : Nat]

Choice(t) == [type |-> "Choice", turn |-> t]

Frame(type) == [type |-> type, turn |-> 0]

\* Mutant of AfterError: an error ends every stream.
EofAfterError(c, rest) == <<Frame("Eof")>>

\* The item after an error.  Framed ends the stream; the adapter maps each
\* message by itself and goes on.
AfterError(c, rest) == IF c \in Tcp THEN <<Frame("Eof")>> ELSE rest

=============================================================================
