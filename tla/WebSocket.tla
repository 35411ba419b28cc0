------------------------------- MODULE WebSocket -------------------------------
(***************************************************************************)
(* The server's side of a WebSocket connection                              *)
(* (crates/gunda-capture/src/websocket.rs): frames in, whole messages out.   *)
(* A payload is a chunk: its number of bytes, and whether it cuts a          *)
(* character of more than one byte at its end or its start.                 *)
(***************************************************************************)
EXTENDS Integers, SequencesExt

CONSTANT MaxMessage    \* the bytes of a message, and of a frame, at most

---------------------------------------------------------------------------
(* The length of a payload: 7 bits, or 2 or 8 bytes behind a mark.           *)

BigEndian(n, bytes) == [i \in 1..bytes |-> IF bytes - i > 3 THEN 0 ELSE (n \div 256^(bytes - i)) % 256]
FromBigEndian(bytes) == FoldLeft(LAMBDA n, b : 256 * n + b, 0, bytes)

LengthField(n) ==
    CASE n < 126 -> <<n>>
      [] n \in 126..65535 -> <<126>> \o BigEndian(n, 2)
      [] OTHER -> <<127>> \o BigEndian(n, 8)

ReadLength(field) ==
    IF field[1] \in {126, 127} THEN FromBigEndian(Tail(field)) ELSE field[1]

---------------------------------------------------------------------------
(* What a connection has received: the messages it returned and the pings    *)
(* it answered; the message under way; and how the connection stands.        *)

Connected == [texts |-> <<>>, pongs |-> <<>>, message |-> <<>>, started |-> FALSE, state |-> "open"]

Size(message) == FoldLeft(LAMBDA n, chunk : n + chunk.length, 0, message)

(* Valid UTF-8: a cut character goes on in the next chunk, and only there.   *)
Utf8(message) ==
    \A i \in 0..Len(message) :
        (i > 0 /\ message[i].cut = "end") = (i < Len(message) /\ message[i + 1].cut = "start")

Decode(session, message) ==
    IF Utf8(message)
    THEN [session EXCEPT !.texts = Append(@, message), !.message = <<>>, !.started = FALSE]
    ELSE [session EXCEPT !.state = "protocol"]

\* A mutant: the bound is of every frame, not of the message.
Pushed_EachFrame(session, frame) ==
    LET message == Append(session.message, frame.chunk)
    IN  CASE frame.chunk.length > MaxMessage -> [session EXCEPT !.state = "large"]
          [] frame.fin -> Decode(session, message)
          [] OTHER -> [session EXCEPT !.message = message, !.started = TRUE]

Pushed(session, frame) ==
    LET message == Append(session.message, frame.chunk)
    IN  CASE Size(message) > MaxMessage -> [session EXCEPT !.state = "large"]
          [] Size(message) <= MaxMessage /\ frame.fin -> Decode(session, message)
          [] OTHER -> [session EXCEPT !.message = message, !.started = TRUE]

ControlCodes == {"close", "ping", "pong", "reserved control"}

(* read_frame: what makes the frame itself unacceptable, in its order.       *)
FrameError(frame) ==
    LET length == ReadLength(frame.length)
    IN  CASE frame.reserved \/ ~frame.masked -> "protocol"
          [] ~frame.reserved /\ frame.masked /\ frame.opcode \in ControlCodes
               /\ (~frame.fin \/ length > 125) -> "protocol"
          [] ~frame.reserved /\ frame.masked /\ ~(frame.opcode \in ControlCodes)
               /\ length > MaxMessage -> "large"
          [] OTHER -> "none"

(* receive, called again after each message, for one frame.                  *)
Received(session, frame) ==
    CASE session.state # "open" -> session
      [] session.state = "open" /\ FrameError(frame) # "none" -> [session EXCEPT !.state = FrameError(frame)]
      [] OTHER ->
            CASE frame.opcode = "ping" -> [session EXCEPT !.pongs = Append(@, frame.chunk)]
              [] frame.opcode = "pong" -> session
              [] frame.opcode = "close" -> [session EXCEPT !.state = "closed"]
              [] frame.opcode = "text" /\ ~session.started -> Pushed(session, frame)
              [] frame.opcode = "continuation" /\ session.started -> Pushed(session, frame)
              [] OTHER -> [session EXCEPT !.state = "protocol"]

Session(frames) == FoldLeft(Received, Connected, frames)
================================================================================
