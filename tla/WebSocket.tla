----------------------------- MODULE WebSocket -----------------------------
(***************************************************************************)
(* FWebSocketConnection: messages cut into frames and put together again,  *)
(* the keep-alive timer, and the ways the socket is closed.                *)
(*                                                                         *)
(* The callbacks of the socket, the connect timeout and the calls of       *)
(* FConnection run on the serial queue of the database, so send: and its   *)
(* frames keep them out.  The timer lives on the main thread: the block    *)
(* that creates it and nop: run beside them.                               *)
(*                                                                         *)
(* A text is a sequence of characters; the decimal digits are 0 .. 9 and   *)
(* Brace is the "{" that every message of the protocol starts with.        *)
(* External: FSRWebSocket, and the server, which frames as this client.    *)
(***************************************************************************)
EXTENDS Integers, Sequences, SequencesExt

CONSTANTS
    kWebsocketMaxFrameSize, \* characters of a frame, 16384 in the code
    Lengths,                \* lengths of the messages
    MaxMessages,            \* messages of each side
    MaxNops                 \* keep-alives that are recorded

VARIABLES
    socket,        \* readyState of the socket: connecting, open, closing, closed
    attached,      \* self.webSocket is not nil
    everConnected, isClosed,
    timeoutSet,    \* closeIfNeverConnected is still to run
    keepAlive,     \* the timer: none, valid, invalid
    mainBlock,     \* the block of webSocketDidOpen waits on the main queue
    nopping,       \* nop: has found the connection not closed
    segments,      \* what send: has still to hand to the socket
    frame, totalFrames, \* frame is << >> for nil, else << text >>
    inbound,       \* frames of the server that the socket has still to deliver
    written,       \* history: texts handed to the socket
    torn,          \* history: a keep-alive was handed over during a send:
    wanted,        \* history: texts given to send:
    posted,        \* history: texts the server sent
    delivered,     \* history: texts passed to onMessage
    closedByOwner, \* history: close was called before the socket ended
    reports        \* history: calls of onDisconnect

webSocketVars == << socket, attached, everConnected, isClosed, timeoutSet, keepAlive,
                    mainBlock, nopping, segments, frame, totalFrames, inbound, written, torn,
                    wanted, posted, delivered, closedByOwner, reports >>

timerVars == << keepAlive, mainBlock, nopping >>
closeVars == << socket, attached, everConnected, isClosed, timeoutSet, closedByOwner, reports >>
outVars == << segments, written, torn, wanted >>
inVars == << frame, totalFrames, inbound, posted, delivered >>

Brace == 10
\* A message: after its brace, only digits, which look like a frame count.
Text(n) == [i \in 1 .. n |-> IF i = 1 THEN Brace ELSE i % 10]
Nop == << 0 >>

-----------------------------------------------------------------------------
(* Frames *)

\* splitString:intoMaxSize:
SplitString(str) ==
    LET size == kWebsocketMaxFrameSize
        from[c \in 0 .. Len(str) + size] ==
            IF c >= Len(str) THEN << >>
            ELSE << SubSeq(str, c + 1, IF c + size > Len(str) THEN Len(str) ELSE c + size) >>
                 \o from[c + size]
    IN  IF Len(str) <= size THEN << str >> ELSE from[0]

\* What send: hands to the socket: the number of segments, if there are
\* several, and the segments.
Frames(str) ==
    LET segs == SplitString(str)
    IN  IF Len(segs) > 1 THEN << << Len(segs) >> >> \o segs ELSE segs

\* NSString intValue: the number the text starts with, or 0.
IntValue(text) ==
    LET value[i \in 0 .. Len(text)] == IF i = 0 THEN 0 ELSE value[i - 1] * 10 + text[i]
        digits == {n \in 0 .. Len(text) : \A i \in 1 .. n : text[i] < 10}
    IN  value[CHOOSE n \in digits : \A m \in digits : m <= n]

\* Mutant of IsFrameCount: the value is not looked at.
IsShort(text) == Len(text) <= 4

\* extractFrameCount
IsFrameCount(text) == Len(text) <= 4 /\ IntValue(text) > 0

\* appendFrame
AppendFrame(text, buffer, total) ==
    /\ totalFrames' = total - 1
    /\ IF total = 1
       THEN frame' = << >> /\ delivered' = Append(delivered, buffer \o text)
       ELSE frame' = << buffer \o text >> /\ UNCHANGED delivered

\* handleIncomingFrame
HandleIncomingFrame(text) ==
    IF frame # << >> THEN AppendFrame(text, frame[1], totalFrames)
    ELSE IF IsFrameCount(text)
         THEN frame' = << << >> >> /\ totalFrames' = IntValue(text) /\ UNCHANGED delivered
         ELSE AppendFrame(text, << >>, 1)

-----------------------------------------------------------------------------
(* The queue of the database.  send: runs to its end before anything else. *)

QueueFree == segments = << >>
IsOpen == attached /\ ~isClosed /\ socket = "open"

\* FConnection sends when the handshake is done.
Send(n) ==
    /\ QueueFree /\ IsOpen /\ Len(wanted) < MaxMessages
    /\ wanted' = Append(wanted, Text(n))
    /\ segments' = Frames(Text(n))
    /\ UNCHANGED << written, torn, closeVars, timerVars, inVars >>
SendFrame ==
    /\ segments # << >>
    /\ written' = Append(written, Head(segments))
    /\ segments' = Tail(segments)
    /\ UNCHANGED << torn, wanted, closeVars, timerVars, inVars >>

\* The socket delivers what it received, after a close: too.
DidReceiveMessage ==
    /\ QueueFree /\ inbound # << >> /\ attached
    /\ HandleIncomingFrame(Head(inbound))
    /\ inbound' = Tail(inbound)
    /\ UNCHANGED << posted, outVars, closeVars, timerVars >>

WebSocketDidOpen ==
    /\ QueueFree /\ socket = "connecting"
    /\ socket' = "open" /\ everConnected' = TRUE /\ mainBlock' = TRUE
    /\ UNCHANGED << attached, isClosed, timeoutSet, closedByOwner, reports, keepAlive,
                    nopping, outVars, inVars >>

CloseSocket == socket' = IF attached /\ socket # "closed" THEN "closing" ELSE socket

CloseIfNeverConnected ==
    /\ QueueFree /\ timeoutSet
    /\ timeoutSet' = FALSE
    /\ IF everConnected THEN UNCHANGED socket ELSE CloseSocket
    /\ UNCHANGED << attached, everConnected, isClosed, closedByOwner, reports, timerVars,
                    outVars, inVars >>

\* close, called by FConnection.
WebSocketClose ==
    /\ QueueFree /\ ~isClosed
    /\ isClosed' = TRUE /\ closedByOwner' = TRUE
    /\ CloseSocket
    /\ UNCHANGED << attached, everConnected, timeoutSet, reports, timerVars, outVars, inVars >>

\* shutdown, unless the connection was closed before.
Shutdown == IF isClosed THEN UNCHANGED << isClosed, reports >>
            ELSE isClosed' = TRUE /\ reports' = reports + 1

\* The socket fails or is closed: onClosed.
OnClosed ==
    /\ QueueFree /\ socket # "closed"
    /\ socket' = "closed"
    /\ Shutdown
    /\ attached' = FALSE
    /\ keepAlive' = IF keepAlive = "valid" THEN "invalid" ELSE keepAlive
    /\ UNCHANGED << everConnected, timeoutSet, closedByOwner, mainBlock, nopping, outVars, inVars >>

-----------------------------------------------------------------------------
(* The main thread *)

MainFree == ~nopping
StartKeepAlive ==
    /\ MainFree /\ mainBlock
    /\ mainBlock' = FALSE /\ keepAlive' = "valid"
    /\ UNCHANGED << nopping, closeVars, outVars, inVars >>

\* nop: finds the connection closed.
NopClosed == keepAlive' = "invalid"
NopFires ==
    /\ MainFree /\ keepAlive = "valid"
    /\ IF isClosed THEN NopClosed /\ UNCHANGED nopping
       ELSE nopping' = TRUE /\ UNCHANGED keepAlive
    /\ UNCHANGED << mainBlock, closeVars, outVars, inVars >>
\* Messages to a nil socket do nothing.
Nops == Len(SelectSeq(written, LAMBDA text : text = Nop))
NopSends ==
    /\ nopping
    /\ nopping' = FALSE
    /\ IF attached /\ Nops < MaxNops
       THEN written' = Append(written, Nop) /\ torn' = (torn \/ segments # << >>)
       ELSE UNCHANGED << written, torn >>
    /\ UNCHANGED << keepAlive, mainBlock, segments, wanted, closeVars, inVars >>

-----------------------------------------------------------------------------
ServerSends(n) ==
    /\ socket = "open" /\ Len(posted) < MaxMessages
    /\ posted' = Append(posted, Text(n))
    /\ inbound' = inbound \o Frames(Text(n))
    /\ UNCHANGED << frame, totalFrames, delivered, outVars, closeVars, timerVars >>

WebSocketInit ==
    /\ socket = "connecting" /\ attached = TRUE /\ everConnected = FALSE /\ isClosed = FALSE
    /\ timeoutSet = TRUE /\ keepAlive = "none" /\ mainBlock = FALSE /\ nopping = FALSE
    /\ segments = << >> /\ frame = << >> /\ totalFrames = 0 /\ inbound = << >>
    /\ written = << >> /\ torn = FALSE /\ wanted = << >> /\ posted = << >> /\ delivered = << >>
    /\ closedByOwner = FALSE /\ reports = 0

WebSocketNext ==
    \/ \E n \in Lengths : Send(n)
    \/ SendFrame
    \/ \E n \in Lengths : ServerSends(n)
    \/ DidReceiveMessage
    \/ WebSocketDidOpen
    \/ CloseIfNeverConnected
    \/ WebSocketClose
    \/ OnClosed
    \/ StartKeepAlive
    \/ NopFires
    \/ NopSends

\* The main run loop goes on: its blocks run and a valid timer fires again.
MainThreadRuns ==
    /\ WF_webSocketVars(StartKeepAlive)
    /\ WF_webSocketVars(NopFires)
    /\ WF_webSocketVars(NopSends)

-----------------------------------------------------------------------------
(* Properties *)

\* The messages handed to FConnection are those the server sent, whole and in
\* order, although the segments of a message look like the frame count of the
\* next one; when all frames have been received none is missing.
Reassembled ==
    /\ IsPrefix(delivered, posted)
    /\ inbound = << >> => delivered = posted /\ frame = << >>

\* A server that reads as this client does gets the messages that were sent,
\* keep-alives between them included (the text of one is no message), unless a
\* keep-alive was handed to the socket while send: was handing over segments.
ServerReads ==
    LET Read(s, text) ==
            LET total == IF s.frame = << >> THEN 1 ELSE s.total
                whole == (IF s.frame = << >> THEN << >> ELSE s.frame[1]) \o text
            IN  IF s.frame = << >> /\ IsFrameCount(text)
                THEN [s EXCEPT !.frame = << << >> >>, !.total = IntValue(text)]
                ELSE IF total > 1 THEN [s EXCEPT !.frame = << whole >>, !.total = total - 1]
                ELSE [frame |-> << >>, total |-> 0,
                      got |-> IF whole[1] = Brace THEN Append(s.got, whole) ELSE s.got]
        after[i \in 0 .. Len(written)] ==
            IF i = 0 THEN [frame |-> << >>, total |-> 0, got |-> << >>]
            ELSE Read(after[i - 1], written[i])
    IN  segments = << >> /\ ~torn => after[Len(written)].got = wanted

\* FConnection is told of the end of the socket exactly once, unless it closed
\* the connection itself; then never.
ReportedOnce ==
    /\ reports = (IF isClosed /\ ~closedByOwner THEN 1 ELSE 0)
    /\ socket = "closed" => isClosed

\* Once the connection is closed the timer, which keeps it alive, comes to its
\* end, even if the block that creates the timer runs after the close.
KeepAliveEnds == isClosed ~> (keepAlive # "valid" /\ ~mainBlock)

\* What FConnection may expect of the socket: messages whole and in order both
\* ways, one report of its end, and no timer that outlives it.
SocketPromises == [](Reassembled /\ ServerReads /\ ReportedOnce) /\ KeepAliveEnds
=============================================================================
