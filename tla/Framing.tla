------------------------------- MODULE Framing -------------------------------
(***************************************************************************)
(* How litemqtt::connection cuts the byte stream of its socket into        *)
(* packets: two bytes of fixed header, the remaining length digit by       *)
(* digit, the body.  The owner is mqtt_client: its read loop asks for the  *)
(* next packet when it got one, and an error ends the session; a new       *)
(* attempt reuses the connection with a new stream.                        *)
(*                                                                         *)
(* asio::async_read() completes when all the bytes it asked for are there, *)
(* however TCP cuts the stream.  What the owner may do while it connects,  *)
(* and the connect chains of several attempts, are those of Client; here   *)
(* an attempt ends before the next one begins.                             *)
(***************************************************************************)
EXTENDS Bytes, Sequences

CONSTANTS
    Traffic,   \* for each stream, the sequences of frames a peer may send
    Junk       \* the frames among them that must be refused

ASSUME FramingAssumption ==
    /\ Traffic \in Seq(SUBSET Seq(Seq(Nat)))
    /\ \A k \in DOMAIN Traffic : \A t \in Traffic[k] : \A i \in DOMAIN t :
          t[i] # <<>>

\* The first k digits of the remaining length of frame f, the lowest in front.
LengthOf(f, k) ==
    CASE k = 1 -> Digit(f[2])
      [] k = 2 -> Digit(f[2]) + (Digit(f[3]) * Radix)
      [] k = 3 -> Digit(f[2]) + (Digit(f[3]) * Radix)
                     + (Digit(f[4]) * (Radix * Radix))
      [] k = 4 -> Digit(f[2]) + (Digit(f[3]) * Radix)
                     + (Digit(f[4]) * (Radix * Radix))
                     + (Digit(f[5]) * (Radix * Radix * Radix))

\* A frame of a known type with a length of one to four digits, and a body as
\* long as they say.
WellFormed(f) ==
    \E n \in 1 .. 4 :
        /\ Len(f) >= n + 1
        /\ ValidType(f[1])
        /\ \A i \in 2 .. n : Continues(f[i])
        /\ ~Continues(f[n + 1])
        /\ Len(f) = n + 1 + LengthOf(f, n)

ASSUME TrafficAssumption ==
    \A k \in DOMAIN Traffic : \A t \in Traffic[k] : \A i \in DOMAIN t :
        t[i] \in Junk \/ WellFormed(t[i])

VARIABLES
    depth,     \* reading_depth_
    header,    \* read_header_
    length,    \* remaining_length_state of the packet being read
    op,        \* the asio::async_read() outstanding, NoOp if none
    loop,      \* handlers queued in the io_context, first to run first
    open,      \* the socket is open and connected
    closed,    \* closed_ of the client: it has told the application of the end
    dial,      \* a new attempt: what it waits for, or a handler is "queued"
    stream,    \* number of streams so far
    wire,      \* bytes of this stream that are not yet read
    ended,     \* the peer sends nothing more on it
    sent,      \* what the peer sent on it
    got        \* packets the read handler was given on it

reader == <<depth, header, length, op>>
peer == <<wire, ended, sent>>
vars == <<reader, loop, open, closed, dial, stream, peer, got>>

Steps == {"fixed", "length", "body"}
NoOp == [step |-> "none", want |-> 0]

\* A completed read step and its bytes, the error of a failed one, a packet or
\* an error that is posted to the read handler, a step of the connect chain.
Handler(kind, ok, bytes) ==
    [kind |-> kind, ok |-> ok, bytes |-> bytes, stream |-> stream]
Broken(step) == Handler(step, FALSE, <<>>)
Packet(bytes) == Handler("packet", TRUE, bytes)
Error == Handler("error", FALSE, <<>>)
Chain(kind) == Handler(kind, TRUE, <<>>)

NewLength(b) == [bytesRead |-> 1, multiplier |-> Radix, remaining |-> Digit(b)]

Init ==
    /\ depth = 0
    /\ header = <<>>
    /\ length = NewLength(0)
    /\ op = NoOp
    /\ loop = <<>>
    /\ open = FALSE /\ closed = TRUE
    /\ dial = "none"
    /\ stream = 0
    /\ wire = <<>> /\ ended = FALSE
    /\ sent = <<>> /\ got = <<>>

Running(kind) == loop # <<>> /\ Head(loop).kind = kind
Ok == Head(loop).ok
Arg == Head(loop).bytes
-----------------------------------------------------------------------------
(* The reader *)

\* asio::async_read() of n bytes; on a closed socket it fails at once.
AsyncRead(step, n, rest, isOpen) ==
    IF isOpen THEN op' = [step |-> step, want |-> n] /\ loop' = rest
              ELSE op' = NoOp /\ loop' = Append(rest, Broken(step))

\* async_read_packet(), read_fixed_header(): one reader at a time.
AsyncReadPacket(rest, isOpen) ==
    IF depth > 0 THEN UNCHANGED <<depth, op>> /\ loop' = rest
                 ELSE depth' = 1 /\ AsyncRead("fixed", 2, rest, isOpen)

\* The reader is released and its handler posted, with a packet or an error.
Release(handler) ==
    /\ depth' = 0
    /\ op' = NoOp
    /\ loop' = Append(Tail(loop), handler)

\* Mutant: the reader stays taken after an error.
RefuseHolding ==
    /\ op' = NoOp
    /\ loop' = Append(Tail(loop), Error)
    /\ UNCHANGED <<depth, header, length>>

Refuse == Release(Error) /\ UNCHANGED <<header, length>>

\* read_packet_body(): n bytes behind header h, if there are any.
ReadPacketBody(h, n) ==
    IF n = 0 THEN Release(Packet(h))
             ELSE UNCHANGED depth /\ AsyncRead("body", n, Tail(loop), open)

\* What a step of the reader leaves alone.
Aside == <<open, closed, dial, stream, peer, got>>

RunFixedFailed ==
    /\ Running("fixed") /\ ~Ok
    /\ Refuse
    /\ UNCHANGED Aside

RunFixedRefused ==
    /\ Running("fixed") /\ Ok
    /\ ~ValidType(Arg[1])
    /\ Refuse
    /\ UNCHANGED Aside

\* Mutant: read_header_ is not cleared.
HeaderOfAppends(bytes) == header \o bytes
HeaderOf(bytes) == bytes

\* read_fixed_header() and read_remaining_length()
RunFixed ==
    /\ Running("fixed") /\ Ok
    /\ ValidType(Arg[1])
    /\ header' = HeaderOf(Arg)
    /\ length' = NewLength(Arg[2])
    /\ IF Continues(Arg[2])
       THEN UNCHANGED depth /\ AsyncRead("length", 1, Tail(loop), open)
       ELSE ReadPacketBody(HeaderOf(Arg), Digit(Arg[2]))
    /\ UNCHANGED Aside

\* Mutants: the limit is off by one.
TooLongEarly(st) == st.bytesRead > 3
TooLongLate(st) == st.bytesRead > 5
TooLong(st) == st.bytesRead > 4

Assembled(st, b) ==
    [bytesRead  |-> st.bytesRead + 1,
     multiplier |-> st.multiplier * Radix,
     remaining  |-> st.remaining + (Digit(b) * st.multiplier)]

RunLengthFailed ==
    /\ Running("length") /\ ~Ok
    /\ Refuse
    /\ UNCHANGED Aside

\* A fifth length byte has been read, added and multiplied when it is refused.
RunLengthRefused ==
    /\ Running("length") /\ Ok
    /\ length' = Assembled(length, Arg[1])
    /\ TooLong(length')
    /\ Release(Error)
    /\ UNCHANGED <<header, Aside>>

\* Mutant: the parser is not given the length bytes behind the first.
KeepNone(b) == header
Keep(b) == Append(header, b)

\* read_remaining_length_step(): every length byte goes to read_header_.
RunLength ==
    /\ Running("length") /\ Ok
    /\ length' = Assembled(length, Arg[1])
    /\ ~TooLong(length')
    /\ header' = Keep(Arg[1])
    /\ IF Continues(Arg[1])
       THEN UNCHANGED depth /\ AsyncRead("length", 1, Tail(loop), open)
       ELSE ReadPacketBody(header', length'.remaining)
    /\ UNCHANGED Aside

RunBodyFailed ==
    /\ Running("body") /\ ~Ok
    /\ Refuse
    /\ UNCHANGED Aside

RunBody ==
    /\ Running("body") /\ Ok
    /\ Release(Packet(header \o Arg))
    /\ UNCHANGED <<header, length, Aside>>
-----------------------------------------------------------------------------
(* The owner *)

\* The socket closes: the read that is outstanding is aborted.
CloseSocket(rest) ==
    /\ open' = FALSE
    /\ op' = NoOp
    /\ loop' = IF op = NoOp THEN rest ELSE Append(rest, Broken(op.step))
    /\ wire' = <<>>
    /\ UNCHANGED <<depth, header, length, dial, stream, ended, sent, got>>

\* start_read_loop(): the packet is handled and the next one asked for.
RunPacket ==
    /\ Running("packet")
    /\ got' = Append(got, Arg)
    /\ AsyncReadPacket(Tail(loop), open)
    /\ UNCHANGED <<header, length, open, closed, dial, stream, peer>>

\* start_read_loop(): notify_closed_once()
RunErrorIgnored ==
    /\ Running("error")
    /\ closed
    /\ loop' = Tail(loop)
    /\ UNCHANGED <<reader, open, closed, dial, stream, peer, got>>

RunError ==
    /\ Running("error")
    /\ ~closed
    /\ closed' = TRUE
    /\ CloseSocket(Tail(loop))

\* mqtt_client::close(): the handler of a CONNECT still to be written is told
\* and ends the session; later the aborted read does.
OwnerClose ==
    /\ open
    /\ closed' = (dial # "none")
    /\ CloseSocket(loop)

\* A refused CONNACK, a timeout or a failed write ends the session at once.
OwnerAbandon ==
    /\ ~closed
    /\ closed' = TRUE
    /\ CloseSocket(loop)

\* The application starts a new attempt when it was told of the end.
AppConnect ==
    /\ closed /\ dial = "none"
    /\ stream < Len(Traffic)
    /\ dial' = "queued"
    /\ loop' = Append(loop, Chain("connect"))
    /\ UNCHANGED <<reader, open, closed, stream, peer, got>>

RunConnect ==
    /\ Running("connect")
    /\ closed' = FALSE
    /\ dial' = "resolving"
    /\ loop' = Tail(loop)
    /\ UNCHANGED <<reader, open, stream, peer, got>>

RunResolved ==
    /\ Running("resolved")
    /\ dial' = "connecting"
    /\ loop' = Tail(loop)
    /\ UNCHANGED <<reader, open, closed, stream, peer, got>>

\* The TCP connect is done: unless the session has ended meanwhile, the CONNECT
\* is written.
RunConnectedLate ==
    /\ Running("connected")
    /\ closed
    /\ dial' = "none"
    /\ loop' = Tail(loop)
    /\ UNCHANGED <<reader, open, closed, stream, peer, got>>

RunConnected ==
    /\ Running("connected")
    /\ ~closed
    /\ dial' = "writing"
    /\ open' = TRUE
    /\ stream' = stream + 1
    /\ wire' = <<>> /\ ended' = FALSE
    /\ sent' = <<>> /\ got' = <<>>
    /\ loop' = Tail(loop)
    /\ UNCHANGED <<reader, closed>>

\* The CONNECT is written and the read loop starts, unless close() has taken
\* the write handler.
RunWritten ==
    /\ Running("written")
    /\ dial' = "none"
    /\ IF open THEN AsyncReadPacket(Tail(loop), TRUE)
               ELSE UNCHANGED <<depth, op>> /\ loop' = Tail(loop)
    /\ UNCHANGED <<header, length, open, closed, stream, peer, got>>

\* The resolver answers, the TCP connect or the write of the CONNECT is done.
Dialled ==
    /\ dial \in {"resolving", "connecting", "writing"}
    /\ dial' = "queued"
    /\ loop' = Append(loop, Chain(CASE dial = "resolving"  -> "resolved"
                                    [] dial = "connecting" -> "connected"
                                    [] dial = "writing"    -> "written"))
    /\ UNCHANGED <<reader, open, closed, stream, peer, got>>
-----------------------------------------------------------------------------
(* The peer and TCP *)

PeerSends ==
    /\ open /\ ~ended
    /\ \E t \in Traffic[stream] :
          /\ Len(sent) < Len(t) /\ sent = SubSeq(t, 1, Len(sent))
          /\ sent' = Append(sent, t[Len(sent) + 1])
          /\ wire' = wire \o t[Len(sent) + 1]
    /\ UNCHANGED <<reader, loop, open, closed, dial, stream, ended, got>>

\* The stream ends after any byte that is still on its way.
PeerEnds ==
    /\ open /\ ~ended
    /\ ended' = TRUE
    /\ \E n \in 0 .. Len(wire) : wire' = SubSeq(wire, 1, n)
    /\ UNCHANGED <<reader, loop, open, closed, dial, stream, sent, got>>

\* asio::async_read() has all its bytes, or none will follow.
ReadDone ==
    /\ op # NoOp
    /\ op' = NoOp
    /\ \/ /\ Len(wire) >= op.want
          /\ wire' = SubSeq(wire, op.want + 1, Len(wire))
          /\ loop' = Append(loop, Handler(op.step, TRUE,
                                          SubSeq(wire, 1, op.want)))
       \/ /\ ended /\ Len(wire) < op.want
          /\ wire' = <<>>
          /\ loop' = Append(loop, Broken(op.step))
    /\ UNCHANGED <<depth, header, length, open, closed, dial, stream, ended,
                   sent, got>>
-----------------------------------------------------------------------------
IoThread ==
    \/ RunFixedFailed \/ RunFixedRefused \/ RunFixed
    \/ RunLengthFailed \/ RunLengthRefused \/ RunLength
    \/ RunBodyFailed \/ RunBody
    \/ RunPacket \/ RunErrorIgnored \/ RunError
    \/ RunConnect \/ RunResolved \/ RunConnectedLate \/ RunConnected
    \/ RunWritten

Next ==
    \/ IoThread \/ OwnerClose \/ OwnerAbandon \/ AppConnect
    \/ Dialled \/ PeerSends \/ PeerEnds \/ ReadDone

Spec == Init /\ [][Next]_vars

\* The io thread runs what is queued, TCP delivers what was sent before the end
\* of a stream, and its end, and the CONNECT is written in the end.
FairSpec ==
    /\ Spec
    /\ WF_vars(IoThread) /\ WF_vars(ReadDone) /\ WF_vars(Dialled)
-----------------------------------------------------------------------------
(* Properties *)

Lengths == [bytesRead : 1 .. 5, multiplier : Nat, remaining : Nat]
Handlers == [kind : Steps \cup {"packet", "error", "connect", "resolved",
                                "connected", "written"},
             ok : BOOLEAN, bytes : Seq(Nat), stream : Nat]

\* Every variable stays in its type; a length is refused with its fifth byte
\* (connection.hpp:211).
TypeOK ==
    /\ depth \in {0, 1}
    /\ header \in Seq(Nat)
    /\ length \in Lengths
    /\ op \in {NoOp} \cup [step : Steps, want : Nat \ {0}]
    /\ loop \in Seq(Handlers)
    /\ open \in BOOLEAN /\ closed \in BOOLEAN /\ ended \in BOOLEAN
    /\ dial \in {"none", "queued", "resolving", "connecting", "writing"}
    /\ stream \in Nat
    /\ wire \in Seq(Nat) /\ sent \in Seq(Seq(Nat)) /\ got \in Seq(Seq(Nat))

\* An error is told of a live stream only if something it must refuse was sent:
\* no packet that is well formed breaks a connection (connection.hpp:171-255).
NoFalseAlarm ==
    \A i \in DOMAIN loop :
        loop[i].kind = "error" /\ loop[i].stream = stream /\ open /\ ~ended
            => \E j \in DOMAIN sent : sent[j] \in Junk

\* Of frames that are well formed the read handler is given the first, the second
\* and so on, each byte for byte, none lost, repeated or merged with what an
\* earlier packet or stream left in read_header_ (connection.hpp:165-255).
FramesIntact ==
    (\A j \in DOMAIN sent : sent[j] \notin Junk)
        => /\ Len(got) <= Len(sent)
           /\ \A i \in DOMAIN got : got[i] = sent[i]

\* Every packet sent reaches the read handler and the end of a stream is
\* noticed, unless the connection is closed before.
FramesArrive ==
    \A k \in DOMAIN Traffic :
        /\ \A n \in UNION {1 .. Len(t) : t \in Traffic[k]} :
              stream = k /\ Len(sent) >= n
                  ~> stream # k \/ ~open \/ Len(got) >= n
        /\ stream = k /\ ended ~> stream # k \/ ~open
-----------------------------------------------------------------------------
(* A claim that does not hold; no run checks it *)

\* connection.hpp:67 `std::array<uint8_t, 4> byte_buffer`, a place for each byte
\* of a length: a byte is read into the place behind the last one (:200) and then
\* counted, so that of a fifth byte lies behind the array when it is refused.
LengthFits == op.step = "length" => length.bytesRead < 4
=============================================================================
