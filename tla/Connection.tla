----------------------------- MODULE Connection -----------------------------
(***************************************************************************)
(* litemqtt::connection: the connect chain, the write queue and close(),   *)
(* with the handlers of the single io thread run in the order in which the *)
(* io_context queued them.                                                 *)
(*                                                                         *)
(* The class itself puts no condition on its calls.  The owner makes them  *)
(* at any moment, as mqtt_client does when it begins a chain while an old  *)
(* resolver works or marks a closed connection, unless it is orderly: then *)
(* it keeps to one chain at a time, and some of what the source promises   *)
(* holds for such an owner only.                                           *)
(*                                                                         *)
(* Frames are numbered by the order of the async_write_packet() calls; a   *)
(* frame stands for its buffer and its handler.  The handlers of Closers   *)
(* call close(), as the one of mqtt_client::async_disconnect() does; that  *)
(* is all a handler does to the connection.  A host has one address: a     *)
(* connect that was aborted does not go on to the next.                    *)
(***************************************************************************)
EXTENDS ConnectionOps

CONSTANTS MaxCalls,     \* bound on async_write_packet() calls
          MaxConnects,  \* bound on async_connect() calls
          Closers       \* frames whose handler calls close()

ASSUME ConnectionAssumption ==
    /\ MaxCalls \in Nat
    /\ MaxConnects \in Nat
    /\ Closers \subseteq 1 .. MaxCalls
    /\ NoItem \notin 1 .. MaxCalls

Frames == 1 .. MaxCalls

\* What the io_context may have queued: a posted call, or the completion of
\* an asynchronous operation (ok says whether it succeeded).
FrameHandlers == [kind : {"enqueue", "aborted"}, frame : Frames]
OtherHandlers == [kind : {"failPending"}]
Completions == [kind : {"resolved", "connected", "written"}, ok : BOOLEAN]
Handlers == FrameHandlers \cup OtherHandlers \cup Completions

VARIABLES conn,        \* the connection object
          loop,        \* handlers queued in the io_context, first to run first
          resolving,   \* how many async_resolve() are outstanding
          connecting,  \* an asio::async_connect() is outstanding
          ops,         \* frames whose asio::async_write() is outstanding
          calls,       \* async_write_packet() calls so far
          connects,    \* async_connect() calls so far
          reports,     \* how often the handler of each frame ran
          good,        \* frames whose handler ran with success
          wire,        \* frames in the order their writes were started
          delivered,   \* frames whose bytes the peer took completely
          orderly      \* does the owner keep to one connect chain at a time?

net == <<resolving, connecting, ops>>
history == <<reports, good, wire, delivered>>
vars == <<conn, loop, net, calls, connects, history, orderly>>

Init ==
    /\ orderly \in BOOLEAN
    /\ conn = NewConnection
    /\ loop = <<>>
    /\ resolving = 0 /\ connecting = FALSE /\ ops = <<>>
    /\ calls = 0 /\ connects = 0
    /\ reports = [f \in Frames |-> 0]
    /\ good = {}
    /\ wire = <<>>
    /\ delivered = {}

Has(kind) == \E i \in 1 .. Len(loop) : loop[i].kind = kind

\* An attempt is under way: resolving, connecting or about to be told so.
ChainActive ==
    resolving > 0 \/ connecting \/ Has("resolved") \/ Has("connected")
-----------------------------------------------------------------------------
(* Calls of the owner *)

\* async_write_packet(): any thread; only posts.  An orderly owner submits no
\* frame while a connect is under way.
AsyncWritePacket ==
    /\ calls < MaxCalls
    /\ orderly => ~ChainActive
    /\ calls' = calls + 1
    /\ loop' = Append(loop, [kind |-> "enqueue", frame |-> calls + 1])
    /\ UNCHANGED <<conn, net, connects, history>>

\* What an orderly owner makes sure of before async_connect(): the previous
\* chain has ended and there is no live session.
MayConnect ==
    /\ ~ChainActive
    /\ conn.closed \/ conn.state \in {"disconnected", "connecting"}

\* async_connect(), also next to the chain of an earlier call.
AsyncConnect ==
    /\ connects < MaxConnects
    /\ orderly => MayConnect
    /\ connects' = connects + 1
    /\ conn' = BeginConnect(conn)
    /\ resolving' = resolving + 1
    /\ UNCHANGED <<loop, connecting, ops, calls, history>>

\* mark_connected(), when the owner handles a CONNACK; one of an orderly owner
\* is never late.
MarkConnected ==
    /\ orderly => conn.state = "handshaking"
    /\ conn' = [conn EXCEPT !.state = "connected"]
    /\ UNCHANGED <<loop, net, calls, connects, history>>

\* Closing the socket queues the aborted completions of what is outstanding.
\* The resolver is a separate object: it is not cancelled.
Aborted ==
    [i \in 1 .. Len(ops) |-> [kind |-> "written", ok |-> FALSE]]
    \o (IF connecting THEN <<[kind |-> "connected", ok |-> FALSE]>> ELSE <<>>)

\* The connection becomes c while rest stays queued: if that closed the
\* socket, the outstanding operations are aborted.
Become(c, rest) ==
    /\ conn' = c
    /\ IF conn.open /\ ~c.open
       THEN /\ loop' = rest \o Aborted
            /\ ops' = <<>>
            /\ connecting' = FALSE
       ELSE /\ loop' = rest
            /\ UNCHANGED <<ops, connecting>>

\* The handlers of the frames in told run, with success for those in fine.
Tell(told, fine) ==
    /\ reports' = [f \in Frames |-> IF f \in told THEN reports[f] + 1
                                                  ELSE reports[f]]
    /\ good' = good \cup fine

\* close() called by the owner.
OwnerClose ==
    /\ Become(Close(conn), loop)
    /\ Tell(CloseTells(conn), {})
    /\ UNCHANGED <<resolving, calls, connects, wire, delivered>>
-----------------------------------------------------------------------------
(* The network *)

ResolveDone ==
    /\ resolving > 0
    /\ resolving' = resolving - 1
    /\ \E ok \in BOOLEAN :
          loop' = Append(loop, [kind |-> "resolved", ok |-> ok])
    /\ UNCHANGED <<conn, connecting, ops, calls, connects, history>>

ConnectDone ==
    /\ connecting
    /\ connecting' = FALSE
    /\ \E ok \in BOOLEAN :
          loop' = Append(loop, [kind |-> "connected", ok |-> ok])
    /\ UNCHANGED <<conn, resolving, ops, calls, connects, history>>

\* The peer took the bytes of the oldest write, or the stream broke.
WriteDone ==
    /\ ops # <<>>
    /\ ops' = Tail(ops)
    /\ \E ok \in BOOLEAN :
          /\ loop' = Append(loop, [kind |-> "written", ok |-> ok])
          /\ delivered' = IF ok THEN delivered \cup {Head(ops)} ELSE delivered
    /\ UNCHANGED <<conn, resolving, connecting, calls, connects,
                   reports, good, wire>>
-----------------------------------------------------------------------------
(* Handlers run by the io thread *)

Running(kind) == loop # <<>> /\ Head(loop).kind = kind

\* A handler of items that were taken out of c runs; a closer closes c.
AfterHandlers(c, items) ==
    IF items \cap Closers # {} THEN Close(c) ELSE c
TellsAfter(c, items) ==
    IF items \cap Closers # {} THEN items \cup CloseTells(c) ELSE items

\* do_write() at the end of a handler, with rest still queued behind it.
ThenDoWrite(c, rest) ==
    /\ conn' = DoWrite(c)
    /\ loop' = IF PostsFailure(c)
               THEN Append(rest, [kind |-> "failPending"]) ELSE rest
    /\ ops' = IF StartsWrite(c) THEN Append(ops, Head(c.queue)) ELSE ops
    /\ wire' = IF StartsWrite(c) THEN Append(wire, Head(c.queue)) ELSE wire

\* The posted enqueue_write().
RunEnqueue ==
    /\ Running("enqueue")
    /\ LET f == Head(loop).frame
       IN  IF conn.closed
           THEN /\ loop' = Append(Tail(loop), [kind |-> "aborted", frame |-> f])
                /\ UNCHANGED <<conn, ops, wire>>
           ELSE ThenDoWrite(Enqueue(conn, f), Tail(loop))
    /\ UNCHANGED <<resolving, connecting, calls, connects,
                   reports, good, delivered>>

\* The posted report of a write that met a closed connection.
RunAborted ==
    /\ Running("aborted")
    /\ LET told == {Head(loop).frame}
       IN  /\ Become(AfterHandlers(conn, told), Tail(loop))
           /\ Tell(TellsAfter(conn, told), {})
    /\ UNCHANGED <<resolving, calls, connects, wire, delivered>>

\* The posted fail_pending_writes().
RunFailPending ==
    /\ Running("failPending")
    /\ LET c == FailPending(conn)
           told == Queued(conn)
       IN  /\ Become(AfterHandlers(c, told), Tail(loop))
           /\ Tell(TellsAfter(c, told), {})
    /\ UNCHANGED <<resolving, calls, connects, wire, delivered>>

\* A write completed after close() took the item: stay quiet.
RunWrittenQuiet ==
    /\ Running("written")
    /\ TakenOver(conn)
    /\ loop' = Tail(loop)
    /\ UNCHANGED <<conn, net, calls, connects, history>>

\* A write succeeded: its handler runs, then the next frame is started.  A
\* handler that closes leaves nothing to start.
RunWrittenOk ==
    /\ Running("written") /\ Head(loop).ok
    /\ ~TakenOver(conn)
    /\ LET item == conn.inFlight
           c == TakeInFlight(conn)
       IN  /\ Tell(TellsAfter(c, {item}), {item})
           /\ IF item \in Closers
              THEN Become(Close(c), Tail(loop)) /\ UNCHANGED wire
              ELSE ThenDoWrite(c, Tail(loop)) /\ UNCHANGED connecting
    /\ UNCHANGED <<resolving, calls, connects, delivered>>

\* A write failed: its handler runs, the socket is dropped and everything
\* that waits fails too.
RunWrittenFailed ==
    /\ Running("written") /\ ~Head(loop).ok
    /\ ~TakenOver(conn)
    /\ LET told == {conn.inFlight} \cup Queued(conn)
           c == FailPending(DropSocket(TakeInFlight(conn)))
       IN  /\ Become(AfterHandlers(c, told), Tail(loop))
           /\ Tell(TellsAfter(c, told), {})
    /\ UNCHANGED <<resolving, calls, connects, wire, delivered>>

\* The resolver answered.  asio::async_connect() closes a socket that is still
\* open and opens it anew; on failure the owner's handler runs and state_
\* stays "connecting".
RunResolved ==
    /\ Running("resolved")
    /\ IF Head(loop).ok
       THEN /\ conn' = [conn EXCEPT !.open = TRUE]
            /\ connecting' = TRUE
            /\ ops' = <<>>
            /\ loop' = Tail(loop) \o (IF conn.open THEN Aborted ELSE <<>>)
       ELSE /\ loop' = Tail(loop)
            /\ UNCHANGED <<conn, connecting, ops>>
    /\ UNCHANGED <<resolving, calls, connects, history>>

\* The connect finished: state_ follows, whatever close() did meanwhile.
RunConnected ==
    /\ Running("connected")
    /\ conn' = [conn EXCEPT !.state = IF Head(loop).ok THEN "handshaking"
                                                       ELSE "disconnected"]
    /\ loop' = Tail(loop)
    /\ UNCHANGED <<net, calls, connects, history>>
-----------------------------------------------------------------------------
Owner == AsyncWritePacket \/ AsyncConnect \/ MarkConnected \/ OwnerClose
Network == ResolveDone \/ ConnectDone \/ WriteDone
IoThread ==
    \/ RunEnqueue \/ RunAborted \/ RunFailPending
    \/ RunWrittenQuiet \/ RunWrittenOk \/ RunWrittenFailed
    \/ RunResolved \/ RunConnected

Next == (Owner \/ Network \/ IoThread) /\ UNCHANGED orderly

Spec == Init /\ [][Next]_vars

\* The io thread runs what is queued, and a write does not hang for ever: the
\* peer reads, or TCP gives the stream up.
FairSpec ==
    /\ Spec
    /\ WF_vars(IoThread /\ UNCHANGED orderly)
    /\ WF_vars(WriteDone /\ UNCHANGED orderly)
-----------------------------------------------------------------------------
(* Properties *)

\* Every variable that changes stays in its type.
TypeOK ==
    /\ conn \in Connections(Frames)
    /\ loop \in Seq(Handlers)
    /\ resolving \in Nat /\ connecting \in BOOLEAN
    /\ ops \in Seq(Frames)
    /\ calls \in 0 .. MaxCalls
    /\ connects \in 0 .. MaxConnects
    /\ reports \in [Frames -> Nat]
    /\ good \in SUBSET Frames
    /\ wire \in Seq(Frames)
    /\ delivered \in SUBSET Frames

\* Places of the io_context queue that carry frame f.
Carriers(f) ==
    {i \in 1 .. Len(loop) : loop[i].kind \in {"enqueue", "aborted"}
                            /\ loop[i].frame = f}
\* Places of write_queue_ that hold frame f.
Slots(f) == {i \in 1 .. Len(conn.queue) : conn.queue[i] = f}

\* Nobody hears twice about a frame, and a frame that was reported is not held
\* anywhere any more: enqueue_write(), close(), fail_pending_writes() and the
\* write completion hand each handler over to exactly one of them.
ReportedAtMostOnce ==
    \A f \in Frames :
        /\ reports[f] <= 1
        /\ reports[f] = 1 => f \notin Held(conn) /\ Carriers(f) = {}

\* No frame of an orderly owner is lost on the way: every one that was submitted
\* is with the io_context, in the queue or in flight, or its handler has run.
NothingLost == orderly =>
    \A f \in 1 .. calls :
        \/ Carriers(f) # {}
        \/ f \in Held(conn)
        \/ reports[f] >= 1

\* connection.hpp:45 "overlapping asio::async_write() calls on the same socket
\* are not allowed": one write of an orderly owner is outstanding at most, and
\* its buffer is the one in_flight_ keeps alive.
OneWriteAtATime == orderly =>
    /\ Len(ops) <= 1
    /\ ops # <<>> => conn.inFlight = ops[1]

\* A closed connection holds no handler (connection.hpp:274-278, 376-379): what
\* it held would keep its owner alive in a cycle.
ClosedHoldsNothing == conn.closed => Held(conn) = {}

\* connection.hpp:44 "Frames are written strictly one after another", and :264
\* "frames reach the wire in the order they were queued": the order of the
\* async_write_packet() calls.
WireInCallOrder ==
    \A i, j \in 1 .. Len(wire) : i < j => wire[i] < wire[j]

\* Success is reported only for frames the peer took completely: with an orderly
\* owner the completion of a write never finds another's item in in_flight_.
GoodWasDelivered == orderly => good \subseteq delivered

\* close() leaves no open socket behind: a closed connection reports itself
\* disconnected and holds no descriptor.
ClosedIsDown == conn.closed => ~conn.open /\ conn.state = "disconnected"

\* Every write of an orderly owner is reported in the end: one that can never
\* make progress fails instead of waiting for ever (connection.hpp:301-304).
EveryWriteReported ==
    \A f \in Frames : (orderly /\ calls >= f) ~> (reports[f] >= 1)
=============================================================================
