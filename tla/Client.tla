------------------------------- MODULE Client -------------------------------
(***************************************************************************)
(* litemqtt::mqtt_client on top of litemqtt::connection: one session at a  *)
(* time with a broker, the CONNECT handshake and its timeout, the QoS 0-2  *)
(* publish flows with their retry timers, subscribes, keep-alive pings,    *)
(* and the teardown by notify_closed_once().                               *)
(*                                                                         *)
(* Everything runs on one io thread, which takes handlers from a FIFO of   *)
(* posted calls, I/O completions and expired timers.  Cancelling a timer   *)
(* does not revoke a handler that is already queued.                       *)
(***************************************************************************)
EXTENDS ConnectionOps, PacketIdOps, FiniteSets

CONSTANT Setups   \* what TLC explores: see Setup

FaultKinds == {"resolve",  \* the resolver may fail
               "connect",  \* the TCP connect may fail
               "refuse",   \* the broker may refuse the CONNECT
               "silent",   \* the broker may leave a packet unanswered
               "drop",     \* the peer may close the stream
               "write"}    \* a write may fail

\* The settings of a client, the calls of its application and what its
\* surroundings may do, none of which changes during a behaviour.
Setup ==
    [publishes  : Seq(0 .. 3),   \* qos of each async_publish(), in call order
     subscribes : Seq(0 .. 3),   \* qos of each async_subscribe(), in call order
     inbound    : Nat,           \* bound on PUBLISH packets the broker sends
     inboundQos : SUBSET (0 .. 3),
     subacks    : SUBSET {"granted", "refused", "short"}, \* short: too few codes
     attempts   : Nat,           \* bound on async_connect() calls
     pending    : Nat,           \* kMaxPendingPublishes (1000 in the code)
     sends      : Nat \ {0},     \* attempts of a retry timer (3 in the code)
     keepAlive  : BOOLEAN,       \* keep_alive_seconds_ > 0
     timeout    : BOOLEAN,       \* connect_timeout_ms_ > 0
     early      : BOOLEAN,       \* may it subscribe before it is connected?
     disconnects: BOOLEAN,       \* may it call async_disconnect() ...
     closes     : BOOLEAN,       \* ... and close()?
     faults     : SUBSET FaultKinds]

ASSUME ClientAssumption == Setups \subseteq Setup

VARIABLE setup

PubQos == setup.publishes
SubQos == setup.subscribes
NumSubs == Len(SubQos)
MaxPending == setup.pending
MaxSends == setup.sends
KeepAlive == setup.keepAlive
ConnectTimeout == setup.timeout
Faults == setup.faults

PubCalls == 1 .. Len(PubQos)
SubCalls == 1 .. NumSubs

\* Frames the client writes: pid is the packet identifier (0 if none), call the
\* async_publish() or async_subscribe() call it belongs to (0 if none).
FrameTypes == {"CONNECT", "PUBLISH", "PUBREL", "SUBSCRIBE", "PINGREQ",
               "PUBACK", "PUBREC", "PUBCOMP", "DISCONNECT"}
Frame(type, pid, call) == [type |-> type, pid |-> pid, call |-> call]
Plain(type) == Frame(type, 0, 0)

\* A null in_flight_ is not a frame.
ASSUME NoItemAssumption ==
    NoItem \notin [type : FrameTypes, pid : Nat, call : Nat]

\* Packets the broker sends; how is the CONNACK, SUBACK code or the qos.
Packet(type, pid, how) == [type |-> type, pid |-> pid, how |-> how]
BrokenRead == Packet("broken", 0, "none")   \* the read handler gets an error

\* Handlers in the io_context queue.
Handler(kind, arg) == [kind |-> kind, arg |-> arg]
Send(frame) == Handler("enqueue", frame)    \* the post of async_write_packet()

VARIABLES
    ses,         \* the members of mqtt_client, see NewSession
    conn,        \* *conn_
    nextPacketId,\* next_packet_id_
    loop,        \* handlers queued in the io_context, first to run first
    resolving,   \* async_resolve() calls that are outstanding
    connecting,  \* an asio::async_connect() is outstanding
    ops,         \* frames whose asio::async_write() is outstanding
    readBusy,    \* reading_depth_ > 0
    readOp,      \* the asio::async_read() behind it is outstanding
    inbox,       \* packets on their way from the broker to this socket
    inbound,     \* PUBLISH packets the broker sent so far
    app,         \* the application: "idle", "posted", "trying", "up", "down"
    attempts,    \* async_connect() calls so far
    pubCalls,    \* async_publish() calls so far
    subCalls,    \* async_subscribe() calls so far
    quit,        \* the application called async_disconnect() or close()
    reported,    \* outcomes the on_connect callback got for this attempt
    pubAnswers,  \* outcomes each publish callback got
    subAnswers,  \* outcomes each subscribe callback got
    sent,        \* PUBLISH and PUBREL frames submitted per publish call
    taken        \* [call, type, attempt] of frames the broker took: those of
                 \* publish and subscribe calls, CONNECT and PINGREQ

net == <<resolving, connecting, ops, readBusy, readOp, inbox>>
calls == <<app, attempts, pubCalls, subCalls, quit>>
history == <<reported, pubAnswers, subAnswers, sent>>
session == <<ses, conn, nextPacketId, loop, net, inbound, calls, history, taken>>
vars == <<session, setup>>

\* pub, rec and sub are pending_publishes_, pending_pubrecs_ and
\* pending_subscribes_; armed says that the entry's timer is waited for.
NewSession ==
    [closed    |-> FALSE,   \* closed_
     connTimer |-> FALSE,   \* connect_timer_ is waited for
     ping      |-> "off",   \* ping_timer_: waits to "ping", for a "pong"
     pub       |-> {},
     rec       |-> {},
     sub       |-> {}]

Init ==
    /\ setup \in Setups
    /\ ses = NewSession
    /\ conn = NewConnection
    /\ nextPacketId = 1
    /\ loop = <<>>
    /\ resolving = 0 /\ connecting = FALSE
    /\ ops = <<>>
    /\ readBusy = FALSE /\ readOp = FALSE
    /\ inbox = <<>> /\ inbound = 0
    /\ app = "idle"
    /\ attempts = 0 /\ pubCalls = 0 /\ subCalls = 0 /\ quit = FALSE
    /\ reported = <<>>
    /\ pubAnswers = [n \in PubCalls |-> <<>>]
    /\ subAnswers = [n \in SubCalls |-> <<>>]
    /\ sent = [n \in PubCalls |-> [PUBLISH |-> 0, PUBREL |-> 0]]
    /\ taken = {}

Has(kind) == \E i \in 1 .. Len(loop) : loop[i].kind = kind
-----------------------------------------------------------------------------
(* What a handler does: the session and connection it leaves, the callbacks *)
(* it runs (told), those it may not run after all (loose), what it posts,   *)
(* whether it ends in start_read_loop(), and whether it reports the         *)
(* session's fate to the application (event).                               *)

NoEffect ==
    [ses |-> ses, conn |-> conn, told |-> {}, loose |-> {}, posts |-> <<>>,
     read |-> FALSE, flush |-> FALSE, event |-> "none"]

ToldPub(n, ok) == [what |-> "publish", call |-> n, ok |-> ok]
ToldSub(n, ok) == [what |-> "subscribe", call |-> n, ok |-> ok]

Types(items) == {i.type : i \in items}

\* Entries whose callback runs with failure when they leave the pending maps.
Lost(old, new) ==
    {ToldPub(e.call, FALSE) : e \in old.pub \ new.pub}
    \cup {ToldSub(e.call, FALSE) : e \in old.sub \ new.sub}

\* A QoS 0 publish has no entry: its write handler is the callback.
DroppedQos0(items) ==
    {ToldPub(i.call, FALSE) :
        i \in {j \in items : j.type = "PUBLISH" /\ j.pid = 0}}

\* Mutant: the pending publishes are kept for the next session.
DownKeepsPublishes(s) == [NewSession EXCEPT !.closed = TRUE, !.pub = s.pub]

\* notify_closed_once() up to conn_->close(): the timers stop and the pending
\* maps are emptied.
Down(s) == [NewSession EXCEPT !.closed = TRUE]

\* Failed write handlers drop their own entry.
Forget(s, items) ==
    LET gone(type) == {i.pid : i \in {j \in items : j.type = type}}
    IN  [s EXCEPT !.pub = {e \in s.pub : e.pid \notin gone("PUBLISH")},
                  !.rec = {e \in s.rec : e.pid \notin gone("PUBREL")},
                  !.sub = {e \in s.sub : e.pid \notin gone("SUBSCRIBE")}]

\* The write handler of a SUBSCRIBE erases its entry and then takes the filters
\* to report from the erased entry: which of them it reports, if any, is
\* undefined.  Entries that notify_closed_once() emptied before are not its own.
ErasedFirst(s, items) ==
    {ToldSub(e.call, FALSE) : e \in
        {x \in s.sub : \E i \in items : i.type = "SUBSCRIBE" /\ i.pid = x.pid}}

\* Failed write handlers that go on to notify_closed_once().
Notifies(items) ==
    \E i \in items :
        \/ i.type \in {"CONNECT", "PINGREQ", "PUBACK", "PUBREC", "PUBCOMP"}
        \/ i.type = "PUBLISH" /\ i.pid # 0

\* The write handlers of items run with an error, having been taken out of c,
\* and the connection is closed if closing says so, if one of them calls
\* conn_->close() or notify_closed_once().  Closing fails what c still held.
FailItems(s, c, items, closing) ==
    LET closes == closing \/ "DISCONNECT" \in Types(items)
                          \/ (~s.closed /\ Notifies(items))
        all == IF closes THEN items \cup CloseTells(c) ELSE items
        down == ~s.closed /\ Notifies(all)
        after == IF down THEN Down(s) ELSE Forget(s, all)
    IN  [NoEffect EXCEPT !.ses = after,
                         !.conn = IF closes THEN Close(c) ELSE c,
                         !.told = Lost(s, after) \cup DroppedQos0(all),
                         !.loose = ErasedFirst(s, IF down /\ ~closing
                                                  THEN items ELSE all),
                         !.event = IF down THEN "closed" ELSE "none"]

\* notify_closed_once() from anywhere but a failing write handler.
NotifyClosedOnce(s) ==
    IF s.closed
    THEN [NoEffect EXCEPT !.ses = s]
    ELSE [NoEffect EXCEPT !.ses = Down(s),
                          !.conn = Close(conn),
                          !.told = Lost(s, Down(s))
                                   \cup DroppedQos0(CloseTells(conn)),
                          !.event = "closed"]

\* conn_->close() after closed_ was set, with the outcome for on_connect.
Abandon(s) ==
    [FailItems([s EXCEPT !.closed = TRUE], conn, {}, TRUE)
        EXCEPT !.event = "failed"]

\* Completions of the operations that closing a socket aborts.
Aborted ==
    (IF readOp THEN <<Handler("read", BrokenRead)>> ELSE <<>>)
    \o [i \in 1 .. Len(ops) |-> Handler("written", FALSE)]
    \o (IF connecting THEN <<Handler("connected", FALSE)>> ELSE <<>>)

Count(posts, type, n) ==
    Cardinality({i \in 1 .. Len(posts) :
                    /\ posts[i].kind = "enqueue"
                    /\ posts[i].arg.type = type /\ posts[i].arg.call = n})

Answer(old, what, n, told) ==
    old \o (IF \E t \in told : t.what = what /\ t.call = n /\ t.ok
            THEN <<TRUE>> ELSE <<>>)
        \o (IF \E t \in told : t.what = what /\ t.call = n /\ ~t.ok
            THEN <<FALSE>> ELSE <<>>)

\* What the callbacks and the frames submitted leave in the histories.
Record(e) ==
    /\ pubAnswers' = [n \in PubCalls |->
                         Answer(pubAnswers[n], "publish", n, e.told)]
    /\ \E unheard \in SUBSET e.loose :
          subAnswers' = [n \in SubCalls |->
                            Answer(subAnswers[n], "subscribe", n,
                                   e.told \ unheard)]
    /\ sent' = [n \in PubCalls |->
                   [type \in {"PUBLISH", "PUBREL"} |->
                       sent[n][type] + Count(e.posts, type, n)]]
    /\ reported' = IF e.event = "none" THEN reported
                                       ELSE Append(reported, e.event)
    /\ app' = IF app \notin {"trying", "up"} THEN app
              ELSE IF e.event = "connected" THEN "up"
              ELSE IF e.event = "none" THEN app ELSE "down"

\* A handler with effect e ran, and rest is queued behind it.  If it closed the
\* socket, the outstanding operations are aborted; at its end it may start the
\* next write (do_write()) and the next read (start_read_loop()).
Do(e, rest) ==
    LET closed == conn.open /\ ~e.conn.open
        starts == e.flush /\ StartsWrite(e.conn)
        reads == e.read /\ ~readBusy
    IN  /\ ses' = e.ses
        /\ conn' = IF e.flush THEN DoWrite(e.conn) ELSE e.conn
        /\ loop' = rest
                   \o (IF closed THEN Aborted ELSE <<>>)
                   \o e.posts
                   \o (IF reads /\ ~e.conn.open
                       THEN <<Handler("read", BrokenRead)>> ELSE <<>>)
                   \o (IF e.flush /\ PostsFailure(e.conn)
                       THEN <<Handler("failPending", 0)>> ELSE <<>>)
        /\ ops' = IF closed THEN <<>>
                  ELSE IF starts THEN Append(ops, Head(e.conn.queue)) ELSE ops
        /\ connecting' = (connecting /\ ~closed)
        /\ readBusy' = (readBusy \/ e.read)
        /\ readOp' = IF reads THEN e.conn.open ELSE readOp /\ ~closed
        /\ inbox' = IF closed THEN <<>> ELSE inbox
        /\ Record(e)

Running(kind) == loop # <<>> /\ Head(loop).kind = kind
Arg == Head(loop).arg

\* What no handler but those that say so changes.
Aside == <<resolving, inbound, attempts, pubCalls, subCalls, quit, taken>>
Handle(e) == Do(e, Tail(loop)) /\ UNCHANGED <<nextPacketId, Aside>>
-----------------------------------------------------------------------------
(* The connect chain *)

\* connect_timer_ is set, unless connect_timeout_ms_ is 0.
ArmConnTimerNever(s) == s    \* mutant
ArmConnTimer(s) == [s EXCEPT !.connTimer = ConnectTimeout \/ @]

\* async_connect(): a new attempt starts from closed_ = false with its own
\* timeout; expires_after() forgets the wait of the previous attempt.
RunConnect ==
    /\ Running("connect")
    /\ ses' = ArmConnTimer([ses EXCEPT !.closed = FALSE])
    /\ conn' = BeginConnect(conn)
    /\ resolving' = resolving + 1
    /\ attempts' = attempts + 1
    /\ app' = "trying"
    /\ reported' = <<>>
    /\ loop' = Tail(loop)
    /\ UNCHANGED <<nextPacketId, connecting, ops, readBusy, readOp, inbox,
                   inbound, pubCalls, subCalls, quit, pubAnswers, subAnswers,
                   sent, taken>>

\* The connect handler given to connection::async_connect(), on a failure.
ConnectFailed(c) ==
    IF ses.closed THEN [NoEffect EXCEPT !.conn = c]
                  ELSE [NoEffect EXCEPT !.conn = c, !.event = "failed"]

RunResolveFailed ==
    /\ Running("resolved") /\ ~Arg
    /\ Handle(ConnectFailed(conn))

\* asio::async_connect() closes a socket that is still open and opens it anew,
\* whatever became of the session while the resolver worked: a connect that is
\* under way on it, of an attempt before or after this one, is aborted.
RunResolved ==
    /\ Running("resolved") /\ Arg
    /\ conn' = [conn EXCEPT !.open = TRUE]
    /\ connecting' = TRUE
    /\ ops' = <<>> /\ readOp' = FALSE /\ inbox' = <<>>
    /\ loop' = Tail(loop) \o (IF conn.open THEN Aborted ELSE <<>>)
    /\ UNCHANGED <<ses, nextPacketId, resolving, readBusy, inbound, calls,
                   history, taken>>

\* The TCP connect finished: state_ follows, then send_connect_packet().
RunConnected ==
    /\ Running("connected")
    /\ LET c == [conn EXCEPT !.state = IF Arg THEN "handshaking"
                                             ELSE "disconnected"]
       IN  Handle(IF ~Arg THEN ConnectFailed(c)
                  ELSE IF ses.closed THEN [NoEffect EXCEPT !.conn = c]
                  ELSE [NoEffect EXCEPT !.conn = c,
                                        !.posts = <<Send(Plain("CONNECT"))>>])

\* handle_connect_timeout()
RunConnTimer ==
    /\ Running("connTimer")
    /\ Handle(IF ses.closed THEN NoEffect ELSE Abandon(ses))
-----------------------------------------------------------------------------
(* Calls of the application, posted to the io thread *)

\* Mutant: acquire_packet_id() forgets the subscribes.
PidsOfPublishes == {e.pid : e \in ses.pub \cup ses.rec}

Pids == {e.pid : e \in ses.pub \cup ses.rec \cup ses.sub}

Tells(told) == [NoEffect EXCEPT !.told = told]

\* async_publish_impl(), rejected before anything is sent.
RunPublishRejected ==
    /\ Running("publish")
    /\ PubQos[Arg] > 2 \/ ses.closed \/ conn.state # "connected"
    /\ Handle(Tells({ToldPub(Arg, FALSE)}))

\* Mutant: a session that is coming up takes publishes too.
PublishAcceptedEarly ==
    /\ Running("publish")
    /\ PubQos[Arg] <= 2 /\ ~ses.closed

PublishAccepted ==
    /\ Running("publish")
    /\ PubQos[Arg] <= 2 /\ ~ses.closed /\ conn.state = "connected"

RunPublishQos0 ==
    /\ PublishAccepted
    /\ PubQos[Arg] = 0
    /\ Handle([NoEffect EXCEPT !.posts = <<Send(Frame("PUBLISH", 0, Arg))>>])

\* acquire_packet_id() found nothing and tore the session down.
RunPublishNoId ==
    /\ PublishAccepted
    /\ PubQos[Arg] > 0
    /\ NoneFree(nextPacketId, Pids)
    /\ LET e == NotifyClosedOnce(ses)
       IN  Handle([e EXCEPT !.told = e.told \cup {ToldPub(Arg, FALSE)}])

\* The window is full: the new publish is refused.
OnWindowFullDrops(n) == NoEffect    \* mutant
OnWindowFull(n) == Tells({ToldPub(n, FALSE)})

\* The publish becomes pending and send_publish_entry() submits its frame,
\* unless the window is full: the identifier is then spent for nothing.
RunPublish ==
    /\ PublishAccepted
    /\ PubQos[Arg] > 0
    /\ \E k \in 1 .. MaxId - 1 :
         LET pid == NthId(nextPacketId, k)
             entry == [pid |-> pid, call |-> Arg,
                       attempts |-> 1, armed |-> TRUE]
         IN  /\ FirstFreeAt(nextPacketId, Pids, k)
             /\ nextPacketId' = pid
             /\ IF Cardinality(ses.pub) >= MaxPending
                THEN Do(OnWindowFull(Arg), Tail(loop))
                ELSE Do([NoEffect EXCEPT
                            !.ses = [ses EXCEPT !.pub = @ \cup {entry}],
                            !.posts = <<Send(Frame("PUBLISH", pid, Arg))>>],
                        Tail(loop))
    /\ UNCHANGED Aside

\* Mutant: a rejected subscribe returns without its callback.
RunSubscribeRejectedQuietly ==
    /\ Running("subscribe")
    /\ SubQos[Arg] > 2 \/ ses.closed
    /\ Handle(NoEffect)

\* async_subscribe_impl() consults closed_ only, not the connection state.
RunSubscribeRejected ==
    /\ Running("subscribe")
    /\ SubQos[Arg] > 2 \/ ses.closed
    /\ Handle(Tells({ToldSub(Arg, FALSE)}))

RunSubscribeNoId ==
    /\ Running("subscribe")
    /\ SubQos[Arg] <= 2 /\ ~ses.closed
    /\ NoneFree(nextPacketId, Pids)
    /\ LET e == NotifyClosedOnce(ses)
       IN  Handle([e EXCEPT !.told = e.told \cup {ToldSub(Arg, FALSE)}])

RunSubscribe ==
    /\ Running("subscribe")
    /\ SubQos[Arg] <= 2 /\ ~ses.closed
    /\ \E k \in 1 .. MaxId - 1 :
         LET pid == NthId(nextPacketId, k)
         IN  /\ FirstFreeAt(nextPacketId, Pids, k)
             /\ nextPacketId' = pid
             /\ Do([NoEffect EXCEPT
                      !.ses = [ses EXCEPT !.sub =
                                 @ \cup {[pid |-> pid, call |-> Arg]}],
                      !.posts = <<Send(Frame("SUBSCRIBE", pid, Arg))>>],
                   Tail(loop))
    /\ UNCHANGED Aside
-----------------------------------------------------------------------------
(* The write queue: connection's handlers with the client's callbacks *)

\* enqueue_write()
RunEnqueue ==
    /\ Running("enqueue")
    /\ Handle(IF conn.closed
              THEN [NoEffect EXCEPT !.posts = <<Handler("aborted", Arg)>>]
              ELSE [NoEffect EXCEPT !.conn = Enqueue(conn, Arg),
                                    !.flush = TRUE])

\* The report of a frame that met a closed connection.
RunAborted ==
    /\ Running("aborted")
    /\ Handle(FailItems(ses, conn, {Arg}, FALSE))

\* fail_pending_writes()
RunFailPending ==
    /\ Running("failPending")
    /\ Handle(FailItems(ses, FailPending(conn), Queued(conn), FALSE))

RunWrittenQuiet ==
    /\ Running("written")
    /\ TakenOver(conn)
    /\ Handle(NoEffect)

\* A failed write fails what waits behind it and drops the socket.
RunWrittenFailed ==
    /\ Running("written") /\ ~Arg
    /\ ~TakenOver(conn)
    /\ Handle(FailItems(ses, FailPending(DropSocket(TakeInFlight(conn))),
                        {conn.inFlight} \cup Queued(conn), FALSE))

\* arm_publish_retry_timer(), arm_pubrec_retry_timer(), if the entry is there.
Armed(entries, pid) ==
    {IF e.pid = pid THEN [e EXCEPT !.armed = TRUE] ELSE e : e \in entries}

\* The wait for the answer to a PINGREQ starts when it was written.
AwaitPongNever == NoEffect    \* mutant
AwaitPong == [NoEffect EXCEPT !.ses.ping = "pong"]

\* The handler each frame is written with, on success.
OnWritten(item) ==
    CASE item.type = "CONNECT" ->
           [NoEffect EXCEPT !.ses.ping = IF KeepAlive THEN "ping" ELSE @,
                            !.read = TRUE]
      [] item.type = "PUBLISH" /\ item.pid = 0 ->
           Tells({ToldPub(item.call, TRUE)})
      [] item.type = "PUBLISH" /\ item.pid # 0 ->
           [NoEffect EXCEPT !.ses.pub = Armed(@, item.pid)]
      [] item.type = "PUBREL" ->
           [NoEffect EXCEPT !.ses.rec = Armed(@, item.pid)]
      [] item.type = "SUBSCRIBE" ->
           Tells({ToldSub(e.call, TRUE) :
                     e \in {x \in ses.sub : x.pid = item.pid}})
      [] item.type = "PINGREQ" -> AwaitPong
      [] OTHER -> NoEffect

\* A write completed: its handler runs, then do_write() starts the next one.
\* The handler of a DISCONNECT closes the connection.
RunWritten ==
    /\ Running("written") /\ Arg
    /\ ~TakenOver(conn)
    /\ LET item == conn.inFlight
           c == TakeInFlight(conn)
       IN  Handle(IF item.type = "DISCONNECT"
                  THEN FailItems(ses, c, {}, TRUE)
                  ELSE [OnWritten(item) EXCEPT !.conn = c, !.flush = TRUE])
-----------------------------------------------------------------------------
(* The read loop *)

\* Mutant: reading_depth_ is not reset.
RunReadStaysBusy ==
    /\ Running("read")
    /\ loop' = Append(Tail(loop), Handler("packet", Arg))
    /\ UNCHANGED <<ses, conn, nextPacketId, net, inbound, calls, history,
                   taken>>

\* The packet, or the error, is complete and its handler is posted.
RunRead ==
    /\ Running("read")
    /\ readBusy' = FALSE
    /\ loop' = Append(Tail(loop), Handler("packet", Arg))
    /\ UNCHANGED <<ses, conn, nextPacketId, resolving, connecting, ops, readOp,
                   inbox, inbound, calls, history, taken>>

Without(entries, pid) == {e \in entries : e.pid # pid}
CallsOf(entries, pid) == {e.call : e \in {x \in entries : x.pid = pid}}

OnConnack(how) ==
    LET s == [ses EXCEPT !.connTimer = FALSE]
    IN  IF how = "granted"
        THEN [NoEffect EXCEPT !.ses = [s EXCEPT !.closed = FALSE],
                              !.conn = [conn EXCEPT !.state = "connected"],
                              !.event = "connected"]
        ELSE Abandon(s)

OnPublish(qos) ==
    CASE qos = 0 -> NoEffect
      [] qos = 1 -> [NoEffect EXCEPT !.posts = <<Send(Plain("PUBACK"))>>]
      [] qos = 2 -> [NoEffect EXCEPT !.posts = <<Send(Plain("PUBREC"))>>]
      [] OTHER   -> NotifyClosedOnce(ses)

\* A SUBACK with too few codes erases the entry without running its callback.
OnSuback(pid, how) ==
    LET s == [ses EXCEPT !.sub = Without(@, pid)]
        told(ok) == {ToldSub(n, ok) : n \in CallsOf(ses.sub, pid)}
    IN  CASE s = ses -> NoEffect
          [] s # ses /\ how = "short" -> NotifyClosedOnce(s)
          [] s # ses /\ how # "short" ->
               [NoEffect EXCEPT !.ses = s, !.told = told(how = "granted")]

\* Mutant: the acknowledged publish stays pending.
OnPubackKeeps(pid) == Tells({ToldPub(n, TRUE) : n \in CallsOf(ses.pub, pid)})

OnPuback(pid) ==
    [NoEffect EXCEPT !.ses.pub = Without(@, pid),
                     !.told = {ToldPub(n, TRUE) : n \in CallsOf(ses.pub, pid)}]

\* The PUBREL entry is armed before it is written.
PubrelEntry(pid, n) ==
    [pid |-> pid, call |-> n, attempts |-> 0, armed |-> TRUE]

\* Mutant: the PUBREC already answers the publish.
OnPubrecAnswers(pid) ==
    [NoEffect EXCEPT !.ses.pub = Without(@, pid),
                     !.told = {ToldPub(n, TRUE) : n \in CallsOf(ses.pub, pid)},
                     !.posts = <<Send(Frame("PUBREL", pid, 0))>>]

\* The PUBLISH timer stops, a PUBREL entry is made (or made anew) and sent.
OnPubrec(pid) ==
    IF CallsOf(ses.pub, pid) = {} THEN NoEffect
    ELSE LET n == CHOOSE x \in CallsOf(ses.pub, pid) : TRUE
             mine == {e \in ses.pub : e.pid = pid}
             disarmed == {[e EXCEPT !.armed = FALSE] : e \in mine}
         IN  [NoEffect EXCEPT
                !.ses.pub = (@ \ mine) \cup disarmed,
                !.ses.rec = Without(@, pid) \cup {PubrelEntry(pid, n)},
                !.posts = <<Send(Frame("PUBREL", pid, n))>>]

OnPubcomp(pid) ==
    [NoEffect EXCEPT !.ses.rec = Without(@, pid),
                     !.ses.pub = Without(@, pid),
                     !.told = {ToldPub(n, TRUE) : n \in CallsOf(ses.pub, pid)}]

\* handle_packet()
OnPacket(p) ==
    CASE p.type = "CONNACK"  -> OnConnack(p.how)
      [] p.type = "PUBLISH"  -> OnPublish(p.how)
      [] p.type = "SUBACK"   -> OnSuback(p.pid, p.how)
      [] p.type = "PUBACK"   -> OnPuback(p.pid)
      [] p.type = "PUBREC"   -> OnPubrec(p.pid)
      [] p.type = "PUBREL"   ->
           [NoEffect EXCEPT !.posts = <<Send(Plain("PUBCOMP"))>>]
      [] p.type = "PUBCOMP"  -> OnPubcomp(p.pid)
      [] p.type = "PINGRESP" ->
           [NoEffect EXCEPT !.ses.ping = IF KeepAlive THEN "ping" ELSE "off"]

\* The handler of start_read_loop(): the packet is handled and the next read
\* is started on whatever the connection is by then.
RunPacket ==
    /\ Running("packet")
    /\ Arg # BrokenRead
    /\ Handle([OnPacket(Arg) EXCEPT !.read = TRUE])

\* Mutant: a connection that was closed on purpose has nothing to report.
RunBrokenReadIfOpen ==
    /\ Running("packet")
    /\ Arg = BrokenRead
    /\ Handle(IF conn.closed THEN NoEffect ELSE NotifyClosedOnce(ses))

RunBrokenRead ==
    /\ Running("packet")
    /\ Arg = BrokenRead
    /\ Handle(NotifyClosedOnce(ses))
-----------------------------------------------------------------------------
(* Timers that expired *)

\* The next attempt of an entry, its timer armed before the frame is written.
AgainUnwatched(e) == [e EXCEPT !.attempts = @ + 1]    \* mutant
Again(e) == [e EXCEPT !.attempts = @ + 1, !.armed = TRUE]

\* The attempts are used up.
SpentLater(e) == e.attempts > MaxSends    \* mutant
Spent(e) == e.attempts >= MaxSends

\* arm_publish_retry_timer(): re-send with DUP, or finish_publish_failure().
RunPubRetry ==
    /\ Running("pubRetry")
    /\ LET mine == {e \in ses.pub : e.pid = Arg}
           frames == {Frame("PUBLISH", Arg, e.call) : e \in mine}
       IN  Handle(IF mine = {} THEN NoEffect
                  ELSE IF \E e \in mine : Spent(e)
                  THEN FailItems(ses, conn, frames, FALSE)
                  ELSE [NoEffect EXCEPT
                          !.ses.pub = (@ \ mine) \cup {Again(e) : e \in mine},
                          !.posts = <<Send(CHOOSE f \in frames : TRUE)>>])

\* arm_pubrec_retry_timer(): re-send the PUBREL, or give the session up.
RunRecRetry ==
    /\ Running("recRetry")
    /\ LET mine == {e \in ses.rec : e.pid = Arg}
           frames == {Frame("PUBREL", Arg, e.call) : e \in mine}
       IN  Handle(IF mine = {} THEN NoEffect
                  ELSE IF \E e \in mine : Spent(e)
                  THEN NotifyClosedOnce(ses)
                  ELSE [NoEffect EXCEPT
                          !.ses.rec = (@ \ mine) \cup {Again(e) : e \in mine},
                          !.posts = <<Send(CHOOSE f \in frames : TRUE)>>])

RunPingDue ==
    /\ Running("pingDue")
    /\ Handle([NoEffect EXCEPT !.posts = <<Send(Plain("PINGREQ"))>>])

\* Mutant: the missing answer is only logged.
RunPongDueOnlyLogs == Running("pongDue") /\ Handle(NoEffect)

RunPongDue ==
    /\ Running("pongDue")
    /\ Handle(NotifyClosedOnce(ses))
-----------------------------------------------------------------------------
(* The application *)

\* The application (or mqtt_helper) starts an attempt when it was told that the
\* last one ended, whether or not its resolver has answered by then.
AppConnect ==
    /\ app \in {"idle", "down"}
    /\ attempts < setup.attempts /\ ~quit
    /\ app' = "posted"
    /\ loop' = Append(loop, Handler("connect", 0))
    /\ UNCHANGED <<ses, conn, nextPacketId, net, inbound, attempts, pubCalls,
                   subCalls, quit, history, taken>>

AppPublish ==
    /\ pubCalls < Len(PubQos)
    /\ pubCalls' = pubCalls + 1
    /\ loop' = Append(loop, Handler("publish", pubCalls + 1))
    /\ UNCHANGED <<ses, conn, nextPacketId, net, inbound, app, attempts,
                   subCalls, quit, history, taken>>

\* A careful application subscribes from on_connect(true) (README.md:235-239).
AppSubscribe ==
    /\ subCalls < NumSubs
    /\ setup.early \/ app = "up"
    /\ subCalls' = subCalls + 1
    /\ loop' = Append(loop, Handler("subscribe", subCalls + 1))
    /\ UNCHANGED <<ses, conn, nextPacketId, net, inbound, app, attempts,
                   pubCalls, quit, history, taken>>

\* async_disconnect(): the ping timer stops and a DISCONNECT is submitted.
AppDisconnect ==
    /\ setup.disconnects /\ ~quit /\ app \in {"trying", "up"}
    /\ quit' = TRUE
    /\ ses' = [ses EXCEPT !.ping = "off"]
    /\ loop' = Append(loop, Send(Plain("DISCONNECT")))
    /\ UNCHANGED <<conn, nextPacketId, net, inbound, app, attempts, pubCalls,
                   subCalls, history, taken>>

\* close(), called on the io thread between two handlers.
AppClose ==
    /\ setup.closes /\ ~quit /\ app \in {"trying", "up"}
    /\ quit' = TRUE
    /\ Do(FailItems(ses, conn, {}, TRUE), loop)
    /\ UNCHANGED <<nextPacketId, resolving, inbound, attempts, pubCalls,
                   subCalls, taken>>
-----------------------------------------------------------------------------
(* The network and the broker *)

\* An operation of asio completes: its handler is queued.
Completes(kind, arg) == loop' = Append(loop, Handler(kind, arg))

ResolveDone ==
    /\ resolving > 0
    /\ resolving' = resolving - 1
    /\ \E ok \in {TRUE} \cup (IF "resolve" \in Faults THEN {FALSE} ELSE {}) :
          Completes("resolved", ok)
    /\ UNCHANGED <<ses, conn, nextPacketId, connecting, ops, readBusy, readOp,
                   inbox, inbound, calls, history, taken>>

ConnectDone ==
    /\ connecting
    /\ connecting' = FALSE
    /\ \E ok \in {TRUE} \cup (IF "connect" \in Faults THEN {FALSE} ELSE {}) :
          Completes("connected", ok)
    /\ UNCHANGED <<ses, conn, nextPacketId, resolving, ops, readBusy, readOp,
                   inbox, inbound, calls, history, taken>>

\* What a broker may send when it gets a frame.
Answers(f) ==
    CASE f.type = "CONNECT" ->
           {Packet("CONNACK", 0, "granted")}
           \cup (IF "refuse" \in Faults
                 THEN {Packet("CONNACK", 0, "refused")} ELSE {})
      [] f.type = "PUBLISH" /\ f.pid # 0 ->
           {Packet(IF PubQos[f.call] = 1 THEN "PUBACK" ELSE "PUBREC",
                   f.pid, "ok")}
      [] f.type = "PUBREL" -> {Packet("PUBCOMP", f.pid, "ok")}
      [] f.type = "SUBSCRIBE" ->
           {Packet("SUBACK", f.pid, how) : how \in setup.subacks}
      [] f.type = "PINGREQ" -> {Packet("PINGRESP", 0, "ok")}
      [] f.type = "PUBREC" -> {Packet("PUBREL", 0, "ok")}
      [] OTHER -> {}

\* The peer took the frame being written, and may answer it.  What is written
\* before the TCP connect is done waits for it.
WriteTaken ==
    /\ ops # <<>> /\ ~connecting
    /\ ops' = Tail(ops)
    /\ Completes("written", TRUE)
    /\ LET f == Head(ops)
           mute == Answers(f) = {} \/ "silent" \in Faults
       IN  /\ \/ mute /\ inbox' = inbox
              \/ \E p \in Answers(f) : inbox' = Append(inbox, p)
           /\ taken' = IF f.call = 0 /\ f.type \notin {"CONNECT", "PINGREQ"}
                       THEN taken
                       ELSE taken \cup {[call |-> f.call, type |-> f.type,
                                         attempt |-> attempts]}
    /\ UNCHANGED <<ses, conn, nextPacketId, resolving, connecting, readBusy,
                   readOp, inbound, calls, history>>

WriteBroken ==
    /\ ops # <<>>
    /\ "write" \in Faults \/ connecting
    /\ ops' = Tail(ops)
    /\ Completes("written", FALSE)
    /\ UNCHANGED <<ses, conn, nextPacketId, resolving, connecting, readBusy,
                   readOp, inbox, inbound, calls, history, taken>>

\* A read completes with the next packet, or with the end of the stream.
ReadDone ==
    /\ readOp
    /\ readOp' = FALSE
    /\ \/ /\ inbox # <<>>
          /\ inbox' = Tail(inbox)
          /\ Completes("read", Head(inbox))
       \/ /\ "drop" \in Faults \/ connecting
          /\ inbox' = <<>>
          /\ Completes("read", BrokenRead)
    /\ UNCHANGED <<ses, conn, nextPacketId, resolving, connecting, ops,
                   readBusy, inbound, calls, history, taken>>

BrokerPublish ==
    /\ inbound < setup.inbound
    /\ conn.open /\ conn.state = "connected"
    /\ inbound' = inbound + 1
    /\ \E qos \in setup.inboundQos :
          inbox' = Append(inbox, Packet("PUBLISH", 0, qos))
    /\ UNCHANGED <<ses, conn, nextPacketId, loop, resolving, connecting, ops,
                   readBusy, readOp, calls, history, taken>>
-----------------------------------------------------------------------------
(* Timers: an expired wait queues its handler; cancelling comes too late *)

Expires(s, kind, arg) ==
    /\ ses' = s
    /\ Completes(kind, arg)
    /\ UNCHANGED <<conn, nextPacketId, net, inbound, calls, history, taken>>

ConnTimerExpires ==
    ses.connTimer /\ Expires([ses EXCEPT !.connTimer = FALSE], "connTimer", 0)

PingTimerExpires ==
    \/ ses.ping = "ping" /\ Expires([ses EXCEPT !.ping = "off"], "pingDue", 0)
    \/ ses.ping = "pong" /\ Expires([ses EXCEPT !.ping = "off"], "pongDue", 0)

PubTimerExpires ==
    \E e \in ses.pub :
        /\ e.armed
        /\ Expires([ses EXCEPT !.pub =
                       (@ \ {e}) \cup {[e EXCEPT !.armed = FALSE]}],
                   "pubRetry", e.pid)

RecTimerExpires ==
    \E e \in ses.rec :
        /\ e.armed
        /\ Expires([ses EXCEPT !.rec =
                       (@ \ {e}) \cup {[e EXCEPT !.armed = FALSE]}],
                   "recRetry", e.pid)
-----------------------------------------------------------------------------
Application ==
    AppConnect \/ AppPublish \/ AppSubscribe \/ AppDisconnect \/ AppClose
Outside ==
    ResolveDone \/ ConnectDone \/ WriteTaken \/ WriteBroken \/ ReadDone
        \/ BrokerPublish
Timers ==
    ConnTimerExpires \/ PingTimerExpires \/ PubTimerExpires \/ RecTimerExpires
IoThread ==
    \/ RunConnect \/ RunResolveFailed \/ RunResolved \/ RunConnected
    \/ RunConnTimer
    \/ RunPublishRejected \/ RunPublishQos0 \/ RunPublishNoId \/ RunPublish
    \/ RunSubscribeRejected \/ RunSubscribeNoId \/ RunSubscribe
    \/ RunEnqueue \/ RunAborted \/ RunFailPending
    \/ RunWrittenQuiet \/ RunWrittenFailed \/ RunWritten
    \/ RunRead \/ RunPacket \/ RunBrokenRead
    \/ RunPubRetry \/ RunRecRetry \/ RunPingDue \/ RunPongDue

Next == (Application \/ Outside \/ Timers \/ IoThread) /\ UNCHANGED setup

Spec == Init /\ [][Next]_vars

\* The io thread runs what is queued and a timer that is left alone expires.
\* The peer owes nothing: it may stop reading, and it may never answer.
FairSpec ==
    /\ Spec
    /\ WF_session(IoThread)
    /\ WF_session(ConnTimerExpires) /\ WF_session(PingTimerExpires)
    /\ WF_session(PubTimerExpires) /\ WF_session(RecTimerExpires)

\* As above, and writes end: the peer reads, or TCP gives the stream up.
FairWritesSpec == FairSpec /\ WF_session(WriteTaken \/ WriteBroken)
-----------------------------------------------------------------------------
(* Properties *)

\* Every variable stays in its type.
TypeOK ==
    /\ conn.state \in ConnectionStates
    /\ {conn.open, conn.closed, conn.writing} \subseteq BOOLEAN
    /\ ses.closed \in BOOLEAN /\ ses.connTimer \in BOOLEAN
    /\ ses.ping \in {"off", "ping", "pong"}
    /\ ses.pub \subseteq [pid : Ids, call : PubCalls, attempts : 1 .. MaxSends,
                          armed : BOOLEAN]
    /\ ses.rec \subseteq [pid : Ids, call : PubCalls, attempts : 0 .. MaxSends,
                          armed : BOOLEAN]
    /\ ses.sub \subseteq [pid : Ids, call : SubCalls]
    /\ nextPacketId \in Ids
    /\ Types({ops[i] : i \in 1 .. Len(ops)}) \subseteq FrameTypes
    /\ Types(Held(conn)) \subseteq FrameTypes
    /\ app \in {"idle", "posted", "trying", "up", "down"}

\* README.md:202 "Every publish must be answered exactly once", the safety
\* half: acknowledgements, give-ups, failed writes and the teardown race for an
\* entry, and only one of them runs its callback.
PublishAnsweredOnce == \A n \in PubCalls : Len(pubAnswers[n]) <= 1

\* The liveness half: no publish is left without an answer, even by a peer that
\* stops reading and answering: the retry timers give up.
PublishAnswered ==
    \A n \in UNION {1 .. Len(s.publishes) : s \in Setups} :
        pubCalls >= n ~> n \in PubCalls /\ pubAnswers[n] # <<>>

\* README.md:202 and 320-336: the publishes of a client live the life that
\* PublishContract describes.  Success means that the broker took the message,
\* and for QoS 2 the PUBREL too; failure is final, whatever sends, write
\* completions and duplicates were under way.
Contract == INSTANCE PublishContract
    WITH life <- [n \in PubCalls |->
                     IF pubCalls < n THEN "new"
                     ELSE CASE pubAnswers[n] = <<>> -> "open"
                            [] pubAnswers[n] = <<TRUE>> -> "succeeded"
                            [] pubAnswers[n] = <<FALSE>> -> "failed"
                            [] OTHER -> "answered again"],
         delivered <- {n \in PubCalls :
                          \E x \in taken :
                              /\ x.call = n
                              /\ x.type = IF PubQos[n] = 2 THEN "PUBREL"
                                                           ELSE "PUBLISH"}
PublishSpec == Contract!Spec

\* README.md:330 "Nothing is re-sent after the next on_connect(true)": the
\* broker sees the frames of a publish in one session only.
NothingResent ==
    \A x, y \in {t \in taken : t.type \in {"PUBLISH", "PUBREL"}} :
        x.call = y.call => x.attempt = y.attempt

\* README.md:323 "5 s, up to 3 attempts": a PUBLISH is submitted MaxSends times
\* at most, whatever write completions and PUBRECs do to its timer.
PublishesBounded == \A n \in PubCalls : sent[n].PUBLISH <= MaxSends

\* While a session is up somebody reads: an async_read() is outstanding or its
\* handler is queued.  Without it a broken stream would go unnoticed and its
\* pending publishes and subscribes would never fail.
ReadLoopAlive ==
    conn.state = "connected" /\ conn.open /\ ~conn.closed =>
        readOp \/ Has("read") \/ Has("packet")

\* In a client's first attempt the keep-alive is never lost while the session is
\* up: the next ping or the wait for its answer is running, or a PINGREQ or
\* PINGRESP is under way.  (From the second on it may be lost, as a ping timer of
\* the session before can be taken for one of this.)
KeepAliveWatched ==
    KeepAlive /\ conn.state = "connected" /\ conn.open /\ ~quit =>
        \/ ses.ping # "off"
        \/ Has("pingDue") \/ Has("pongDue")
        \/ \E f \in Held(conn) : f.type = "PINGREQ"
        \/ \E i \in 1 .. Len(loop) :
              loop[i].kind = "enqueue" /\ loop[i].arg = Plain("PINGREQ")

\* Every attempt comes to an end the application hears of, even when the peer
\* accepts the socket and stays silent (client.hpp:244-247).
AttemptDecided ==
    app = "trying" /\ ConnectTimeout ~> app \in {"up", "down"}

\* client.hpp:283-289 with README.md:305: a timed-out attempt is over; the
\* session is not reported up on a socket that was closed.
ConnectedIsOpen == conn.state = "connected" => conn.open

\* acquire_packet_id() (client.hpp:712-740): a packet identifier belongs to one
\* publish or subscribe at a time, else an acknowledgement is credited to the
\* wrong call.
IdsUnique ==
    /\ \A e \in ses.pub, f \in ses.sub : e.pid # f.pid
    /\ \A e, f \in ses.pub : e.pid = f.pid => e.call = f.call
    /\ \A e, f \in ses.sub : e.pid = f.pid => e.call = f.call

\* README.md:18 "Built-in Keep-Alive mechanism with timeout detection": a peer
\* that sends nothing any more takes the session down.
SilenceNoticed ==
    app = "up" /\ inbox = <<>> /\ KeepAlive ~> app # "up" \/ inbox # <<>>

\* The application is told of the end of a session it closed itself, by
\* async_disconnect() or by close() (client.hpp:571-575).
ShutdownReported == quit ~> app = "down"

\* README.md:327-330: in a client's first attempt no publish precedes the
\* CONNACK: none waits or is written on a connection still handshaking.  (After
\* a reconnect it can, see ConnectIsFirst.)
NoEarlyPublish ==
    conn.state = "handshaking" =>
        \A f \in Held(conn) \cup {ops[i] : i \in DOMAIN ops} :
            f.type # "PUBLISH"

\* Every subscribe callback hears an outcome: its write, SUBACK or teardown.
SubscribeAnswered ==
    \A n \in UNION {1 .. Len(s.subscribes) : s \in Setups} :
        subCalls >= n ~> n \in SubCalls /\ subAnswers[n] # <<>>
-----------------------------------------------------------------------------
(* Claims of comments and tests that do not hold either; no run checks them *)

\* README.md:324 "5 s / 3 attempts for PUBREL -> PUBCOMP".
PubrelsBounded == \A n \in PubCalls : sent[n].PUBREL <= MaxSends

\* client.hpp:263 "the connect timeout already reported this attempt": an
\* attempt that failed is reported once.
AttemptReportedOnce == reported # <<"failed", "failed">>

\* README.md:332-336: a QoS 1 publish that ran out of retries is reported as
\* failed; it is the QoS 2 flow that "aborts the session instead".
GiveUpKeepsSession ==
    [][RunPubRetry /\ ~ses.closed => ~ses'.closed]_vars

\* connection.hpp:44-46: the socket carries one write at a time.
OneWriteInFlight == Len(ops) <= 1

\* client.hpp:471 "Cancel the retry timer and send PUBREL": once the PUBREL was
\* submitted the PUBLISH is not submitted again.
NoPublishAfterPubrel ==
    [][\A n \in PubCalls :
         sent[n].PUBREL > 0 => sent'[n].PUBLISH = sent[n].PUBLISH]_vars

\* client.hpp:365 "a late timeout must not kill a session that just came up".
NoLateTimeout ==
    [][RunConnTimer /\ conn.state = "connected"
         => conn'.state = "connected"]_vars

\* A subscribe callback hears its outcome once per filter, as the tests of
\* handle_suback() count it (client_test.cc:120-139).
SubscribeAnsweredOnce == \A n \in SubCalls : Len(subAnswers[n]) <= 1

\* send_connect_packet() (client.hpp:291) opens every session: on each socket
\* the broker takes the CONNECT before any frame of a publish or a ping.
ConnectIsFirst ==
    \A x \in taken : \E y \in taken :
        y.type = "CONNECT" /\ y.attempt = x.attempt
=============================================================================
