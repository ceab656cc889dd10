------------------------------- MODULE Helper -------------------------------
(***************************************************************************)
(* litemqtt::mqtt_helper: the reconnect policy and the life cycle around   *)
(* one mqtt_client.  Four threads meet here: the io thread, which runs the *)
(* handlers of io_ and the callbacks of the client; the owner, which calls *)
(* start() and stop(); a thread that calls rearm_reconnect() and one that  *)
(* calls subscribe().  Steps of a thread are cut where another thread may  *)
(* see or change an atomic member in between.                              *)
(*                                                                         *)
(* The client is reduced to what its callbacks depend on; Client models it *)
(* in full.  The resolver answers at once: a connect attempt is the TCP    *)
(* connect, which closing the socket aborts.                               *)
(***************************************************************************)
EXTENDS Integers, SequencesExt

CONSTANT Setups   \* what TLC explores: see Setup

\* The settings of a helper, the calls of its application and what its
\* surroundings may do, none of which changes during a behaviour.
Setup ==
    [reconnects : Nat \cup {-1},  \* max_reconnect_attempts_, -1: for ever
     topics     : {T \in SUBSET STRING : IsFiniteSet(T)},
                                  \* what the application may subscribe to
     starts     : Nat,            \* bound on start() calls
     rearms     : Nat,            \* bound on rearm_reconnect() calls that find
                                  \* it running
     publishes  : BOOLEAN,        \* may the application call publish(), once?
     callbackStops : BOOLEAN,     \* may a callback call stop()?
     drops      : BOOLEAN,        \* may the owner drop its reference while a
                                  \* handler runs?
     timeout    : BOOLEAN,        \* connect_timeout_ms_ > 0
     faults     : SUBSET {"connect", "refuse", "drop"}]

ASSUME HelperAssumption == Setups \subseteq Setup

VARIABLE setup

MaxReconnects == setup.reconnects
Topics == setup.topics
ConnectTimeout == setup.timeout
Faults == setup.faults

VARIABLES
    running,           \* running_
    userStopped,       \* user_stopped_
    shouldReconnect,   \* should_reconnect_
    reconnectPending,  \* reconnect_pending_
    reconnectAttempts, \* reconnect_attempts_
    subscribes,        \* subscribes_
    client,            \* *client_, see NewClient; not live: a null pointer
    timer,             \* reconnect_timer_ is waited for
    loop,              \* handlers queued in io_, first to run first
    ioThread,          \* io_thread_: "none", "running", "exited" but not joined
    ioStopped,         \* io_.stopped()
    ioPc,              \* where the io thread is, "idle" between two handlers
    ownerPc, rearmPc,  \* where these threads are, "idle" outside of a call
    subscribing,       \* topics whose subscribe() has yet to look at the client
    heard,             \* stop()'s closed flag: its DISCONNECT was answered
    lateBye,           \* ... or was after stop() left the scope of that flag
    crashed,           \* std::terminate() was called
    starts, rearms,    \* calls so far
    counted,           \* a retry was scheduled since the last do_connect()
    subscribed,        \* topics the client accepted in the session that is up
    publish            \* the publish(): "none", "posted", "pending" at a client,
                       \* "answered"

policy == <<userStopped, shouldReconnect, reconnectPending>>
session == <<client, subscribed, counted>>
rearmer == <<rearmPc, rearms>>
\* All but the places of the threads.
state == <<running, policy, reconnectAttempts, session, timer, subscribes,
           subscribing, publish>>
io == <<loop, ioThread, ioStopped, ioPc>>
owner == <<ownerPc, heard, lateBye, starts>>
threads == <<state, io, owner, rearmer, crashed>>
vars == <<threads, setup>>

Handler(kind, arg) == [kind |-> kind, arg |-> arg]
Has(kind) == \E i \in DOMAIN loop : loop[i].kind = kind
Post(kind, arg) == loop' = Append(loop, Handler(kind, arg))

\* The handler of the DISCONNECT that stop() sends, on the owner's thread or
\* on the io thread.
Byes == {"owner", "io"}

NoClient ==
    [live |-> FALSE, closed |-> FALSE, link |-> "down", dead |-> FALSE,
     chain |-> FALSE, connTimer |-> FALSE, asked |-> FALSE, reading |-> FALSE,
     byes |-> {}]

\* closed is closed_; link, dead and chain are state_, closed_ and the connect
\* of its connection; asked says that a CONNACK may come; byes are the handlers
\* of DISCONNECTs it is writing.
NewClient == [NoClient EXCEPT !.live = TRUE]

Init ==
    /\ setup \in Setups
    /\ running = FALSE /\ userStopped = FALSE
    /\ shouldReconnect = TRUE /\ reconnectPending = FALSE
    /\ reconnectAttempts = 0
    /\ subscribes = {} /\ subscribing = {} /\ subscribed = {}
    /\ publish = "none"
    /\ client = NoClient
    /\ timer = FALSE
    /\ loop = <<>>
    /\ ioThread = "none" /\ ioStopped = FALSE /\ ioPc = "idle"
    /\ ownerPc = "idle" /\ rearmPc = "idle"
    /\ heard = FALSE /\ lateBye = FALSE /\ crashed = FALSE
    /\ starts = 0 /\ rearms = 0 /\ counted = FALSE
-----------------------------------------------------------------------------
(* The client and the timers *)

\* connection::close(): the socket's operations are aborted and the handlers of
\* unfinished DISCONNECTs run.
CloseConn(c) ==
    IF c.dead THEN c
    ELSE [c EXCEPT !.dead = TRUE, !.link = "down", !.chain = FALSE,
                   !.asked = FALSE, !.reading = FALSE, !.byes = {}]

ByesOfClose(c) == IF c.dead THEN {} ELSE c.byes

AbortedBy(c) ==
    IF c.dead THEN <<>>
    ELSE (IF c.chain THEN <<Handler("chain", FALSE)>> ELSE <<>>)
         \o (IF c.reading THEN <<Handler("broken", "none")>> ELSE <<>>)

\* do_connect(), that is mqtt_client::async_connect().  Opening the socket anew
\* aborts a connect that is still under way.
Connecting(c) ==
    [c EXCEPT !.closed = FALSE, !.dead = FALSE, !.link = "connecting",
              !.chain = TRUE, !.connTimer = ConnectTimeout \/ @,
              !.asked = FALSE, !.reading = FALSE]

AbortedByConnect(c) ==
    (IF c.chain THEN <<Handler("chain", FALSE)>> ELSE <<>>)
    \o (IF c.reading THEN <<Handler("broken", "none")>> ELSE <<>>)

\* reconnect_timer_.cancel() or .expires_after(): the wait ends with an error.
CancelledWait == IF timer THEN <<Handler("wait", FALSE)>> ELSE <<>>

\* The handlers of DISCONNECTs in who run, on whatever thread: that of the
\* owner's stop() sets the flag it waits for, that of a stop() on the io thread
\* calls io_.stop().
Tell(who) ==
    /\ heard' = (heard \/ ("owner" \in who /\ ownerPc = "wait"))
    /\ lateBye' = (lateBye \/ ("owner" \in who /\ ownerPc # "wait"))
    /\ ioStopped' = (ioStopped \/ "io" \in who)
-----------------------------------------------------------------------------
(* The owner: start() and stop() *)

\* The aborted read of a released client fails its pending publish.
SettledLate ==
    IF publish = "pending" /\ ~Has("settled")
    THEN <<Handler("settled", "none")>> ELSE <<>>

\* Handlers of a client that was released stay in io_ but have no callbacks of
\* the helper to run any more.  Those of its DISCONNECTs still do what stop()
\* gave them to do, and publishes are still answered: to a released client they
\* are refused.
LeftBehind ==
    [i \in DOMAIN loop |->
        CASE loop[i].kind \in {"disconnect", "bye"}
                -> Handler("stale", loop[i].arg)
          [] loop[i].kind = "publish" -> Handler("settled", "none")
          [] loop[i].kind \in {"wait", "rearmed", "stale", "settled"} -> loop[i]
          [] OTHER -> Handler("gone", "none")]
    \o SettledLate

NotOwner == <<ioPc, rearmer, subscribes, subscribing, publish, crashed>>

\* start() up to do_connect(), on a helper that is not running.  Only a rearm may
\* be under way then, whose steps commute with those of start().
StartBegin ==
    /\ ownerPc = "idle" /\ ~running /\ starts < setup.starts
    /\ ioThread = "none"
    /\ starts' = starts + 1
    /\ userStopped' = FALSE /\ shouldReconnect' = TRUE
    /\ reconnectPending' = FALSE /\ reconnectAttempts' = 0
    /\ ioStopped' = FALSE
    /\ client' = Connecting(NewClient)
    /\ loop' = LeftBehind
    /\ counted' = FALSE
    /\ subscribed' = {}
    /\ ownerPc' = "launch"
    /\ UNCHANGED <<running, timer, ioThread, heard, lateBye, NotOwner>>

\* start_io_thread()
StartLaunch ==
    /\ ownerPc = "launch"
    /\ running' = TRUE
    /\ ioThread' = "running"
    /\ ownerPc' = "idle"
    /\ UNCHANGED <<policy, reconnectAttempts, session, timer, loop, ioStopped,
                   heard, lateBye, starts, NotOwner>>

\* start() after a stop() from a callback, whose thread nobody joined: the
\* assignment to io_thread_, which is joinable, terminates.
StartUnjoined ==
    /\ ownerPc = "idle" /\ ~running /\ starts < setup.starts
    /\ ioThread # "none"
    /\ crashed' = TRUE
    /\ UNCHANGED <<state, io, owner, rearmer>>

StopBegin ==
    /\ ownerPc = "idle"
    /\ client.live \/ ioThread # "none"
    /\ userStopped' = TRUE
    /\ ownerPc' = "disarm"
    /\ UNCHANGED <<running, shouldReconnect, reconnectPending,
                   reconnectAttempts, session, timer, loop, ioThread,
                   ioStopped, heard, lateBye, starts, NotOwner>>

\* stop() on either thread, at pc, after its first flag: the other two, and in
\* between the wait for the next retry.
Disarms(pc, next) ==
    \/ /\ pc = "disarm" /\ next = "cancel"
       /\ shouldReconnect' = FALSE
       /\ UNCHANGED <<reconnectPending, timer, loop>>
    \/ /\ pc = "cancel" /\ next = "unclaim"
       /\ timer' = FALSE /\ loop' = loop \o CancelledWait
       /\ UNCHANGED <<shouldReconnect, reconnectPending>>
    \/ /\ pc = "unclaim" /\ next = "exchange"
       /\ reconnectPending' = FALSE
       /\ UNCHANGED <<shouldReconnect, timer, loop>>

StopDisarms ==
    /\ Disarms(ownerPc, ownerPc')
    /\ UNCHANGED <<running, userStopped, reconnectAttempts, session, ioThread,
                   ioStopped, heard, lateBye, starts, NotOwner>>

\* running_.exchange(false)
StopExchange ==
    /\ ownerPc = "exchange"
    /\ running' = FALSE
    /\ ownerPc' = IF running THEN "bye" ELSE "join"
    /\ UNCHANGED <<policy, reconnectAttempts, session, timer, loop, ioThread,
                   ioStopped, heard, lateBye, starts, NotOwner>>

\* The DISCONNECT of the first stop().
StopBye ==
    /\ ownerPc = "bye"
    /\ Post("disconnect", "owner")
    /\ heard' = FALSE
    /\ ownerPc' = "wait"
    /\ UNCHANGED <<running, policy, reconnectAttempts, session, timer,
                   ioThread, ioStopped, lateBye, starts, NotOwner>>

\* The wait for the DISCONNECT ends when it is answered, or after 2 s: time
\* enough unless the peer does not read or the loop was stopped.
StopWaited ==
    /\ ownerPc = "wait"
    /\ \/ heard
       \/ client.byes # {} /\ ~Has("written")
       \/ ioThread = "exited"
    /\ ownerPc' = "join"
    /\ UNCHANGED <<state, io, heard, lateBye, starts, rearmer, crashed>>

\* io_.stop()
HaltLoopNever == UNCHANGED ioStopped    \* mutant
HaltLoop == ioStopped' = TRUE

\* The join, if there is a thread, after io_.stop() made sure that it ends.
StopJoin ==
    /\ ownerPc = "join"
    /\ HaltLoop
    /\ ownerPc' = "joining"
    /\ UNCHANGED <<state, loop, ioThread, heard, lateBye, starts, NotOwner>>

StopJoined ==
    /\ ownerPc = "joining" /\ ioThread \in {"none", "exited"}
    /\ ioThread' = "none"
    /\ ownerPc' = "release"
    /\ UNCHANGED <<state, loop, ioStopped, heard, lateBye, starts, NotOwner>>

\* release_client()
StopRelease ==
    /\ ownerPc = "release"
    /\ client' = NoClient
    /\ loop' = LeftBehind
    /\ Tell(ByesOfClose(client))
    /\ ownerPc' = "idle"
    /\ UNCHANGED <<running, policy, reconnectAttempts, subscribed, counted,
                   timer, ioThread, starts, NotOwner>>

\* The owner drops the last reference but the one a running handler locked, so
\* that ~mqtt_helper() runs on the io thread: its stop() does not join, and the
\* destructor of io_thread_ terminates.
OwnerDrops ==
    /\ setup.drops
    /\ ownerPc = "idle" /\ rearmPc = "idle" /\ subscribing = {}
    /\ ioPc # "idle" /\ ioThread = "running"
    /\ crashed' = TRUE
    /\ UNCHANGED <<state, io, owner, rearmer>>
-----------------------------------------------------------------------------
(* rearm_reconnect(), subscribe() and publish(), on threads of their own *)

RearmBegin ==
    /\ rearmPc = "idle" /\ rearms < setup.rearms
    /\ running /\ ~userStopped
    /\ rearms' = rearms + 1
    /\ rearmPc' = "exchange"
    /\ UNCHANGED <<state, io, owner, crashed>>

\* should_reconnect_.exchange(true)
RearmExchange ==
    /\ rearmPc = "exchange"
    /\ shouldReconnect' = TRUE
    /\ rearmPc' = IF shouldReconnect THEN "idle" ELSE "reset"
    /\ UNCHANGED <<running, userStopped, reconnectPending, reconnectAttempts,
                   session, timer, subscribes, subscribing, publish, io, owner,
                   rearms, crashed>>

RearmReset ==
    /\ rearmPc = "reset"
    /\ reconnectAttempts' = 0
    /\ rearmPc' = "post"
    /\ UNCHANGED <<running, policy, session, timer, subscribes, subscribing,
                   publish, io, owner, rearms, crashed>>

RearmPost ==
    /\ rearmPc = "post"
    /\ Post("rearmed", "none")
    /\ rearmPc' = "idle"
    /\ UNCHANGED <<state, ioThread, ioStopped, ioPc, owner, rearms, crashed>>

SessionUp == client.live /\ client.link = "connected"    \* is_connected()

\* subscribe() remembers the topic first ...
Subscribe(t) ==
    /\ t \notin subscribes
    /\ subscribes' = subscribes \cup {t}
    /\ subscribing' = subscribing \cup {t}
    /\ UNCHANGED <<running, policy, reconnectAttempts, session, timer, publish,
                   io, owner, rearmer, crashed>>

\* ... and then sends it if there is a session.
SubscribeNow(t) ==
    /\ t \in subscribing
    /\ subscribing' = subscribing \ {t}
    /\ IF SessionUp
       THEN Post("subscribe", t) ELSE UNCHANGED loop
    /\ UNCHANGED <<running, policy, reconnectAttempts, session, timer,
                   subscribes, publish, ioThread, ioStopped, ioPc, owner,
                   rearmer, crashed>>

\* publish(): with no client it is answered at once.
Publish ==
    /\ setup.publishes /\ publish = "none"
    /\ IF client.live
       THEN publish' = "posted" /\ Post("publish", "none")
       ELSE publish' = "answered" /\ UNCHANGED loop
    /\ UNCHANGED <<running, policy, reconnectAttempts, session, timer,
                   subscribes, subscribing, ioThread, ioStopped, ioPc, owner,
                   rearmer, crashed>>
-----------------------------------------------------------------------------
(* The io thread *)

Idle == ioThread = "running" /\ ioPc = "idle"
Running(kind) == Idle /\ ~ioStopped /\ loop # <<>> /\ Head(loop).kind = kind
Arg == Head(loop).arg
Aside == <<running, userStopped, ioThread, ownerPc, starts, rearmer,
           subscribes, subscribing, crashed>>

\* io_.run() returns.
IoExits ==
    /\ Idle /\ ioStopped
    /\ ioThread' = "exited"
    /\ UNCHANGED <<state, loop, ioStopped, ioPc, owner, rearmer, crashed>>

\* A handler of the client leaves it as c and tells the DISCONNECTs in who;
\* next is where the callback it runs begins.
ClientRuns(c, posts, who, next) ==
    /\ client' = c
    /\ loop' = Tail(loop) \o posts
    /\ Tell(who)
    /\ ioPc' = next
    /\ UNCHANGED <<shouldReconnect, reconnectPending, timer, Aside>>

Quietly(c, posts, who) ==
    ClientRuns(c, posts, who, "idle")
    /\ UNCHANGED <<reconnectAttempts, subscribed, counted, publish>>

\* on_connect(false) and on_close() both end in do_reconnect().
Failing(c, posts, who) ==
    ClientRuns(c, posts, who, "reconnect")
    /\ UNCHANGED <<reconnectAttempts, subscribed, counted>>

\* The TCP connect ended: CONNECT goes out, or the attempt failed.
RunChain ==
    /\ Running("chain")
    /\ LET c == [client EXCEPT !.link = IF Arg THEN "handshaking" ELSE "down"]
       IN  IF c.closed THEN Quietly(c, <<>>, {})
           ELSE IF Arg
           THEN Quietly([c EXCEPT !.asked = TRUE, !.reading = TRUE], <<>>, {})
           ELSE Failing(c, <<>>, {}) /\ UNCHANGED publish

\* handle_connack() of a session the broker grants, and on_connect(true).
RunConnackGranted ==
    /\ Running("connack") /\ Arg
    /\ ClientRuns([client EXCEPT !.connTimer = FALSE, !.closed = FALSE,
                                 !.link = "connected"], <<>>, {}, "restore")
    /\ reconnectAttempts' = 0
    /\ subscribed' = {}
    /\ UNCHANGED <<counted, publish>>

\* handle_connack() of one it refuses.
RunConnackRefused ==
    /\ Running("connack") /\ ~Arg
    /\ Failing(CloseConn([client EXCEPT !.connTimer = FALSE, !.closed = TRUE]),
               AbortedBy(client), ByesOfClose(client))
    /\ UNCHANGED publish

\* handle_connect_timeout()
RunConnTimer ==
    /\ Running("connTimer")
    /\ IF client.closed THEN Quietly(client, <<>>, {})
       ELSE /\ Failing(CloseConn([client EXCEPT !.closed = TRUE]),
                       AbortedBy(client), ByesOfClose(client))
            /\ UNCHANGED publish

\* notify_closed_once() after a read or a write failed.
RunBroken ==
    /\ Running("broken")
    /\ IF client.closed THEN Quietly(client, <<>>, {})
       ELSE /\ Failing(CloseConn([client EXCEPT !.closed = TRUE,
                                                !.connTimer = FALSE]),
                       AbortedBy(client), ByesOfClose(client))
            /\ publish' = IF publish = "pending" THEN "answered" ELSE publish

\* async_subscribe_impl()
RunSubscribe ==
    /\ Running("subscribe")
    /\ loop' = Tail(loop)
    /\ subscribed' = IF client.closed THEN subscribed ELSE subscribed \cup {Arg}
    /\ UNCHANGED <<shouldReconnect, reconnectPending, reconnectAttempts, client,
                   timer, ioStopped, ioPc, heard, lateBye, counted, publish,
                   Aside>>

Publishing(next) ==
    /\ loop' = Tail(loop)
    /\ publish' = next
    /\ UNCHANGED <<shouldReconnect, reconnectPending, reconnectAttempts,
                   session, timer, ioStopped, ioPc, heard, lateBye, Aside>>

\* Mutant: without a session the callback is forgotten.
RefusedQuietly == "posted"
Refused == "answered"

\* async_publish_impl(): refused at once without a session.  The PUBLISH is
\* taken to be written then.
RunPublish ==
    /\ Running("publish")
    /\ Publishing(IF client.closed \/ client.link # "connected"
                  THEN Refused ELSE "pending")

\* The PUBACK, the last retry of the client, or the aborted read of a client
\* that was released answers the publish.
RunSettled ==
    /\ Running("settled")
    /\ Publishing("answered")

\* enqueue_write() and do_write() of a DISCONNECT: it is answered at once if
\* there is no socket to write it to.
RunDisconnect ==
    /\ Running("disconnect")
    /\ IF client.dead \/ client.link \notin {"handshaking", "connected"}
       THEN Quietly(client, <<Handler("bye", Arg)>>, {})
       ELSE Quietly([client EXCEPT !.byes = @ \cup {Arg}], <<>>, {})

\* Its handler closes the connection and goes on with what stop() gave it.
RunBye ==
    /\ Running("bye")
    /\ Quietly(CloseConn(client), AbortedBy(client),
               {Arg} \cup ByesOfClose(client))

\* The write of a DISCONNECT ended; close() may have answered it before.
RunWritten ==
    /\ Running("written")
    /\ IF client.byes = {} THEN Quietly(client, <<>>, {})
       ELSE Quietly(CloseConn(client), AbortedBy(client), client.byes)

\* The DISCONNECT of a stop() that returned before the loop got to it.  Its
\* client is gone: only its handler is left.
RunStale ==
    /\ Running("stale")
    /\ loop' = Tail(loop)
    /\ lateBye' = (lateBye \/ Arg = "owner")
    /\ ioStopped' = (Arg = "io")
    /\ UNCHANGED <<shouldReconnect, reconnectPending, reconnectAttempts, client,
                   timer, ioPc, heard, subscribed, counted, publish, Aside>>

\* Any other handler of a client that is gone.
RunGone == Running("gone") /\ Quietly(client, <<>>, {})

\* A callback of the application that leaves the helper alone.
RunMessage == Running("message") /\ Quietly(client, <<>>, {})

\* A callback of the application that calls stop(), on the io thread ...
RunMessageStops ==
    /\ setup.callbackStops
    /\ Running("message")
    /\ userStopped' = TRUE
    /\ loop' = Tail(loop)
    /\ ioPc' = "disarm"
    /\ UNCHANGED <<running, shouldReconnect, reconnectPending,
                   reconnectAttempts, session, timer, subscribes, subscribing,
                   publish, ioThread, ioStopped, owner, rearmer, crashed>>

CallbackDisarms ==
    /\ Disarms(ioPc, ioPc')
    /\ UNCHANGED <<running, userStopped, reconnectAttempts, session, subscribes,
                   subscribing, publish, ioThread, ioStopped, owner, rearmer,
                   crashed>>

\* ... which neither waits nor joins.
CallbackLeaves ==
    /\ ioPc = "exchange"
    /\ running' = FALSE
    /\ ioPc' = "bye"
    /\ UNCHANGED <<policy, reconnectAttempts, session, timer, subscribes,
                   subscribing, publish, loop, ioThread, ioStopped, owner,
                   rearmer, crashed>>

CallbackBye ==
    /\ ioPc = "bye"
    /\ Post("disconnect", "io")
    /\ ioPc' = "idle"
    /\ UNCHANGED <<state, ioThread, ioStopped, owner, rearmer, crashed>>

RestoredNever == <<>>    \* mutant
Restored == SetToSeq(subscribes)

\* The subscriptions are restored after on_connect(true).
Restore ==
    /\ ioPc = "restore"
    /\ loop' = loop \o [i \in DOMAIN Restored |->
                           Handler("subscribe", Restored[i])]
    /\ ioPc' = "idle"
    /\ UNCHANGED <<state, ioThread, ioStopped, owner, rearmer, crashed>>
-----------------------------------------------------------------------------
(* do_reconnect() and the two handlers that call do_connect() *)

At(pc) == ioPc = pc
Goes(pc) ==
    /\ ioPc' = pc
    /\ UNCHANGED <<running, userStopped, client, subscribed, ioThread,
                   ioStopped, owner, rearmer, subscribes, subscribing, publish,
                   crashed>>

ReconnectBegin ==
    /\ At("reconnect")
    /\ Goes(IF shouldReconnect /\ ~userStopped THEN "claim" ELSE "idle")
    /\ UNCHANGED <<shouldReconnect, reconnectPending, reconnectAttempts, timer,
                   loop, counted>>

\* Mutant: every failure that is reported claims a retry.
ReconnectClaimAlways ==
    /\ At("claim")
    /\ reconnectPending' = TRUE
    /\ Goes("decide")
    /\ UNCHANGED <<shouldReconnect, reconnectAttempts, timer, loop, counted>>

\* One retry at a time.
ReconnectClaim ==
    /\ At("claim")
    /\ reconnectPending' = TRUE
    /\ Goes(IF reconnectPending THEN "idle" ELSE "decide")
    /\ UNCHANGED <<shouldReconnect, reconnectAttempts, timer, loop, counted>>

\* Mutant: one retry too many.
ExhaustedLate == MaxReconnects # -1 /\ reconnectAttempts > MaxReconnects

Exhausted == MaxReconnects # -1 /\ reconnectAttempts >= MaxReconnects

ReconnectGivesUp ==
    /\ At("decide") /\ Exhausted
    /\ shouldReconnect' = FALSE
    /\ Goes("givenUp")
    /\ UNCHANGED <<reconnectPending, reconnectAttempts, timer, loop, counted>>

ReconnectGaveUp ==
    /\ At("givenUp")
    /\ reconnectPending' = FALSE
    /\ Goes("idle")
    /\ UNCHANGED <<shouldReconnect, reconnectAttempts, timer, loop, counted>>

\* The counter is of no consequence when the helper retries for ever: it stays
\* where it is here.
ReconnectWaits ==
    /\ At("decide") /\ ~Exhausted
    /\ reconnectAttempts' = IF MaxReconnects = -1 THEN reconnectAttempts
                                                 ELSE reconnectAttempts + 1
    /\ timer' = TRUE
    /\ loop' = loop \o CancelledWait
    /\ counted' = TRUE
    /\ Goes("idle")
    /\ UNCHANGED <<shouldReconnect, reconnectPending>>

DoConnect(posts) ==
    /\ client' = Connecting(client)
    /\ loop' = Tail(loop) \o posts \o AbortedByConnect(client)
    /\ counted' = FALSE

NoConnect == loop' = Tail(loop) /\ UNCHANGED <<client, counted>>

WaitOverUnnoticed == UNCHANGED reconnectPending    \* mutant
WaitOver == reconnectPending' = FALSE

\* The wait of reconnect_timer_ is over.
RunWait ==
    /\ Running("wait")
    /\ WaitOver
    /\ IF Arg /\ shouldReconnect /\ ~userStopped
       THEN DoConnect(<<>>) ELSE NoConnect
    /\ UNCHANGED <<shouldReconnect, reconnectAttempts, timer, ioStopped, ioPc,
                   heard, lateBye, subscribed, publish, Aside>>

\* What rearm_reconnect() posted, unless "stop() won the race".
RunRearmed ==
    /\ Running("rearmed")
    /\ IF ~shouldReconnect \/ userStopped
       THEN NoConnect /\ UNCHANGED <<timer, reconnectPending>>
       ELSE /\ DoConnect(CancelledWait)
            /\ timer' = FALSE
            /\ reconnectPending' = FALSE
    /\ UNCHANGED <<shouldReconnect, reconnectAttempts, ioStopped, ioPc,
                   heard, lateBye, subscribed, publish, Aside>>
-----------------------------------------------------------------------------
(* The network and the clock *)

Outside ==
    UNCHANGED <<running, policy, reconnectAttempts, subscribed, counted,
                subscribes, subscribing, publish, ioThread, ioStopped, ioPc,
                owner, rearmer, crashed>>

ChainDone ==
    /\ client.chain
    /\ client' = [client EXCEPT !.chain = FALSE]
    /\ \E ok \in {TRUE} \cup (IF "connect" \in Faults THEN {FALSE} ELSE {}) :
          Post("chain", ok)
    /\ UNCHANGED timer /\ Outside

ConnackArrives ==
    /\ client.asked
    /\ client' = [client EXCEPT !.asked = FALSE]
    /\ \E ok \in {TRUE} \cup (IF "refuse" \in Faults THEN {FALSE} ELSE {}) :
          Post("connack", ok)
    /\ UNCHANGED timer /\ Outside

StreamBreaks ==
    /\ "drop" \in Faults
    /\ client.reading
    /\ client' = [client EXCEPT !.reading = FALSE, !.asked = FALSE]
    /\ Post("broken", "none")
    /\ UNCHANGED timer /\ Outside

MessageArrives ==
    /\ client.reading /\ client.link = "connected" /\ ~Has("message")
    /\ Post("message", "none")
    /\ UNCHANGED <<client, timer>> /\ Outside

\* The peer took the DISCONNECT.
ByeTaken ==
    /\ client.byes # {} /\ ~Has("written")
    /\ Post("written", "none")
    /\ UNCHANGED <<client, timer>> /\ Outside

\* The broker acknowledges the publish, or the client's retries run out.
PublishSettles ==
    /\ publish = "pending" /\ ioThread = "running" /\ ~Has("settled")
    /\ Post("settled", "none")
    /\ UNCHANGED <<client, timer>> /\ Outside

ConnTimerFires ==
    /\ client.connTimer /\ ioThread = "running"
    /\ client' = [client EXCEPT !.connTimer = FALSE]
    /\ Post("connTimer", "none")
    /\ UNCHANGED timer /\ Outside

TimerFires ==
    /\ timer /\ ioThread = "running"
    /\ timer' = FALSE
    /\ Post("wait", TRUE)
    /\ UNCHANGED client /\ Outside
-----------------------------------------------------------------------------
Owner == \/ StartBegin \/ StartLaunch \/ StartUnjoined
         \/ StopBegin \/ StopDisarms \/ StopExchange \/ StopBye \/ StopWaited
         \/ StopJoin \/ StopJoined \/ StopRelease
         \/ OwnerDrops

Rearmer == RearmBegin \/ RearmExchange \/ RearmReset \/ RearmPost

IoStep == \/ IoExits
          \/ RunChain \/ RunConnackGranted \/ RunConnackRefused
          \/ RunConnTimer \/ RunBroken \/ RunSubscribe
          \/ RunPublish \/ RunSettled
          \/ RunDisconnect \/ RunBye \/ RunWritten \/ RunStale \/ RunGone
          \/ RunMessage \/ RunMessageStops \/ CallbackDisarms
          \/ CallbackLeaves \/ CallbackBye \/ Restore
          \/ ReconnectBegin \/ ReconnectClaim \/ ReconnectWaits
          \/ ReconnectGivesUp \/ ReconnectGaveUp
          \/ RunWait \/ RunRearmed

Network == \/ ChainDone \/ ConnackArrives \/ StreamBreaks
           \/ MessageArrives \/ ByeTaken

Next ==
    /\ ~crashed
    /\ UNCHANGED setup
    /\ \/ Owner
       \/ Rearmer
       \/ \E t \in Topics : Subscribe(t) \/ SubscribeNow(t)
       \/ Publish
       \/ IoStep
       \/ Network
       \/ ConnTimerFires
       \/ TimerFires
       \/ PublishSettles

Spec == Init /\ [][Next]_vars

\* The io thread runs, the owner goes on with a call it has begun, and timers
\* fire: that of the next retry, and those of a publish that is not answered.
FairSpec ==
    /\ Spec
    /\ WF_threads(~crashed /\ IoStep)
    /\ WF_threads(~crashed /\ ownerPc # "idle" /\ Owner)
    /\ WF_threads(~crashed /\ TimerFires)
    /\ WF_threads(~crashed /\ PublishSettles)
-----------------------------------------------------------------------------
Kinds == {"chain", "connack", "connTimer", "broken", "message", "subscribe",
          "disconnect", "bye", "written", "stale", "wait", "rearmed",
          "publish", "settled", "gone"}

\* Where stop() is on either thread, until its DISCONNECT is posted.
Stopping == {"disarm", "cancel", "unclaim", "exchange", "bye"}

TypeOK ==
    /\ {running, userStopped, shouldReconnect, reconnectPending, timer,
        ioStopped, heard, lateBye, crashed} \subseteq BOOLEAN
    /\ reconnectAttempts \in Nat
    /\ MaxReconnects # -1 => reconnectAttempts <= MaxReconnects
    /\ subscribing \subseteq subscribes /\ subscribes \subseteq Topics
    /\ subscribed \subseteq subscribes
    /\ publish \in {"none", "posted", "pending", "answered"}
    /\ client.link \in {"down", "connecting", "handshaking", "connected"}
    /\ client.byes \subseteq Byes
    /\ ~client.live => client = NoClient
    /\ \A i \in DOMAIN loop : loop[i].kind \in Kinds
    /\ ioThread \in {"none", "running", "exited"}
    /\ ioPc \in Stopping \cup {"idle", "restore", "reconnect", "claim",
                             "decide", "givenUp"}
    /\ ioPc # "idle" => ioThread = "running"
    /\ ownerPc \in Stopping \cup {"idle", "launch", "wait", "join", "joining",
                                "release"}
    /\ rearmPc \in {"idle", "exchange", "reset", "post"}

\* mqtt_helper.hpp:76-79: while automatic reconnection is armed the helper is
\* on its way back to the broker: no callback, cancelled wait or lost claim
\* leaves it with a session that is gone and nothing that would open the next.
\* A connect attempt, a session or the end of one only counts while closed_ does
\* not keep it from being reported.
NotStranded ==
    running /\ shouldReconnect /\ ~userStopped
            /\ Idle /\ ~ioStopped /\ rearmPc \notin {"reset", "post"} =>
        \/ timer
        \/ \E i \in DOMAIN loop :
              loop[i] = Handler("wait", TRUE) \/ loop[i].kind = "rearmed"
        \/ /\ ~client.closed
           /\ \/ client.chain \/ client.reading
              \/ \E i \in DOMAIN loop : loop[i].kind \in {"chain", "broken"}

\* mqtt_helper.hpp:575-578: "a single failure can be reported by more than one
\* path", and would be counted several times and push the backoff out: one
\* do_connect() leads to one retry at most, until there was a second start() or a
\* rearm_reconnect(); see OneRetryEver for what goes wrong then.
OneRetryPerAttempt ==
    [][ReconnectWaits /\ ~userStopped /\ starts <= 1 /\ rearms = 0
         => ~counted]_vars

\* README.md:28 "Subscription persistence across reconnects": the client has,
\* or is about to get, every topic subscribe() remembers, whichever of
\* subscribe() and on_connect(true) comes first.
Resubscribed ==
    SessionUp /\ ~client.closed /\ ioPc # "restore" =>
        \A t \in subscribes :
            \/ t \in subscribed \cup subscribing
            \/ \E i \in DOMAIN loop : loop[i] = Handler("subscribe", t)

\* README.md:312-330, for mqtt_helper too: a publish is answered while the helper
\* runs, also one that an earlier stop() left behind.  The stop() is its owner's:
\* the DISCONNECT of one in a callback may stop the next loop, see
\* RunningIsServed.
PublishHeard ==
    running /\ publish # "none" ~> publish = "answered" \/ ~running

\* stop() comes back, whatever the peer does with the DISCONNECT and whether or
\* not a callback stopped the loop before (mqtt_helper.hpp:332-343).
StopReturns == ownerPc # "idle" ~> ownerPc = "idle" \/ crashed

\* mqtt_helper.hpp:319-328: the handler of stop()'s DISCONNECT refers to locals
\* of stop(), so it must not run once stop() left their scope.
ByeInTime == ~lateBye

\* README.md:150-151 "start() after stop() must connect again", "Calling stop()
\* from the io thread (inside a callback) must be safe": neither a start() after
\* such a stop() nor dropping the helper ends the program.
NeverTerminates == ~crashed
-----------------------------------------------------------------------------
(* Claims that do not hold either; no run checks them *)

\* mqtt_helper.hpp:575-578 for every life of the helper.  A wait that is still
\* queued or armed when its timer is armed anew, which a rearm and a stop() that
\* races do_reconnect() bring about, is cancelled: its handler gives the claim of
\* the new one back (:634), and a second report is counted.
OneRetryEver == [][ReconnectWaits /\ ~userStopped => ~counted]_vars

\* README.md:150 "start() after stop() must connect again": a helper that is
\* running has an io thread that runs handlers.
RunningIsServed ==
    running /\ ownerPc = "idle" /\ ~crashed =>
        ioThread = "running" /\ ~ioStopped

\* README.md:327-330 "A disconnect fails everything still in flight", also that
\* of stop(): the aborted read that would fail a pending publish is queued, but
\* nobody runs the loop any more until the next start().
PublishHeardAtStop == publish # "none" ~> publish = "answered"

\* mqtt_helper.hpp:402 "stop() won the race": nothing else disarms a rearm that
\* returned true before its connect attempt is made.
RearmHonoured == [][RunRearmed => shouldReconnect \/ userStopped]_vars

\* mqtt_helper.hpp:378-379: no second connect attempt races with one that is
\* under way or with a session that is up.
OneAttempt ==
    [][(RunWait \/ RunRearmed) /\ client' # client
         => ~client.chain /\ (client.link # "connected" \/ client.closed)]_vars
=============================================================================
