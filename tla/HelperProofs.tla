---------------------------- MODULE HelperProofs ----------------------------
(***************************************************************************)
(* litemqtt::mqtt_helper for every setup: any number of starts, rearms and *)
(* retries, any topics and every fault.                                    *)
(***************************************************************************)
EXTENDS Helper, SequenceTheorems, FiniteSetTheorems, TLAPS

-----------------------------------------------------------------------------
(* The inductive invariant *)

Handlers ==
    [kind : {"chain", "connack", "wait"}, arg : BOOLEAN]
    \cup [kind : {"connTimer", "broken", "message", "written", "rearmed",
                  "publish", "settled", "gone"}, arg : {"none"}]
    \cup [kind : {"disconnect", "bye", "stale"}, arg : Byes]
    \cup [kind : {"subscribe"}, arg : Topics]

Clients ==
    [live : BOOLEAN, closed : BOOLEAN,
     link : {"down", "connecting", "handshaking", "connected"},
     dead : BOOLEAN, chain : BOOLEAN, connTimer : BOOLEAN, asked : BOOLEAN,
     reading : BOOLEAN, byes : SUBSET Byes]

Flags ==
    /\ running \in BOOLEAN /\ userStopped \in BOOLEAN
    /\ shouldReconnect \in BOOLEAN /\ reconnectPending \in BOOLEAN
    /\ timer \in BOOLEAN /\ ioStopped \in BOOLEAN /\ counted \in BOOLEAN
    /\ heard \in BOOLEAN /\ lateBye \in BOOLEAN /\ crashed \in BOOLEAN

Places ==
    /\ ioThread \in {"none", "running", "exited"}
    /\ ioPc \in {"idle", "restore", "reconnect", "claim", "decide", "givenUp",
                 "disarm", "cancel", "unclaim", "exchange", "bye"}
    /\ ownerPc \in {"idle", "launch", "disarm", "cancel", "unclaim", "exchange",
                    "bye", "wait", "join", "joining", "release"}
    /\ rearmPc \in {"idle", "exchange", "reset", "post"}

Typed ==
    /\ setup \in Setup
    /\ Flags
    /\ Places
    /\ reconnectAttempts \in Nat
    /\ MaxReconnects # -1 => reconnectAttempts <= MaxReconnects
    /\ client \in Clients
    /\ loop \in Seq(Handlers)
    /\ publish \in {"none", "posted", "pending", "answered"}
    /\ starts \in Nat /\ rearms \in Nat

Queued == Range(loop)
Awaited == Handler("wait", TRUE)
Rearmed == Handler("rearmed", "none")
Subscribing(t) == Handler("subscribe", t)

\* What subscribe() was called for, before anything else is.
Asked ==
    /\ subscribing \subseteq subscribes /\ subscribes \subseteq Topics
    /\ subscribed \subseteq subscribes
    /\ \A t \in Topics : Subscribing(t) \in Queued => t \in subscribes

\* The threads exclude each other: handlers run between start() and the join of
\* stop(), on a client.
Phases ==
    /\ ioPc # "idle" => ioThread = "running"
    /\ ownerPc \in {"launch", "release"} => ioThread = "none"
    /\ ownerPc = "launch" \/ ioThread # "none" => client.live
    /\ ~client.live => client = NoClient
    /\ ownerPc \in {"disarm", "cancel", "unclaim", "exchange", "bye", "wait",
                    "join", "joining", "release"} => userStopped
    /\ ioPc \in {"disarm", "cancel", "unclaim", "exchange", "bye"}
          => userStopped

\* A claim of do_reconnect() is never without the wait that drops it.
Claimed ==
    reconnectPending /\ ~userStopped =>
        timer \/ Awaited \in Queued \/ ioPc \in {"decide", "givenUp"}

\* rearm_reconnect() may be called before do_reconnect() has dropped its claim.
GivenUp ==
    ioPc = "givenUp" /\ shouldReconnect /\ ~userStopped =>
        rearmPc \in {"reset", "post"} \/ Rearmed \in Queued

\* What is under way on the connection of a client that is not closed ends in a
\* callback of the helper.
UnderWay ==
    /\ ~client.closed
    /\ \/ client.chain \/ client.reading
       \/ \E ok \in BOOLEAN : Handler("chain", ok) \in Queued
       \/ Handler("broken", "none") \in Queued

OnItsWay ==
    \/ timer \/ Awaited \in Queued \/ Rearmed \in Queued
    \/ UnderWay

Alive ==
    /\ running \/ ownerPc = "launch"
    /\ shouldReconnect /\ ~userStopped
    /\ ioPc \in {"idle", "restore"}
    /\ rearmPc \notin {"reset", "post"}
    => OnItsWay

Restoring ==
    SessionUp /\ ~client.closed /\ ioPc # "restore" =>
        \A t \in subscribes :
            t \in subscribed \cup subscribing \/ Subscribing(t) \in Queued

HInv == Typed /\ Asked /\ Phases /\ Claimed /\ GivenUp /\ Alive /\ Restoring
-----------------------------------------------------------------------------
(* The queue of io_ *)

LEMMA QueueAppend ==
    ASSUME NEW S, NEW s \in Seq(S), NEW h \in S
    PROVE  /\ Append(s, h) \in Seq(S)
           /\ Range(Append(s, h)) = Range(s) \cup {h}
<1>1. Append(s, h) \in Seq(S) /\ DOMAIN Append(s, h) = 1 .. Len(s) + 1
  OBVIOUS
<1>2. \A i \in DOMAIN s : i \in DOMAIN Append(s, h) /\ Append(s, h)[i] = s[i]
  OBVIOUS
<1>3. Append(s, h)[Len(s) + 1] = h
  OBVIOUS
<1>4. \A i \in DOMAIN Append(s, h) : i \in DOMAIN s \/ i = Len(s) + 1
  BY <1>1
<1> QED
  BY <1>1, <1>2, <1>3, <1>4 DEF Range

LEMMA QueueConcat ==
    ASSUME NEW S, NEW s \in Seq(S), NEW t \in Seq(S)
    PROVE  /\ s \o t \in Seq(S)
           /\ Range(s \o t) = Range(s) \cup Range(t)
<1>1. s \o t \in Seq(S) /\ DOMAIN (s \o t) = 1 .. Len(s) + Len(t)
  OBVIOUS
<1>2. \A i \in DOMAIN s : i \in DOMAIN (s \o t) /\ (s \o t)[i] = s[i]
  OBVIOUS
<1>3. \A i \in DOMAIN t :
         Len(s) + i \in DOMAIN (s \o t) /\ (s \o t)[Len(s) + i] = t[i]
  OBVIOUS
<1>4. \A i \in DOMAIN (s \o t) :
         \/ i \in DOMAIN s
         \/ i - Len(s) \in DOMAIN t /\ i = Len(s) + (i - Len(s))
  BY <1>1
<1>5. \A i \in DOMAIN (s \o t) : (s \o t)[i] \in Range(s) \cup Range(t)
  BY <1>2, <1>3, <1>4 DEF Range
<1>6. Range(s) \subseteq Range(s \o t)
  BY <1>2 DEF Range
<1>7. Range(t) \subseteq Range(s \o t)
  BY <1>3 DEF Range
<1>8. Range(s \o t) \subseteq Range(s) \cup Range(t)
  BY <1>5 DEF Range
<1> QED
  BY <1>1, <1>6, <1>7, <1>8

LEMMA HandlersConcat ==
    ASSUME NEW s \in Seq(Handlers), NEW t \in Seq(Handlers)
    PROVE  /\ s \o t \in Seq(Handlers)
           /\ Range(s \o t) = Range(s) \cup Range(t)
  BY QueueConcat

LEMMA QueueTail ==
    ASSUME NEW S, NEW s \in Seq(S), s # << >>
    PROVE  /\ Head(s) \in S /\ Tail(s) \in Seq(S)
           /\ Range(s) = {Head(s)} \cup Range(Tail(s))
<1>1. Head(s) \in S /\ Tail(s) \in Seq(S) /\ Len(s) \in Nat \ {0}
  OBVIOUS
<1>2. 1 \in DOMAIN s /\ s[1] = Head(s)
  BY <1>1
<1>3. \A i \in DOMAIN Tail(s) : i + 1 \in DOMAIN s /\ Tail(s)[i] = s[i + 1]
  BY <1>1
<1>4. \A i \in DOMAIN s :
         i = 1 \/ (i - 1 \in DOMAIN Tail(s) /\ s[i] = Tail(s)[i - 1])
  BY <1>1
<1>5. Head(s) \in Range(s)
  BY <1>2 DEF Range
<1>6. Range(Tail(s)) \subseteq Range(s)
  BY <1>3 DEF Range
<1>7. Range(s) \subseteq {Head(s)} \cup Range(Tail(s))
  <2> SUFFICES ASSUME NEW i \in DOMAIN s
               PROVE  s[i] \in {Head(s)} \cup Range(Tail(s))
    BY DEF Range
  <2> QED
    BY <1>2, <1>4 DEF Range
<1> QED
  BY <1>1, <1>5, <1>6, <1>7

LEMMA QueueOne ==
    ASSUME NEW S, NEW h \in S
    PROVE  /\ <<h>> \in Seq(S) /\ Range(<<h>>) = {h}
           /\ << >> \in Seq(S) /\ Range(<< >>) = {}
  BY DEF Range

\* Nothing changes the settings.
LEMMA SetupStays ==
    ASSUME setup' = setup
    PROVE  /\ Handlers' = Handlers /\ Topics' = Topics
           /\ MaxReconnects' = MaxReconnects
  BY DEF Handlers, Topics, MaxReconnects

\* A thread posts, to the end of the queue.
LEMMA Posted ==
    ASSUME loop \in Seq(Handlers), NEW posts \in Seq(Handlers),
           loop' = loop \o posts, setup' = setup
    PROVE  /\ (loop \in Seq(Handlers))'
           /\ Queued' = Queued \cup Range(posts)
  BY HandlersConcat, SetupStays DEF Queued

LEMMA PostedOne ==
    ASSUME loop \in Seq(Handlers), NEW h \in Handlers,
           loop' = Append(loop, h), setup' = setup
    PROVE  /\ (loop \in Seq(Handlers))'
           /\ Queued' = Queued \cup {h}
  BY QueueAppend, SetupStays DEF Queued

\* A handler runs: it is the first of the queue and its posts go to the end.
LEMMA Ran ==
    ASSUME loop \in Seq(Handlers), loop # << >>,
           NEW posts \in Seq(Handlers),
           loop' = Tail(loop) \o posts, setup' = setup
    PROVE  /\ (loop \in Seq(Handlers))'
           /\ Head(loop) \in Handlers
           /\ Head(loop) \in Queued
           /\ Queued \subseteq {Head(loop)} \cup Queued'
           /\ Range(posts) \subseteq Queued'
           /\ Queued' \subseteq Queued \cup Range(posts)
<1>1. Head(loop) \in Handlers /\ Tail(loop) \in Seq(Handlers)
      /\ Range(loop) = {Head(loop)} \cup Range(Tail(loop))
  BY QueueTail
<1>2. /\ Tail(loop) \o posts \in Seq(Handlers)
      /\ Range(Tail(loop) \o posts) = Range(Tail(loop)) \cup Range(posts)
  <2>1. ASSUME NEW t \in Seq(Handlers)
        PROVE  /\ t \o posts \in Seq(Handlers)
               /\ Range(t \o posts) = Range(t) \cup Range(posts)
    BY HandlersConcat
  <2> QED
    BY <1>1, <2>1
<1> QED
  BY <1>1, <1>2, SetupStays DEF Queued

LEMMA RanAlone ==
    ASSUME loop \in Seq(Handlers), loop # << >>,
           loop' = Tail(loop), setup' = setup
    PROVE  /\ (loop \in Seq(Handlers))'
           /\ Head(loop) \in Handlers
           /\ Head(loop) \in Queued
           /\ Queued = {Head(loop)} \cup Queued'
  BY QueueTail, SetupStays DEF Queued

\* What ends a connect attempt or a session stays until it runs.
LEMMA StillQueued ==
    ASSUME NEW h, h.kind \notin {"chain", "broken"},
           Queued \subseteq {h} \cup Queued'
    PROVE  /\ (\E ok \in BOOLEAN : Handler("chain", ok) \in Queued)
                => \E ok \in BOOLEAN : Handler("chain", ok) \in Queued'
           /\ Handler("broken", "none") \in Queued
                => Handler("broken", "none") \in Queued'
<1>1. \A ok : Handler("chain", ok) # h
  BY DEF Handler
<1>2. Handler("broken", "none") # h
  BY DEF Handler
<1> QED
  BY <1>1, <1>2

-----------------------------------------------------------------------------
(* The client *)

\* close() leaves what was under way as an aborted handler.
LEMMA Closing ==
    ASSUME NEW c \in Clients
    PROVE  /\ CloseConn(c) \in Clients
           /\ CloseConn(c).live = c.live /\ CloseConn(c).closed = c.closed
           /\ CloseConn(c).link \in {c.link, "down"}
           /\ AbortedBy(c) \in Seq(Handlers)
           /\ ByesOfClose(c) \subseteq Byes
           /\ c.chain => CloseConn(c).chain
                           \/ Handler("chain", FALSE) \in Range(AbortedBy(c))
           /\ c.reading => CloseConn(c).reading
                             \/ Handler("broken", "none") \in Range(AbortedBy(c))
           /\ Range(AbortedBy(c)) \subseteq
                 {Handler("chain", FALSE), Handler("broken", "none")}
<1> DEFINE a == IF c.chain THEN <<Handler("chain", FALSE)>> ELSE << >>
           b == IF c.reading THEN <<Handler("broken", "none")>> ELSE << >>
<1>1. Handler("chain", FALSE) \in Handlers /\ Handler("broken", "none") \in Handlers
  BY DEF Handler, Handlers
<1>2. a \in Seq(Handlers)
      /\ Range(a) = IF c.chain THEN {Handler("chain", FALSE)} ELSE {}
  BY <1>1, QueueOne
<1>3. b \in Seq(Handlers)
      /\ Range(b) = IF c.reading THEN {Handler("broken", "none")} ELSE {}
  BY <1>1, QueueOne
<1>4. a \o b \in Seq(Handlers) /\ Range(a \o b) = Range(a) \cup Range(b)
  <2> HIDE DEF a, b
  <2> QED
    BY <1>2, <1>3, HandlersConcat
<1>5. CloseConn(c) \in Clients
      /\ CloseConn(c).live = c.live /\ CloseConn(c).closed = c.closed
      /\ CloseConn(c).link \in {c.link, "down"}
      /\ ByesOfClose(c) \subseteq Byes
  BY DEF CloseConn, Clients, ByesOfClose
<1>6. CASE c.dead
  BY <1>5, <1>6, QueueOne, <1>1 DEF CloseConn, AbortedBy
<1>7. CASE ~c.dead
  <2>1. AbortedBy(c) = a \o b
    BY <1>7 DEF AbortedBy
  <2> HIDE DEF a, b
  <2> QED
    BY <2>1, <1>2, <1>3, <1>4, <1>5
<1> QED
  BY <1>6, <1>7

LEMMA Connected ==
    ASSUME NEW c \in Clients, setup \in Setup
    PROVE  /\ Connecting(c) \in Clients
           /\ Connecting(c).live = c.live /\ ~Connecting(c).closed
           /\ Connecting(c).chain /\ Connecting(c).link = "connecting"
           /\ AbortedByConnect(c) \in Seq(Handlers)
           /\ Range(AbortedByConnect(c)) \subseteq
                 {Handler("chain", FALSE), Handler("broken", "none")}
<1> DEFINE a == IF c.chain THEN <<Handler("chain", FALSE)>> ELSE << >>
           b == IF c.reading THEN <<Handler("broken", "none")>> ELSE << >>
<1>1. Handler("chain", FALSE) \in Handlers /\ Handler("broken", "none") \in Handlers
  BY DEF Handler, Handlers
<1>2. a \in Seq(Handlers) /\ Range(a) \subseteq {Handler("chain", FALSE)}
  BY <1>1, QueueOne
<1>3. b \in Seq(Handlers) /\ Range(b) \subseteq {Handler("broken", "none")}
  BY <1>1, QueueOne
<1>4. a \o b \in Seq(Handlers) /\ Range(a \o b) = Range(a) \cup Range(b)
  <2> HIDE DEF a, b
  <2> QED
    BY <1>2, <1>3, HandlersConcat
<1>5. AbortedByConnect(c) = a \o b
  BY DEF AbortedByConnect
<1>6. ConnectTimeout \in BOOLEAN
  BY DEF Setup, ConnectTimeout
<1>7. /\ Connecting(c) \in Clients
      /\ Connecting(c).live = c.live /\ ~Connecting(c).closed
      /\ Connecting(c).chain /\ Connecting(c).link = "connecting"
  BY <1>6 DEF Connecting, Clients
<1> HIDE DEF a, b
<1> QED
  BY <1>2, <1>3, <1>4, <1>5, <1>7

LEMMA Cancelled ==
    /\ CancelledWait \in Seq(Handlers)
    /\ Range(CancelledWait) \subseteq {Handler("wait", FALSE)}
<1>1. Handler("wait", FALSE) \in Handlers
  BY DEF Handler, Handlers
<1> QED
  BY <1>1, QueueOne DEF CancelledWait

-----------------------------------------------------------------------------
(* The handlers of the client *)

\* A handler of the client that is not one of the helper's own keeps the
\* invariant if it reports to the helper (next is "reconnect") or leaves what is
\* under way under way, and opens no session but through next = "restore".
LEMMA ClientRunsKeeps ==
    ASSUME HInv, setup' = setup, Idle, loop # << >>,
           NEW c \in Clients, NEW posts \in Seq(Handlers),
           NEW who \in SUBSET Byes,
           NEW next \in {"idle", "reconnect", "restore"},
           ClientRuns(c, posts, who, next),
           c.live = client.live, client.live,
           Head(loop).kind \notin {"wait", "rearmed", "subscribe"},
           \A h \in Range(posts) : h.kind # "subscribe",
           reconnectAttempts' \in {reconnectAttempts, 0},
           subscribed' \subseteq subscribed, counted' = counted,
           publish' \in {"none", "posted", "pending", "answered"},
           next # "reconnect" => (UnderWay => UnderWay'),
           \/ next = "restore"
           \/ subscribed' = subscribed
              /\ (c.link = "connected" /\ ~c.closed
                    => client.link = "connected" /\ ~client.closed)
    PROVE  HInv'
<1> USE DEF HInv
<1>1. loop \in Seq(Handlers) /\ loop' = Tail(loop) \o posts
  BY DEF ClientRuns, Typed
<1>2. /\ (loop \in Seq(Handlers))'
      /\ Head(loop) \in Queued
      /\ Queued \subseteq {Head(loop)} \cup Queued'
      /\ Range(posts) \subseteq Queued'
      /\ Queued' \subseteq Queued \cup Range(posts)
  BY <1>1, Ran
<1>3. /\ Awaited \in Queued => Awaited \in Queued'
      /\ Rearmed \in Queued => Rearmed \in Queued'
      /\ \A t : Subscribing(t) \in Queued <=> Subscribing(t) \in Queued'
  BY <1>2 DEF Awaited, Rearmed, Subscribing, Handler
<1>4. /\ UNCHANGED <<running, userStopped, shouldReconnect, reconnectPending,
                     timer, ioThread, ownerPc, rearmPc, subscribes, subscribing>>
      /\ UNCHANGED <<crashed, starts, rearms>>
      /\ client' = c /\ ioPc' = next /\ ioPc = "idle" /\ ioThread = "running"
  BY DEF ClientRuns, Aside, rearmer, Idle
<1>5. heard' \in BOOLEAN /\ lateBye' \in BOOLEAN /\ ioStopped' \in BOOLEAN
  BY DEF ClientRuns, Tell, Typed, Flags
<1> HIDE DEF HInv
<1>6. Typed /\ Asked /\ Phases /\ Claimed /\ GivenUp /\ Alive /\ Restoring
  BY DEF HInv
<1>7. Typed'
  <2>1. reconnectAttempts' \in Nat
        /\ (MaxReconnects # -1 => reconnectAttempts' <= MaxReconnects)
    BY <1>6 DEF Typed, Setup, MaxReconnects
  <2> QED
    BY <1>2, <1>4, <1>5, <1>6, <2>1, SetupStays
       DEF Typed, Flags, Places, Clients
<1>8. Asked'
  BY <1>3, <1>4, <1>6, SetupStays DEF Asked
<1>9. Phases'
  BY <1>4, <1>6 DEF Phases
<1>10. Claimed' /\ GivenUp'
  BY <1>3, <1>4, <1>6 DEF Claimed, GivenUp
<1>11. Alive'
  BY <1>3, <1>4, <1>6 DEF Alive, OnItsWay
<1>12. Restoring'
  BY <1>3, <1>4, <1>6 DEF Restoring, SessionUp, Asked
<1> QED
  BY <1>7, <1>8, <1>9, <1>10, <1>11, <1>12 DEF HInv

\* The handler that runs, and what is known of its argument.
LEMMA RunningFacts ==
    ASSUME HInv, NEW kind, Running(kind)
    PROVE  /\ Idle /\ loop # << >> /\ Head(loop).kind = kind
           /\ Head(loop) \in Handlers /\ Head(loop) \in Queued
           /\ client \in Clients /\ client.live
           /\ kind \in {"chain", "connack", "wait"} => Arg \in BOOLEAN
           /\ kind \in {"disconnect", "bye", "stale"} => Arg \in Byes
           /\ kind = "subscribe" => Arg \in Topics
           /\ kind \in {"rearmed", "broken"} => Arg = "none"
           /\ Head(loop) = Handler(kind, Arg)
<1>1. loop \in Seq(Handlers) /\ loop # << >>
  BY DEF Running, HInv, Typed
<1>2. Head(loop) \in Handlers /\ Head(loop) \in Queued
  BY <1>1, QueueTail DEF Queued
<1> QED
  BY <1>1, <1>2 DEF Running, HInv, Typed, Idle, Phases, Handlers, Arg, Handler

LEMMA NoPosts ==
    /\ << >> \in Seq(Handlers) /\ Range(<< >>) = {}
    /\ \A h \in Handlers : <<h>> \in Seq(Handlers) /\ Range(<<h>>) = {h}
  BY DEF Range

LEMMA RunChainKeeps ==
    ASSUME HInv, setup' = setup, RunChain
    PROVE  HInv'
<1> DEFINE c == [client EXCEPT !.link = IF Arg THEN "handshaking" ELSE "down"]
           d == [c EXCEPT !.asked = TRUE, !.reading = TRUE]
<1>1. /\ Idle /\ loop # << >> /\ Head(loop).kind = "chain"
      /\ client \in Clients /\ client.live /\ Arg \in BOOLEAN
  BY RunningFacts DEF RunChain
<1>2. c \in Clients /\ d \in Clients /\ c.live /\ d.live
      /\ c.link # "connected" /\ d.link # "connected"
      /\ c.closed = client.closed /\ d.reading /\ d.closed = client.closed
  BY <1>1 DEF Clients
<1>3. HInv => publish \in {"none", "posted", "pending", "answered"}
              /\ reconnectAttempts' = reconnectAttempts
  BY DEF HInv, Typed, RunChain, Quietly, Failing
<1> HIDE DEF c, d
<1>4. CASE client.closed
  <2>1. Quietly(c, << >>, {})
    BY <1>2, <1>4 DEF RunChain, c
  <2> QED
    BY <1>1, <1>2, <1>3, <1>4, <2>1, ClientRunsKeeps, NoPosts
       DEF Quietly, UnderWay
<1>5. CASE ~client.closed /\ Arg
  <2>1. Quietly(d, << >>, {})
    BY <1>2, <1>5 DEF RunChain, c, d
  <2>2. UnderWay'
    BY <1>2, <1>5, <2>1 DEF Quietly, ClientRuns, UnderWay
  <2> QED
    BY <1>1, <1>2, <1>3, <2>1, <2>2, ClientRunsKeeps, NoPosts DEF Quietly
<1>6. CASE ~client.closed /\ ~Arg
  <2>1. Failing(c, << >>, {}) /\ UNCHANGED publish
    BY <1>2, <1>6 DEF RunChain, c
  <2> QED
    BY <1>1, <1>2, <1>3, <2>1, ClientRunsKeeps, NoPosts DEF Failing
<1> QED
  BY <1>1, <1>4, <1>5, <1>6

\* What every handler of the client starts from.
LEMMA ClientFacts ==
    ASSUME HInv
    PROVE  /\ client \in Clients
           /\ publish \in {"none", "posted", "pending", "answered"}
           /\ reconnectAttempts \in Nat
  BY DEF HInv, Typed

LEMMA RunConnackGrantedKeeps ==
    ASSUME HInv, setup' = setup, RunConnackGranted
    PROVE  HInv'
<1> DEFINE c == [client EXCEPT !.connTimer = FALSE, !.closed = FALSE,
                               !.link = "connected"]
<1>1. /\ Idle /\ loop # << >> /\ Head(loop).kind = "connack"
      /\ client \in Clients /\ client.live
      /\ Head(loop) \in Handlers /\ loop \in Seq(Handlers)
  BY RunningFacts DEF RunConnackGranted, HInv, Typed
<1>2. /\ ClientRuns(c, << >>, {}, "restore") /\ reconnectAttempts' = 0
      /\ subscribed' = {} /\ counted' = counted /\ publish' = publish
  BY DEF RunConnackGranted
<1>3. /\ c \in Clients /\ c.live = client.live /\ ~c.closed
      /\ c.chain = client.chain /\ c.reading = client.reading
  BY <1>1 DEF Clients
<1> HIDE DEF c
<1>4. client' = c /\ loop' = Tail(loop) \o << >>
  BY <1>2 DEF ClientRuns
<1>5. Queued \subseteq {Head(loop)} \cup Queued'
  BY <1>1, <1>4, Ran, NoPosts
<1>6. UnderWay => UnderWay'
  BY <1>1, <1>3, <1>4, <1>5, StillQueued DEF UnderWay
<1> QED
  BY <1>1, <1>2, <1>3, <1>6, ClientFacts, ClientRunsKeeps, NoPosts

\* on_connect(false) and on_close().
LEMMA FailingKeeps ==
    ASSUME HInv, setup' = setup, NEW kind, Running(kind),
           kind \notin {"wait", "rearmed", "subscribe"},
           NEW c \in Clients, c.live, c.closed,
           Failing(CloseConn(c), AbortedBy(client), ByesOfClose(client)),
           publish' \in {"none", "posted", "pending", "answered"}
    PROVE  HInv'
<1>1. Idle /\ loop # << >> /\ Head(loop).kind = kind /\ client \in Clients
      /\ client.live
  BY RunningFacts
<1>2. /\ CloseConn(c) \in Clients /\ CloseConn(c).live /\ CloseConn(c).closed
  BY Closing
<1>3. /\ AbortedBy(client) \in Seq(Handlers) /\ ByesOfClose(client) \subseteq Byes
      /\ \A h \in Range(AbortedBy(client)) : h.kind # "subscribe"
  BY <1>1, Closing DEF Handler
<1>4. /\ ClientRuns(CloseConn(c), AbortedBy(client), ByesOfClose(client),
                    "reconnect")
      /\ UNCHANGED <<reconnectAttempts, subscribed, counted>>
  BY DEF Failing
<1> QED
  BY <1>1, <1>2, <1>3, <1>4, ClientRunsKeeps

LEMMA RunConnackRefusedKeeps ==
    ASSUME HInv, setup' = setup, RunConnackRefused
    PROVE  HInv'
<1> DEFINE c == [client EXCEPT !.connTimer = FALSE, !.closed = TRUE]
<1>1. client \in Clients /\ client.live
  BY RunningFacts DEF RunConnackRefused
<1>2. c \in Clients /\ c.live /\ c.closed
  BY <1>1 DEF Clients
<1>3. /\ Running("connack") /\ publish' = publish
      /\ Failing(CloseConn(c), AbortedBy(client), ByesOfClose(client))
  BY DEF RunConnackRefused
<1> HIDE DEF c
<1> QED
  BY <1>2, <1>3, FailingKeeps, ClientFacts

LEMMA IdleQuietKeeps ==
    ASSUME HInv, setup' = setup, NEW kind, Running(kind),
           kind \notin {"wait", "rearmed", "subscribe", "chain", "broken"},
           Quietly(client, << >>, {})
    PROVE  HInv'
<1>1. /\ Idle /\ loop # << >> /\ Head(loop).kind = kind /\ client \in Clients
      /\ client.live
      /\ Head(loop) \in Handlers /\ loop \in Seq(Handlers)
  BY RunningFacts DEF HInv, Typed
<1>2. /\ ClientRuns(client, << >>, {}, "idle")
      /\ UNCHANGED <<reconnectAttempts, subscribed, counted, publish>>
      /\ client' = client /\ loop' = Tail(loop) \o << >>
  BY DEF Quietly, ClientRuns
<1>3. Queued \subseteq {Head(loop)} \cup Queued'
  BY <1>1, <1>2, Ran, NoPosts
<1>4. UnderWay => UnderWay'
  BY <1>1, <1>2, <1>3, StillQueued DEF UnderWay
<1> QED
  BY <1>1, <1>2, <1>4, ClientRunsKeeps, NoPosts, ClientFacts

LEMMA RunConnTimerKeeps ==
    ASSUME HInv, setup' = setup, RunConnTimer
    PROVE  HInv'
<1> DEFINE c == [client EXCEPT !.closed = TRUE]
<1>1. client \in Clients /\ client.live /\ Running("connTimer")
  BY RunningFacts DEF RunConnTimer
<1>2. CASE client.closed
  BY <1>1, <1>2, IdleQuietKeeps DEF RunConnTimer
<1>3. CASE ~client.closed
  <2>1. c \in Clients /\ c.live /\ c.closed
    BY <1>1 DEF Clients
  <2>2. /\ publish' = publish
        /\ Failing(CloseConn(c), AbortedBy(client), ByesOfClose(client))
    BY <1>3 DEF RunConnTimer
  <2> HIDE DEF c
  <2> QED
    BY <1>1, <2>1, <2>2, FailingKeeps, ClientFacts
<1> QED
  BY <1>2, <1>3

LEMMA RunBrokenKeeps ==
    ASSUME HInv, setup' = setup, RunBroken
    PROVE  HInv'
<1> DEFINE c == [client EXCEPT !.closed = TRUE, !.connTimer = FALSE]
<1>1. client \in Clients /\ client.live /\ Running("broken") /\ Idle
      /\ loop # << >> /\ Head(loop).kind = "broken"
  BY RunningFacts DEF RunBroken
<1>2. CASE client.closed
  <2>1. Quietly(client, << >>, {})
    BY <1>2 DEF RunBroken
  <2> QED
    BY <1>1, <1>2, <2>1, ClientRunsKeeps, NoPosts, ClientFacts
       DEF Quietly, UnderWay
<1>3. CASE ~client.closed
  <2>1. c \in Clients /\ c.live /\ c.closed
    BY <1>1 DEF Clients
  <2>2. /\ publish' = IF publish = "pending" THEN "answered" ELSE publish
        /\ Failing(CloseConn(c), AbortedBy(client), ByesOfClose(client))
    BY <1>3 DEF RunBroken
  <2> HIDE DEF c
  <2> QED
    BY <1>1, <2>1, <2>2, FailingKeeps, ClientFacts
<1> QED
  BY <1>2, <1>3

\* A handler that may close the connection, not the client.
LEMMA ShutKeeps ==
    ASSUME HInv, setup' = setup, NEW kind, Running(kind),
           kind \notin {"wait", "rearmed", "subscribe", "chain", "broken"},
           NEW who \in SUBSET Byes,
           Quietly(CloseConn(client), AbortedBy(client), who)
    PROVE  HInv'
<1>1. /\ Idle /\ loop # << >> /\ Head(loop).kind = kind /\ client \in Clients
      /\ client.live
      /\ Head(loop) \in Handlers /\ loop \in Seq(Handlers)
  BY RunningFacts DEF HInv, Typed
<1>2. /\ CloseConn(client) \in Clients
      /\ CloseConn(client).live = client.live
      /\ CloseConn(client).closed = client.closed
      /\ CloseConn(client).link \in {client.link, "down"}
      /\ AbortedBy(client) \in Seq(Handlers)
      /\ client.chain => CloseConn(client).chain
                    \/ Handler("chain", FALSE) \in Range(AbortedBy(client))
      /\ client.reading => CloseConn(client).reading
                    \/ Handler("broken", "none") \in Range(AbortedBy(client))
      /\ Range(AbortedBy(client)) \subseteq
                 {Handler("chain", FALSE), Handler("broken", "none")}
  BY <1>1, Closing
<1>3. /\ ClientRuns(CloseConn(client), AbortedBy(client), who, "idle")
      /\ UNCHANGED <<reconnectAttempts, subscribed, counted, publish>>
      /\ client' = CloseConn(client) /\ loop' = Tail(loop) \o AbortedBy(client)
  BY DEF Quietly, ClientRuns
<1>4. Queued \subseteq {Head(loop)} \cup Queued'
      /\ Range(AbortedBy(client)) \subseteq Queued'
  BY <1>1, <1>2, <1>3, Ran
<1>5. UnderWay => UnderWay'
  <2>1. /\ (\E ok \in BOOLEAN : Handler("chain", ok) \in Queued)
             => \E ok \in BOOLEAN : Handler("chain", ok) \in Queued'
        /\ Handler("broken", "none") \in Queued
             => Handler("broken", "none") \in Queued'
    BY <1>1, <1>4, StillQueued
  <2>3. client.chain => client'.chain \/ Handler("chain", FALSE) \in Queued'
    BY <1>2, <1>3, <1>4
  <2>4. client.reading => client'.reading \/ Handler("broken", "none") \in Queued'
    BY <1>2, <1>3, <1>4
  <2>5. client'.closed = client.closed
    BY <1>2, <1>3
  <2> QED
    BY <2>1, <2>3, <2>4, <2>5 DEF UnderWay
<1>6. \A h \in Range(AbortedBy(client)) : h.kind # "subscribe"
  BY <1>2 DEF Handler
<1> QED
  BY <1>1, <1>2, <1>3, <1>5, <1>6, ClientRunsKeeps, ClientFacts

LEMMA RunDisconnectKeeps ==
    ASSUME HInv, setup' = setup, RunDisconnect
    PROVE  HInv'
<1> DEFINE c == IF client.dead \/ client.link \notin {"handshaking", "connected"}
                THEN client ELSE [client EXCEPT !.byes = @ \cup {Arg}]
           posts == IF client.dead
                         \/ client.link \notin {"handshaking", "connected"}
                    THEN <<Handler("bye", Arg)>> ELSE << >>
<1>1. /\ Idle /\ loop # << >> /\ Head(loop).kind = "disconnect"
      /\ client \in Clients /\ client.live /\ Arg \in Byes
      /\ Head(loop) \in Handlers /\ loop \in Seq(Handlers)
  BY RunningFacts DEF RunDisconnect, HInv, Typed
<1>2. /\ c \in Clients /\ c.live = client.live /\ c.closed = client.closed
      /\ c.link = client.link /\ c.chain = client.chain
      /\ c.reading = client.reading
  BY <1>1 DEF Clients
<1>3. Handler("bye", Arg) \in Handlers /\ Handler("bye", Arg).kind = "bye"
  BY <1>1 DEF Handler, Handlers
<1>4. posts \in Seq(Handlers) /\ \A h \in Range(posts) : h.kind # "subscribe"
  BY <1>3, NoPosts
<1>5. Quietly(c, posts, {})
  BY DEF RunDisconnect
<1> HIDE DEF c, posts
<1>6. /\ ClientRuns(c, posts, {}, "idle")
      /\ UNCHANGED <<reconnectAttempts, subscribed, counted, publish>>
      /\ client' = c /\ loop' = Tail(loop) \o posts
  BY <1>5 DEF Quietly, ClientRuns
<1>7. Queued \subseteq {Head(loop)} \cup Queued'
  BY <1>1, <1>4, <1>6, Ran
<1>8. UnderWay => UnderWay'
  BY <1>1, <1>2, <1>6, <1>7, StillQueued DEF UnderWay
<1> QED
  BY <1>1, <1>2, <1>4, <1>6, <1>8, ClientRunsKeeps, ClientFacts

LEMMA RunByeKeeps ==
    ASSUME HInv, setup' = setup, RunBye
    PROVE  HInv'
<1>1. Running("bye") /\ Arg \in Byes /\ ByesOfClose(client) \subseteq Byes
      /\ Quietly(CloseConn(client), AbortedBy(client),
                 {Arg} \cup ByesOfClose(client))
  BY RunningFacts, Closing DEF RunBye
<1> QED
  BY <1>1, ShutKeeps

LEMMA RunWrittenKeeps ==
    ASSUME HInv, setup' = setup, RunWritten
    PROVE  HInv'
<1>1. Running("written") /\ client.byes \subseteq Byes
  BY ClientFacts DEF RunWritten, Clients
<1>2. \/ Quietly(client, << >>, {})
      \/ Quietly(CloseConn(client), AbortedBy(client), client.byes)
  BY DEF RunWritten
<1> QED
  BY <1>1, <1>2, ShutKeeps, IdleQuietKeeps

LEMMA RunNothingKeeps ==
    ASSUME HInv, setup' = setup, RunMessage \/ RunGone
    PROVE  HInv'
  BY IdleQuietKeeps DEF RunMessage, RunGone

-----------------------------------------------------------------------------
(* The other handlers *)

\* A handler that leaves the client, the policy and the threads alone.
LEMMA AsideKeeps ==
    ASSUME HInv, setup' = setup, NEW kind, Running(kind),
           kind \in {"subscribe", "publish", "settled", "stale"},
           loop' = Tail(loop),
           UNCHANGED <<Aside, shouldReconnect, reconnectPending,
                       reconnectAttempts, client, timer, ioPc, counted>>,
           heard' \in BOOLEAN, lateBye' \in BOOLEAN, ioStopped' \in BOOLEAN,
           publish' \in {"none", "posted", "pending", "answered"},
           subscribed' = IF kind = "subscribe" /\ ~client.closed
                         THEN subscribed \cup {Arg} ELSE subscribed
    PROVE  HInv'
<1>1. /\ loop # << >> /\ Head(loop).kind = kind
      /\ Head(loop) = Handler(kind, Arg) /\ loop \in Seq(Handlers)
      /\ kind = "subscribe" => Arg \in Topics
  BY RunningFacts DEF HInv, Typed
<1>2. (loop \in Seq(Handlers))' /\ Head(loop) \in Queued
      /\ Queued = {Head(loop)} \cup Queued'
  BY <1>1, RanAlone
<1>3. /\ Awaited \in Queued => Awaited \in Queued'
      /\ Rearmed \in Queued => Rearmed \in Queued'
  BY <1>1, <1>2 DEF Awaited, Rearmed, Handler
<1>4. \A t : /\ Subscribing(t) \in Queued' => Subscribing(t) \in Queued
             /\ Subscribing(t) \in Queued
                  => Subscribing(t) \in Queued' \/ (kind = "subscribe" /\ t = Arg)
  BY <1>1, <1>2 DEF Subscribing, Handler
<1>5. kind = "subscribe" => Subscribing(Arg) \in Queued
  BY <1>1, <1>2 DEF Subscribing
<1>6. UnderWay => UnderWay'
  BY <1>1, <1>2, StillQueued DEF UnderWay
<1>7. Typed /\ Asked /\ Phases /\ Claimed /\ GivenUp /\ Alive /\ Restoring
  BY DEF HInv
<1>8. UNCHANGED <<running, userStopped, ioThread, ownerPc, starts, rearmPc,
                  rearms, subscribes, subscribing, crashed>>
  BY DEF Aside, rearmer
<1>9. Typed'
  BY <1>2, <1>7, <1>8, SetupStays DEF Typed, Flags, Places, Clients
<1>10. Asked'
  BY <1>1, <1>4, <1>5, <1>7, <1>8, SetupStays DEF Asked
<1>11. Phases'
  BY <1>7, <1>8 DEF Phases
<1>12. Claimed' /\ GivenUp'
  BY <1>3, <1>7, <1>8 DEF Claimed, GivenUp
<1>13. Alive'
  BY <1>3, <1>6, <1>7, <1>8 DEF Alive, OnItsWay
<1>14. Restoring'
  BY <1>4, <1>7, <1>8 DEF Restoring, SessionUp
<1> QED
  BY <1>9, <1>10, <1>11, <1>12, <1>13, <1>14 DEF HInv

LEMMA RunAsideKeeps ==
    ASSUME HInv, setup' = setup,
           RunSubscribe \/ RunPublish \/ RunSettled \/ RunStale
    PROVE  HInv'
<1>1. heard \in BOOLEAN /\ lateBye \in BOOLEAN /\ ioStopped \in BOOLEAN
  BY DEF HInv, Typed, Flags
<1>2. CASE RunSubscribe
  BY <1>1, <1>2, AsideKeeps, ClientFacts DEF RunSubscribe
<1>3. CASE RunPublish \/ RunSettled
  <2>1. Running("publish") \/ Running("settled")
    BY <1>3 DEF RunPublish, RunSettled
  <2>2. \E next \in {"pending", "answered"} : Publishing(next)
    BY <1>3 DEF RunPublish, RunSettled, Refused
  <2>3. /\ loop' = Tail(loop)
        /\ publish' \in {"none", "posted", "pending", "answered"}
        /\ UNCHANGED <<Aside, shouldReconnect, reconnectPending,
                       reconnectAttempts, client, timer, ioPc, counted>>
        /\ UNCHANGED <<subscribed, heard, lateBye, ioStopped>>
    BY <2>2 DEF Publishing, session
  <2> QED
    BY <1>1, <2>1, <2>3, AsideKeeps
<1>4. CASE RunStale
  BY <1>1, <1>4, AsideKeeps, ClientFacts DEF RunStale
<1> QED
  BY <1>2, <1>3, <1>4

\* Steps of stop(), whose first flag makes the rest of the invariant easy.
LEMMA StoppingKeeps ==
    ASSUME HInv, setup' = setup, userStopped' = TRUE,
           shouldReconnect' \in {shouldReconnect, FALSE},
           reconnectPending' \in {reconnectPending, FALSE},
           timer' \in {timer, FALSE}, running' \in {running, FALSE},
           heard' \in {heard, FALSE},
           loop' \in Seq(Handlers),
           \A t : Subscribing(t) \in Queued <=> Subscribing(t) \in Queued',
           Places', ioPc' # "idle" => ioThread = "running",
           ioPc = "restore" => ioPc' = "restore",
           ownerPc' \in {"launch", "release"} => ownerPc' = ownerPc,
           UNCHANGED <<reconnectAttempts, client, subscribed, counted,
                       ioThread, ioStopped, lateBye, starts, rearmPc, rearms,
                       subscribes, subscribing, publish, crashed>>
    PROVE  HInv'
<1>1. Typed /\ Asked /\ Phases /\ Claimed /\ GivenUp /\ Alive /\ Restoring
  BY DEF HInv
<1>2. Flags'
  <2>1. Flags
    BY <1>1 DEF Typed
  <2>2. shouldReconnect' \in BOOLEAN /\ reconnectPending' \in BOOLEAN
    BY <2>1, Zenon DEF Flags
  <2>3. timer' \in BOOLEAN /\ running' \in BOOLEAN /\ heard' \in BOOLEAN
    BY <2>1, Zenon DEF Flags
  <2>4. userStopped' \in BOOLEAN
    BY Zenon
  <2> QED
    BY <2>1, <2>2, <2>3, <2>4 DEF Flags
<1>3. Typed'
  BY <1>1, <1>2, SetupStays DEF Typed
<1>4. Asked' /\ Restoring'
  BY <1>1, SetupStays DEF Asked, Restoring, SessionUp
<1>5. userStopped'
  OBVIOUS
<1>6. Phases' /\ Claimed' /\ GivenUp' /\ Alive'
  BY <1>1, <1>5 DEF Phases, Claimed, GivenUp, Alive
<1> QED
  BY <1>3, <1>4, <1>6 DEF HInv

\* The wait that a stop() cancels is no handler of a subscribe().
LEMMA DisarmsQueue ==
    ASSUME HInv, setup' = setup, NEW pc, NEW next, Disarms(pc, next)
    PROVE  /\ shouldReconnect' \in {shouldReconnect, FALSE}
           /\ reconnectPending' \in {reconnectPending, FALSE}
           /\ timer' \in {timer, FALSE}
           /\ pc \in {"disarm", "cancel", "unclaim"}
           /\ next \in {"cancel", "unclaim", "exchange"}
           /\ loop' \in Seq(Handlers)
           /\ Queued' \in {Queued, Queued \cup Range(CancelledWait)}
           /\ \A t : Subscribing(t) \in Queued <=> Subscribing(t) \in Queued'
<1>1. loop \in Seq(Handlers)
  BY DEF HInv, Typed
<1>2. /\ shouldReconnect' \in {shouldReconnect, FALSE}
      /\ reconnectPending' \in {reconnectPending, FALSE}
      /\ timer' \in {timer, FALSE}
      /\ pc \in {"disarm", "cancel", "unclaim"}
      /\ next \in {"cancel", "unclaim", "exchange"}
      /\ loop' = loop \/ loop' = loop \o CancelledWait
  BY DEF Disarms
<1>3. CASE loop' = loop
  BY <1>1, <1>2, <1>3 DEF Queued
<1>4. CASE loop' = loop \o CancelledWait
  <2>1. loop' \in Seq(Handlers) /\ Queued' = Queued \cup Range(CancelledWait)
    BY <1>1, <1>4, Posted, Cancelled
  <2>2. \A t : Subscribing(t) \in Queued <=> Subscribing(t) \in Queued'
    BY <2>1, Cancelled DEF Subscribing, Handler
  <2> QED
    BY <1>2, <2>1, <2>2
<1> QED
  BY <1>2, <1>3, <1>4

\* The DISCONNECT of a stop() is no handler of a subscribe() either.
LEMMA ByeQueue ==
    ASSUME HInv, setup' = setup, NEW b \in Byes, Post("disconnect", b)
    PROVE  /\ loop' \in Seq(Handlers)
           /\ \A t : Subscribing(t) \in Queued <=> Subscribing(t) \in Queued'
<1>1. Handler("disconnect", b) \in Handlers
  BY DEF Handler, Handlers
<1>2. /\ loop' \in Seq(Handlers)
      /\ Queued' = Queued \cup {Handler("disconnect", b)}
  BY <1>1, PostedOne DEF Post, HInv, Typed
<1> QED
  BY <1>2 DEF Subscribing, Handler

\* stop() in a callback.
LEMMA CallbackStopsKeeps ==
    ASSUME HInv, setup' = setup,
           \/ RunMessageStops \/ CallbackDisarms \/ CallbackLeaves
           \/ CallbackBye
    PROVE  HInv'
<1>1. Typed /\ Asked /\ Phases /\ Claimed /\ GivenUp /\ Alive /\ Restoring
  BY DEF HInv
<1>2. UNCHANGED <<reconnectAttempts, client, subscribed, counted, ioThread,
                  ioStopped, ownerPc, heard, lateBye, starts, rearmPc, rearms,
                  subscribes, subscribing, publish, crashed>>
  BY DEF RunMessageStops, CallbackDisarms, CallbackLeaves, CallbackBye, state,
         policy, session, owner, rearmer
<1>3. CASE RunMessageStops
  <2>1. /\ Idle /\ loop # << >> /\ Head(loop).kind = "message"
        /\ Head(loop) \in Handlers /\ loop \in Seq(Handlers)
    BY <1>3, RunningFacts DEF RunMessageStops, HInv, Typed
  <2>2. /\ userStopped' = TRUE /\ loop' = Tail(loop) /\ ioPc' = "disarm"
        /\ UNCHANGED <<running, shouldReconnect, reconnectPending, timer>>
    BY <1>3 DEF RunMessageStops
  <2>3. loop' \in Seq(Handlers) /\ Queued = {Head(loop)} \cup Queued'
    BY <2>1, <2>2, QueueTail DEF Queued
  <2>4. \A t : Subscribing(t) \in Queued <=> Subscribing(t) \in Queued'
    BY <2>1, <2>3 DEF Subscribing, Handler
  <2>5. Places' /\ ioThread = "running" /\ ioPc = "idle"
    BY <1>1, <1>2, <2>1, <2>2 DEF Typed, Places, Idle
  <2> QED
    BY <1>1, <1>2, <2>2, <2>3, <2>4, <2>5, StoppingKeeps
<1>4. CASE CallbackDisarms
  <2>1. Disarms(ioPc, ioPc') /\ UNCHANGED <<running, userStopped>>
    BY <1>4 DEF CallbackDisarms
  <2>2. /\ ioPc \in {"disarm", "cancel", "unclaim"}
        /\ ioPc' \in {"cancel", "unclaim", "exchange"}
    BY <2>1 DEF Disarms
  <2>3. userStopped' = TRUE
    BY <1>1, <2>1, <2>2 DEF Phases, Typed, Flags
  <2>4. Places' /\ ioThread = "running"
    BY <1>1, <1>2, <2>2 DEF Typed, Places, Phases
  <2>5. /\ shouldReconnect' \in {shouldReconnect, FALSE}
        /\ reconnectPending' \in {reconnectPending, FALSE}
        /\ timer' \in {timer, FALSE}
        /\ loop' \in Seq(Handlers)
        /\ \A t : Subscribing(t) \in Queued <=> Subscribing(t) \in Queued'
    BY <2>1, DisarmsQueue
  <2> QED
    BY <1>1, <1>2, <2>1, <2>2, <2>3, <2>4, <2>5, StoppingKeeps
<1>5. CASE CallbackLeaves
  <2>1. /\ ioPc = "exchange" /\ ioPc' = "bye" /\ running' = FALSE
        /\ loop' = loop
        /\ UNCHANGED <<userStopped, shouldReconnect, reconnectPending, timer>>
    BY <1>5 DEF CallbackLeaves, policy
  <2>2. userStopped' = TRUE
    BY <1>1, <2>1 DEF Phases, Typed, Flags
  <2>3. Places' /\ ioThread = "running" /\ loop' \in Seq(Handlers)
    BY <1>1, <1>2, <2>1 DEF Typed, Places, Phases
  <2>4. Queued' = Queued
    BY <2>1 DEF Queued
  <2> QED
    BY <1>1, <1>2, <2>1, <2>2, <2>3, <2>4, StoppingKeeps
<1>6. CASE CallbackBye
  <2>1. /\ ioPc = "bye" /\ ioPc' = "idle" /\ Post("disconnect", "io")
        /\ UNCHANGED <<running, userStopped, shouldReconnect, reconnectPending,
                       timer>>
    BY <1>6 DEF CallbackBye, state, policy
  <2>2. userStopped' = TRUE
    BY <1>1, <2>1 DEF Phases, Typed, Flags
  <2>3. Places'
    BY <1>1, <1>2, <2>1 DEF Typed, Places
  <2>4. /\ loop' \in Seq(Handlers)
        /\ \A t : Subscribing(t) \in Queued <=> Subscribing(t) \in Queued'
    BY <2>1, ByeQueue DEF Byes
  <2> QED
    BY <1>1, <1>2, <2>1, <2>2, <2>3, <2>4, StoppingKeeps
<1> QED
  BY <1>3, <1>4, <1>5, <1>6

LEMMA RestoredAll ==
    ASSUME HInv
    PROVE  /\ Restored \in Seq(subscribes)
           /\ \A t \in subscribes : \E i \in DOMAIN Restored : Restored[i] = t
<1>1. IsFiniteSet(Topics) /\ subscribes \subseteq Topics
  BY DEF HInv, Typed, Setup, Topics, Asked
<1>2. IsFiniteSet(subscribes)
  BY <1>1, FS_Subset
<1> DEFINE n == Cardinality(subscribes)
<1>3. n \in Nat /\ ExistsBijection(1 .. n, subscribes)
  BY <1>2, FS_CardinalityType
<1>4. \E f \in [1 .. n -> subscribes] : IsInjective(f)
  BY <1>3 DEF ExistsBijection, Bijection, Injection
<1>5. Restored \in [1 .. n -> subscribes] /\ IsInjective(Restored)
  BY <1>4 DEF Restored, SetToSeq
<1>6. Restored \in Injection(1 .. n, subscribes)
  BY <1>5 DEF Injection
<1>7. IsFiniteSet(1 .. n) /\ Cardinality(1 .. n) = n
  BY <1>3, FS_Interval
<1>8. Restored \in Surjection(1 .. n, subscribes)
  BY <1>2, <1>6, <1>7, FS_Injection
<1> QED
  BY <1>3, <1>5, <1>8 DEF Surjection

LEMMA RestoreKeeps ==
    ASSUME HInv, setup' = setup, Restore
    PROVE  HInv'
<1> DEFINE posts == [i \in DOMAIN Restored |-> Handler("subscribe", Restored[i])]
<1>1. Typed /\ Asked /\ Phases /\ Claimed /\ GivenUp /\ Alive /\ Restoring
  BY DEF HInv
<1>2. posts \in Seq(Handlers)
      /\ Range(posts) = {Subscribing(t) : t \in subscribes}
  <2>1. \A t \in subscribes : Subscribing(t) \in Handlers
    BY <1>1 DEF Subscribing, Handler, Handlers, Asked
  <2>2. Len(Restored) \in Nat /\ DOMAIN Restored = 1 .. Len(Restored)
        /\ \A i \in DOMAIN Restored : Restored[i] \in subscribes
    BY RestoredAll
  <2>3. posts \in [1 .. Len(Restored) -> Handlers]
    BY <2>1, <2>2 DEF Subscribing
  <2>4. posts \in Seq(Handlers)
    BY <2>2, <2>3
  <2> QED
    BY <2>2, <2>4, RestoredAll DEF Range, Subscribing
<1>3. /\ loop' = loop \o posts
      /\ ioPc = "restore" /\ ioPc' = "idle"
      /\ UNCHANGED <<running, userStopped, shouldReconnect, reconnectPending,
                     reconnectAttempts, client, subscribed, counted, timer,
                     subscribes, subscribing, publish, ioThread, ioStopped,
                     ownerPc, heard, lateBye, starts, rearmPc, rearms, crashed>>
  BY DEF Restore, state, policy, session, owner, rearmer
<1> HIDE DEF posts
<1>4. /\ (loop \in Seq(Handlers))'
      /\ Queued' = Queued \cup {Subscribing(t) : t \in subscribes}
  BY <1>1, <1>2, <1>3, Posted DEF Typed
<1>5. \A t : Subscribing(t) \in Queued'
               => Subscribing(t) \in Queued \/ t \in subscribes
  BY <1>4 DEF Subscribing, Handler
<1>6. Typed'
  BY <1>1, <1>3, <1>4, SetupStays DEF Typed, Flags, Places
<1>7. Asked'
  BY <1>1, <1>3, <1>5, SetupStays DEF Asked
<1>8. Phases'
  BY <1>1, <1>3 DEF Phases
<1>9. Claimed' /\ GivenUp'
  BY <1>1, <1>3, <1>4 DEF Claimed, GivenUp
<1>10. Alive'
  BY <1>1, <1>3, <1>4 DEF Alive, OnItsWay, UnderWay
<1>11. Restoring'
  BY <1>3, <1>4 DEF Restoring
<1> QED
  BY <1>6, <1>7, <1>8, <1>9, <1>10, <1>11 DEF HInv

LEMMA ReconnectKeeps ==
    ASSUME HInv, setup' = setup,
           \/ ReconnectBegin \/ ReconnectClaim \/ ReconnectGivesUp
           \/ ReconnectGaveUp
    PROVE  HInv'
<1>1. Typed /\ Asked /\ Phases /\ Claimed /\ GivenUp /\ Alive /\ Restoring
  BY DEF HInv
<1>2. /\ UNCHANGED <<running, userStopped, client, subscribed, ioThread,
                     ioStopped, ownerPc, heard, lateBye, starts, rearmPc,
                     rearms, subscribes, subscribing, publish, crashed,
                     reconnectAttempts, timer, loop, counted>>
      /\ Queued' = Queued
  BY DEF ReconnectBegin, ReconnectClaim, ReconnectGivesUp, ReconnectGaveUp,
         Goes, owner, rearmer, Queued
<1>3. /\ ioPc \in {"reconnect", "claim", "decide", "givenUp"}
      /\ ioPc' \in {"idle", "claim", "decide", "givenUp"}
  BY DEF ReconnectBegin, ReconnectClaim, ReconnectGivesUp, ReconnectGaveUp,
         Goes, At
<1>4. shouldReconnect' \in BOOLEAN /\ reconnectPending' \in BOOLEAN
  <2>1. shouldReconnect \in BOOLEAN /\ reconnectPending \in BOOLEAN
    BY <1>1 DEF Typed, Flags
  <2> QED
    BY <2>1, Zenon DEF ReconnectBegin, ReconnectClaim, ReconnectGivesUp,
         ReconnectGaveUp
<1>5. Typed'
  BY <1>1, <1>2, <1>3, <1>4, SetupStays DEF Typed, Flags, Places
<1>6. Asked' /\ Phases' /\ Restoring'
  BY <1>1, <1>2, <1>3, SetupStays DEF Asked, Phases, Restoring, SessionUp
<1>7. Claimed' /\ GivenUp' /\ Alive'
  <2>1. CASE ReconnectBegin
    BY <1>1, <1>2, <1>3, <2>1
       DEF ReconnectBegin, Goes, At, Claimed, GivenUp, Alive, OnItsWay
  <2>2. CASE ReconnectClaim
    BY <1>1, <1>2, <1>3, <2>2
       DEF ReconnectClaim, Goes, At, Claimed, GivenUp, Alive, OnItsWay
  <2>3. CASE ReconnectGivesUp
    BY <1>1, <1>2, <1>3, <2>3
       DEF ReconnectGivesUp, Goes, At, Claimed, GivenUp, Alive, OnItsWay
  <2>4. CASE ReconnectGaveUp
    BY <1>1, <1>2, <1>3, <2>4
       DEF ReconnectGaveUp, Goes, At, Claimed, GivenUp, Alive, OnItsWay
  <2> QED
    BY <2>1, <2>2, <2>3, <2>4
<1> QED
  BY <1>5, <1>6, <1>7 DEF HInv

LEMMA ReconnectWaitsKeeps ==
    ASSUME HInv, setup' = setup, ReconnectWaits
    PROVE  HInv'
<1>1. Typed /\ Asked /\ Phases /\ Claimed /\ GivenUp /\ Alive /\ Restoring
  BY DEF HInv
<1>2. /\ UNCHANGED <<running, userStopped, client, subscribed, ioThread,
                     ioStopped, ownerPc, heard, lateBye, starts, rearmPc,
                     rearms, subscribes, subscribing, publish, crashed,
                     shouldReconnect, reconnectPending>>
      /\ ioPc = "decide" /\ ioPc' = "idle"
      /\ loop' = loop \o CancelledWait
      /\ timer' /\ timer' \in BOOLEAN /\ counted' \in BOOLEAN
  <2>1. timer' = TRUE /\ counted' = TRUE
    BY DEF ReconnectWaits
  <2>2. timer' /\ timer' \in BOOLEAN /\ counted' \in BOOLEAN
    BY <2>1, Zenon
  <2> QED
    BY <2>2 DEF ReconnectWaits, Goes, At, owner, rearmer
<1>3. (loop \in Seq(Handlers))' /\ Queued' = Queued \cup Range(CancelledWait)
  BY <1>1, <1>2, Posted, Cancelled DEF Typed
<1>4. \A t : Subscribing(t) \in Queued <=> Subscribing(t) \in Queued'
  BY <1>3, Cancelled DEF Subscribing, Handler
<1>5. /\ reconnectAttempts' \in Nat
      /\ MaxReconnects # -1 => reconnectAttempts' <= MaxReconnects
  BY <1>1 DEF Typed, Setup, MaxReconnects, ReconnectWaits, Exhausted
<1>6. Typed'
  BY <1>1, <1>2, <1>3, <1>5, SetupStays DEF Typed, Flags, Places
<1>7. Asked' /\ Phases' /\ Restoring'
  BY <1>1, <1>2, <1>4, SetupStays DEF Asked, Phases, Restoring, SessionUp
<1>8. Claimed' /\ GivenUp' /\ Alive'
  BY <1>2 DEF Claimed, GivenUp, Alive, OnItsWay
<1> QED
  BY <1>6, <1>7, <1>8 DEF HInv

\* do_connect() by a handler of the helper.
LEMMA DoConnectKeeps ==
    ASSUME HInv, setup' = setup, NEW kind, Running(kind),
           NEW posts \in Seq(Handlers),
           Range(posts) \subseteq {Handler("wait", FALSE)},
           DoConnect(posts), reconnectPending' = FALSE, timer' \in BOOLEAN,
           UNCHANGED <<shouldReconnect, reconnectAttempts, ioStopped, ioPc,
                       heard, lateBye, subscribed, publish, Aside>>
    PROVE  HInv'
<1>1. Typed /\ Asked /\ Phases /\ Claimed /\ GivenUp /\ Alive /\ Restoring
  BY DEF HInv
<1>2. /\ Idle /\ loop # << >> /\ client \in Clients /\ client.live
      /\ loop \in Seq(Handlers) /\ setup \in Setup
  BY <1>1, RunningFacts DEF Typed
<1> DEFINE aborted == AbortedByConnect(client)
<1>3. /\ client' \in Clients /\ client'.live /\ ~client'.closed
      /\ client'.chain /\ client'.link = "connecting"
      /\ aborted \in Seq(Handlers)
      /\ Range(aborted) \subseteq
            {Handler("chain", FALSE), Handler("broken", "none")}
  BY <1>2, Connected DEF DoConnect
<1>4. loop' = (Tail(loop) \o posts) \o aborted
  BY DEF DoConnect
<1> HIDE DEF aborted
<1>5. /\ (loop \in Seq(Handlers))'
      /\ Queued' \subseteq Queued \cup Range(posts) \cup Range(aborted)
  <2>1. Tail(loop) \in Seq(Handlers)
        /\ Range(loop) = {Head(loop)} \cup Range(Tail(loop))
    BY <1>2, QueueTail
  <2>2. ASSUME NEW s \in Seq(Handlers), NEW t \in Seq(Handlers)
        PROVE  s \o t \in Seq(Handlers) /\ Range(s \o t) = Range(s) \cup Range(t)
    BY HandlersConcat
  <2>3. /\ Tail(loop) \o posts \in Seq(Handlers)
        /\ Range(Tail(loop) \o posts) = Range(Tail(loop)) \cup Range(posts)
    BY <2>1, <2>2
  <2>4. /\ (Tail(loop) \o posts) \o aborted \in Seq(Handlers)
        /\ Range((Tail(loop) \o posts) \o aborted)
             = Range(Tail(loop) \o posts) \cup Range(aborted)
    BY <1>3, <2>2, <2>3
  <2> QED
    BY <1>4, <2>1, <2>3, <2>4, SetupStays DEF Queued
<1>6. \A t : Subscribing(t) \in Queued' => Subscribing(t) \in Queued
  BY <1>3, <1>5 DEF Subscribing, Handler
<1>7. /\ UNCHANGED <<running, userStopped, ioThread, ownerPc, starts, rearmPc,
                     rearms, subscribes, subscribing, crashed>>
      /\ ioPc = "idle" /\ ioThread = "running"
  BY <1>2 DEF Aside, rearmer, Idle
<1>8. reconnectPending' \in BOOLEAN /\ counted' \in BOOLEAN /\ ~reconnectPending'
  <2>1. counted' = FALSE
    BY DEF DoConnect
  <2> QED
    BY <2>1, Zenon
<1>9. Typed'
  BY <1>1, <1>3, <1>5, <1>7, <1>8, SetupStays DEF Typed, Flags, Places
<1>10. Asked'
  BY <1>1, <1>6, <1>7, SetupStays DEF Asked
<1>11. Phases'
  BY <1>1, <1>3, <1>7 DEF Phases
<1>12. Claimed' /\ GivenUp' /\ Alive'
  BY <1>3, <1>7, <1>8 DEF Claimed, GivenUp, Alive, OnItsWay, UnderWay
<1>13. Restoring'
  BY <1>3 DEF Restoring, SessionUp
<1> QED
  BY <1>9, <1>10, <1>11, <1>12, <1>13 DEF HInv

\* A wait that was cancelled, or a handler that finds the helper stopped or given
\* up.
LEMMA NoConnectKeeps ==
    ASSUME HInv, setup' = setup, NEW kind, kind \in {"wait", "rearmed"},
           Running(kind), NoConnect, timer' = timer,
           reconnectPending' \in BOOLEAN,
           reconnectPending' => reconnectPending /\ kind = "rearmed",
           Head(loop) \in {Awaited, Rearmed} => ~shouldReconnect \/ userStopped,
           UNCHANGED <<shouldReconnect, reconnectAttempts, ioStopped, ioPc,
                       heard, lateBye, subscribed, publish, Aside>>
    PROVE  HInv'
<1>1. Typed /\ Asked /\ Phases /\ Claimed /\ GivenUp /\ Alive /\ Restoring
  BY DEF HInv
<1>2. /\ Idle /\ loop # << >> /\ loop \in Seq(Handlers)
      /\ Head(loop).kind = kind /\ loop' = Tail(loop)
  BY <1>1, RunningFacts DEF Typed, NoConnect
<1>3. (loop \in Seq(Handlers))' /\ Queued = {Head(loop)} \cup Queued'
  BY <1>2, RanAlone
<1>4. \A t : Subscribing(t) \in Queued' <=> Subscribing(t) \in Queued
  BY <1>2, <1>3 DEF Subscribing, Handler
<1>5. /\ UNCHANGED <<running, userStopped, ioThread, ownerPc, starts, rearmPc,
                     rearms, subscribes, subscribing, crashed, client, counted>>
      /\ ioPc = "idle"
  BY <1>2 DEF Aside, rearmer, Idle, NoConnect
<1>6. UnderWay => UnderWay'
  BY <1>2, <1>3, <1>5, StillQueued DEF UnderWay
<1>7. kind = "rearmed" /\ Awaited \in Queued => Awaited \in Queued'
  BY <1>2, <1>3 DEF Awaited, Handler
<1>8. Typed'
  BY <1>1, <1>3, <1>5, SetupStays DEF Typed, Flags, Places
<1>9. Asked' /\ Phases' /\ Restoring'
  BY <1>1, <1>4, <1>5, SetupStays DEF Asked, Phases, Restoring, SessionUp
<1>10. Claimed' /\ GivenUp'
  BY <1>1, <1>5, <1>7 DEF Claimed, GivenUp
<1>11. Alive'
  BY <1>1, <1>3, <1>5, <1>6 DEF Alive, OnItsWay
<1> QED
  BY <1>8, <1>9, <1>10, <1>11 DEF HInv

LEMMA RunWaitKeeps ==
    ASSUME HInv, setup' = setup, RunWait
    PROVE  HInv'
<1>1. /\ Running("wait") /\ reconnectPending' = FALSE
      /\ UNCHANGED <<shouldReconnect, reconnectAttempts, timer, ioStopped, ioPc,
                     heard, lateBye, subscribed, publish, Aside>>
  BY DEF RunWait, WaitOver
<1>2. timer \in BOOLEAN /\ timer' = timer
  BY <1>1 DEF HInv, Typed, Flags
<1>3. CASE Arg /\ shouldReconnect /\ ~userStopped
  <2>1. DoConnect(<< >>)
    BY <1>3 DEF RunWait
  <2> QED
    BY <1>1, <1>2, <2>1, DoConnectKeeps, NoPosts
<1>4. CASE ~(Arg /\ shouldReconnect /\ ~userStopped)
  <2>1. NoConnect
    BY <1>4 DEF RunWait
  <2>2. reconnectPending' \in BOOLEAN /\ ~reconnectPending'
    BY <1>1, Zenon
  <2>3. Head(loop).kind = "wait" /\ Head(loop).arg = Arg
    BY <1>1, RunningFacts DEF Arg
  <2>4. Head(loop) \in {Awaited, Rearmed} => ~shouldReconnect \/ userStopped
    BY <1>4, <2>3 DEF Awaited, Rearmed, Handler
  <2> QED
    BY <1>1, <1>2, <2>1, <2>2, <2>4, NoConnectKeeps
<1> QED
  BY <1>3, <1>4

LEMMA RunRearmedKeeps ==
    ASSUME HInv, setup' = setup, RunRearmed
    PROVE  HInv'
<1>1. /\ Running("rearmed")
      /\ UNCHANGED <<shouldReconnect, reconnectAttempts, ioStopped, ioPc,
                     heard, lateBye, subscribed, publish, Aside>>
  BY DEF RunRearmed
<1>2. CASE ~shouldReconnect \/ userStopped
  <2>1. NoConnect /\ timer' = timer /\ reconnectPending' = reconnectPending
    BY <1>2 DEF RunRearmed
  <2>2. reconnectPending \in BOOLEAN
    BY DEF HInv, Typed, Flags
  <2> QED
    BY <1>1, <1>2, <2>1, <2>2, NoConnectKeeps
<1>3. CASE ~(~shouldReconnect \/ userStopped)
  <2>1. DoConnect(CancelledWait) /\ timer' = FALSE /\ reconnectPending' = FALSE
    BY <1>3 DEF RunRearmed
  <2>2. timer' \in BOOLEAN
    BY <2>1, Zenon
  <2> QED
    BY <1>1, <2>1, <2>2, DoConnectKeeps, Cancelled
<1> QED
  BY <1>2, <1>3

LEMMA IoExitsKeeps ==
    ASSUME HInv, setup' = setup, IoExits
    PROVE  HInv'
<1>1. /\ UNCHANGED <<running, userStopped, shouldReconnect, reconnectPending,
                     reconnectAttempts, client, subscribed, counted, timer,
                     subscribes, subscribing, publish, loop, ioStopped, ioPc,
                     ownerPc, heard, lateBye, starts, rearmPc, rearms, crashed>>
      /\ ioThread = "running" /\ ioPc = "idle" /\ ioThread' = "exited"
      /\ Queued' = Queued
  BY DEF IoExits, Idle, state, policy, session, owner, rearmer, Queued
<1> QED
  BY <1>1, SetupStays
     DEF HInv, Typed, Flags, Places, Asked, Phases, Claimed, GivenUp, Alive,
         OnItsWay, UnderWay, Restoring, SessionUp

-----------------------------------------------------------------------------
(* The network, the clock and the other threads of the application *)

LEMMA OutsideKeeps ==
    ASSUME HInv, setup' = setup, Outside,
           NEW h \in Handlers, h.kind # "subscribe", loop' = Append(loop, h),
           client' \in Clients, client'.live = client.live,
           client'.closed = client.closed, client'.link = client.link,
           client' = client \/ client.live,
           UnderWay /\ Queued' = Queued \cup {h} => UnderWay',
           timer' \in BOOLEAN, timer' = timer \/ h = Awaited
    PROVE  HInv'
<1>1. Typed /\ Asked /\ Phases /\ Claimed /\ GivenUp /\ Alive /\ Restoring
  BY DEF HInv
<1>2. (loop \in Seq(Handlers))' /\ Queued' = Queued \cup {h}
  BY <1>1, PostedOne DEF Typed
<1>3. UNCHANGED <<running, userStopped, shouldReconnect, reconnectPending,
                  reconnectAttempts, subscribed, counted, subscribes,
                  subscribing, publish, ioThread, ioStopped, ioPc, ownerPc,
                  heard, lateBye, starts, rearmPc, rearms, crashed>>
  BY DEF Outside, policy, owner, rearmer
<1>4. \A t : Subscribing(t) \in Queued' <=> Subscribing(t) \in Queued
  BY <1>2 DEF Subscribing, Handler
<1>5. Typed'
  BY <1>1, <1>2, <1>3, SetupStays DEF Typed, Flags, Places
<1>6. Asked' /\ Restoring'
  BY <1>1, <1>3, <1>4, SetupStays DEF Asked, Restoring, SessionUp
<1>7. Phases'
  BY <1>1, <1>3 DEF Phases
<1>8. Claimed' /\ GivenUp'
  BY <1>1, <1>2, <1>3 DEF Claimed, GivenUp
<1>9. Alive'
  BY <1>1, <1>2, <1>3 DEF Alive, OnItsWay
<1> QED
  BY <1>5, <1>6, <1>7, <1>8, <1>9 DEF HInv

LEMMA NetworkKeeps ==
    ASSUME HInv, setup' = setup, Network
    PROVE  HInv'
<1>1. client \in Clients /\ timer \in BOOLEAN
      /\ (~client.live => client = NoClient)
  BY DEF HInv, Typed, Flags, Phases
<1>2. client.chain \/ client.asked \/ client.reading \/ client.byes # {}
         => client.live
  BY <1>1 DEF NoClient
<1>3. CASE ChainDone
  <2>1. PICK ok \in BOOLEAN : loop' = Append(loop, Handler("chain", ok))
    BY <1>3 DEF ChainDone, Post
  <2>2. Handler("chain", ok) \in Handlers
        /\ Handler("chain", ok).kind # "subscribe"
    BY DEF Handler, Handlers
  <2>3. /\ client' \in Clients /\ client'.live = client.live
        /\ client'.closed = client.closed /\ client'.link = client.link
        /\ client.live /\ timer' = timer /\ Outside
    BY <1>1, <1>2, <1>3 DEF ChainDone, Clients
  <2>4. UnderWay /\ Queued' = Queued \cup {Handler("chain", ok)} => UnderWay'
    BY <2>3 DEF UnderWay
  <2> QED
    BY <1>1, <2>1, <2>2, <2>3, <2>4, OutsideKeeps
<1>4. CASE ConnackArrives
  <2>1. PICK ok \in BOOLEAN : loop' = Append(loop, Handler("connack", ok))
    BY <1>4 DEF ConnackArrives, Post
  <2>2. Handler("connack", ok) \in Handlers
        /\ Handler("connack", ok).kind # "subscribe"
    BY DEF Handler, Handlers
  <2>3. /\ client' \in Clients /\ client'.live = client.live
        /\ client'.closed = client.closed /\ client'.link = client.link
        /\ client'.chain = client.chain /\ client'.reading = client.reading
        /\ client.live /\ timer' = timer /\ Outside
    BY <1>1, <1>2, <1>4 DEF ConnackArrives, Clients
  <2>4. UnderWay /\ Queued' = Queued \cup {Handler("connack", ok)} => UnderWay'
    BY <2>3 DEF UnderWay
  <2> QED
    BY <1>1, <2>1, <2>2, <2>3, <2>4, OutsideKeeps
<1>5. CASE StreamBreaks
  <2>1. loop' = Append(loop, Handler("broken", "none"))
    BY <1>5 DEF StreamBreaks, Post
  <2>2. Handler("broken", "none") \in Handlers
        /\ Handler("broken", "none").kind # "subscribe"
    BY DEF Handler, Handlers
  <2>3. /\ client' \in Clients /\ client'.live = client.live
        /\ client'.closed = client.closed /\ client'.link = client.link
        /\ client.live /\ timer' = timer /\ Outside
    BY <1>1, <1>2, <1>5 DEF StreamBreaks, Clients
  <2>4. UnderWay /\ Queued' = Queued \cup {Handler("broken", "none")} => UnderWay'
    BY <2>3 DEF UnderWay
  <2> QED
    BY <1>1, <2>1, <2>2, <2>3, <2>4, OutsideKeeps
<1>6. CASE MessageArrives \/ ByeTaken
  <2>1. PICK kind \in {"message", "written"} :
           loop' = Append(loop, Handler(kind, "none"))
    BY <1>6 DEF MessageArrives, ByeTaken, Post
  <2>2. Handler(kind, "none") \in Handlers
        /\ Handler(kind, "none").kind # "subscribe"
    BY DEF Handler, Handlers
  <2>3. client' = client /\ timer' = timer /\ Outside
    BY <1>6 DEF MessageArrives, ByeTaken
  <2>4. UnderWay /\ Queued' = Queued \cup {Handler(kind, "none")} => UnderWay'
    BY <2>3 DEF UnderWay
  <2> QED
    BY <1>1, <2>1, <2>2, <2>3, <2>4, OutsideKeeps
<1> QED
  BY <1>3, <1>4, <1>5, <1>6 DEF Network

LEMMA ClockKeeps ==
    ASSUME HInv, setup' = setup, ConnTimerFires \/ TimerFires \/ PublishSettles
    PROVE  HInv'
<1>1. client \in Clients /\ timer \in BOOLEAN
      /\ (~client.live => client = NoClient)
  BY DEF HInv, Typed, Flags, Phases
<1>2. CASE ConnTimerFires
  <2>1. loop' = Append(loop, Handler("connTimer", "none"))
    BY <1>2 DEF ConnTimerFires, Post
  <2>2. Handler("connTimer", "none") \in Handlers
        /\ Handler("connTimer", "none").kind # "subscribe"
    BY DEF Handler, Handlers
  <2>3. /\ client' \in Clients /\ client'.live = client.live
        /\ client'.closed = client.closed /\ client'.link = client.link
        /\ client'.chain = client.chain /\ client'.reading = client.reading
        /\ timer' = timer /\ Outside
    BY <1>1, <1>2 DEF ConnTimerFires, Clients
  <2>5. client.live
    BY <1>1, <1>2 DEF ConnTimerFires, NoClient
  <2>4. UnderWay /\ Queued' = Queued \cup {Handler("connTimer", "none")}
          => UnderWay'
    BY <2>3 DEF UnderWay
  <2> QED
    BY <1>1, <2>1, <2>2, <2>3, <2>4, <2>5, OutsideKeeps
<1>3. CASE TimerFires
  <2>1. loop' = Append(loop, Awaited) /\ client' = client /\ Outside
        /\ timer' = FALSE
    BY <1>3 DEF TimerFires, Post, Awaited
  <2>2. Awaited \in Handlers /\ Awaited.kind # "subscribe"
    BY DEF Handler, Handlers, Awaited
  <2>3. timer' \in BOOLEAN
    BY <2>1, Zenon
  <2>4. UnderWay /\ Queued' = Queued \cup {Awaited} => UnderWay'
    BY <2>1 DEF UnderWay
  <2> QED
    BY <1>1, <2>1, <2>2, <2>3, <2>4, OutsideKeeps
<1>4. CASE PublishSettles
  <2>1. loop' = Append(loop, Handler("settled", "none")) /\ client' = client
        /\ Outside /\ timer' = timer
    BY <1>4 DEF PublishSettles, Post
  <2>2. Handler("settled", "none") \in Handlers
        /\ Handler("settled", "none").kind # "subscribe"
    BY DEF Handler, Handlers
  <2>4. UnderWay /\ Queued' = Queued \cup {Handler("settled", "none")} => UnderWay'
    BY <2>1 DEF UnderWay
  <2> QED
    BY <1>1, <2>1, <2>2, <2>4, OutsideKeeps
<1> QED
  BY <1>2, <1>3, <1>4

LEMMA RearmerKeeps ==
    ASSUME HInv, setup' = setup, Rearmer
    PROVE  HInv'
<1>1. Typed /\ Asked /\ Phases /\ Claimed /\ GivenUp /\ Alive /\ Restoring
  BY DEF HInv
<1>2. UNCHANGED <<running, userStopped, reconnectPending, client, subscribed,
                  counted, timer, subscribes, subscribing, publish, ioThread,
                  ioStopped, ioPc, ownerPc, heard, lateBye, starts, crashed>>
  BY DEF Rearmer, RearmBegin, RearmExchange, RearmReset, RearmPost, state, io,
         owner, policy, session
<1>3. CASE RearmPost
  <2>1. /\ loop' = Append(loop, Rearmed) /\ rearmPc' = "idle"
        /\ UNCHANGED <<shouldReconnect, reconnectAttempts, rearms>>
    BY <1>3 DEF RearmPost, Post, Rearmed, state, policy
  <2>2. Rearmed \in Handlers
    BY DEF Rearmed, Handler, Handlers
  <2>3. (loop \in Seq(Handlers))' /\ Queued' = Queued \cup {Rearmed}
    BY <1>1, <2>1, <2>2, PostedOne DEF Typed
  <2>4. \A t : Subscribing(t) \in Queued' <=> Subscribing(t) \in Queued
    BY <2>3 DEF Subscribing, Rearmed, Handler
  <2>5. Typed'
    BY <1>1, <1>2, <2>1, <2>3, SetupStays DEF Typed, Flags, Places
  <2>6. Asked' /\ Phases' /\ Restoring'
    BY <1>1, <1>2, <2>1, <2>4, SetupStays
       DEF Asked, Phases, Restoring, SessionUp
  <2>7. Claimed' /\ GivenUp' /\ Alive'
    BY <1>1, <1>2, <2>3 DEF Claimed, GivenUp, Alive, OnItsWay
  <2> QED
    BY <2>5, <2>6, <2>7 DEF HInv
<1>4. CASE RearmBegin \/ RearmExchange \/ RearmReset
  <2>1. loop' = loop /\ Queued' = Queued
    BY <1>4 DEF RearmBegin, RearmExchange, RearmReset, io, Queued
  <2>2. /\ shouldReconnect' \in BOOLEAN /\ rearms' \in Nat
        /\ rearmPc' \in {"idle", "exchange", "reset", "post"}
        /\ reconnectAttempts' \in {reconnectAttempts, 0}
    <3>1. CASE RearmBegin
      BY <1>1, <3>1 DEF RearmBegin, state, policy, Typed, Flags
    <3>2. CASE RearmExchange
      <4>1. shouldReconnect' = TRUE
        BY <3>2 DEF RearmExchange
      <4>2. shouldReconnect' \in BOOLEAN
        BY <4>1, Zenon
      <4> QED
        BY <1>1, <3>2, <4>2 DEF RearmExchange, Typed
    <3>3. CASE RearmReset
      BY <1>1, <3>3 DEF RearmReset, policy, Typed, Flags
    <3> QED
      BY <1>4, <3>1, <3>2, <3>3
  <2>3. /\ reconnectAttempts' \in Nat
        /\ MaxReconnects # -1 => reconnectAttempts' <= MaxReconnects
    BY <1>1, <2>2 DEF Typed, Setup, MaxReconnects
  <2>4. Typed'
    BY <1>1, <1>2, <2>1, <2>2, <2>3, SetupStays DEF Typed, Flags, Places
  <2>5. Asked' /\ Phases' /\ Restoring' /\ Claimed'
    BY <1>1, <1>2, <2>1, SetupStays
       DEF Asked, Phases, Restoring, SessionUp, Claimed
  <2>6. GivenUp' /\ Alive'
    <3>1. CASE RearmBegin
      BY <1>1, <1>2, <2>1, <3>1
         DEF RearmBegin, state, policy, GivenUp, Alive, OnItsWay, UnderWay
    <3>2. CASE RearmExchange
      BY <1>1, <1>2, <2>1, <3>2
         DEF RearmExchange, GivenUp, Alive, OnItsWay, UnderWay
    <3>3. CASE RearmReset
      BY <1>1, <1>2, <2>1, <3>3
         DEF RearmReset, policy, GivenUp, Alive, OnItsWay, UnderWay
    <3> QED
      BY <1>4, <3>1, <3>2, <3>3
  <2> QED
    BY <2>4, <2>5, <2>6 DEF HInv
<1> QED
  BY <1>3, <1>4 DEF Rearmer

LEMMA ApplicationKeeps ==
    ASSUME HInv, setup' = setup,
           \/ \E t \in Topics : Subscribe(t) \/ SubscribeNow(t)
           \/ Publish
    PROVE  HInv'
<1>1. Typed /\ Asked /\ Phases /\ Claimed /\ GivenUp /\ Alive /\ Restoring
  BY DEF HInv
<1>2. /\ UNCHANGED <<running, userStopped, shouldReconnect, reconnectPending,
                     reconnectAttempts, client, subscribed, counted, timer,
                     ioThread, ioStopped, ioPc, ownerPc, heard, lateBye, starts,
                     rearmPc, rearms, crashed>>
  BY DEF Subscribe, SubscribeNow, Publish, policy, session, io, owner, rearmer
<1>3. ASSUME Queued \subseteq Queued'
      PROVE  Phases' /\ Claimed' /\ GivenUp' /\ Alive'
  BY <1>1, <1>2, <1>3
     DEF Phases, Claimed, GivenUp, Alive, OnItsWay, UnderWay
<1>4. CASE \E t \in Topics : Subscribe(t)
  <2>1. PICK t \in Topics : Subscribe(t)
    BY <1>4
  <2>2. /\ subscribes' = subscribes \cup {t}
        /\ subscribing' = subscribing \cup {t}
        /\ UNCHANGED <<publish, loop>> /\ Queued' = Queued
    BY <2>1 DEF Subscribe, io, Queued
  <2>3. Typed'
    BY <1>1, <1>2, <2>2, SetupStays DEF Typed, Flags, Places
  <2>4. Asked'
    BY <1>1, <1>2, <2>2, SetupStays DEF Asked
  <2>5. Restoring'
    BY <1>1, <1>2, <2>2 DEF Restoring, SessionUp
  <2> QED
    BY <1>3, <2>2, <2>3, <2>4, <2>5 DEF HInv
<1>5. CASE \E t \in Topics : SubscribeNow(t)
  <2>1. PICK t \in Topics : SubscribeNow(t)
    BY <1>5
  <2>2. /\ t \in subscribes /\ t \in Topics
        /\ subscribing' = subscribing \ {t}
        /\ UNCHANGED <<publish, subscribes>>
    BY <1>1, <2>1 DEF SubscribeNow, Asked
  <2>3. /\ (loop \in Seq(Handlers))'
        /\ Queued' = IF SessionUp THEN Queued \cup {Subscribing(t)} ELSE Queued
    <3>1. CASE SessionUp
      <4>1. loop' = Append(loop, Subscribing(t))
        BY <2>1, <3>1 DEF SubscribeNow, Post, Subscribing
      <4>2. Subscribing(t) \in Handlers
        BY DEF Subscribing, Handler, Handlers
      <4> QED
        BY <1>1, <3>1, <4>1, <4>2, PostedOne DEF Typed
    <3>2. CASE ~SessionUp
      BY <1>1, <2>1, <3>2, SetupStays DEF SubscribeNow, Queued, Typed
    <3> QED
      BY <3>1, <3>2
  <2>4. \A u : Subscribing(u) = Subscribing(t) => u = t
    BY DEF Subscribing, Handler
  <2>5. Typed'
    BY <1>1, <1>2, <2>2, <2>3, SetupStays DEF Typed, Flags, Places
  <2>6. Asked'
    BY <1>1, <1>2, <2>2, <2>3, <2>4, SetupStays DEF Asked
  <2>7. Restoring'
    <3>1. SessionUp' <=> SessionUp
      BY <1>2 DEF SessionUp
    <3> QED
      BY <1>1, <1>2, <2>2, <2>3, <3>1 DEF Restoring
  <2> QED
    BY <1>3, <2>3, <2>5, <2>6, <2>7 DEF HInv
<1>6. CASE Publish
  <2>1. UNCHANGED <<subscribes, subscribing>>
    BY <1>6 DEF Publish
  <2>2. /\ (loop \in Seq(Handlers))'
        /\ publish' \in {"posted", "answered"}
        /\ Queued' \in {Queued, Queued \cup {Handler("publish", "none")}}
    <3>1. CASE client.live
      <4>1. loop' = Append(loop, Handler("publish", "none"))
            /\ publish' = "posted"
        BY <1>6, <3>1 DEF Publish, Post
      <4>2. Handler("publish", "none") \in Handlers
        BY DEF Handler, Handlers
      <4> QED
        BY <1>1, <4>1, <4>2, PostedOne DEF Typed
    <3>2. CASE ~client.live
      BY <1>1, <1>6, <3>2, SetupStays DEF Publish, Queued, Typed
    <3> QED
      BY <3>1, <3>2
  <2>3. \A t : Subscribing(t) \in Queued' <=> Subscribing(t) \in Queued
    BY <2>2 DEF Subscribing, Handler
  <2>4. Typed'
    BY <1>1, <1>2, <2>2, SetupStays DEF Typed, Flags, Places
  <2>5. Asked' /\ Restoring'
    BY <1>1, <1>2, <2>1, <2>3, SetupStays DEF Asked, Restoring, SessionUp
  <2> QED
    BY <1>3, <2>2, <2>4, <2>5 DEF HInv
<1> QED
  BY <1>4, <1>5, <1>6

-----------------------------------------------------------------------------
(* The owner *)

\* What release_client() leaves in io_.
LEMMA Left ==
    ASSUME loop \in Seq(Handlers)
    PROVE  /\ LeftBehind \in Seq(Handlers)
           /\ \A t : Subscribing(t) \notin Range(LeftBehind)
<1> DEFINE own == [i \in DOMAIN loop |->
                     CASE loop[i].kind \in {"disconnect", "bye"}
                             -> Handler("stale", loop[i].arg)
                       [] loop[i].kind = "publish" -> Handler("settled", "none")
                       [] loop[i].kind \in {"wait", "rearmed", "stale", "settled"}
                             -> loop[i]
                       [] OTHER -> Handler("gone", "none")]
<1>1. SettledLate \in Seq(Handlers)
      /\ \A h \in Range(SettledLate) : h.kind # "subscribe"
  <2>1. Handler("settled", "none") \in Handlers
        /\ Handler("settled", "none").kind # "subscribe"
    BY DEF Handler, Handlers
  <2> QED
    BY <2>1, NoPosts DEF SettledLate
<1>2. Len(loop) \in Nat /\ DOMAIN loop = 1 .. Len(loop)
      /\ \A i \in DOMAIN loop : loop[i] \in Handlers
  OBVIOUS
<1>3. \A i \in DOMAIN loop : own[i] \in Handlers /\ own[i].kind # "subscribe"
  <2> SUFFICES ASSUME NEW i \in DOMAIN loop
               PROVE  own[i] \in Handlers /\ own[i].kind # "subscribe"
    OBVIOUS
  <2>1. loop[i] \in Handlers
    BY <1>2
  <2>2. CASE loop[i].kind \in {"disconnect", "bye"}
    <3>1. loop[i].arg \in Byes
      BY <2>1, <2>2 DEF Handlers
    <3>2. own[i] = Handler("stale", loop[i].arg)
      BY <2>2
    <3> QED
      BY <3>1, <3>2 DEF Handler, Handlers
  <2>3. CASE loop[i].kind = "publish"
    <3>1. own[i] = Handler("settled", "none")
      BY <2>3
    <3> QED
      BY <3>1 DEF Handler, Handlers
  <2>4. CASE loop[i].kind \in {"wait", "rearmed", "stale", "settled"}
    <3>1. own[i] = loop[i]
      BY <2>4
    <3> QED
      BY <2>1, <2>4, <3>1
  <2>5. CASE loop[i].kind \notin {"disconnect", "bye", "publish", "wait",
                                  "rearmed", "stale", "settled"}
    <3>1. own[i] = Handler("gone", "none")
      BY <2>5
    <3> QED
      BY <3>1 DEF Handler, Handlers
  <2> QED
    BY <2>2, <2>3, <2>4, <2>5
<1>4. LeftBehind = own \o SettledLate
  BY DEF LeftBehind
<1>5. own \in [1 .. Len(loop) -> Handlers]
  BY <1>2, <1>3
<1>6. \A h \in Range(own) : h.kind # "subscribe"
  BY <1>2, <1>3 DEF Range
<1> HIDE DEF own
<1>7. own \in Seq(Handlers)
  BY <1>2, <1>5
<1>8. own \o SettledLate \in Seq(Handlers)
      /\ Range(own \o SettledLate) = Range(own) \cup Range(SettledLate)
  BY <1>1, <1>7, HandlersConcat
<1> QED
  BY <1>1, <1>4, <1>6, <1>8 DEF Subscribing, Handler

LEMMA StartBeginKeeps ==
    ASSUME HInv, setup' = setup, StartBegin
    PROVE  HInv'
<1>1. Typed /\ Asked /\ Phases /\ Claimed /\ GivenUp /\ Alive /\ Restoring
  BY DEF HInv
<1>2. NewClient \in Clients /\ NewClient.live
  BY DEF NewClient, NoClient, Clients, Byes
<1>3. /\ client' \in Clients /\ client'.live /\ ~client'.closed
      /\ client'.chain /\ client'.link = "connecting"
  BY <1>1, <1>2, Connected DEF StartBegin, Typed
<1>4. (loop \in Seq(Handlers))' /\ \A t : Subscribing(t) \notin Queued'
  BY <1>1, Left, SetupStays DEF StartBegin, Typed, Queued
<1>5. /\ starts' = starts + 1 /\ reconnectAttempts' = 0 /\ subscribed' = {}
      /\ ownerPc' = "launch" /\ ioThread = "none"
      /\ UNCHANGED <<running, timer, ioThread, heard, lateBye, ioPc, rearmPc,
                     rearms, subscribes, subscribing, publish, crashed>>
  BY DEF StartBegin, NotOwner, rearmer
<1>6. ioPc' = "idle"
  BY <1>1, <1>5 DEF Phases, Typed, Places
<1>7. /\ userStopped' \in BOOLEAN /\ shouldReconnect' \in BOOLEAN
      /\ reconnectPending' \in BOOLEAN /\ ~reconnectPending'
      /\ ioStopped' \in BOOLEAN /\ counted' \in BOOLEAN
  <2>1. /\ userStopped' = FALSE /\ shouldReconnect' = TRUE
        /\ reconnectPending' = FALSE /\ ioStopped' = FALSE /\ counted' = FALSE
    BY DEF StartBegin
  <2> QED
    BY <2>1, Zenon
<1>8. Typed'
  <2>1. MaxReconnects # -1 => 0 <= MaxReconnects
    BY <1>1 DEF Typed, Setup, MaxReconnects
  <2> QED
    BY <1>1, <1>3, <1>4, <1>5, <1>7, <2>1, SetupStays
       DEF Typed, Flags, Places
<1>9. Asked'
  BY <1>1, <1>4, <1>5, SetupStays DEF Asked
<1>10. Phases'
  BY <1>3, <1>5, <1>6 DEF Phases
<1>11. Claimed' /\ GivenUp' /\ Alive' /\ Restoring'
  BY <1>3, <1>6, <1>7
     DEF Claimed, GivenUp, Alive, OnItsWay, UnderWay, Restoring, SessionUp
<1> QED
  BY <1>8, <1>9, <1>10, <1>11 DEF HInv

\* stop() on the owner's thread, as far as its DISCONNECT.
LEMMA OwnerStopsKeeps ==
    ASSUME HInv, setup' = setup,
           StopBegin \/ StopDisarms \/ StopExchange \/ StopBye
    PROVE  HInv'
<1>1. Typed /\ Asked /\ Phases /\ Claimed /\ GivenUp /\ Alive /\ Restoring
  BY DEF HInv
<1>2. UNCHANGED <<reconnectAttempts, client, subscribed, counted, ioThread,
                  ioStopped, ioPc, lateBye, starts, rearmPc, rearms,
                  subscribes, subscribing, publish, crashed>>
  BY DEF StopBegin, StopDisarms, StopExchange, StopBye, NotOwner, session,
         rearmer
<1>3. ioPc' # "idle" => ioThread = "running"
  BY <1>1, <1>2 DEF Phases
<1>4. CASE StopBegin
  <2>1. /\ userStopped' = TRUE /\ loop' = loop /\ ownerPc' = "disarm"
        /\ UNCHANGED <<running, shouldReconnect, reconnectPending, timer, heard>>
    BY <1>4 DEF StopBegin
  <2>2. Places' /\ loop' \in Seq(Handlers)
    BY <1>1, <1>2, <2>1 DEF Typed, Places
  <2>3. Queued' = Queued
    BY <2>1 DEF Queued
  <2> QED
    BY <1>2, <1>3, <2>1, <2>2, <2>3, StoppingKeeps
<1>5. CASE StopDisarms
  <2>1. Disarms(ownerPc, ownerPc') /\ UNCHANGED <<running, userStopped, heard>>
    BY <1>5 DEF StopDisarms
  <2>2. /\ ownerPc \in {"disarm", "cancel", "unclaim"}
        /\ ownerPc' \in {"cancel", "unclaim", "exchange"}
    BY <2>1 DEF Disarms
  <2>3. userStopped' = TRUE
    BY <1>1, <2>1, <2>2 DEF Phases, Typed, Flags
  <2>4. Places'
    BY <1>1, <1>2, <2>2 DEF Typed, Places
  <2>5. /\ shouldReconnect' \in {shouldReconnect, FALSE}
        /\ reconnectPending' \in {reconnectPending, FALSE}
        /\ timer' \in {timer, FALSE}
        /\ loop' \in Seq(Handlers)
        /\ \A t : Subscribing(t) \in Queued <=> Subscribing(t) \in Queued'
    BY <2>1, DisarmsQueue
  <2> QED
    BY <1>2, <1>3, <2>1, <2>2, <2>3, <2>4, <2>5, StoppingKeeps
<1>6. CASE StopExchange
  <2>1. /\ ownerPc = "exchange" /\ ownerPc' \in {"bye", "join"}
        /\ running' = FALSE /\ loop' = loop
        /\ UNCHANGED <<userStopped, shouldReconnect, reconnectPending, timer,
                       heard>>
    BY <1>6 DEF StopExchange, policy
  <2>2. userStopped' = TRUE
    BY <1>1, <2>1 DEF Phases, Typed, Flags
  <2>3. Places' /\ loop' \in Seq(Handlers)
    BY <1>1, <1>2, <2>1 DEF Typed, Places
  <2>4. Queued' = Queued
    BY <2>1 DEF Queued
  <2> QED
    BY <1>2, <1>3, <2>1, <2>2, <2>3, <2>4, StoppingKeeps
<1>7. CASE StopBye
  <2>1. /\ ownerPc = "bye" /\ ownerPc' = "wait" /\ heard' = FALSE
        /\ Post("disconnect", "owner")
        /\ UNCHANGED <<running, userStopped, shouldReconnect, reconnectPending,
                       timer>>
    BY <1>7 DEF StopBye, policy
  <2>2. userStopped' = TRUE
    BY <1>1, <2>1 DEF Phases, Typed, Flags
  <2>3. Places'
    BY <1>1, <1>2, <2>1 DEF Typed, Places
  <2>4. /\ loop' \in Seq(Handlers)
        /\ \A t : Subscribing(t) \in Queued <=> Subscribing(t) \in Queued'
    BY <2>1, ByeQueue DEF Byes
  <2> QED
    BY <1>2, <1>3, <2>1, <2>2, <2>3, <2>4, StoppingKeeps
<1> QED
  BY <1>4, <1>5, <1>6, <1>7

\* Steps of the owner that leave the queue alone.
LEMMA OwnerQuietKeeps ==
    ASSUME HInv, setup' = setup,
           \/ StartLaunch \/ StartUnjoined \/ StopWaited \/ StopJoin
           \/ StopJoined \/ OwnerDrops
    PROVE  HInv'
<1>1. Typed /\ Asked /\ Phases /\ Claimed /\ GivenUp /\ Alive /\ Restoring
  BY DEF HInv
<1>2. /\ UNCHANGED <<userStopped, shouldReconnect, reconnectPending,
                     reconnectAttempts, client, subscribed, counted, timer,
                     heard, lateBye, starts, ioPc, rearmPc, rearms, subscribes,
                     subscribing, publish, loop>>
      /\ Queued' = Queued
  BY DEF StartLaunch, StartUnjoined, StopWaited, StopJoin, StopJoined,
         OwnerDrops, NotOwner, state, io, owner, policy, session, rearmer, Queued
<1>3. Asked' /\ Claimed' /\ GivenUp' /\ Restoring'
  BY <1>1, <1>2, SetupStays
     DEF Asked, Claimed, GivenUp, Restoring, SessionUp
<1>4. /\ running' \in BOOLEAN /\ crashed' \in BOOLEAN /\ ioStopped' \in BOOLEAN
      /\ Places'
  <2>1. running \in BOOLEAN /\ crashed \in BOOLEAN /\ ioStopped \in BOOLEAN
    BY <1>1 DEF Typed, Flags
  <2>2. CASE StartLaunch
    <3>1. running' = TRUE /\ crashed' = crashed /\ ioStopped' = ioStopped
      BY <2>2 DEF StartLaunch, NotOwner
    <3>2. running' \in BOOLEAN
      BY <3>1, Zenon
    <3> QED
      BY <1>1, <1>2, <2>1, <2>2, <3>1, <3>2 DEF StartLaunch, Typed, Places
  <2>3. CASE StartUnjoined \/ OwnerDrops
    <3>1. crashed' = TRUE
      BY <2>3 DEF StartUnjoined, OwnerDrops
    <3>2. crashed' \in BOOLEAN
      BY <3>1, Zenon
    <3> QED
      BY <1>1, <1>2, <2>1, <2>3, <3>2
         DEF StartUnjoined, OwnerDrops, state, io, owner, Typed, Places
  <2>4. CASE StopWaited
    BY <1>1, <1>2, <2>1, <2>4 DEF StopWaited, state, io, Typed, Places
  <2>5. CASE StopJoin
    <3>1. ioStopped' = TRUE
      BY <2>5 DEF StopJoin, HaltLoop
    <3>2. ioStopped' \in BOOLEAN
      BY <3>1, Zenon
    <3> QED
      BY <1>1, <1>2, <2>1, <2>5, <3>2
         DEF StopJoin, state, NotOwner, Typed, Places
  <2>6. CASE StopJoined
    BY <1>1, <1>2, <2>1, <2>6 DEF StopJoined, state, NotOwner, Typed, Places
  <2> QED
    BY <2>2, <2>3, <2>4, <2>5, <2>6
<1>5. Typed'
  BY <1>1, <1>2, <1>4, SetupStays DEF Typed, Flags
<1>6. Phases'
  BY <1>1, <1>2
     DEF Phases, Typed, Places, StartLaunch, StartUnjoined, StopWaited, StopJoin,
         StopJoined, OwnerDrops, NotOwner, state, io, owner
<1>7. Alive'
  <2>1. running' \/ ownerPc' = "launch" => running \/ ownerPc = "launch"
    BY DEF StartLaunch, StartUnjoined, StopWaited, StopJoin, StopJoined,
           OwnerDrops, NotOwner, state, io, owner
  <2> QED
    BY <1>1, <1>2, <2>1 DEF Alive, OnItsWay, UnderWay
<1> QED
  BY <1>3, <1>5, <1>6, <1>7 DEF HInv

LEMMA StopReleaseKeeps ==
    ASSUME HInv, setup' = setup, StopRelease
    PROVE  HInv'
<1>1. Typed /\ Asked /\ Phases /\ Claimed /\ GivenUp /\ Alive /\ Restoring
  BY DEF HInv
<1>2. /\ ownerPc = "release" /\ ownerPc' = "idle" /\ client' = NoClient
      /\ UNCHANGED <<running, userStopped, shouldReconnect, reconnectPending,
                     reconnectAttempts, subscribed, counted, timer, ioThread,
                     starts, ioPc, rearmPc, rearms, subscribes, subscribing,
                     publish, crashed>>
  BY DEF StopRelease, NotOwner, policy, rearmer
<1>3. userStopped /\ ioThread = "none"
  BY <1>1, <1>2 DEF Phases
<1>4. (loop \in Seq(Handlers))' /\ \A t : Subscribing(t) \notin Queued'
  BY <1>1, Left, SetupStays DEF StopRelease, Typed, Queued
<1>5. heard' \in BOOLEAN /\ lateBye' \in BOOLEAN /\ ioStopped' \in BOOLEAN
  BY <1>1 DEF StopRelease, Tell, Typed, Flags
<1>6. NoClient \in Clients /\ ~NoClient.live /\ NoClient.link = "down"
  BY DEF NoClient, Clients
<1>7. Typed'
  BY <1>1, <1>2, <1>4, <1>5, <1>6, SetupStays DEF Typed, Flags, Places
<1>8. Asked'
  BY <1>1, <1>2, <1>4, SetupStays DEF Asked
<1>9. Phases' /\ Claimed' /\ GivenUp' /\ Alive' /\ Restoring'
  BY <1>1, <1>2, <1>3, <1>6
     DEF Phases, Claimed, GivenUp, Alive, Restoring, SessionUp
<1> QED
  BY <1>7, <1>8, <1>9 DEF HInv

-----------------------------------------------------------------------------
(* The theorems *)

LEMMA InitHInv ==
    ASSUME Init
    PROVE  HInv
<1>1. setup \in Setup
  BY HelperAssumption DEF Init
<1>2. loop = << >> /\ Queued = {} /\ loop \in Seq(Handlers)
  BY NoPosts DEF Init, Queued
<1>3. NoClient \in Clients /\ NoClient.link = "down"
  BY DEF NoClient, Clients
<1>4. Flags
  <2>1. /\ running = FALSE /\ userStopped = FALSE /\ shouldReconnect = TRUE
        /\ reconnectPending = FALSE /\ timer = FALSE /\ ioStopped = FALSE
        /\ counted = FALSE /\ heard = FALSE /\ lateBye = FALSE /\ crashed = FALSE
    BY DEF Init
  <2> QED
    BY <2>1, Zenon DEF Flags
<1>5. MaxReconnects # -1 => 0 <= MaxReconnects
  BY <1>1 DEF Setup, MaxReconnects
<1>6. Typed
  BY <1>1, <1>2, <1>3, <1>4, <1>5 DEF Init, Typed, Places
<1>7. Asked
  BY <1>2 DEF Init, Asked
<1>8. Phases /\ Claimed /\ GivenUp /\ Alive /\ Restoring
  BY <1>3 DEF Init, Phases, Claimed, GivenUp, Alive, Restoring, SessionUp
<1> QED
  BY <1>6, <1>7, <1>8 DEF HInv

LEMMA NextHInv ==
    ASSUME HInv, [Next]_vars
    PROVE  HInv'
<1>1. CASE Next
  <2>1. setup' = setup
    BY <1>1 DEF Next
  <2>2. CASE Owner
    BY <2>1, <2>2, StartBeginKeeps, OwnerStopsKeeps, StopReleaseKeeps, OwnerQuietKeeps DEF Owner
  <2>3. CASE Rearmer
    BY <2>1, <2>3, RearmerKeeps
  <2>4. CASE (\E t \in Topics : Subscribe(t) \/ SubscribeNow(t)) \/ Publish
    BY <2>1, <2>4, ApplicationKeeps
  <2>5. CASE IoStep
    BY <2>1, <2>5, IoExitsKeeps, RunChainKeeps, RunConnackGrantedKeeps,
       RunConnackRefusedKeeps, RunConnTimerKeeps, RunBrokenKeeps, RunAsideKeeps,
       RunDisconnectKeeps, RunByeKeeps, RunWrittenKeeps, RunNothingKeeps,
       CallbackStopsKeeps, RestoreKeeps, ReconnectKeeps, ReconnectWaitsKeeps,
       RunWaitKeeps, RunRearmedKeeps
       DEF IoStep
  <2>6. CASE Network
    BY <2>1, <2>6, NetworkKeeps
  <2>7. CASE ConnTimerFires \/ TimerFires \/ PublishSettles
    BY <2>1, <2>7, ClockKeeps
  <2> QED
    BY <1>1, <2>2, <2>3, <2>4, <2>5, <2>6, <2>7 DEF Next
<1>2. CASE UNCHANGED vars
  BY <1>2, SetupStays
     DEF vars, threads, state, io, owner, rearmer, policy, session,
         HInv, Typed, Flags, Places, Asked, Phases, Claimed, GivenUp, Alive,
         OnItsWay, UnderWay, Restoring, SessionUp, Queued
<1> QED
  BY <1>1, <1>2

\* The inductive invariant: what each thread may find where the others are, and
\* what is on its way while the helper is armed.
THEOREM HelperInvariant == Spec => []HInv
  BY InitHInv, NextHInv, PTL DEF Spec

LEMMA HInvTypeOK == HInv => TypeOK
<1> SUFFICES ASSUME HInv PROVE TypeOK
  OBVIOUS
<1>1. Typed /\ Asked /\ Phases
  BY DEF HInv
<1>2. {running, userStopped, shouldReconnect, reconnectPending, timer,
       ioStopped, heard, lateBye, crashed} \subseteq BOOLEAN
  BY <1>1 DEF Typed, Flags
<1>3. \A i \in DOMAIN loop : loop[i].kind \in Kinds
  <2>1. \A h \in Handlers : h.kind \in Kinds
    BY DEF Handlers, Kinds
  <2> QED
    BY <1>1, <2>1 DEF Typed
<1>4. client.link \in {"down", "connecting", "handshaking", "connected"}
      /\ client.byes \subseteq Byes
  BY <1>1 DEF Typed, Clients
<1> QED
  BY <1>1, <1>2, <1>3, <1>4
     DEF TypeOK, Stopping, Typed, Places, Asked, Phases

\* Type correctness of the helper: also that reconnect_attempts_ never passes
\* max_reconnect_attempts_, that handlers run on a client and an io thread only,
\* and that the client was asked for no topic subscribe() does not remember.
THEOREM HelperTypeCorrect == Spec => []TypeOK
  BY HelperInvariant, HInvTypeOK, PTL

LEMMA HInvNotStranded == HInv => NotStranded
<1> SUFFICES ASSUME HInv, running, shouldReconnect, ~userStopped, Idle,
                    rearmPc \notin {"reset", "post"}
             PROVE  \/ timer
                    \/ \E i \in DOMAIN loop :
                          loop[i] = Handler("wait", TRUE)
                             \/ loop[i].kind = "rearmed"
                    \/ /\ ~client.closed
                       /\ \/ client.chain \/ client.reading
                          \/ \E i \in DOMAIN loop :
                                loop[i].kind \in {"chain", "broken"}
  BY DEF NotStranded
<1>1. OnItsWay
  BY DEF HInv, Alive, Idle
<1>2. \A h \in Queued : \E i \in DOMAIN loop : loop[i] = h
  BY DEF Queued, Range
<1>3. CASE Awaited \in Queued
  BY <1>2, <1>3 DEF Awaited
<1>4. CASE Rearmed \in Queued
  BY <1>2, <1>4 DEF Rearmed, Handler
<1>5. CASE UnderWay
  <2>1. CASE \E ok \in BOOLEAN : Handler("chain", ok) \in Queued
    BY <1>2, <1>5, <2>1 DEF Handler, UnderWay
  <2>2. CASE Handler("broken", "none") \in Queued
    BY <1>2, <1>5, <2>2 DEF Handler, UnderWay
  <2> QED
    BY <1>5, <2>1, <2>2 DEF UnderWay
<1> QED
  BY <1>1, <1>3, <1>4, <1>5 DEF OnItsWay

\* While automatic reconnection is armed the helper is on its way back to the
\* broker, whatever stop(), start() and rearm_reconnect() did before.
THEOREM NeverStranded == Spec => []NotStranded
  BY HelperInvariant, HInvNotStranded, PTL

\* Every topic subscribe() remembers is subscribed in every session.
THEOREM SubscriptionsPersist == Spec => []Resubscribed
<1>1. HInv => Resubscribed
  <2> SUFFICES ASSUME HInv, SessionUp, ~client.closed, ioPc # "restore",
                      NEW t \in subscribes
               PROVE  \/ t \in subscribed \cup subscribing
                      \/ \E i \in DOMAIN loop : loop[i] = Handler("subscribe", t)
    BY DEF Resubscribed
  <2> QED
    BY DEF HInv, Restoring, Queued, Range, Subscribing
<1> QED
  BY <1>1, HelperInvariant, PTL

-----------------------------------------------------------------------------
(* One life without a rearm: a wait that was cancelled then never overlaps     *)
(* with the next.                                                              *)

NoWait(s) == \A i \in DOMAIN s : s[i].kind # "wait"
OneWait(s) ==
    \A i, j \in DOMAIN s : s[i].kind = "wait" /\ s[j].kind = "wait" => i = j
NotCancelled(s) == \A i \in DOMAIN s : s[i].kind = "wait" => s[i].arg = TRUE

\* start() was called once at most and rearm_reconnect() never.
OneLife == starts <= 1 /\ rearms = 0

\* Nobody calls rearm_reconnect().
Unarmed == rearmPc = "idle" /\ Rearmed \notin Queued

BeforeStart ==
    starts = 0 =>
        /\ ~client.live /\ ioThread = "none" /\ ~timer /\ ~counted
        /\ NoWait(loop)

\* The claim of do_reconnect() stands exactly while its wait does.
ClaimHeld ==
    ~userStopped =>
        /\ counted => reconnectPending /\ ioPc \notin {"decide", "givenUp"}
        /\ ioPc = "decide" => reconnectPending
        /\ timer => reconnectPending /\ NoWait(loop)
        /\ ~reconnectPending \/ ioPc \in {"decide", "givenUp"} =>
              ~timer /\ NoWait(loop)
        /\ OneWait(loop) /\ NotCancelled(loop)
        /\ ~shouldReconnect =>
              ~timer /\ NoWait(loop) /\ ioPc \notin {"claim", "decide"}

RInv ==
    /\ Unarmed /\ BeforeStart /\ ClaimHeld

LEMMA WaitsTail ==
    ASSUME NEW s \in Seq(Handlers), s # << >>
    PROVE  /\ NoWait(s) => NoWait(Tail(s))
           /\ OneWait(s) => OneWait(Tail(s))
           /\ NotCancelled(s) => NotCancelled(Tail(s))
           /\ OneWait(s) /\ Head(s).kind = "wait" => NoWait(Tail(s))
           /\ NotCancelled(s) /\ Head(s).kind = "wait" => Head(s).arg = TRUE
<1>1. Len(s) \in Nat \ {0} /\ 1 \in DOMAIN s /\ s[1] = Head(s)
  OBVIOUS
<1>2. \A i \in DOMAIN Tail(s) :
         i \in Nat /\ i + 1 \in DOMAIN s /\ i + 1 # 1 /\ Tail(s)[i] = s[i + 1]
  BY <1>1
<1>3. \A i, j \in DOMAIN Tail(s) : i + 1 = j + 1 => i = j
  BY <1>2
<1>4. NoWait(s) => NoWait(Tail(s))
  BY <1>2 DEF NoWait
<1>5. OneWait(s) => OneWait(Tail(s))
  BY <1>2, <1>3 DEF OneWait
<1>6. NotCancelled(s) => NotCancelled(Tail(s))
  BY <1>2 DEF NotCancelled
<1>7. OneWait(s) /\ Head(s).kind = "wait" => NoWait(Tail(s))
  BY <1>1, <1>2 DEF OneWait, NoWait
<1>8. NotCancelled(s) /\ Head(s).kind = "wait" => Head(s).arg = TRUE
  BY <1>1 DEF NotCancelled
<1> QED
  BY <1>4, <1>5, <1>6, <1>7, <1>8

\* Only handlers of other kinds are added.
LEMMA WaitsConcat ==
    ASSUME NEW s \in Seq(Handlers), NEW t \in Seq(Handlers), NoWait(t)
    PROVE  /\ NoWait(s) => NoWait(s \o t)
           /\ OneWait(s) => OneWait(s \o t)
           /\ NotCancelled(s) => NotCancelled(s \o t)
<1>1. \A i \in DOMAIN (s \o t) :
         \/ i \in DOMAIN s /\ (s \o t)[i] = s[i]
         \/ i - Len(s) \in DOMAIN t /\ (s \o t)[i] = t[i - Len(s)]
  OBVIOUS
<1>2. \A i \in DOMAIN (s \o t) :
         (s \o t)[i].kind = "wait" => i \in DOMAIN s /\ (s \o t)[i] = s[i]
  BY <1>1 DEF NoWait
<1>3. NoWait(s) => NoWait(s \o t)
  BY <1>2 DEF NoWait
<1>4. OneWait(s) => OneWait(s \o t)
  BY <1>2 DEF OneWait
<1>5. NotCancelled(s) => NotCancelled(s \o t)
  BY <1>2 DEF NotCancelled
<1> QED
  BY <1>3, <1>4, <1>5

\* The first wait is added.
LEMMA WaitsFirst ==
    ASSUME NEW s \in Seq(Handlers), NoWait(s)
    PROVE  OneWait(Append(s, Awaited)) /\ NotCancelled(Append(s, Awaited))
<1>1. \A i \in DOMAIN Append(s, Awaited) :
         \/ i \in DOMAIN s /\ Append(s, Awaited)[i] = s[i]
         \/ i = Len(s) + 1 /\ Append(s, Awaited)[i] = Awaited
  OBVIOUS
<1>2. \A i \in DOMAIN Append(s, Awaited) :
         Append(s, Awaited)[i].kind = "wait"
            => i = Len(s) + 1 /\ Append(s, Awaited)[i] = Awaited
  BY <1>1 DEF NoWait
<1>3. Awaited.arg = TRUE
  BY DEF Awaited, Handler
<1> QED
  BY <1>2, <1>3 DEF OneWait, NotCancelled

LEMMA WaitsOne ==
    /\ NoWait(<< >>)
    /\ \A h : h.kind # "wait" => NoWait(<<h>>)
  BY DEF NoWait

\* No wait and no rearm is added to the queue.
Undisturbed ==
    /\ NoWait(loop) => NoWait(loop')
    /\ OneWait(loop) => OneWait(loop')
    /\ NotCancelled(loop) => NotCancelled(loop')
    /\ Queued' \subseteq Queued \cup {h \in Handlers : h # Rearmed}

LEMMA UndisturbedPosts ==
    ASSUME loop \in Seq(Handlers), setup' = setup, NEW posts \in Seq(Handlers),
           NoWait(posts), Rearmed \notin Range(posts),
           \/ loop' = loop \o posts
           \/ loop # << >> /\ loop' = Tail(loop) \o posts
    PROVE  Undisturbed
<1>1. Range(posts) \subseteq {h \in Handlers : h # Rearmed}
  BY DEF Range
<1>2. CASE loop' = loop \o posts
  BY <1>1, <1>2, Posted, WaitsConcat DEF Undisturbed
<1>3. CASE loop # << >> /\ loop' = Tail(loop) \o posts
  <2>1. Tail(loop) \in Seq(Handlers)
    BY <1>3, QueueTail
  <2>2. ASSUME NEW t \in Seq(Handlers)
        PROVE  /\ NoWait(t) => NoWait(t \o posts)
               /\ OneWait(t) => OneWait(t \o posts)
               /\ NotCancelled(t) => NotCancelled(t \o posts)
    BY WaitsConcat
  <2>3. /\ NoWait(loop) => NoWait(Tail(loop))
        /\ OneWait(loop) => OneWait(Tail(loop))
        /\ NotCancelled(loop) => NotCancelled(Tail(loop))
    BY <1>3, WaitsTail
  <2>4. Queued' \subseteq Queued \cup Range(posts)
    BY <1>3, Ran
  <2> QED
    BY <1>1, <1>3, <2>1, <2>2, <2>3, <2>4 DEF Undisturbed
<1> QED
  BY <1>2, <1>3

LEMMA UndisturbedTail ==
    ASSUME loop \in Seq(Handlers), setup' = setup, loop # << >>,
           loop' = Tail(loop)
    PROVE  Undisturbed
  BY RanAlone, WaitsTail DEF Undisturbed

LEMMA UndisturbedOne ==
    ASSUME loop \in Seq(Handlers), setup' = setup, NEW h \in Handlers,
           h.kind \notin {"wait", "rearmed"}, loop' = Append(loop, h)
    PROVE  Undisturbed
<1>1. Append(loop, h) = loop \o <<h>>
  OBVIOUS
<1>2. <<h>> \in Seq(Handlers) /\ Range(<<h>>) = {h} /\ NoWait(<<h>>)
      /\ h # Rearmed
  BY NoPosts, WaitsOne DEF Rearmed, Handler
<1> QED
  BY <1>1, <1>2, UndisturbedPosts

\* A step that adds no wait and leaves the policy alone.
LEMMA UndisturbedKeeps ==
    ASSUME HInv, RInv, setup' = setup, Undisturbed,
           UNCHANGED <<userStopped, shouldReconnect, reconnectPending, timer,
                       counted, starts, rearmPc>>,
           ioPc' = ioPc \/ ioPc' \in {"idle", "reconnect", "restore"},
           starts = 0 => ioThread' = "none" /\ ~client'.live
    PROVE  RInv'
<1>1. Unarmed'
  BY DEF RInv, Unarmed, Undisturbed, Rearmed
<1>2. BeforeStart'
  BY DEF RInv, BeforeStart, Undisturbed
<1>3. ClaimHeld'
  BY DEF RInv, ClaimHeld, Undisturbed
<1> QED
  BY <1>1, <1>2, <1>3 DEF RInv

LEMMA AbortsNoWait ==
    ASSUME NEW c \in Clients, setup \in Setup
    PROVE  /\ AbortedBy(c) \in Seq(Handlers) /\ NoWait(AbortedBy(c))
           /\ Rearmed \notin Range(AbortedBy(c))
           /\ AbortedByConnect(c) \in Seq(Handlers)
           /\ NoWait(AbortedByConnect(c))
           /\ Rearmed \notin Range(AbortedByConnect(c))
<1> DEFINE Ends == {Handler("chain", FALSE), Handler("broken", "none")}
<1>1. ASSUME NEW s, Range(s) \subseteq Ends
      PROVE  NoWait(s) /\ Rearmed \notin Range(s)
  <2>1. \A h \in Ends : h.kind # "wait" /\ h # Rearmed
    BY DEF Handler, Rearmed
  <2>2. \A i \in DOMAIN s : s[i] \in Range(s)
    BY DEF Range
  <2> HIDE DEF Ends
  <2> QED
    BY <1>1, <2>1, <2>2 DEF NoWait
<1>2. /\ AbortedByConnect(c) \in Seq(Handlers)
      /\ Range(AbortedByConnect(c)) \subseteq Ends
  BY Connected
<1>3. /\ AbortedBy(c) \in Seq(Handlers)
      /\ Range(AbortedBy(c)) \subseteq Ends
  BY Closing
<1> HIDE DEF Ends
<1> QED
  BY <1>1, <1>2, <1>3

LEMMA ClientRunsUndisturbed ==
    ASSUME HInv, RInv, setup' = setup, Idle, loop # << >>,
           NEW c, NEW posts \in Seq(Handlers), NEW who,
           NEW next \in {"idle", "reconnect", "restore"},
           NoWait(posts), Rearmed \notin Range(posts),
           ClientRuns(c, posts, who, next), counted' = counted
    PROVE  RInv'
<1>1. loop \in Seq(Handlers)
  BY DEF HInv, Typed
<1>2. /\ loop' = Tail(loop) \o posts /\ ioPc' = next
      /\ UNCHANGED <<userStopped, shouldReconnect, reconnectPending, timer,
                     starts, rearmPc>>
      /\ ioThread = "running"
  BY DEF ClientRuns, Aside, rearmer, Idle
<1>3. Undisturbed
  BY <1>1, <1>2, UndisturbedPosts
<1>4. starts # 0
  BY <1>2 DEF RInv, BeforeStart
<1> QED
  BY <1>2, <1>3, <1>4, UndisturbedKeeps

LEMMA ClientRunsRKeeps ==
    ASSUME HInv, RInv, setup' = setup,
           \/ RunChain \/ RunConnackGranted \/ RunConnackRefused
           \/ RunConnTimer \/ RunBroken \/ RunDisconnect \/ RunBye
           \/ RunWritten \/ RunMessage \/ RunGone
    PROVE  RInv'
<1>1. Idle /\ loop # << >>
  BY DEF RunChain, RunConnackGranted, RunConnackRefused, RunConnTimer,
         RunBroken, RunDisconnect, RunBye, RunWritten, RunMessage, RunGone,
         Running
<1>2. client \in Clients
  BY ClientFacts
<1> DEFINE bye == <<Handler("bye", Arg)>>
<1>3. RunDisconnect => /\ bye \in Seq(Handlers) /\ NoWait(bye)
                       /\ Rearmed \notin Range(bye)
  <2>1. RunDisconnect => Arg \in Byes
    BY RunningFacts DEF RunDisconnect
  <2>2. /\ Handler("bye", Arg).kind # "wait" /\ Handler("bye", Arg) # Rearmed
        /\ Arg \in Byes => Handler("bye", Arg) \in Handlers
    BY DEF Handler, Rearmed, Handlers
  <2> QED
    BY <2>1, <2>2, NoPosts, WaitsOne
<1>4. << >> \in Seq(Handlers) /\ NoWait(<< >>) /\ Rearmed \notin Range(<< >>)
  BY NoPosts, WaitsOne
<1>5. /\ AbortedBy(client) \in Seq(Handlers) /\ NoWait(AbortedBy(client))
      /\ Rearmed \notin Range(AbortedBy(client))
  BY <1>2, AbortsNoWait DEF HInv, Typed
<1>6. /\ counted' = counted
      /\ \E c, who : \E next \in {"idle", "reconnect", "restore"} :
            \/ ClientRuns(c, << >>, who, next)
            \/ ClientRuns(c, AbortedBy(client), who, next)
            \/ RunDisconnect /\ ClientRuns(c, bye, who, next)
  <2> HIDE DEF bye
  <2>1. CASE RunChain
    BY <2>1 DEF RunChain, Quietly, Failing
  <2>2. CASE RunConnackGranted
    BY <2>2 DEF RunConnackGranted
  <2>3. CASE RunConnackRefused
    BY <2>3 DEF RunConnackRefused, Failing
  <2>4. CASE RunConnTimer
    BY <2>4 DEF RunConnTimer, Quietly, Failing
  <2>5. CASE RunBroken
    BY <2>5 DEF RunBroken, Quietly, Failing
  <2>6. CASE RunDisconnect
    BY <2>6 DEF RunDisconnect, Quietly, bye
  <2>7. CASE RunBye
    BY <2>7 DEF RunBye, Quietly
  <2>8. CASE RunWritten
    BY <2>8 DEF RunWritten, Quietly
  <2>9. CASE RunMessage \/ RunGone
    BY <2>9 DEF RunMessage, RunGone, Quietly
  <2> QED
    BY <2>1, <2>2, <2>3, <2>4, <2>5, <2>6, <2>7, <2>8, <2>9
<1> HIDE DEF bye
<1>7. PICK c, who : \E next \in {"idle", "reconnect", "restore"} :
            \/ ClientRuns(c, << >>, who, next)
            \/ ClientRuns(c, AbortedBy(client), who, next)
            \/ RunDisconnect /\ ClientRuns(c, bye, who, next)
  BY <1>6
<1> PICK next \in {"idle", "reconnect", "restore"} :
            \/ ClientRuns(c, << >>, who, next)
            \/ ClientRuns(c, AbortedBy(client), who, next)
            \/ RunDisconnect /\ ClientRuns(c, bye, who, next)
  BY <1>7
<1>8. CASE ClientRuns(c, << >>, who, next)
  BY <1>1, <1>4, <1>6, <1>8, ClientRunsUndisturbed
<1>9. CASE ClientRuns(c, AbortedBy(client), who, next)
  BY <1>1, <1>5, <1>6, <1>9, ClientRunsUndisturbed
<1>10. CASE RunDisconnect /\ ClientRuns(c, bye, who, next)
  BY <1>1, <1>3, <1>6, <1>10, ClientRunsUndisturbed
<1> QED
  BY <1>8, <1>9, <1>10

LEMMA IoRKeeps ==
    ASSUME HInv, RInv, setup' = setup,
           \/ IoExits \/ RunSubscribe \/ RunPublish \/ RunSettled \/ RunStale
           \/ Restore
    PROVE  RInv'
<1>1. loop \in Seq(Handlers)
  BY DEF HInv, Typed
<1>2. /\ UNCHANGED <<userStopped, shouldReconnect, reconnectPending, timer,
                     counted, starts, rearmPc>>
      /\ ioPc' \in {ioPc, "idle"} /\ ioThread = "running"
  BY DEF IoExits, RunSubscribe, RunPublish, RunSettled, RunStale, Restore,
         Publishing, Running, Idle, Aside, rearmer, state, policy, session, owner,
         HInv, Phases
<1>3. starts # 0
  BY <1>2 DEF RInv, BeforeStart
<1>4. CASE IoExits
  <2>1. Undisturbed
    BY <1>4 DEF IoExits, Undisturbed, Queued
  <2> QED
    BY <1>2, <1>3, <2>1, UndisturbedKeeps
<1>5. CASE RunSubscribe \/ RunPublish \/ RunSettled \/ RunStale
  <2>1. loop # << >> /\ loop' = Tail(loop)
    BY <1>5 DEF RunSubscribe, RunPublish, RunSettled, RunStale, Publishing,
                Running
  <2> QED
    BY <1>1, <1>2, <1>3, <2>1, UndisturbedTail, UndisturbedKeeps
<1>6. CASE Restore
  <2> DEFINE posts == [i \in DOMAIN Restored |->
                         Handler("subscribe", Restored[i])]
  <2>1. /\ DOMAIN Restored = 1 .. Len(Restored) /\ Len(Restored) \in Nat
        /\ \A i \in DOMAIN Restored : Restored[i] \in Topics
    BY RestoredAll DEF HInv, Asked
  <2>2. \A i \in DOMAIN Restored :
           posts[i] \in Handlers /\ posts[i].kind = "subscribe"
    BY <2>1 DEF Handler, Handlers
  <2>3. posts \in Seq(Handlers) /\ DOMAIN posts = DOMAIN Restored
    BY <2>1, <2>2
  <2>4. loop' = loop \o posts
    BY <1>6 DEF Restore
  <2> HIDE DEF posts
  <2>5. NoWait(posts) /\ Rearmed \notin Range(posts)
    BY <2>2, <2>3 DEF NoWait, Range, Rearmed, Handler
  <2>6. Undisturbed
    BY <1>1, <2>3, <2>4, <2>5, UndisturbedPosts
  <2> QED
    BY <1>2, <1>3, <2>6, UndisturbedKeeps
<1> QED
  BY <1>4, <1>5, <1>6
\* A stop() until its DISCONNECT is posted, on either thread.
LEMMA StoppingRKeeps ==
    ASSUME HInv, RInv, setup' = setup,
           \/ RunMessageStops \/ CallbackDisarms \/ CallbackLeaves
           \/ CallbackBye
           \/ StopBegin \/ StopDisarms \/ StopExchange \/ StopBye
    PROVE  RInv'
<1>1. loop \in Seq(Handlers)
  BY DEF HInv, Typed
<1>2. userStopped'
  BY DEF RunMessageStops, CallbackDisarms, CallbackLeaves, CallbackBye,
         StopBegin, StopDisarms, StopExchange, StopBye, Disarms, state, policy,
         HInv, Phases
<1>3. starts' = starts /\ rearmPc' = rearmPc
  BY DEF RunMessageStops, CallbackDisarms, CallbackLeaves, CallbackBye,
         StopBegin, StopDisarms, StopExchange, StopBye, NotOwner, owner, rearmer
<1>4. Queued' \subseteq Queued \cup {h \in Handlers : h # Rearmed}
  <2>1. CASE RunMessageStops
    BY <1>1, <2>1, QueueTail DEF RunMessageStops, Running, Queued
  <2>2. CASE CallbackDisarms \/ StopDisarms
    <3>1. PICK pc, next : Disarms(pc, next)
      BY <2>2 DEF CallbackDisarms, StopDisarms
    <3>2. Queued' \in {Queued, Queued \cup Range(CancelledWait)}
      BY <3>1, DisarmsQueue
    <3>3. Range(CancelledWait) \subseteq {h \in Handlers : h # Rearmed}
      <4>1. Handler("wait", FALSE) \in Handlers
            /\ Handler("wait", FALSE) # Rearmed
        BY DEF Rearmed, Handler, Handlers
      <4> QED
        BY <4>1, Cancelled
    <3> QED
      BY <3>2, <3>3
  <2>3. CASE CallbackLeaves \/ StopBegin \/ StopExchange
    BY <2>3 DEF CallbackLeaves, StopBegin, StopExchange, Queued
  <2>4. CASE CallbackBye \/ StopBye
    <3>1. PICK b \in Byes : loop' = Append(loop, Handler("disconnect", b))
      BY <2>4 DEF CallbackBye, StopBye, Post, Byes
    <3>2. Handler("disconnect", b) \in Handlers
          /\ Handler("disconnect", b) # Rearmed
      BY DEF Handler, Handlers, Rearmed
    <3>3. Queued' = Queued \cup {Handler("disconnect", b)}
      BY <1>1, <3>1, <3>2, PostedOne
    <3> QED
      BY <3>2, <3>3
  <2> QED
    BY <2>1, <2>2, <2>3, <2>4
<1>5. BeforeStart'
  <2>1. CASE \/ RunMessageStops \/ CallbackDisarms \/ CallbackLeaves
             \/ CallbackBye \/ StopBegin
    <3>1. client.live \/ ioThread # "none"
      BY <2>1 DEF RunMessageStops, CallbackDisarms, CallbackLeaves, CallbackBye,
                  StopBegin, Disarms, Running, Idle, HInv, Phases
    <3> QED
      BY <1>3, <3>1 DEF RInv, BeforeStart
  <2>2. CASE StopDisarms \/ StopExchange
    <3> SUFFICES ASSUME starts = 0
                 PROVE  /\ ~client'.live /\ ioThread' = "none" /\ ~timer'
                        /\ ~counted' /\ NoWait(loop')
      BY <1>3 DEF BeforeStart
    <3>1. /\ ~client.live /\ ioThread = "none" /\ timer = FALSE /\ ~counted
          /\ NoWait(loop)
      BY DEF RInv, BeforeStart, HInv, Typed, Flags
    <3>2. UNCHANGED <<client, ioThread, counted>> /\ ~timer'
      BY <2>2, <3>1 DEF StopDisarms, StopExchange, Disarms, session
    <3>3. loop' = loop
      <4>1. CancelledWait = << >>
        BY <3>1 DEF CancelledWait
      <4>2. loop \o << >> = loop
        BY <1>1
      <4> QED
        BY <2>2, <4>1, <4>2 DEF StopDisarms, StopExchange, Disarms
    <3> QED
      BY <3>1, <3>2, <3>3
  <2>3. CASE StopBye
    <3>1. /\ Handler("disconnect", "owner") \in Handlers
          /\ Handler("disconnect", "owner").kind \notin {"wait", "rearmed"}
      BY DEF Handler, Handlers, Byes
    <3>2. Undisturbed
      BY <1>1, <2>3, <3>1, UndisturbedOne DEF StopBye, Post
    <3>3. UNCHANGED <<client, ioThread, counted, timer>>
      BY <2>3 DEF StopBye, session
    <3> QED
      BY <1>3, <3>2, <3>3 DEF RInv, BeforeStart, Undisturbed
  <2> QED
    BY <2>1, <2>2, <2>3
<1> QED
  BY <1>2, <1>3, <1>4, <1>5 DEF RInv, Unarmed, BeforeStart, ClaimHeld

LEMMA RunRearmedNever ==
    ASSUME HInv, RInv
    PROVE  ~RunRearmed
<1> SUFFICES ASSUME RunRearmed PROVE FALSE
  OBVIOUS
<1>1. loop \in Seq(Handlers) /\ loop # << >> /\ Head(loop).kind = "rearmed"
  BY DEF RunRearmed, Running, HInv, Typed
<1>2. Head(loop) \in Handlers /\ Head(loop) \in Queued
  BY <1>1, QueueTail DEF Queued
<1>3. Head(loop) = Rearmed
  BY <1>1, <1>2 DEF Handlers, Rearmed, Handler
<1> QED
  BY <1>2, <1>3 DEF RInv, Unarmed

LEMMA ReconnectRKeeps ==
    ASSUME HInv, RInv, setup' = setup,
           \/ ReconnectBegin \/ ReconnectClaim \/ ReconnectGivesUp
           \/ ReconnectGaveUp
    PROVE  RInv'
<1>1. /\ ioPc # "idle" /\ loop' = loop /\ timer' = timer /\ counted' = counted
      /\ userStopped' = userStopped /\ starts' = starts /\ rearmPc' = rearmPc
  BY DEF ReconnectBegin, ReconnectClaim, ReconnectGivesUp, ReconnectGaveUp,
         Goes, At, owner, rearmer
<1>2. starts # 0
  BY <1>1 DEF RInv, BeforeStart, HInv, Phases
<1>3. Unarmed' /\ BeforeStart'
  BY <1>1, <1>2 DEF RInv, Unarmed, BeforeStart, Queued
<1> SUFFICES ASSUME ~userStopped PROVE ClaimHeld'
  BY <1>1, <1>3 DEF RInv, ClaimHeld
<1>4. userStopped' = FALSE /\ ClaimHeld
  BY <1>1 DEF RInv, HInv, Typed, Flags
<1>5. /\ shouldReconnect \in BOOLEAN /\ reconnectPending \in BOOLEAN
      /\ counted \in BOOLEAN /\ timer \in BOOLEAN
  BY DEF HInv, Typed, Flags
<1>6. CASE ReconnectBegin
  <2>1. /\ ioPc' \in {"claim", "idle"}
        /\ ioPc' = "claim" => shouldReconnect
        /\ shouldReconnect' = shouldReconnect
        /\ reconnectPending' = reconnectPending /\ ioPc = "reconnect"
    BY <1>6 DEF ReconnectBegin, Goes, At
  <2> QED
    BY <1>1, <1>4, <1>5, <2>1 DEF ClaimHeld
<1>7. CASE ReconnectClaim
  <2>1. /\ ioPc' = IF reconnectPending THEN "idle" ELSE "decide"
        /\ shouldReconnect' = shouldReconnect
        /\ reconnectPending' = TRUE /\ ioPc = "claim"
    BY <1>7 DEF ReconnectClaim, Goes, At
  <2>2. CASE reconnectPending
    BY <1>1, <1>4, <1>5, <2>1, <2>2 DEF ClaimHeld
  <2>3. CASE ~reconnectPending
    BY <1>1, <1>4, <1>5, <2>1, <2>3 DEF ClaimHeld
  <2> QED
    BY <2>2, <2>3
<1>8. CASE ReconnectGivesUp
  <2>1. /\ ioPc' = "givenUp" /\ ioPc = "decide" /\ shouldReconnect' = FALSE
        /\ reconnectPending' = reconnectPending
    BY <1>8 DEF ReconnectGivesUp, Goes, At
  <2> QED
    BY <1>1, <1>4, <1>5, <2>1 DEF ClaimHeld
<1>9. CASE ReconnectGaveUp
  <2>1. /\ ioPc' = "idle" /\ ioPc = "givenUp"
        /\ shouldReconnect' = shouldReconnect /\ reconnectPending' = FALSE
    BY <1>9 DEF ReconnectGaveUp, Goes, At
  <2> QED
    BY <1>1, <1>4, <1>5, <2>1 DEF ClaimHeld
<1> QED
  BY <1>6, <1>7, <1>8, <1>9

LEMMA ReconnectWaitsRKeeps ==
    ASSUME HInv, RInv, setup' = setup, ReconnectWaits
    PROVE  RInv'
<1>1. /\ ioPc = "decide" /\ ioPc' = "idle" /\ loop' = loop \o CancelledWait
      /\ userStopped' = userStopped /\ starts' = starts /\ rearmPc' = rearmPc
      /\ timer' = TRUE /\ counted' = TRUE
      /\ shouldReconnect' = shouldReconnect
      /\ reconnectPending' = reconnectPending
  BY DEF ReconnectWaits, Goes, At, owner, rearmer
<1>2. starts # 0
  BY <1>1 DEF RInv, BeforeStart, HInv, Phases
<1>3. loop \in Seq(Handlers) /\ CancelledWait \in Seq(Handlers)
      /\ Range(CancelledWait) \subseteq {Handler("wait", FALSE)}
  BY Cancelled DEF HInv, Typed
<1>4. Queued' = Queued \cup Range(CancelledWait)
  BY <1>1, <1>3, Posted
<1>5. Unarmed' /\ BeforeStart'
  BY <1>1, <1>2, <1>3, <1>4 DEF RInv, Unarmed, BeforeStart, Rearmed, Handler
<1> SUFFICES ASSUME ~userStopped PROVE ClaimHeld'
  BY <1>1, <1>5 DEF RInv, ClaimHeld
<1>6. /\ reconnectPending /\ ~timer /\ NoWait(loop) /\ shouldReconnect
      /\ OneWait(loop) /\ NotCancelled(loop)
  BY <1>1 DEF RInv, ClaimHeld
<1>7. loop' = loop
  BY <1>1, <1>3, <1>6 DEF CancelledWait
<1> QED
  BY <1>1, <1>6, <1>7 DEF ClaimHeld

LEMMA RunWaitRKeeps ==
    ASSUME HInv, RInv, setup' = setup, RunWait
    PROVE  RInv'
<1> DEFINE posts == AbortedByConnect(client)
<1>1. /\ Idle /\ loop # << >> /\ Head(loop).kind = "wait"
      /\ ioPc' = ioPc /\ userStopped' = userStopped /\ starts' = starts
      /\ rearmPc' = rearmPc /\ timer' = timer /\ reconnectPending' = FALSE
      /\ shouldReconnect' = shouldReconnect
  BY DEF RunWait, WaitOver, Running, Aside, rearmer
<1>2. starts # 0
  BY <1>1 DEF RInv, BeforeStart, Idle
<1>3. loop \in Seq(Handlers) /\ client \in Clients /\ setup \in Setup
  BY DEF HInv, Typed
<1>4. posts \in Seq(Handlers) /\ NoWait(posts) /\ Rearmed \notin Range(posts)
      /\ << >> \in Seq(Handlers) /\ Tail(loop) \in Seq(Handlers)
  BY <1>1, <1>3, AbortsNoWait, QueueTail, QueueOne
<1> HIDE DEF posts
<1>5. loop' = Tail(loop) \/ loop' = Tail(loop) \o posts
  <2>1. Tail(loop) \o << >> = Tail(loop)
    BY <1>4
  <2> QED
    BY <2>1, <1>4 DEF RunWait, DoConnect, NoConnect, posts
<1>6. Undisturbed
  <2>1. CASE loop' = Tail(loop)
    BY <1>1, <1>3, <2>1, UndisturbedTail
  <2>2. CASE loop' = Tail(loop) \o posts
    BY <1>1, <1>3, <1>4, <2>2, UndisturbedPosts
  <2> QED
    BY <1>5, <2>1, <2>2
<1>7. Unarmed' /\ BeforeStart'
  BY <1>1, <1>2, <1>6 DEF RInv, Unarmed, BeforeStart, Undisturbed, Rearmed
<1> SUFFICES ASSUME ~userStopped PROVE ClaimHeld'
  BY <1>1, <1>7 DEF RInv, ClaimHeld
<1>8. OneWait(loop) /\ NotCancelled(loop)
  BY DEF RInv, ClaimHeld
<1>9. ~NoWait(loop)
  BY <1>1, <1>3 DEF NoWait
<1>10. shouldReconnect /\ ~timer
  BY <1>9 DEF RInv, ClaimHeld
<1>11. Arg = TRUE /\ NoWait(Tail(loop))
  BY <1>1, <1>3, <1>8, WaitsTail DEF Arg
<1>12. counted' = FALSE
  BY <1>10, <1>11 DEF RunWait, DoConnect
<1>13. NoWait(loop')
  <2>1. ASSUME NEW t \in Seq(Handlers), NoWait(t) PROVE NoWait(t \o posts)
    BY <1>4, <2>1, WaitsConcat
  <2> QED
    BY <1>4, <1>5, <1>11, <2>1
<1>14. OneWait(loop') /\ NotCancelled(loop')
  BY <1>13 DEF NoWait, OneWait, NotCancelled
<1>15. ioPc' = "idle"
  BY <1>1 DEF Idle
<1> QED
  BY <1>1, <1>10, <1>12, <1>13, <1>14, <1>15 DEF ClaimHeld
LEMMA NetworkRKeeps ==
    ASSUME HInv, RInv, setup' = setup,
           Network \/ ConnTimerFires \/ PublishSettles
    PROVE  RInv'
<1>1. /\ UNCHANGED <<userStopped, shouldReconnect, reconnectPending, timer,
                     counted, starts, rearmPc, ioPc, ioThread>>
  BY DEF Network, ConnTimerFires, PublishSettles, ChainDone, ConnackArrives,
         StreamBreaks, MessageArrives, ByeTaken, Outside, policy, owner, rearmer
<1>2. client \in Clients /\ loop \in Seq(Handlers)
  BY DEF HInv, Typed
<1>3. starts = 0 => client = NoClient /\ ioThread = "none"
  BY DEF RInv, BeforeStart, HInv, Phases
<1>4. starts # 0
  <2>1. \/ client.chain \/ client.asked \/ client.reading
        \/ client.byes # {} \/ client.connTimer \/ ioThread = "running"
    BY DEF Network, ConnTimerFires, PublishSettles, ChainDone,
       ConnackArrives, StreamBreaks, MessageArrives, ByeTaken
  <2>2. /\ ~NoClient.chain /\ ~NoClient.asked /\ ~NoClient.reading
        /\ NoClient.byes = {} /\ ~NoClient.connTimer
    BY DEF NoClient
  <2> QED
    BY <1>3, <2>1, <2>2
<1>5. \E h \in Handlers : /\ h.kind \notin {"wait", "rearmed"}
                          /\ loop' = Append(loop, h)
  <2>1. /\ \A ok \in BOOLEAN : /\ Handler("chain", ok) \in Handlers
                               /\ Handler("connack", ok) \in Handlers
        /\ \A k \in {"broken", "message", "written", "settled", "connTimer"} :
              Handler(k, "none") \in Handlers
    BY DEF Handler, Handlers
  <2>2. \A k, a : Handler(k, a).kind = k
    BY DEF Handler
  <2>3. CASE ChainDone
    <3>1. \E ok \in BOOLEAN : loop' = Append(loop, Handler("chain", ok))
      BY <2>3 DEF ChainDone, Post
    <3> QED
      BY <2>1, <2>2, <3>1
  <2>4. CASE ConnackArrives
    <3>1. \E ok \in BOOLEAN : loop' = Append(loop, Handler("connack", ok))
      BY <2>4 DEF ConnackArrives, Post
    <3> QED
      BY <2>1, <2>2, <3>1
  <2>5. CASE \/ StreamBreaks \/ MessageArrives \/ ByeTaken \/ ConnTimerFires
             \/ PublishSettles
    <3>1. \E k \in {"broken", "message", "written", "settled", "connTimer"} :
             loop' = Append(loop, Handler(k, "none"))
      BY <2>5 DEF StreamBreaks, MessageArrives, ByeTaken, ConnTimerFires,
                  PublishSettles, Post
    <3> QED
      BY <2>1, <2>2, <3>1
  <2> QED
    BY <2>3, <2>4, <2>5 DEF Network
<1>6. Undisturbed
  BY <1>2, <1>5, UndisturbedOne
<1> QED
  BY <1>1, <1>4, <1>6, UndisturbedKeeps

LEMMA TimerFiresRKeeps ==
    ASSUME HInv, RInv, setup' = setup, TimerFires
    PROVE  RInv'
<1>1. /\ UNCHANGED <<userStopped, shouldReconnect, reconnectPending, counted,
                     starts, rearmPc, ioPc, ioThread>>
      /\ timer /\ timer' = FALSE /\ loop' = Append(loop, Awaited)
  BY DEF TimerFires, Outside, policy, owner, rearmer, Post, Awaited
<1>2. loop \in Seq(Handlers) /\ Awaited \in Handlers /\ Awaited # Rearmed
  BY DEF HInv, Typed, Awaited, Rearmed, Handler, Handlers
<1>3. Queued' = Queued \cup {Awaited}
  BY <1>1, <1>2, PostedOne
<1>4. Unarmed' /\ BeforeStart'
  BY <1>1, <1>2, <1>3 DEF RInv, Unarmed, BeforeStart, Rearmed
<1> SUFFICES ASSUME ~userStopped PROVE ClaimHeld'
  BY <1>1, <1>4 DEF RInv, ClaimHeld
<1>5. reconnectPending /\ NoWait(loop) /\ shouldReconnect
      /\ ioPc \notin {"decide", "givenUp"}
  BY <1>1 DEF RInv, ClaimHeld
<1>6. OneWait(loop') /\ NotCancelled(loop')
  BY <1>1, <1>2, <1>5, WaitsFirst
<1> QED
  BY <1>1, <1>5, <1>6 DEF ClaimHeld

LEMMA RearmerRNever ==
    ASSUME HInv, RInv, rearms' = 0
    PROVE  ~Rearmer
<1>1. rearms \in Nat /\ rearms' = 0 /\ rearmPc = "idle"
  BY DEF HInv, Typed, RInv, Unarmed
<1> QED
  BY <1>1 DEF Rearmer, RearmBegin, RearmExchange, RearmReset, RearmPost

LEMMA ApplicationRKeeps ==
    ASSUME HInv, RInv, setup' = setup,
           \/ \E t \in Topics : Subscribe(t) \/ SubscribeNow(t)
           \/ Publish
    PROVE  RInv'
<1>1. UNCHANGED <<userStopped, shouldReconnect, reconnectPending, timer,
                  counted, starts, rearmPc, ioPc, ioThread, client>>
  BY DEF Subscribe, SubscribeNow, Publish, policy, session, io, owner, rearmer
<1>2. loop \in Seq(Handlers)
  BY DEF HInv, Typed
<1>3. \/ loop' = loop
      \/ \E h \in Handlers : /\ h.kind \notin {"wait", "rearmed"}
                             /\ loop' = Append(loop, h)
  <2>1. /\ \A t \in Topics : Handler("subscribe", t) \in Handlers
        /\ Handler("publish", "none") \in Handlers
        /\ \A k, a : Handler(k, a).kind = k
    BY DEF Handler, Handlers
  <2> QED
    BY <2>1 DEF Subscribe, SubscribeNow, Publish, Post, io
<1>4. Undisturbed
  <2>1. CASE loop' = loop
    BY <2>1 DEF Undisturbed, Queued
  <2> QED
    BY <1>2, <1>3, <2>1, UndisturbedOne
<1>5. starts = 0 => ioThread' = "none" /\ ~client'.live
  BY <1>1 DEF RInv, BeforeStart
<1> QED
  BY <1>1, <1>4, <1>5, UndisturbedKeeps
\* release_client() leaves no wait and no rearm that was not there.
LEMMA LeftNoWait ==
    ASSUME loop \in Seq(Handlers)
    PROVE  /\ NoWait(loop) => NoWait(LeftBehind)
           /\ Rearmed \notin Queued => Rearmed \notin Range(LeftBehind)
<1>1. \A i \in DOMAIN LeftBehind :
         \/ i \in DOMAIN loop /\ LeftBehind[i] = loop[i]
         \/ LeftBehind[i].kind \in {"stale", "settled", "gone"}
  <2> DEFINE own == [i \in DOMAIN loop |->
                      CASE loop[i].kind \in {"disconnect", "bye"}
                              -> Handler("stale", loop[i].arg)
                        [] loop[i].kind = "publish" -> Handler("settled", "none")
                        [] loop[i].kind \in {"wait", "rearmed", "stale", "settled"}
                              -> loop[i]
                        [] OTHER -> Handler("gone", "none")]
  <2>1. \A i \in DOMAIN loop :
           own[i] = loop[i] \/ own[i].kind \in {"stale", "settled", "gone"}
    <3> SUFFICES ASSUME NEW i \in DOMAIN loop
                 PROVE  \/ own[i] = loop[i]
                        \/ own[i].kind \in {"stale", "settled", "gone"}
      OBVIOUS
    <3>1. \A a : /\ Handler("stale", a).kind = "stale"
                 /\ Handler("settled", a).kind = "settled"
                 /\ Handler("gone", a).kind = "gone"
      BY DEF Handler
    <3>2. \/ own[i] = Handler("stale", loop[i].arg)
          \/ own[i] = Handler("settled", "none")
          \/ own[i] = loop[i]
          \/ own[i] = Handler("gone", "none")
      <4>1. CASE loop[i].kind \in {"disconnect", "bye"}
        BY <4>1
      <4>2. CASE loop[i].kind = "publish"
        BY <4>2
      <4>3. CASE loop[i].kind \in {"wait", "rearmed", "stale", "settled"}
        BY <4>3
      <4>4. CASE loop[i].kind \notin {"disconnect", "bye", "publish", "wait",
                                      "rearmed", "stale", "settled"}
        BY <4>4
      <4> QED
        BY <4>1, <4>2, <4>3, <4>4
    <3> HIDE DEF own
    <3> QED
      BY <3>1, <3>2
  <2>2. /\ SettledLate \in {<< >>, <<Handler("settled", "none")>>}
        /\ \A i \in DOMAIN SettledLate : SettledLate[i].kind = "settled"
    BY DEF SettledLate, Handler
  <2>3. LeftBehind = own \o SettledLate
    BY DEF LeftBehind
  <2>4. DOMAIN loop = 1 .. Len(loop) /\ Len(loop) \in Nat
    OBVIOUS
  <2>5. DOMAIN own = DOMAIN loop /\ Len(own) = Len(loop)
    <3>1. own = [i \in 1 .. Len(loop) |-> own[i]]
      BY <2>4
    <3> HIDE DEF own
    <3> QED
      BY <2>4, <3>1
  <2> HIDE DEF own
  <2>6. Len(SettledLate) \in Nat /\ DOMAIN SettledLate = 1 .. Len(SettledLate)
    BY <2>2
  <2>7. \A i \in DOMAIN (own \o SettledLate) :
           \/ i \in DOMAIN own /\ (own \o SettledLate)[i] = own[i]
           \/ /\ i - Len(own) \in DOMAIN SettledLate
              /\ (own \o SettledLate)[i] = SettledLate[i - Len(own)]
    BY <2>4, <2>5, <2>6
  <2> QED
    BY <2>1, <2>2, <2>3, <2>5, <2>7
<1>2. NoWait(loop) => NoWait(LeftBehind)
  BY <1>1 DEF NoWait
<1>3. Rearmed \notin Queued => Rearmed \notin Range(LeftBehind)
  BY <1>1 DEF Rearmed, Handler, Range, Queued
<1> QED
  BY <1>2, <1>3

LEMMA StartBeginRKeeps ==
    ASSUME HInv, RInv, setup' = setup, StartBegin, starts' <= 1
    PROVE  RInv'
<1>1. /\ starts' = starts + 1 /\ starts' <= 1 /\ ioThread = "none"
      /\ loop' = LeftBehind /\ timer' = timer /\ reconnectPending' = FALSE
      /\ shouldReconnect' = TRUE /\ counted' = FALSE /\ ioPc' = ioPc
      /\ rearmPc' = rearmPc
  BY DEF StartBegin, NotOwner, rearmer
<1>2. starts \in Nat /\ loop \in Seq(Handlers)
  BY DEF HInv, Typed
<1>3. starts = 0 /\ starts' # 0
  BY <1>1, <1>2
<1>4. ioPc = "idle"
  BY <1>1 DEF HInv, Phases
<1>5. ~timer /\ NoWait(loop) /\ Rearmed \notin Queued /\ rearmPc = "idle"
  BY <1>3 DEF RInv, BeforeStart, Unarmed
<1>6. NoWait(loop') /\ Rearmed \notin Queued'
  BY <1>1, <1>2, <1>5, LeftNoWait DEF Queued
<1>7. OneWait(loop') /\ NotCancelled(loop')
  BY <1>6 DEF NoWait, OneWait, NotCancelled
<1>8. Unarmed' /\ BeforeStart'
  BY <1>1, <1>3, <1>5, <1>6 DEF Unarmed, BeforeStart, Rearmed
<1>9. ClaimHeld'
  BY <1>1, <1>4, <1>5, <1>6, <1>7 DEF ClaimHeld
<1> QED
  BY <1>8, <1>9 DEF RInv

LEMMA StopReleaseRKeeps ==
    ASSUME HInv, RInv, setup' = setup, StopRelease
    PROVE  RInv'
<1>1. loop \in Seq(Handlers)
  BY DEF HInv, Typed
<1>2. userStopped'
  BY DEF StopRelease, policy, HInv, Phases
<1>3. /\ UNCHANGED <<ioThread, timer, counted, starts, rearmPc>>
      /\ client' = NoClient /\ loop' = LeftBehind
  BY DEF StopRelease, NotOwner, rearmer
<1>4. /\ NoWait(loop) => NoWait(loop')
      /\ Rearmed \notin Queued => Rearmed \notin Queued'
  BY <1>1, <1>3, LeftNoWait DEF Queued
<1>5. ~client'.live
  BY <1>3 DEF NoClient
<1> QED
  BY <1>2, <1>3, <1>4, <1>5 DEF RInv, Unarmed, BeforeStart, ClaimHeld, Rearmed

LEMMA OwnerQuietRKeeps ==
    ASSUME HInv, RInv, setup' = setup,
           \/ StartLaunch \/ StartUnjoined \/ StopWaited \/ StopJoin
           \/ StopJoined \/ OwnerDrops
    PROVE  RInv'
<1>1. UNCHANGED <<userStopped, shouldReconnect, reconnectPending, timer, loop,
                  counted, client, rearmPc, ioPc>>
  BY DEF StartLaunch, StartUnjoined, StopWaited, StopJoin, StopJoined,
         OwnerDrops, state, policy, session, io, rearmer, NotOwner
<1>2. /\ starts' = starts
      /\ ioThread' \in {ioThread, "none"} \/ client.live
  BY DEF StartLaunch, StartUnjoined, StopWaited, StopJoin, StopJoined,
         OwnerDrops, state, io, owner, HInv, Phases
<1>3. starts = 0 => ioThread' = "none" /\ ~client'.live
  BY <1>1, <1>2 DEF RInv, BeforeStart
<1>4. Undisturbed
  BY <1>1 DEF Undisturbed, Queued
<1> QED
  BY <1>1, <1>2, <1>3, <1>4, UndisturbedKeeps

\* Calls are counted, never forgotten.
LEMMA OneLifeSoFar ==
    ASSUME HInv, [Next]_vars, OneLife'
    PROVE  OneLife
<1>1. starts \in Nat /\ rearms \in Nat
  BY DEF HInv, Typed
<1>2. CASE Owner
  BY <1>1, <1>2
     DEF Owner, StartBegin, StartLaunch, StartUnjoined, StopBegin, StopDisarms,
         Disarms, StopExchange, StopBye, StopWaited, StopJoin, StopJoined,
         StopRelease, OwnerDrops, NotOwner, owner, rearmer, OneLife
<1>3. CASE Rearmer
  BY <1>1, <1>3
     DEF Rearmer, RearmBegin, RearmExchange, RearmReset, RearmPost, owner,
         OneLife
<1>4. CASE IoStep
  <2>1. UNCHANGED <<starts, rearms>>
    BY <1>4
       DEF IoStep, IoExits, RunChain, RunConnackGranted, RunConnackRefused,
           RunConnTimer, RunBroken, RunSubscribe, RunPublish, RunSettled,
           RunDisconnect, RunBye, RunWritten, RunStale, RunGone, RunMessage,
           RunMessageStops, CallbackDisarms, CallbackLeaves, CallbackBye,
           Disarms, Restore, ReconnectBegin, ReconnectClaim, ReconnectWaits,
           ReconnectGivesUp, ReconnectGaveUp, RunWait, RunRearmed, ClientRuns,
           Quietly, Failing, Publishing, DoConnect, Aside, Goes, owner, rearmer
  <2> QED
    BY <2>1 DEF OneLife
<1>5. CASE Network \/ ConnTimerFires \/ TimerFires \/ PublishSettles
  BY <1>5
     DEF Network, ChainDone, ConnackArrives, StreamBreaks, MessageArrives,
         ByeTaken, ConnTimerFires, TimerFires, PublishSettles, Outside, owner,
         rearmer, OneLife
<1>6. CASE (\E t \in Topics : Subscribe(t) \/ SubscribeNow(t)) \/ Publish
  BY <1>6 DEF Subscribe, SubscribeNow, Publish, owner, rearmer, OneLife
<1>7. CASE UNCHANGED vars
  BY <1>7 DEF vars, threads, owner, rearmer, OneLife
<1> QED
  BY <1>2, <1>3, <1>4, <1>5, <1>6, <1>7 DEF Next

LEMMA NextRInv ==
    ASSUME HInv, RInv, [Next]_vars, OneLife'
    PROVE  RInv'
<1>1. CASE UNCHANGED vars
  <2>1. /\ UNCHANGED <<setup, userStopped, shouldReconnect, reconnectPending,
                       timer, loop, counted, client, rearmPc, ioPc, starts,
                       ioThread>>
    BY <1>1 DEF vars, threads, state, policy, session, io, owner, rearmer
  <2>2. Undisturbed
    BY <2>1 DEF Undisturbed, Queued
  <2>3. starts = 0 => ioThread' = "none" /\ ~client'.live
    BY <2>1 DEF RInv, BeforeStart
  <2> QED
    BY <2>1, <2>2, <2>3, UndisturbedKeeps
<1>2. CASE Next
  <2>1. setup' = setup
    BY <1>2 DEF Next
  <2>2. CASE Owner
    BY <2>1, <2>2, StartBeginRKeeps, StoppingRKeeps, StopReleaseRKeeps,
       OwnerQuietRKeeps DEF Owner, OneLife
  <2>3. CASE \/ \E t \in Topics : Subscribe(t) \/ SubscribeNow(t)
             \/ Publish
    BY <2>1, <2>3, ApplicationRKeeps
  <2>4. CASE IoStep
    BY <2>1, <2>4, ClientRunsRKeeps, IoRKeeps, StoppingRKeeps,
       ReconnectRKeeps, ReconnectWaitsRKeeps, RunWaitRKeeps, RunRearmedNever
       DEF IoStep
  <2>5. CASE Network \/ ConnTimerFires \/ PublishSettles
    BY <2>1, <2>5, NetworkRKeeps
  <2>6. CASE TimerFires
    BY <2>1, <2>6, TimerFiresRKeeps
  <2> QED
    BY <1>2, <2>2, <2>3, <2>4, <2>5, <2>6, RearmerRNever DEF Next, OneLife
<1> QED
  BY <1>1, <1>2

LEMMA InitRInv == Init => RInv
<1> SUFFICES ASSUME Init PROVE RInv
  OBVIOUS
<1>1. loop = << >> /\ Queued = {} /\ NoWait(loop)
      /\ OneWait(loop) /\ NotCancelled(loop)
  BY DEF Init, Queued, Range, NoWait, OneWait, NotCancelled
<1>2. Unarmed /\ BeforeStart /\ ClaimHeld
  BY <1>1 DEF Init, Unarmed, BeforeStart, ClaimHeld, NoClient
<1> QED
  BY <1>2 DEF RInv

\* One do_connect() counts one retry at most, however many paths report its
\* failure and whatever stop() races them, until start() is called again or
\* rearm_reconnect() is: the claim of do_reconnect() then stands exactly while
\* its wait does.
THEOREM OneRetryInOneLife == Spec => OneRetryPerAttempt
<1>1. Spec => [](OneLife => RInv)
  <2>1. Init => (OneLife => RInv)
    BY InitRInv
  <2>2. HInv /\ (OneLife => RInv) /\ [Next]_vars => (OneLife => RInv)'
    BY OneLifeSoFar, NextRInv
  <2> QED
    BY <2>1, <2>2, HelperInvariant, PTL DEF Spec
<1>2. (OneLife => RInv)
         => (ReconnectWaits /\ ~userStopped /\ starts <= 1 /\ rearms = 0
               => ~counted)
  BY DEF OneLife, RInv, ClaimHeld, ReconnectWaits, At
<1>3. (OneLife => RInv) /\ [Next]_vars
         => [ReconnectWaits /\ ~userStopped /\ starts <= 1 /\ rearms = 0
               => ~counted]_vars
  BY <1>2
<1> QED
  BY <1>1, <1>3, PTL DEF Spec, OneRetryPerAttempt

=============================================================================
