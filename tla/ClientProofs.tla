---------------------------- MODULE ClientProofs ----------------------------
(***************************************************************************)
(* litemqtt::mqtt_client for every setup: any number of publishes and      *)
(* subscribes, any window, any number of attempts and every fault.         *)
(***************************************************************************)
EXTENDS Client, SequenceTheorems, FiniteSetTheorems, TLAPS

-----------------------------------------------------------------------------
(* The types of the whole state *)

Frames == [type : FrameTypes, pid : 0 .. MaxId, call : Nat]

Packets ==
    [type : {"CONNACK", "PUBLISH", "SUBACK", "PUBACK", "PUBREC", "PUBREL",
             "PUBCOMP", "PINGRESP"},
     pid  : 0 .. MaxId,
     how  : {"granted", "refused", "short", "ok"} \cup 0 .. 3]

PubEntries == [pid : Ids, call : PubCalls, attempts : 1 .. MaxSends,
               armed : BOOLEAN]
RecEntries == [pid : Ids, call : PubCalls, attempts : 0 .. MaxSends,
               armed : BOOLEAN]
SubEntries == [pid : Ids, call : SubCalls]
Sessions ==
    [closed : BOOLEAN, connTimer : BOOLEAN, ping : {"off", "ping", "pong"},
     pub : SUBSET PubEntries, rec : SUBSET RecEntries, sub : SUBSET SubEntries]

Handlers ==
    [kind : {"connect", "connTimer", "failPending", "pingDue", "pongDue"},
     arg : {0}]
    \cup [kind : {"resolved", "connected", "written"}, arg : BOOLEAN]
    \cup [kind : {"publish"}, arg : PubCalls]
    \cup [kind : {"subscribe"}, arg : SubCalls]
    \cup [kind : {"enqueue", "aborted"}, arg : Frames]
    \cup [kind : {"read", "packet"}, arg : Packets \cup {BrokenRead}]
    \cup [kind : {"pubRetry", "recRetry"}, arg : Ids]

Conns == Connections(Frames)

Typed ==
    /\ setup \in Setup
    /\ ses \in Sessions
    /\ conn \in Conns
    /\ nextPacketId \in Ids
    /\ loop \in Seq(Handlers)
    /\ resolving \in Nat
    /\ connecting \in BOOLEAN
    /\ ops \in Seq(Frames)
    /\ readBusy \in BOOLEAN
    /\ readOp \in BOOLEAN
    /\ inbox \in Seq(Packets)
    /\ app \in {"idle", "posted", "trying", "up", "down"}
    /\ pubCalls \in 0 .. Len(PubQos)
    /\ subCalls \in 0 .. NumSubs
    /\ pubAnswers \in [PubCalls -> Seq(BOOLEAN)]
    /\ sent \in [PubCalls -> [{"PUBLISH", "PUBREL"} -> Nat]]

\* The settings have the types the code gives them.
LEMMA SetupTypes ==
    ASSUME setup \in Setup
    PROVE  /\ PubQos \in Seq(0 .. 3) /\ Len(PubQos) \in Nat
           /\ NumSubs \in Nat /\ MaxPending \in Nat /\ MaxSends \in Nat \ {0}
           /\ KeepAlive \in BOOLEAN /\ ConnectTimeout \in BOOLEAN
           /\ PubCalls = 1 .. Len(PubQos) /\ SubCalls = 1 .. NumSubs
           /\ \A n \in PubCalls : PubQos[n] \in 0 .. 3
BY DEF Setup, PubQos, SubQos, NumSubs, MaxPending, MaxSends, KeepAlive, ConnectTimeout,
       PubCalls, SubCalls

\* No step changes the settings, nor what is typed by them.
LEMMA SameTypes ==
    ASSUME UNCHANGED setup
    PROVE  /\ PubCalls' = PubCalls /\ SubCalls' = SubCalls
           /\ PubQos' = PubQos /\ NumSubs' = NumSubs /\ MaxSends' = MaxSends
           /\ Sessions' = Sessions /\ Handlers' = Handlers
           /\ Frames' = Frames /\ Conns' = Conns /\ Packets' = Packets
BY DEF PubCalls, SubCalls, PubQos, SubQos, NumSubs, MaxSends, Sessions, PubEntries,
       RecEntries, SubEntries, Handlers, Frames, Conns, Packets, Connections,
       ConnectionStates, FrameTypes, Ids, BrokenRead, Packet

\* The invariant of the types gives the one the runs check.
LEMMA TypesTypeOK == Typed => TypeOK
<1> SUFFICES ASSUME Typed PROVE TypeOK OBVIOUS
<1>1. /\ ses \in Sessions /\ conn \in Conns /\ nextPacketId \in Ids
      /\ ops \in Seq(Frames)
      /\ app \in {"idle", "posted", "trying", "up", "down"}
  BY DEF Typed
<1>2. /\ conn.state \in ConnectionStates
      /\ {conn.open, conn.closed, conn.writing} \subseteq BOOLEAN
  BY <1>1 DEF Conns, Connections
<1>3. /\ ses.closed \in BOOLEAN /\ ses.connTimer \in BOOLEAN
      /\ ses.ping \in {"off", "ping", "pong"}
      /\ ses.pub \subseteq PubEntries /\ ses.rec \subseteq RecEntries
      /\ ses.sub \subseteq SubEntries
  BY <1>1 DEF Sessions
<1>4. Types({ops[i] : i \in 1 .. Len(ops)}) \subseteq FrameTypes
  <2>1. {ops[i] : i \in 1 .. Len(ops)} \subseteq Frames
    BY <1>1, ElementOfSeq
  <2> QED BY <2>1 DEF Types, Frames
<1>5. Held(conn) \subseteq Frames
  BY <1>1, ElementOfSeq DEF Conns, Connections, Held, Queued
<1>6. Types(Held(conn)) \subseteq FrameTypes BY <1>5 DEF Types, Frames
<1> QED BY <1>1, <1>2, <1>3, <1>4, <1>6
        DEF TypeOK, PubEntries, RecEntries, SubEntries

LEMMA InitTypes == Init => Typed
<1> SUFFICES ASSUME Init PROVE Typed OBVIOUS
<1>1. setup \in Setup BY ClientAssumption DEF Init
<1>2. ses \in Sessions BY DEF Init, NewSession, Sessions
<1>3. conn \in Conns
  BY DEF Init, NewConnection, Conns, Connections, ConnectionStates
<1>4. nextPacketId \in Ids BY MaxIdAssumption DEF Init, Ids
<1>5. /\ loop \in Seq(Handlers) /\ ops \in Seq(Frames) /\ inbox \in Seq(Packets)
  BY DEF Init
<1>6. pubAnswers \in [PubCalls -> Seq(BOOLEAN)] BY DEF Init
<1>7. sent \in [PubCalls -> [{"PUBLISH", "PUBREL"} -> Nat]]
  <2>1. [PUBLISH |-> 0, PUBREL |-> 0] \in [{"PUBLISH", "PUBREL"} -> Nat] OBVIOUS
  <2> QED BY <2>1 DEF Init
<1>8. pubCalls \in 0 .. Len(PubQos) /\ subCalls \in 0 .. NumSubs
  BY <1>1, SetupTypes DEF Init
<1> QED BY <1>1, <1>2, <1>3, <1>4, <1>5, <1>6, <1>7, <1>8 DEF Init, Typed

-----------------------------------------------------------------------------
(* What handlers leave, by types *)

EffectTyped(e) ==
    /\ e.ses \in Sessions
    /\ e.conn \in Conns
    /\ e.posts \in Seq(Handlers)
    /\ e.flush \in BOOLEAN
    /\ e.read \in BOOLEAN

\* The connection operators keep the types.
LEMMA ConnTypes ==
    ASSUME NEW c \in Conns
    PROVE  /\ Close(c) \in Conns /\ FailPending(c) \in Conns
           /\ DropSocket(c) \in Conns /\ TakeInFlight(c) \in Conns
           /\ DoWrite(c) \in Conns /\ BeginConnect(c) \in Conns
           /\ \A f \in Frames : Enqueue(c, f) \in Conns
           /\ \A s \in ConnectionStates : [c EXCEPT !.state = s] \in Conns
           /\ [c EXCEPT !.open = TRUE] \in Conns
           /\ StartsWrite(c) => Head(c.queue) \in Frames
           /\ Held(c) \in SUBSET Frames
<1> USE DEF Conns, Connections
<1>0. <<>> \in Seq(Frames) OBVIOUS
<1>1. Close(c) \in Conns BY <1>0 DEF Close, ConnectionStates
<1>2. FailPending(c) \in Conns BY <1>0 DEF FailPending
<1>3. DropSocket(c) \in Conns BY DEF DropSocket, ConnectionStates
<1>4. TakeInFlight(c) \in Conns BY DEF TakeInFlight
<1>5. StartsWrite(c) => Head(c.queue) \in Frames /\ Tail(c.queue) \in Seq(Frames)
  BY HeadTailProperties DEF StartsWrite
<1>6. DoWrite(c) \in Conns BY <1>5 DEF DoWrite
<1>7. BeginConnect(c) \in Conns BY DEF BeginConnect, ConnectionStates
<1>8. \A f \in Frames : Enqueue(c, f) \in Conns
  BY AppendProperties DEF Enqueue
<1>9. /\ \A s \in ConnectionStates : [c EXCEPT !.state = s] \in Conns
      /\ [c EXCEPT !.open = TRUE] \in Conns
  OBVIOUS
<1>10. Held(c) \in SUBSET Frames
  BY ElementOfSeq DEF Held, Queued
<1> QED BY <1>1, <1>2, <1>3, <1>4, <1>5, <1>6, <1>7, <1>8, <1>9, <1>10

\* What a failure leaves: nothing is posted, entries only go, and those that
\* went and the QoS 0 publishes among the failed frames are told.  Either the
\* connection is left alone or it is closed, and then what it held fails too.
Fails(e, s, c, items) ==
    /\ e.posts = <<>> /\ e.read = FALSE /\ e.flush = FALSE
    /\ e.ses \in Sessions
    /\ e.ses.pub \subseteq s.pub
    /\ e.ses.rec \subseteq s.rec
    /\ e.ses.sub \subseteq s.sub
    /\ \/ /\ e.conn = c
          /\ e.ses.closed = s.closed
          /\ e.told = Lost(s, e.ses) \cup DroppedQos0(items)
       \/ /\ e.conn = Close(c)
          /\ e.told = Lost(s, e.ses) \cup DroppedQos0(items \cup CloseTells(c))

LEMMA DownFields ==
    ASSUME NEW s
    PROVE  /\ Down(s) \in Sessions /\ Down(s).closed
           /\ Down(s).pub = {} /\ Down(s).rec = {} /\ Down(s).sub = {}
BY DEF Down, NewSession, Sessions

LEMMA ForgetFields ==
    ASSUME NEW s \in Sessions, NEW items
    PROVE  /\ Forget(s, items) \in Sessions
           /\ Forget(s, items).closed = s.closed
           /\ Forget(s, items).pub \subseteq s.pub
           /\ Forget(s, items).rec \subseteq s.rec
           /\ Forget(s, items).sub \subseteq s.sub
<1> DEFINE gone(type) == {i.pid : i \in {j \in items : j.type = type}}
<1>1. Forget(s, items) =
         [s EXCEPT !.pub = {x \in s.pub : x.pid \notin gone("PUBLISH")},
                   !.rec = {x \in s.rec : x.pid \notin gone("PUBREL")},
                   !.sub = {x \in s.sub : x.pid \notin gone("SUBSCRIBE")}]
  BY DEF Forget
<1> HIDE DEF gone
<1> DEFINE pub == {x \in s.pub : x.pid \notin gone("PUBLISH")}
           rec == {x \in s.rec : x.pid \notin gone("PUBREL")}
           sub == {x \in s.sub : x.pid \notin gone("SUBSCRIBE")}
<1>2. pub \subseteq s.pub /\ rec \subseteq s.rec /\ sub \subseteq s.sub
  OBVIOUS
<1>3. Forget(s, items) = [s EXCEPT !.pub = pub, !.rec = rec, !.sub = sub]
  BY <1>1
<1> HIDE DEF pub, rec, sub
<1>4. pub \subseteq PubEntries /\ rec \subseteq RecEntries /\ sub \subseteq SubEntries
  BY <1>2 DEF Sessions
<1> QED BY <1>2, <1>3, <1>4 DEF Sessions

\* The write handlers of failed frames, on a connection left to itself ...
LEMMA FailItemsFails ==
    ASSUME NEW s \in Sessions, NEW c, NEW items
    PROVE  Fails(FailItems(s, c, items, FALSE), s, c, items)
<1> DEFINE closes == "DISCONNECT" \in Types(items)
                        \/ (~s.closed /\ Notifies(items))
           all == IF closes THEN items \cup CloseTells(c) ELSE items
           down == ~s.closed /\ Notifies(all)
           after == IF down THEN Down(s) ELSE Forget(s, all)
           e == FailItems(s, c, items, FALSE)
<1>1. e = [NoEffect EXCEPT !.ses = after,
                           !.conn = IF closes THEN Close(c) ELSE c,
                           !.told = Lost(s, after) \cup DroppedQos0(all),
                           !.loose = ErasedFirst(s, IF down THEN items ELSE all),
                           !.event = IF down THEN "closed" ELSE "none"]
  BY Zenon DEF FailItems
<1>2. down => closes OBVIOUS
<1>3. after \in Sessions /\ (~down => after.closed = s.closed)
  BY DownFields, ForgetFields
<1>4. /\ after.pub \subseteq s.pub /\ after.rec \subseteq s.rec
      /\ after.sub \subseteq s.sub
  BY DownFields, ForgetFields
<1>5. closes => all = items \cup CloseTells(c) OBVIOUS
<1>6. ~closes => all = items OBVIOUS
<1> HIDE DEF closes, all, down, after, e
<1>7. /\ e.ses = after /\ e.conn = (IF closes THEN Close(c) ELSE c)
      /\ e.told = Lost(s, after) \cup DroppedQos0(all)
      /\ e.posts = <<>> /\ e.read = FALSE /\ e.flush = FALSE
  BY <1>1 DEF NoEffect
<1>8. Fails(e, s, c, items)
  BY <1>2, <1>3, <1>4, <1>5, <1>6, <1>7 DEF Fails
<1> QED BY <1>8 DEF e

\* ... and when the connection is closed for another reason.
LEMMA ClosingFails ==
    ASSUME NEW s \in Sessions, NEW c
    PROVE  /\ Fails(FailItems(s, c, {}, TRUE), s, c, {})
           /\ FailItems(s, c, {}, TRUE).conn = Close(c)
<1> DEFINE all == {} \cup CloseTells(c)
           down == ~s.closed /\ Notifies(all)
           after == IF down THEN Down(s) ELSE Forget(s, all)
           e == FailItems(s, c, {}, TRUE)
<1>1. e = [NoEffect EXCEPT !.ses = after,
                           !.conn = Close(c),
                           !.told = Lost(s, after) \cup DroppedQos0(all),
                           !.loose = ErasedFirst(s, all),
                           !.event = IF down THEN "closed" ELSE "none"]
  BY DEF FailItems
<1>3. /\ after \in Sessions
      /\ after.pub \subseteq s.pub /\ after.rec \subseteq s.rec
      /\ after.sub \subseteq s.sub
  BY DownFields, ForgetFields
<1> HIDE DEF down, after, e
<1>7. /\ e.ses = after /\ e.conn = Close(c)
      /\ e.told = Lost(s, after) \cup DroppedQos0(all)
      /\ e.posts = <<>> /\ e.read = FALSE /\ e.flush = FALSE
  BY <1>1 DEF NoEffect
<1>8. Fails(e, s, c, {}) BY <1>3, <1>7 DEF Fails
<1> QED BY <1>7, <1>8 DEF e

\* notify_closed_once()
LEMMA NotifyFails ==
    ASSUME NEW s \in Sessions
    PROVE  /\ Fails(NotifyClosedOnce(s), s, conn, {})
           /\ ~s.closed => NotifyClosedOnce(s).conn = Close(conn)
<1>1. CASE s.closed
  <2>1. NotifyClosedOnce(s) = [NoEffect EXCEPT !.ses = s]
    BY <1>1 DEF NotifyClosedOnce
  <2>2. Lost(s, s) = {} /\ DroppedQos0({}) = {}
    BY DEF Lost, DroppedQos0
  <2> QED BY <1>1, <2>1, <2>2 DEF NoEffect, Fails
<1>2. CASE ~s.closed
  <2> DEFINE e == NotifyClosedOnce(s)
  <2>1. e = [NoEffect EXCEPT !.ses = Down(s),
                             !.conn = Close(conn),
                             !.told = Lost(s, Down(s))
                                      \cup DroppedQos0(CloseTells(conn)),
                             !.event = "closed"]
    BY <1>2 DEF NotifyClosedOnce
  <2> HIDE DEF e
  <2>2. /\ e.ses = Down(s) /\ e.conn = Close(conn)
        /\ e.told = Lost(s, Down(s)) \cup DroppedQos0(CloseTells(conn))
        /\ e.posts = <<>> /\ e.read = FALSE /\ e.flush = FALSE
    BY <2>1 DEF NoEffect
  <2>3. Fails(e, s, conn, {}) BY <2>2, DownFields DEF Fails
  <2> QED BY <2>2, <2>3 DEF e
<1> QED BY <1>1, <1>2

\* conn_->close() after closed_ was set.
LEMMA AbandonFails ==
    ASSUME NEW s \in Sessions
    PROVE  /\ Fails(Abandon(s), s, conn, {})
           /\ Abandon(s).conn = Close(conn)
<1> DEFINE t == [s EXCEPT !.closed = TRUE]
           f == FailItems(t, conn, {}, TRUE)
           e == Abandon(s)
<1>1. t \in Sessions /\ t.pub = s.pub /\ t.rec = s.rec /\ t.sub = s.sub
  BY DEF Sessions
<1> HIDE DEF t
<1>2. Fails(f, t, conn, {}) /\ f.conn = Close(conn) BY <1>1, ClosingFails
<1>3. e.ses = f.ses /\ e.conn = f.conn /\ e.told = f.told
      /\ e.posts = f.posts /\ e.read = f.read /\ e.flush = f.flush
  BY DEF Abandon, FailItems, NoEffect, t
<1> HIDE DEF f, e
<1>4. Lost(t, f.ses) = Lost(s, f.ses) BY <1>1 DEF Lost
<1>5. /\ e.posts = <<>> /\ e.read = FALSE /\ e.flush = FALSE
      /\ e.ses \in Sessions
      /\ e.ses.pub \subseteq s.pub
      /\ e.ses.rec \subseteq s.rec
      /\ e.ses.sub \subseteq s.sub
      /\ e.conn = Close(conn)
  BY <1>1, <1>2, <1>3 DEF Fails
<1>6. e.told = Lost(s, e.ses) \cup DroppedQos0({} \cup CloseTells(conn))
  <2>1. CASE conn.closed
    <3>1. Close(conn) = conn /\ CloseTells(conn) = {}
      BY <2>1 DEF Close, CloseTells
    <3> QED BY <1>2, <1>3, <1>4, <3>1 DEF Fails
  <2>2. CASE ~conn.closed
    <3>1. Close(conn) # conn BY <2>2 DEF Close
    <3> QED BY <1>2, <1>3, <1>4, <3>1 DEF Fails
  <2> QED BY <2>1, <2>2
<1>7. Fails(e, s, conn, {}) BY <1>5, <1>6 DEF Fails
<1> QED BY <1>5, <1>7 DEF e

LEMMA FailsTyped ==
    ASSUME NEW e, NEW s, NEW c \in Conns, NEW items, Fails(e, s, c, items)
    PROVE  EffectTyped(e)
<1>1. <<>> \in Seq(Handlers) OBVIOUS
<1>2. Close(c) \in Conns BY ConnTypes
<1> QED BY <1>1, <1>2 DEF Fails, EffectTyped

\* The completions of aborted operations.
LEMMA AbortedTyped == Typed => Aborted \in Seq(Handlers)
<1> SUFFICES ASSUME Typed PROVE Aborted \in Seq(Handlers) OBVIOUS
<1>1. /\ Handler("read", BrokenRead) \in Handlers
      /\ Handler("written", FALSE) \in Handlers
      /\ Handler("connected", FALSE) \in Handlers
  BY DEF Handler, Handlers
<1>2. Len(ops) \in Nat BY LenProperties DEF Typed
<1> DEFINE failed == Handler("written", FALSE)
<1>3. [i \in 1 .. Len(ops) |-> failed] \in Seq(Handlers)
  <2>1. failed \in Handlers BY <1>1
  <2> HIDE DEF failed
  <2> QED BY <1>2, <2>1
<1>4. /\ (IF readOp THEN <<Handler("read", BrokenRead)>> ELSE <<>>)
           \in Seq(Handlers)
      /\ (IF connecting THEN <<Handler("connected", FALSE)>> ELSE <<>>)
           \in Seq(Handlers)
  <2>1. \A h \in Handlers : <<h>> \in Seq(Handlers) OBVIOUS
  <2>2. <<>> \in Seq(Handlers) OBVIOUS
  <2> QED BY <1>1, <2>1, <2>2
<1> QED BY <1>3, <1>4, ConcatProperties DEF Aborted

\* Answers stay sequences of outcomes.
LEMMA AnswerTyped ==
    ASSUME NEW old \in Seq(BOOLEAN), NEW what, NEW n, NEW told
    PROVE  Answer(old, what, n, told) \in Seq(BOOLEAN)
<1>1. <<TRUE>> \in Seq(BOOLEAN) /\ <<FALSE>> \in Seq(BOOLEAN)
      /\ <<>> \in Seq(BOOLEAN)
  OBVIOUS
<1> QED BY <1>1, ConcatProperties DEF Answer

LEMMA CountNat ==
    ASSUME NEW posts \in Seq(Handlers), NEW type, NEW n
    PROVE  Count(posts, type, n) \in Nat
<1> DEFINE S == {i \in 1 .. Len(posts) : /\ posts[i].kind = "enqueue"
                                         /\ posts[i].arg.type = type
                                         /\ posts[i].arg.call = n}
<1>1. IsFiniteSet(1 .. Len(posts)) BY LenProperties, FS_Interval
<1>2. IsFiniteSet(S) BY <1>1, FS_Subset
<1> QED BY <1>2, FS_CardinalityType DEF Count

\* A handler with a typed effect keeps the types.
LEMMA DoTyped ==
    ASSUME Typed, NEW e, EffectTyped(e), NEW rest \in Seq(Handlers),
           Do(e, rest), UNCHANGED <<setup, resolving, pubCalls, subCalls>>,
           nextPacketId' \in Ids
    PROVE  Typed'
<1> USE SameTypes
<1>1. ses' \in Sessions' BY DEF Do, EffectTyped
<1>2. conn' \in Conns' BY ConnTypes DEF Do, EffectTyped
<1>3. loop' \in Seq(Handlers)'
  <2>1. /\ Handler("read", BrokenRead) \in Handlers
        /\ Handler("failPending", 0) \in Handlers
    BY DEF Handler, Handlers
  <2>2. \A h \in Handlers : <<h>> \in Seq(Handlers) OBVIOUS
  <2>3. <<>> \in Seq(Handlers) OBVIOUS
  <2>4. Aborted \in Seq(Handlers) BY AbortedTyped
  <2>5. /\ (IF conn.open /\ ~e.conn.open THEN Aborted ELSE <<>>)
             \in Seq(Handlers)
        /\ (IF (e.read /\ ~readBusy) /\ ~e.conn.open
            THEN <<Handler("read", BrokenRead)>> ELSE <<>>) \in Seq(Handlers)
        /\ (IF e.flush /\ PostsFailure(e.conn)
            THEN <<Handler("failPending", 0)>> ELSE <<>>) \in Seq(Handlers)
    BY <2>1, <2>2, <2>3, <2>4
  <2>6. e.posts \in Seq(Handlers) BY DEF EffectTyped
  <2>7. loop' \in Seq(Handlers) BY <2>5, <2>6, ConcatProperties DEF Do
  <2> QED BY <2>7
<1>4. /\ ops' \in Seq(Frames)' /\ inbox' \in Seq(Packets)'
  <2>1. e.conn \in Conns /\ ops \in Seq(Frames) /\ inbox \in Seq(Packets)
    BY DEF EffectTyped, Typed
  <2>2. e.flush /\ StartsWrite(e.conn) => Head(e.conn.queue) \in Frames
    BY <2>1, ConnTypes
  <2>3. <<>> \in Seq(Frames) /\ <<>> \in Seq(Packets) OBVIOUS
  <2>4. ops' \in Seq(Frames)
    BY <2>1, <2>2, <2>3, AppendProperties DEF Do
  <2>5. inbox' \in Seq(Packets) BY <2>1, <2>3 DEF Do
  <2> QED BY <2>4, <2>5
<1>5. /\ connecting' \in BOOLEAN /\ readBusy' \in BOOLEAN /\ readOp' \in BOOLEAN
  BY DEF Do, EffectTyped, Typed, Conns, Connections
<1>6. app' \in {"idle", "posted", "trying", "up", "down"}
  BY DEF Do, Record, Typed
<1>7. pubAnswers' \in [PubCalls -> Seq(BOOLEAN)]'
  BY AnswerTyped DEF Do, Record, Typed
<1>8. sent' \in [PubCalls -> [{"PUBLISH", "PUBREL"} -> Nat]]'
  <2>1. \A type, n : Count(e.posts, type, n) \in Nat
    BY CountNat DEF EffectTyped
  <2>2. \A n \in PubCalls : \A type \in {"PUBLISH", "PUBREL"} :
           sent[n][type] + Count(e.posts, type, n) \in Nat
    BY <2>1 DEF Typed
  <2>3. sent' = [n \in PubCalls |-> [type \in {"PUBLISH", "PUBREL"} |->
                    sent[n][type] + Count(e.posts, type, n)]]
    BY DEF Do, Record
  <2> QED BY <2>2, <2>3
<1>9. /\ setup' \in Setup /\ nextPacketId' \in Ids' /\ resolving' \in Nat
      /\ (pubCalls \in 0 .. Len(PubQos))' /\ (subCalls \in 0 .. NumSubs)'
  BY DEF Typed, Ids
<1> QED BY <1>1, <1>2, <1>3, <1>4, <1>5, <1>6, <1>7, <1>8, <1>9 DEF Typed
-----------------------------------------------------------------------------
(* The invariant *)

\* A packet identifier belongs to one entry, of publishes or of subscribes.
IdsOnceOf(s) ==
    /\ \A x, y \in s.pub : x.pid = y.pid => x = y
    /\ \A x, y \in s.sub : x.pid = y.pid => x = y
    /\ \A x \in s.pub, y \in s.sub : x.pid # y.pid

\* While a session is up it reads, and it is not closed.
Live(c) == c.state = "connected" /\ ~c.closed
Elements(l) == {l[i] : i \in 1 .. Len(l)}
HasIn(l, kind) == \E h \in Elements(l) : h.kind = kind
Reading ==
    /\ readBusy => readOp \/ HasIn(loop, "read")
    /\ readOp => conn.open
    /\ Live(conn) => ~ses.closed /\ (readBusy \/ HasIn(loop, "packet"))

\* Where publish call n can be: asked for or as a QoS 0 frame in the loop, as
\* such a frame in the connection, or as an entry of the session.
Qos0Of(f, n) == f.type = "PUBLISH" /\ f.pid = 0 /\ f.call = n
Bears(h, n) ==
    \/ h.kind = "publish" /\ h.arg = n
    \/ h.kind \in {"enqueue", "aborted"} /\ Qos0Of(h.arg, n)
InLoop(l, n) == \E h \in Elements(l) : Bears(h, n)
InConn(c, n) == \E f \in Held(c) : Qos0Of(f, n)
InSes(s, n) == \E x \in s.pub : x.call = n

OnceInLoop(l, n) ==
    \A i, j \in 1 .. Len(l) : Bears(l[i], n) /\ Bears(l[j], n) => i = j
OnceInConn(c, n) ==
    /\ \A i, j \in 1 .. Len(c.queue) :
          Qos0Of(c.queue[i], n) /\ Qos0Of(c.queue[j], n) => i = j
    /\ c.inFlight # NoItem /\ Qos0Of(c.inFlight, n) =>
          \A i \in 1 .. Len(c.queue) : ~Qos0Of(c.queue[i], n)
OnceInSes(s, n) == \A x, y \in s.pub : x.call = n /\ y.call = n => x = y

\* It is in one of them, once, and nowhere before it was called or after it was
\* answered.
OnePlace(n) ==
    /\ OnceInLoop(loop, n) /\ OnceInConn(conn, n) /\ OnceInSes(ses, n)
    /\ ~(InLoop(loop, n) /\ InConn(conn, n))
    /\ ~(InLoop(loop, n) /\ InSes(ses, n))
    /\ ~(InConn(conn, n) /\ InSes(ses, n))
    /\ Len(pubAnswers[n]) <= 1
    /\ pubAnswers[n] # <<>> \/ n > pubCalls =>
          ~InLoop(loop, n) /\ ~InConn(conn, n) /\ ~InSes(ses, n)
    /\ n > pubCalls => pubAnswers[n] = <<>>

\* An entry counts the PUBLISH frames of its call, and none is submitted before
\* the call was run.
Asked(l, n) == \E h \in Elements(l) : h.kind = "publish" /\ h.arg = n
Counted(n) ==
    /\ \A x \in ses.pub : x.call = n => sent[n].PUBLISH = x.attempts
    /\ sent[n].PUBLISH <= MaxSends
    /\ Asked(loop, n) \/ n > pubCalls => sent[n].PUBLISH = 0

CInv ==
    /\ Typed
    /\ IdsOnceOf(ses)
    /\ Reading
    /\ \A n \in PubCalls : OnePlace(n) /\ Counted(n)

\* The same of what a handler leaves, which took it from the loop (rest is what
\* stays queued) or ran between two handlers.
Short(posts) == posts = <<>> \/ \E h \in Handlers : posts = <<h>>

ReadsOn(e) ==
    Live(e.conn) => ~e.ses.closed
                    /\ (e.read \/ (Live(conn) /\ ~Running("packet")))

Told(e, n) == \E t \in e.told : t.what = "publish" /\ t.call = n

Moved(e, rest, n) ==
    /\ OnceInConn(e.conn, n) /\ OnceInSes(e.ses, n)
    /\ ~(Told(e, n) /\ InSes(e.ses, n))
    /\ ~(Told(e, n) /\ InConn(e.conn, n))
    /\ ~(Told(e, n) /\ InLoop(e.posts, n))
    /\ ~(InLoop(e.posts, n) /\ InConn(e.conn, n))
    /\ ~(InLoop(e.posts, n) /\ InSes(e.ses, n))
    /\ ~(InConn(e.conn, n) /\ InSes(e.ses, n))
    /\ \/ Told(e, n) \/ InSes(e.ses, n) \/ InConn(e.conn, n)
       \/ InLoop(e.posts, n)
       => \/ InSes(ses, n) \/ InConn(conn, n)
          \/ InLoop(loop, n) /\ ~InLoop(rest, n)
    /\ \A t, u \in e.told :
          /\ t.what = "publish" /\ t.call = n
          /\ u.what = "publish" /\ u.call = n
          => t.ok = u.ok

Sends(posts, n) ==
    \E i \in 1 .. Len(posts) :
        /\ posts[i].kind = "enqueue"
        /\ posts[i].arg.type = "PUBLISH" /\ posts[i].arg.call = n

Counts(e, rest, n) ==
    /\ Sends(e.posts, n) =>
          \/ /\ Asked(loop, n) /\ ~Asked(rest, n)
             /\ \A x \in e.ses.pub : x.call = n => x.attempts = 1
          \/ \E y \in ses.pub :
                /\ y.call = n /\ y.attempts < MaxSends
                /\ \A x \in e.ses.pub :
                      x.call = n => x.attempts = y.attempts + 1
    /\ ~Sends(e.posts, n) =>
          \A x \in e.ses.pub :
              x.call = n => \E y \in ses.pub :
                                y.call = n /\ x.attempts = y.attempts

Sound(e, rest) ==
    /\ EffectTyped(e)
    /\ Short(e.posts)
    /\ \A n : ~Asked(e.posts, n)
    /\ IdsOnceOf(e.ses)
    /\ ReadsOn(e)
    /\ \A n \in PubCalls : Moved(e, rest, n) /\ Counts(e, rest, n)

-----------------------------------------------------------------------------
(* Queues of handlers *)

LEMMA ConcatElements ==
    ASSUME NEW a \in Seq(Handlers), NEW b \in Seq(Handlers)
    PROVE  /\ Len(a \o b) = Len(a) + Len(b)
           /\ \A i \in 1 .. Len(a) : (a \o b)[i] = a[i]
           /\ \A i \in 1 .. Len(b) : (a \o b)[Len(a) + i] = b[i]
           /\ \A i \in 1 .. Len(a \o b) :
                 \/ i \in 1 .. Len(a)
                 \/ i - Len(a) \in 1 .. Len(b) /\ i = Len(a) + (i - Len(a))
           /\ Len(a) \in Nat /\ Len(b) \in Nat
BY ConcatProperties, LenProperties

LEMMA ConcatFacts ==
    ASSUME NEW a \in Seq(Handlers), NEW b \in Seq(Handlers)
    PROVE  /\ Elements(a \o b) = Elements(a) \cup Elements(b)
           /\ \A kind : HasIn(a \o b, kind) <=> HasIn(a, kind) \/ HasIn(b, kind)
           /\ \A n : InLoop(a \o b, n) <=> InLoop(a, n) \/ InLoop(b, n)
           /\ \A n : Asked(a \o b, n) <=> Asked(a, n) \/ Asked(b, n)
           /\ \A n : /\ OnceInLoop(a, n) /\ OnceInLoop(b, n)
                     /\ ~(InLoop(a, n) /\ InLoop(b, n))
                     => OnceInLoop(a \o b, n)
<1> DEFINE c == a \o b
<1>1. /\ Len(c) = Len(a) + Len(b) /\ Len(a) \in Nat /\ Len(b) \in Nat
      /\ \A i \in 1 .. Len(a) : c[i] = a[i]
      /\ \A i \in 1 .. Len(b) : c[Len(a) + i] = b[i]
      /\ \A i \in 1 .. Len(c) : \/ i \in 1 .. Len(a)
                                \/ /\ i - Len(a) \in 1 .. Len(b)
                                   /\ i = Len(a) + (i - Len(a))
  BY ConcatElements
<1> HIDE DEF c
<1>2. /\ \A i \in 1 .. Len(a) : i \in 1 .. Len(c)
      /\ \A i \in 1 .. Len(b) : Len(a) + i \in 1 .. Len(c)
  BY <1>1
<1>3. Elements(c) = Elements(a) \cup Elements(b)
  <2>1. ASSUME NEW i \in 1 .. Len(c)
        PROVE  c[i] \in Elements(a) \cup Elements(b)
    <3>1. CASE i \in 1 .. Len(a) BY <1>1, <3>1 DEF Elements
    <3>2. CASE i - Len(a) \in 1 .. Len(b) /\ i = Len(a) + (i - Len(a))
      <4>1. c[i] = b[i - Len(a)] BY <1>1, <3>2
      <4> QED BY <3>2, <4>1 DEF Elements
    <3> QED BY <1>1, <3>1, <3>2
  <2>2. \A i \in 1 .. Len(a) : a[i] \in Elements(c) BY <1>1, <1>2 DEF Elements
  <2>3. \A i \in 1 .. Len(b) : b[i] \in Elements(c) BY <1>1, <1>2 DEF Elements
  <2> QED BY <2>1, <2>2, <2>3 DEF Elements
<1>4. /\ \A kind : HasIn(c, kind) <=> HasIn(a, kind) \/ HasIn(b, kind)
      /\ \A n : InLoop(c, n) <=> InLoop(a, n) \/ InLoop(b, n)
      /\ \A n : Asked(c, n) <=> Asked(a, n) \/ Asked(b, n)
  BY <1>3 DEF HasIn, InLoop, Asked
<1>6. ASSUME NEW n, OnceInLoop(a, n), OnceInLoop(b, n),
             ~(InLoop(a, n) /\ InLoop(b, n))
      PROVE  OnceInLoop(c, n)
  <2> SUFFICES ASSUME NEW i \in 1 .. Len(c), NEW j \in 1 .. Len(c),
                      Bears(c[i], n), Bears(c[j], n)
               PROVE  i = j
    BY DEF OnceInLoop
  <2>1. CASE i \in 1 .. Len(a) /\ j \in 1 .. Len(a)
    BY <1>1, <1>6, <2>1 DEF OnceInLoop
  <2>2. CASE i - Len(a) \in 1 .. Len(b) /\ j - Len(a) \in 1 .. Len(b)
    <3>1. /\ c[i] = b[i - Len(a)] /\ c[j] = b[j - Len(a)] BY <1>1, <2>2
    <3>2. i - Len(a) = j - Len(a) BY <1>6, <2>2, <3>1 DEF OnceInLoop
    <3> QED BY <1>1, <3>2
  <2>3. ASSUME NEW k \in 1 .. Len(c), NEW m \in 1 .. Len(c),
               Bears(c[k], n), Bears(c[m], n),
               k \in 1 .. Len(a), m - Len(a) \in 1 .. Len(b)
        PROVE  FALSE
    <3>1. c[k] = a[k] BY <1>1, <2>3
    <3>2. c[m] = b[m - Len(a)]
      <4>1. m = Len(a) + (m - Len(a)) BY <1>1, <2>3
      <4> QED BY <1>1, <2>3, <4>1
    <3> QED BY <1>6, <2>3, <3>1, <3>2 DEF InLoop, Elements
  <2> QED BY <1>1, <2>1, <2>2, <2>3
<1> QED BY <1>3, <1>4, <1>6 DEF c

\* Handlers of other kinds bear nothing.
LEMMA Idle ==
    ASSUME NEW l \in Seq(Handlers), NEW n,
           \A h \in Elements(l) : h.kind \notin {"publish", "enqueue", "aborted"}
    PROVE  ~InLoop(l, n) /\ ~Asked(l, n) /\ OnceInLoop(l, n)
BY DEF InLoop, Asked, OnceInLoop, Bears, Elements

LEMMA AppendFacts ==
    ASSUME NEW a \in Seq(Handlers), NEW h \in Handlers
    PROVE  /\ Append(a, h) \in Seq(Handlers)
           /\ Elements(Append(a, h)) = Elements(a) \cup {h}
           /\ \A kind : HasIn(Append(a, h), kind) <=>
                           HasIn(a, kind) \/ h.kind = kind
           /\ \A n : InLoop(Append(a, h), n) <=> InLoop(a, n) \/ Bears(h, n)
           /\ \A n : Asked(Append(a, h), n) <=>
                        Asked(a, n) \/ (h.kind = "publish" /\ h.arg = n)
           /\ \A n : OnceInLoop(a, n) /\ ~(InLoop(a, n) /\ Bears(h, n))
                     => OnceInLoop(Append(a, h), n)
<1> DEFINE c == Append(a, h)
<1>1. /\ c \in Seq(Handlers) /\ Len(c) = Len(a) + 1 /\ Len(a) \in Nat
      /\ \A i \in 1 .. Len(a) : c[i] = a[i]
      /\ c[Len(a) + 1] = h
      /\ \A i \in 1 .. Len(c) : i \in 1 .. Len(a) \/ i = Len(a) + 1
      /\ \A i \in 1 .. Len(a) : i \in 1 .. Len(c)
      /\ Len(a) + 1 \in 1 .. Len(c)
  BY AppendProperties, LenProperties
<1> HIDE DEF c
<1>2. Elements(c) = Elements(a) \cup {h} BY <1>1 DEF Elements
<1>3. \A kind : HasIn(c, kind) <=> HasIn(a, kind) \/ h.kind = kind
  BY <1>2 DEF HasIn
<1>4. \A n : InLoop(c, n) <=> InLoop(a, n) \/ Bears(h, n)
  BY <1>2 DEF InLoop
<1>5. \A n : Asked(c, n) <=> Asked(a, n) \/ (h.kind = "publish" /\ h.arg = n)
  BY <1>2 DEF Asked
<1>6. \A n : OnceInLoop(a, n) /\ ~(InLoop(a, n) /\ Bears(h, n))
             => OnceInLoop(c, n)
  BY <1>1 DEF OnceInLoop, InLoop, Elements
<1> QED BY <1>1, <1>2, <1>3, <1>4, <1>5, <1>6 DEF c

LEMMA TailFacts ==
    ASSUME NEW a \in Seq(Handlers), a # <<>>
    PROVE  /\ Tail(a) \in Seq(Handlers) /\ Head(a) \in Handlers
           /\ Elements(a) = {Head(a)} \cup Elements(Tail(a))
           /\ \A kind : HasIn(a, kind) <=>
                           Head(a).kind = kind \/ HasIn(Tail(a), kind)
           /\ \A n : InLoop(a, n) <=> Bears(Head(a), n) \/ InLoop(Tail(a), n)
           /\ \A n : Asked(a, n) <=>
                        \/ Head(a).kind = "publish" /\ Head(a).arg = n
                        \/ Asked(Tail(a), n)
           /\ \A n : OnceInLoop(a, n) =>
                        /\ OnceInLoop(Tail(a), n)
                        /\ ~(Bears(Head(a), n) /\ InLoop(Tail(a), n))
<1> DEFINE t == Tail(a)
           h == Head(a)
<1>1. /\ t \in Seq(Handlers) /\ h \in Handlers
      /\ Len(a) = Len(t) + 1 /\ Len(t) \in Nat
      /\ \A i \in 1 .. Len(t) : t[i] = a[i + 1]
      /\ a[1] = h
      /\ \A i \in 1 .. Len(a) : i = 1 \/ (i - 1 \in 1 .. Len(t) /\ i = (i - 1) + 1)
      /\ \A i \in 1 .. Len(t) : i + 1 \in 1 .. Len(a)
      /\ 1 \in 1 .. Len(a)
  BY HeadTailProperties, EmptySeq, LenProperties
<1> HIDE DEF t, h
<1>2. Elements(a) = {h} \cup Elements(t)
  <2>1. ASSUME NEW i \in 1 .. Len(a) PROVE a[i] \in {h} \cup Elements(t)
    <3>1. CASE i = 1 BY <1>1, <3>1
    <3>2. CASE i - 1 \in 1 .. Len(t) /\ i = (i - 1) + 1
      <4>1. a[i] = t[i - 1] BY <1>1, <3>2
      <4> QED BY <3>2, <4>1 DEF Elements
    <3> QED BY <1>1, <3>1, <3>2
  <2>2. \A i \in 1 .. Len(t) : t[i] \in Elements(a) BY <1>1 DEF Elements
  <2>3. h \in Elements(a) BY <1>1 DEF Elements
  <2> QED BY <2>1, <2>2, <2>3 DEF Elements
<1>3. \A kind : HasIn(a, kind) <=> h.kind = kind \/ HasIn(t, kind)
  BY <1>2 DEF HasIn
<1>4. \A n : InLoop(a, n) <=> Bears(h, n) \/ InLoop(t, n)
  BY <1>2 DEF InLoop
<1>6. \A n : Asked(a, n) <=> (h.kind = "publish" /\ h.arg = n) \/ Asked(t, n)
  BY <1>2 DEF Asked
<1>5. \A n : OnceInLoop(a, n) => /\ OnceInLoop(t, n)
                                 /\ ~(Bears(h, n) /\ InLoop(t, n))
  <2> SUFFICES ASSUME NEW n, OnceInLoop(a, n)
               PROVE  /\ OnceInLoop(t, n) /\ ~(Bears(h, n) /\ InLoop(t, n))
    OBVIOUS
  <2>1. OnceInLoop(t, n)
    <3> SUFFICES ASSUME NEW i \in 1 .. Len(t), NEW j \in 1 .. Len(t),
                        Bears(t[i], n), Bears(t[j], n)
                 PROVE  i = j
      BY DEF OnceInLoop
    <3>1. i + 1 = j + 1 BY <1>1 DEF OnceInLoop
    <3> QED BY <1>1, <3>1
  <2>2. ASSUME Bears(h, n), NEW i \in 1 .. Len(t), Bears(t[i], n) PROVE FALSE
    <3>1. 1 = i + 1 BY <1>1, <2>2 DEF OnceInLoop
    <3> QED BY <1>1, <2>2, <3>1
  <2> QED BY <2>1, <2>2 DEF InLoop, Elements
<1> QED BY <1>1, <1>2, <1>3, <1>4, <1>5, <1>6 DEF t, h

\* Aborted reads, writes and connects.
LEMMA AbortedElements ==
    ASSUME Typed
    PROVE  /\ Aborted \in Seq(Handlers)
           /\ readOp => HasIn(Aborted, "read")
           /\ \A h \in Elements(Aborted) :
                 h.kind \in {"read", "written", "connected"}
<1> DEFINE R == IF readOp THEN <<Handler("read", BrokenRead)>> ELSE <<>>
           W == [i \in 1 .. Len(ops) |-> Handler("written", FALSE)]
           C == IF connecting THEN <<Handler("connected", FALSE)>> ELSE <<>>
<1>1. /\ Handler("read", BrokenRead) \in Handlers
      /\ Handler("written", FALSE) \in Handlers
      /\ Handler("connected", FALSE) \in Handlers
      /\ Handler("read", BrokenRead).kind = "read"
      /\ Handler("written", FALSE).kind = "written"
      /\ Handler("connected", FALSE).kind = "connected"
  BY DEF Handler, Handlers
<1>2. \A h \in Handlers : <<h>> \in Seq(Handlers) /\ Elements(<<h>>) = {h}
  BY DEF Elements
<1>3. <<>> \in Seq(Handlers) /\ Elements(<<>>) = {} BY DEF Elements
<1>4. /\ R \in Seq(Handlers) /\ \A h \in Elements(R) : h.kind = "read"
      /\ readOp => HasIn(R, "read")
  BY <1>1, <1>2, <1>3 DEF HasIn
<1>5. W \in Seq(Handlers) /\ \A h \in Elements(W) : h.kind = "written"
  <2>1. Len(ops) \in Nat BY LenProperties DEF Typed
  <2> DEFINE w == Handler("written", FALSE)
  <2>2. w \in Handlers /\ w.kind = "written" BY <1>1
  <2> HIDE DEF w
  <2>3. [i \in 1 .. Len(ops) |-> w] \in Seq(Handlers) BY <2>1, <2>2
  <2>4. Elements([i \in 1 .. Len(ops) |-> w]) \subseteq {w}
    BY <2>1 DEF Elements
  <2> QED BY <2>2, <2>3, <2>4 DEF w
<1>6. C \in Seq(Handlers) /\ \A h \in Elements(C) : h.kind = "connected"
  BY <1>1, <1>2, <1>3
<1> HIDE DEF R, W, C
<1> DEFINE RW == R \o W
           RC == RW \o C
<1>7. RW \in Seq(Handlers) /\ Elements(RW) = Elements(R) \cup Elements(W)
      /\ \A kind : HasIn(RW, kind) <=> HasIn(R, kind) \/ HasIn(W, kind)
  BY <1>4, <1>5, ConcatFacts, ConcatProperties
<1> HIDE DEF RW
<1>8. RC \in Seq(Handlers) /\ Elements(RC) = Elements(RW) \cup Elements(C)
      /\ \A kind : HasIn(RC, kind) <=> HasIn(RW, kind) \/ HasIn(C, kind)
  BY <1>6, <1>7, ConcatFacts, ConcatProperties
<1> HIDE DEF RC
<1>9. Aborted = RC BY DEF Aborted, R, W, C, RW, RC
<1> QED BY <1>4, <1>5, <1>6, <1>7, <1>8, <1>9

\* What is queued after a handler ran.
LEMMA DoLoop ==
    ASSUME Typed, NEW e, EffectTyped(e), NEW rest \in Seq(Handlers), Do(e, rest)
    PROVE  /\ \A kind : HasIn(rest, kind) => HasIn(loop', kind)
           /\ conn.open /\ ~e.conn.open /\ readOp => HasIn(loop', "read")
           /\ e.read /\ ~readBusy /\ ~e.conn.open => HasIn(loop', "read")
           /\ \A n : InLoop(loop', n) <=> InLoop(rest, n) \/ InLoop(e.posts, n)
           /\ \A n : Asked(loop', n) <=> Asked(rest, n) \/ Asked(e.posts, n)
           /\ \A n : /\ OnceInLoop(rest, n) /\ OnceInLoop(e.posts, n)
                     /\ ~(InLoop(rest, n) /\ InLoop(e.posts, n))
                     => OnceInLoop(loop', n)
<1> DEFINE A == IF conn.open /\ ~e.conn.open THEN Aborted ELSE <<>>
           B == IF (e.read /\ ~readBusy) /\ ~e.conn.open
                THEN <<Handler("read", BrokenRead)>> ELSE <<>>
           C == IF e.flush /\ PostsFailure(e.conn)
                THEN <<Handler("failPending", 0)>> ELSE <<>>
           P == e.posts
<1>1. loop' = rest \o A \o P \o B \o C BY DEF Do
<1>2. /\ Handler("read", BrokenRead) \in Handlers
      /\ Handler("failPending", 0) \in Handlers
      /\ Handler("read", BrokenRead).kind = "read"
      /\ Handler("failPending", 0).kind = "failPending"
  BY DEF Handler, Handlers
<1>3. \A h \in Handlers : <<h>> \in Seq(Handlers) /\ Elements(<<h>>) = {h}
  BY DEF Elements
<1>4. <<>> \in Seq(Handlers) /\ Elements(<<>>) = {} BY DEF Elements
<1>5. /\ Aborted \in Seq(Handlers)
      /\ readOp => HasIn(Aborted, "read")
      /\ \A h \in Elements(Aborted) : h.kind \in {"read", "written", "connected"}
  BY AbortedElements
<1>6. /\ A \in Seq(Handlers)
      /\ \A h \in Elements(A) : h.kind \notin {"publish", "enqueue", "aborted"}
      /\ conn.open /\ ~e.conn.open /\ readOp => HasIn(A, "read")
  BY <1>4, <1>5
<1>7. /\ B \in Seq(Handlers)
      /\ \A h \in Elements(B) : h.kind \notin {"publish", "enqueue", "aborted"}
      /\ e.read /\ ~readBusy /\ ~e.conn.open => HasIn(B, "read")
  BY <1>2, <1>3, <1>4 DEF HasIn
<1>8. /\ C \in Seq(Handlers)
      /\ \A h \in Elements(C) : h.kind \notin {"publish", "enqueue", "aborted"}
  BY <1>2, <1>3, <1>4
<1>9. P \in Seq(Handlers) BY DEF EffectTyped
<1> HIDE DEF A, B, C, P
<1>10. /\ \A n : ~InLoop(A, n) /\ ~Asked(A, n) /\ OnceInLoop(A, n)
       /\ \A n : ~InLoop(B, n) /\ ~Asked(B, n) /\ OnceInLoop(B, n)
       /\ \A n : ~InLoop(C, n) /\ ~Asked(C, n) /\ OnceInLoop(C, n)
  BY <1>6, <1>7, <1>8, Idle
<1> DEFINE RA == rest \o A
           RP == RA \o P
           RB == RP \o B
           RC == RB \o C
<1>11. /\ RA \in Seq(Handlers)
       /\ \A kind : HasIn(RA, kind) <=> HasIn(rest, kind) \/ HasIn(A, kind)
       /\ \A n : InLoop(RA, n) <=> InLoop(rest, n)
       /\ \A n : Asked(RA, n) <=> Asked(rest, n)
       /\ \A n : OnceInLoop(rest, n) => OnceInLoop(RA, n)
  BY <1>6, <1>10, ConcatFacts, ConcatProperties
<1> HIDE DEF RA
<1>12. /\ RP \in Seq(Handlers)
       /\ \A kind : HasIn(RP, kind) <=> HasIn(RA, kind) \/ HasIn(P, kind)
       /\ \A n : InLoop(RP, n) <=> InLoop(RA, n) \/ InLoop(P, n)
       /\ \A n : Asked(RP, n) <=> Asked(RA, n) \/ Asked(P, n)
       /\ \A n : /\ OnceInLoop(RA, n) /\ OnceInLoop(P, n)
                 /\ ~(InLoop(RA, n) /\ InLoop(P, n))
                 => OnceInLoop(RP, n)
  <2>1. RA \in Seq(Handlers) /\ P \in Seq(Handlers) BY <1>9, <1>11
  <2>2. RP \in Seq(Handlers) BY <2>1, ConcatProperties
  <2>3. \A kind : HasIn(RP, kind) <=> HasIn(RA, kind) \/ HasIn(P, kind)
    BY <2>1, ConcatFacts
  <2>4. /\ \A n : InLoop(RP, n) <=> InLoop(RA, n) \/ InLoop(P, n)
        /\ \A n : Asked(RP, n) <=> Asked(RA, n) \/ Asked(P, n)
    BY <2>1, ConcatFacts
  <2>5. \A n : /\ OnceInLoop(RA, n) /\ OnceInLoop(P, n)
               /\ ~(InLoop(RA, n) /\ InLoop(P, n))
               => OnceInLoop(RP, n)
    BY <2>1, ConcatFacts
  <2> QED BY <2>2, <2>3, <2>4, <2>5
<1> HIDE DEF RP
<1>13. /\ RB \in Seq(Handlers)
       /\ \A kind : HasIn(RB, kind) <=> HasIn(RP, kind) \/ HasIn(B, kind)
       /\ \A n : InLoop(RB, n) <=> InLoop(RP, n)
       /\ \A n : Asked(RB, n) <=> Asked(RP, n)
       /\ \A n : OnceInLoop(RP, n) => OnceInLoop(RB, n)
  BY <1>7, <1>10, <1>12, ConcatFacts, ConcatProperties
<1> HIDE DEF RB
<1>14. /\ \A kind : HasIn(RC, kind) <=> HasIn(RB, kind) \/ HasIn(C, kind)
       /\ \A n : InLoop(RC, n) <=> InLoop(RB, n)
       /\ \A n : Asked(RC, n) <=> Asked(RB, n)
       /\ \A n : OnceInLoop(RB, n) => OnceInLoop(RC, n)
  BY <1>8, <1>10, <1>13, ConcatFacts
<1> HIDE DEF RC
<1>15. loop' = RC BY <1>1 DEF RA, RP, RB, RC
<1>16. /\ \A kind : HasIn(rest, kind) => HasIn(RC, kind)
       /\ conn.open /\ ~e.conn.open /\ readOp => HasIn(RC, "read")
       /\ e.read /\ ~readBusy /\ ~e.conn.open => HasIn(RC, "read")
  BY <1>6, <1>7, <1>11, <1>12, <1>13, <1>14
<1>17. /\ \A n : InLoop(RC, n) <=> InLoop(rest, n) \/ InLoop(P, n)
       /\ \A n : Asked(RC, n) <=> Asked(rest, n) \/ Asked(P, n)
  BY <1>11, <1>12, <1>13, <1>14
<1>18. \A n : /\ OnceInLoop(rest, n) /\ OnceInLoop(P, n)
              /\ ~(InLoop(rest, n) /\ InLoop(P, n))
              => OnceInLoop(RC, n)
  <2> SUFFICES ASSUME NEW n, OnceInLoop(rest, n), OnceInLoop(P, n),
                      ~(InLoop(rest, n) /\ InLoop(P, n))
               PROVE  OnceInLoop(RC, n)
    OBVIOUS
  <2>1. OnceInLoop(RA, n) /\ ~(InLoop(RA, n) /\ InLoop(P, n)) BY <1>11
  <2>2. OnceInLoop(RP, n) BY <1>12, <2>1
  <2>3. OnceInLoop(RB, n) BY <1>13, <2>2
  <2> QED BY <1>14, <2>3
<1> QED BY <1>15, <1>16, <1>17, <1>18 DEF P

LEMMA DoReading ==
    ASSUME Typed, Reading, NEW e, EffectTyped(e), ReadsOn(e),
           NEW rest \in Seq(Handlers), Do(e, rest),
           \/ rest = loop
           \/ /\ loop # <<>> /\ rest = Tail(loop) /\ Head(loop).kind # "read"
    PROVE  Reading'
<1>1. /\ e.read \in BOOLEAN /\ readBusy \in BOOLEAN /\ readOp \in BOOLEAN
      /\ e.conn.open \in BOOLEAN /\ conn.open \in BOOLEAN
      /\ e.conn.closed \in BOOLEAN /\ e.flush \in BOOLEAN
      /\ loop \in Seq(Handlers)
  BY DEF Typed, EffectTyped, Conns, Connections
<1>2. /\ ses' = e.ses
      /\ conn' = IF e.flush THEN DoWrite(e.conn) ELSE e.conn
      /\ readBusy' = (readBusy \/ e.read)
      /\ readOp' = IF e.read /\ ~readBusy THEN e.conn.open
                   ELSE readOp /\ ~(conn.open /\ ~e.conn.open)
  BY DEF Do
<1>3. /\ conn'.open = e.conn.open /\ conn'.state = e.conn.state
      /\ conn'.closed = e.conn.closed
  <2>1. e.conn \in Conns BY DEF EffectTyped
  <2> QED BY <1>2, <2>1 DEF DoWrite, Conns, Connections
<1>4. /\ HasIn(rest, "read") => HasIn(loop', "read")
      /\ HasIn(rest, "packet") => HasIn(loop', "packet")
      /\ conn.open /\ ~e.conn.open /\ readOp => HasIn(loop', "read")
      /\ e.read /\ ~readBusy /\ ~e.conn.open => HasIn(loop', "read")
  BY DoLoop
<1>5. /\ HasIn(loop, "read") => HasIn(rest, "read")
      /\ HasIn(loop, "packet") /\ ~Running("packet") => HasIn(rest, "packet")
  <2>1. CASE rest = loop BY <2>1
  <2>2. CASE loop # <<>> /\ rest = Tail(loop) /\ Head(loop).kind # "read"
    BY <1>1, <2>2, TailFacts DEF Running
  <2> QED BY <2>1, <2>2
<1>6. readBusy' => readOp' \/ HasIn(loop', "read")
  <2>1. CASE e.read /\ ~readBusy BY <1>1, <1>2, <1>4, <2>1
  <2>2. CASE readBusy BY <1>1, <1>2, <1>4, <1>5, <2>2 DEF Reading
  <2> QED BY <1>1, <1>2, <2>1, <2>2
<1>7. readOp' => conn'.open
  BY <1>1, <1>2, <1>3 DEF Reading
<1>8. Live(conn') => ~ses'.closed /\ (readBusy' \/ HasIn(loop', "packet"))
  <2>1. Live(conn') => Live(e.conn) BY <1>3 DEF Live
  <2> QED BY <1>1, <1>2, <1>4, <1>5, <2>1 DEF ReadsOn, Reading
<1> QED BY <1>6, <1>7, <1>8 DEF Reading

\* do_write() moves a frame within the connection.
LEMMA WriteMoves ==
    ASSUME NEW c \in Conns, NEW n
    PROVE  /\ InConn(DoWrite(c), n) => InConn(c, n)
           /\ OnceInConn(c, n) => OnceInConn(DoWrite(c), n)
<1>1. CASE ~StartsWrite(c) BY <1>1 DEF DoWrite
<1>2. CASE StartsWrite(c)
  <2> DEFINE q == c.queue
             d == DoWrite(c)
  <2>1. /\ q \in Seq(Frames) /\ q # <<>> BY <1>2 DEF Conns, Connections, StartsWrite
  <2>2. d.inFlight = Head(q) /\ d.queue = Tail(q)
    BY <1>2 DEF DoWrite, Conns, Connections
  <2>3. /\ Len(q) = Len(Tail(q)) + 1 /\ Len(Tail(q)) \in Nat
        /\ \A i \in 1 .. Len(Tail(q)) : Tail(q)[i] = q[i + 1]
        /\ q[1] = Head(q)
    BY <2>1, HeadTailProperties, EmptySeq, LenProperties
  <2> HIDE DEF d
  <2>4. /\ \A i \in 1 .. Len(d.queue) : i + 1 \in 1 .. Len(q)
        /\ \A i \in 1 .. Len(d.queue) : d.queue[i] = q[i + 1]
        /\ 1 \in 1 .. Len(q) /\ d.inFlight = q[1]
    BY <2>2, <2>3
  <2>5. Held(d) \subseteq Queued(c)
    <3>1. \A i \in 1 .. Len(d.queue) : d.queue[i] \in Queued(c)
      BY <2>4 DEF Queued
    <3>2. d.inFlight \in Queued(c) BY <2>4 DEF Queued
    <3> QED BY <3>1, <3>2 DEF Held, Queued
  <2>6. InConn(d, n) => InConn(c, n) BY <2>5 DEF InConn, Held
  <2>7. ASSUME OnceInConn(c, n) PROVE OnceInConn(d, n)
    <3>1. ASSUME NEW i \in 1 .. Len(d.queue), NEW j \in 1 .. Len(d.queue),
                 Qos0Of(d.queue[i], n), Qos0Of(d.queue[j], n)
          PROVE  i = j
      <4>1. i + 1 = j + 1 BY <2>4, <2>7, <3>1 DEF OnceInConn
      <4> QED BY <4>1
    <3>2. ASSUME Qos0Of(d.inFlight, n), NEW i \in 1 .. Len(d.queue),
                 Qos0Of(d.queue[i], n)
          PROVE  FALSE
      <4>1. 1 = i + 1 BY <2>4, <2>7, <3>2 DEF OnceInConn
      <4> QED BY <4>1
    <3> QED BY <3>1, <3>2 DEF OnceInConn
  <2> QED BY <2>6, <2>7 DEF d
<1> QED BY <1>1, <1>2

LEMMA ShortFacts ==
    ASSUME NEW posts, Short(posts)
    PROVE  /\ \A n : OnceInLoop(posts, n)
           /\ posts = <<>> => /\ Elements(posts) = {}
                              /\ \A n : ~InLoop(posts, n) /\ ~Asked(posts, n)
                                        /\ ~Sends(posts, n)
           /\ \A h \in Handlers :
                 posts = <<h>> =>
                    /\ \A n : InLoop(posts, n) <=> Bears(h, n)
                    /\ \A n : Asked(posts, n) <=> h.kind = "publish" /\ h.arg = n
                    /\ \A n : Sends(posts, n) <=>
                                 /\ h.kind = "enqueue"
                                 /\ h.arg.type = "PUBLISH" /\ h.arg.call = n
<1>1. CASE posts = <<>>
  BY <1>1 DEF OnceInLoop, Elements, InLoop, Asked, Sends
<1>2. CASE \E h \in Handlers : posts = <<h>>
  <2> PICK g \in Handlers : posts = <<g>> BY <1>2
  <2>1. Len(posts) = 1 /\ posts[1] = g /\ Elements(posts) = {g} /\ posts # <<>>
    BY DEF Elements
  <2>2. \A n : OnceInLoop(posts, n) BY <2>1 DEF OnceInLoop
  <2>3. \A h : posts = <<h>> => h = g OBVIOUS
  <2> QED BY <2>1, <2>2, <2>3 DEF InLoop, Asked, Sends
<1> QED BY <1>1, <1>2 DEF Short

LEMMA DoPlaces ==
    ASSUME Typed, NEW n \in PubCalls, OnePlace(n), NEW e, EffectTyped(e),
           NEW rest \in Seq(Handlers), Moved(e, rest, n), Short(e.posts),
           OnceInLoop(rest, n), InLoop(rest, n) => InLoop(loop, n),
           Do(e, rest), UNCHANGED pubCalls
    PROVE  OnePlace(n)'
<1>1. /\ ses' = e.ses
      /\ conn' = IF e.flush THEN DoWrite(e.conn) ELSE e.conn
      /\ pubAnswers'[n] = Answer(pubAnswers[n], "publish", n, e.told)
  BY DEF Do, Record
<1>2. /\ InConn(conn', n) => InConn(e.conn, n)
      /\ OnceInConn(conn', n)
  BY <1>1, WriteMoves DEF EffectTyped, Moved
<1>3. /\ InLoop(loop', n) <=> InLoop(rest, n) \/ InLoop(e.posts, n)
      /\ OnceInLoop(rest, n) /\ OnceInLoop(e.posts, n)
         /\ ~(InLoop(rest, n) /\ InLoop(e.posts, n)) => OnceInLoop(loop', n)
  BY DoLoop
<1>4. OnceInLoop(e.posts, n) BY ShortFacts
<1>5. InLoop(rest, n) => /\ ~Told(e, n) /\ ~InSes(e.ses, n)
                         /\ ~InConn(e.conn, n) /\ ~InLoop(e.posts, n)
  BY DEF Moved, OnePlace
<1>6. OnceInLoop(loop', n) BY <1>3, <1>4, <1>5
<1>7. /\ ~(InLoop(loop', n) /\ InConn(conn', n))
      /\ ~(InLoop(loop', n) /\ InSes(ses', n))
      /\ ~(InConn(conn', n) /\ InSes(ses', n))
      /\ OnceInSes(ses', n)
  BY <1>1, <1>2, <1>3, <1>5 DEF Moved
<1>8. CASE Told(e, n)
  <2>1. pubAnswers[n] = <<>> /\ ~(n > pubCalls)
    BY <1>8 DEF Moved, OnePlace
  <2> DEFINE yes == \E t \in e.told : t.what = "publish" /\ t.call = n /\ t.ok
             no == \E t \in e.told : t.what = "publish" /\ t.call = n /\ ~t.ok
  <2>2. ~(yes /\ no) BY DEF Moved
  <2>3. Len(pubAnswers'[n]) <= 1
    <3>1. pubAnswers'[n] = <<>> \o (IF yes THEN <<TRUE>> ELSE <<>>)
                                \o (IF no THEN <<FALSE>> ELSE <<>>)
      BY <1>1, <2>1 DEF Answer
    <3> HIDE DEF yes, no
    <3>2. /\ Len(<<>> \o <<TRUE>> \o <<>>) = 1
          /\ Len(<<>> \o <<>> \o <<FALSE>>) = 1
          /\ Len(<<>> \o <<>> \o <<>>) = 0
      OBVIOUS
    <3> QED BY <2>2, <3>1, <3>2
  <2>4. ~InLoop(loop', n) /\ ~InConn(conn', n) /\ ~InSes(ses', n)
    BY <1>1, <1>2, <1>3, <1>5, <1>8 DEF Moved
  <2> QED BY <1>2, <1>6, <1>7, <2>1, <2>3, <2>4 DEF OnePlace
<1>9. CASE ~Told(e, n)
  <2>1. pubAnswers'[n] = pubAnswers[n]
    <3>1. pubAnswers[n] \in Seq(BOOLEAN) BY DEF Typed
    <3>2. pubAnswers'[n] = pubAnswers[n] \o <<>> \o <<>>
      BY <1>1, <1>9 DEF Answer, Told
    <3> QED BY <3>1, <3>2
  <2>2. InLoop(loop', n) \/ InConn(conn', n) \/ InSes(ses', n) =>
           InLoop(loop, n) \/ InConn(conn, n) \/ InSes(ses, n)
    BY <1>1, <1>2, <1>3 DEF Moved
  <2>3. pubAnswers'[n] # <<>> \/ n > pubCalls' =>
           ~InLoop(loop', n) /\ ~InConn(conn', n) /\ ~InSes(ses', n)
    BY <2>1, <2>2 DEF OnePlace
  <2> QED BY <1>2, <1>6, <1>7, <2>1, <2>3 DEF OnePlace
<1> QED BY <1>8, <1>9

LEMMA CountShort ==
    ASSUME NEW posts, Short(posts), NEW n
    PROVE  Count(posts, "PUBLISH", n) = IF Sends(posts, n) THEN 1 ELSE 0
<1> DEFINE S == {i \in 1 .. Len(posts) : /\ posts[i].kind = "enqueue"
                                         /\ posts[i].arg.type = "PUBLISH"
                                         /\ posts[i].arg.call = n}
<1>1. Cardinality(S) = Count(posts, "PUBLISH", n) BY DEF Count
<1>2. Len(posts) = 0 \/ Len(posts) = 1
  <2>1. \A h : Len(<<h>>) = 1 OBVIOUS
  <2>2. Len(<<>>) = 0 OBVIOUS
  <2> QED BY <2>1, <2>2 DEF Short
<1>3. CASE Sends(posts, n)
  <2>1. S = {1} BY <1>2, <1>3 DEF Sends
  <2> QED BY <1>1, <1>3, <2>1, FS_Singleton
<1>4. CASE ~Sends(posts, n)
  <2>1. S = {} BY <1>4 DEF Sends
  <2> QED BY <1>1, <1>4, <2>1, FS_EmptySet
<1> QED BY <1>3, <1>4

LEMMA DoCounts ==
    ASSUME Typed, NEW n \in PubCalls, Counted(n), OnceInSes(ses, n),
           NEW e, EffectTyped(e), NEW rest \in Seq(Handlers), Short(e.posts),
           Counts(e, rest, n), Moved(e, rest, n), OnePlace(n),
           ~Asked(e.posts, n),
           Asked(rest, n) => Asked(loop, n) /\ InLoop(rest, n),
           Do(e, rest), UNCHANGED <<pubCalls, setup>>
    PROVE  Counted(n)'
<1>1. MaxSends' = MaxSends /\ MaxSends \in Nat \ {0}
  BY SameTypes, SetupTypes DEF Typed
<1>2. sent[n].PUBLISH \in Nat BY DEF Typed
<1>3. sent'[n].PUBLISH = sent[n].PUBLISH + (IF Sends(e.posts, n) THEN 1 ELSE 0)
  BY CountShort DEF Do, Record
<1>4. ses' = e.ses BY DEF Do
<1>5. Asked(loop', n) => Asked(rest, n) BY DoLoop
<1>6. /\ ses.pub \subseteq PubEntries /\ e.ses.pub \subseteq PubEntries
  BY DEF Typed, EffectTyped, Sessions
<1>7. CASE ~Sends(e.posts, n)
  <2>1. sent'[n].PUBLISH = sent[n].PUBLISH BY <1>2, <1>3, <1>7
  <2>2. \A x \in ses'.pub : x.call = n => sent'[n].PUBLISH = x.attempts
    BY <1>4, <1>7, <2>1 DEF Counts, Counted
  <2>3. Asked(loop', n) \/ n > pubCalls' => sent'[n].PUBLISH = 0
    BY <1>5, <2>1 DEF Counted
  <2> QED BY <1>1, <2>1, <2>2, <2>3 DEF Counted
<1>8. CASE /\ Sends(e.posts, n) /\ Asked(loop, n) /\ ~Asked(rest, n)
           /\ \A x \in e.ses.pub : x.call = n => x.attempts = 1
  <2>1. sent'[n].PUBLISH = 1 BY <1>3, <1>8 DEF Counted
  <2>2. ~Asked(loop', n) BY <1>5, <1>8
  <2>3. InLoop(loop, n) BY <1>8 DEF Asked, InLoop, Bears
  <2>4. ~(n > pubCalls) BY <2>3 DEF OnePlace
  <2> QED BY <1>1, <1>4, <1>8, <2>1, <2>2, <2>4 DEF Counted
<1>9. CASE /\ Sends(e.posts, n)
           /\ \E y \in ses.pub :
                 /\ y.call = n /\ y.attempts < MaxSends
                 /\ \A x \in e.ses.pub :
                       x.call = n => x.attempts = y.attempts + 1
  <2>1. PICK y \in ses.pub :
           /\ y.call = n /\ y.attempts < MaxSends
           /\ \A x \in e.ses.pub : x.call = n => x.attempts = y.attempts + 1
    BY <1>9
  <2>2. y.attempts \in 1 .. MaxSends BY <1>6 DEF PubEntries
  <2>3. sent'[n].PUBLISH = y.attempts + 1 BY <1>3, <1>9, <2>1 DEF Counted
  <2>4. InSes(ses, n) BY <2>1 DEF InSes
  <2>5. ~InLoop(loop, n) /\ ~(n > pubCalls) BY <2>4 DEF OnePlace
  <2>6. ~Asked(loop, n) BY <2>5 DEF Asked, InLoop, Bears
  <2> QED BY <1>1, <1>4, <1>5, <2>1, <2>2, <2>3, <2>5, <2>6 DEF Counted
<1> QED BY <1>7, <1>8, <1>9 DEF Counts

\* A handler that leaves a sound effect keeps the invariant.
LEMMA DoKeeps ==
    ASSUME CInv, NEW e, NEW rest \in Seq(Handlers), Sound(e, rest),
           Do(e, rest), UNCHANGED <<setup, resolving, pubCalls, subCalls>>,
           nextPacketId' \in Ids,
           \/ rest = loop
           \/ /\ loop # <<>> /\ rest = Tail(loop) /\ Head(loop).kind # "read"
    PROVE  CInv'
<1>1. Typed' BY DoTyped DEF CInv, Sound
<1>2. IdsOnceOf(ses)' BY DEF Sound, Do, IdsOnceOf
<1>3. Reading' BY DoReading DEF CInv, Sound
<1>4. loop \in Seq(Handlers) BY DEF CInv, Typed
<1>5. /\ \A n : OnceInLoop(loop, n) => OnceInLoop(rest, n)
      /\ \A n : InLoop(rest, n) => InLoop(loop, n)
      /\ \A n : Asked(rest, n) => Asked(loop, n)
  <2>1. CASE rest = loop BY <2>1
  <2>2. CASE loop # <<>> /\ rest = Tail(loop) BY <1>4, <2>2, TailFacts
  <2> QED BY <2>1, <2>2
<1>6. \A n : Asked(rest, n) => InLoop(rest, n) BY DEF Asked, InLoop, Bears
<1>7. PubCalls' = PubCalls BY SameTypes
<1>8. ASSUME NEW n \in PubCalls PROVE OnePlace(n)' /\ Counted(n)'
  <2>1. Moved(e, rest, n) /\ Counts(e, rest, n) BY DEF Sound
  <2>2. OnePlace(n) /\ Counted(n) BY DEF CInv
  <2>3. ~Asked(e.posts, n) BY DEF Sound
  <2>4. OnePlace(n)' BY <1>5, <2>1, <2>2, DoPlaces DEF CInv, Sound, OnePlace
  <2>5. Counted(n)'
    BY <1>5, <1>6, <2>1, <2>2, <2>3, DoCounts DEF CInv, Sound, OnePlace
  <2> QED BY <2>4, <2>5
<1> QED BY <1>1, <1>2, <1>3, <1>7, <1>8 DEF CInv

-----------------------------------------------------------------------------
(* Handlers that only take publishes away: all but those that accept one,   *)
(* queue its frame or send it again                                          *)

\* Posts that have nothing to do with publishes.
Harmless(posts) ==
    \/ posts = <<>>
    \/ \E f \in Frames : f.type # "PUBLISH" /\ posts = <<Send(f)>>

\* Entries keep their identifier, call and attempts, or go.  Those told are the
\* entries that went and the QoS 0 publishes among items, and among what c held
\* if it is closed.
Drops(e, c, items) ==
    /\ Harmless(e.posts)
    /\ \A x \in e.ses.pub : \E y \in ses.pub :
          x.pid = y.pid /\ x.call = y.call /\ x.attempts = y.attempts
    /\ \E ok \in BOOLEAN, all \in {items, items \cup CloseTells(c)} :
          /\ (e.conn = c /\ all = items) \/ e.conn = Close(c)
          /\ \A t \in e.told :
                t.what = "publish" =>
                   /\ t.ok = ok
                   /\ \/ InSes(ses, t.call) /\ ~InSes(e.ses, t.call)
                      \/ \E f \in all : Qos0Of(f, t.call)

\* c is what is left of the connection, and items were in it or were being
\* handled.
Released(c, items, rest) ==
    \A n \in PubCalls :
        /\ OnceInConn(c, n)
        /\ InConn(c, n) => InConn(conn, n)
        /\ \A f \in items :
              Qos0Of(f, n) =>
                 /\ ~InConn(c, n)
                 /\ InConn(conn, n) \/ (InLoop(loop, n) /\ ~InLoop(rest, n))

LEMMA HarmlessFacts ==
    ASSUME NEW posts, Harmless(posts)
    PROVE  /\ Short(posts) /\ posts \in Seq(Handlers)
           /\ \A n : ~InLoop(posts, n) /\ ~Asked(posts, n) /\ ~Sends(posts, n)
<1>1. CASE posts = <<>>
  BY <1>1, ShortFacts DEF Short
<1>2. CASE \E f \in Frames : f.type # "PUBLISH" /\ posts = <<Send(f)>>
  <2> PICK f \in Frames : f.type # "PUBLISH" /\ posts = <<Send(f)>> BY <1>2
  <2> DEFINE h == Send(f)
  <2>1. h \in Handlers /\ h.kind = "enqueue" /\ h.arg = f
    BY DEF Send, Handler, Handlers
  <2> HIDE DEF h
  <2>2. posts = <<h>> BY DEF h
  <2>3. Short(posts) /\ posts \in Seq(Handlers) BY <2>1, <2>2 DEF Short
  <2>4. /\ \A n : InLoop(posts, n) <=> Bears(h, n)
        /\ \A n : Asked(posts, n) <=> h.kind = "publish" /\ h.arg = n
        /\ \A n : Sends(posts, n) <=> /\ h.kind = "enqueue"
                                      /\ h.arg.type = "PUBLISH"
                                      /\ h.arg.call = n
    BY <2>1, <2>2, <2>3, ShortFacts
  <2> QED BY <2>1, <2>3, <2>4 DEF Bears, Qos0Of
<1> QED BY <1>1, <1>2 DEF Harmless

LEMMA CloseHolds ==
    ASSUME NEW c, NEW n
    PROVE  /\ InConn(Close(c), n) => InConn(c, n)
           /\ OnceInConn(c, n) => OnceInConn(Close(c), n)
           /\ \A f \in CloseTells(c) :
                 Qos0Of(f, n) => InConn(c, n) /\ ~InConn(Close(c), n)
           /\ ~Live(Close(c))
<1>1. CASE c.closed BY <1>1 DEF Close, CloseTells, Live
<1>2. CASE ~c.closed
  <2> DEFINE d == Close(c)
  <2>1. /\ d.queue = <<>> /\ d.inFlight = NoItem /\ d.state = "disconnected"
    BY <1>2 DEF Close
  <2> HIDE DEF d
  <2>2. Held(d) = {} /\ Len(d.queue) = 0 BY <2>1 DEF Held, Queued
  <2>3. ~InConn(d, n) /\ OnceInConn(d, n) /\ ~Live(d)
    BY <2>1, <2>2 DEF InConn, OnceInConn, Live
  <2>4. CloseTells(c) = Held(c) BY <1>2 DEF CloseTells
  <2> QED BY <2>3, <2>4 DEF d, InConn
<1> QED BY <1>1, <1>2

LEMMA DropsMoved ==
    ASSUME CInv, NEW e, NEW rest, NEW c, NEW items, Drops(e, c, items),
           Released(c, items, rest), IdsOnceOf(e.ses), NEW n \in PubCalls
    PROVE  Moved(e, rest, n) /\ Counts(e, rest, n)
<1>1. OnePlace(n) BY DEF CInv
<1>2. /\ ~InLoop(e.posts, n) /\ ~Sends(e.posts, n)
  BY HarmlessFacts DEF Drops
<1>3. \A x \in e.ses.pub : \E y \in ses.pub :
         x.pid = y.pid /\ x.call = y.call /\ x.attempts = y.attempts
  BY DEF Drops
<1>4. InSes(e.ses, n) => InSes(ses, n) BY <1>3 DEF InSes
<1>5. OnceInSes(e.ses, n)
  BY <1>1, <1>3 DEF OnceInSes, OnePlace, IdsOnceOf
<1>6. PICK ok \in BOOLEAN, all \in {items, items \cup CloseTells(c)} :
         /\ (e.conn = c /\ all = items) \/ e.conn = Close(c)
         /\ \A t \in e.told :
               t.what = "publish" =>
                  /\ t.ok = ok
                  /\ \/ InSes(ses, t.call) /\ ~InSes(e.ses, t.call)
                     \/ \E f \in all : Qos0Of(f, t.call)
  BY DEF Drops
<1>7. /\ OnceInConn(c, n) /\ (InConn(c, n) => InConn(conn, n))
      /\ \A f \in items :
            Qos0Of(f, n) =>
               /\ ~InConn(c, n)
               /\ InConn(conn, n) \/ (InLoop(loop, n) /\ ~InLoop(rest, n))
  BY DEF Released
<1>8. /\ OnceInConn(e.conn, n) /\ (InConn(e.conn, n) => InConn(c, n))
  BY <1>6, <1>7, CloseHolds
<1>9. ASSUME Told(e, n)
      PROVE  /\ ~InSes(e.ses, n) /\ ~InConn(e.conn, n)
             /\ \/ InSes(ses, n) \/ InConn(conn, n)
                \/ InLoop(loop, n) /\ ~InLoop(rest, n)
  <2>1. CASE InSes(ses, n) /\ ~InSes(e.ses, n)
    BY <1>1, <1>7, <1>8, <2>1 DEF OnePlace
  <2>2. CASE \E f \in items : Qos0Of(f, n)
    BY <1>1, <1>4, <1>7, <1>8, <2>2 DEF OnePlace
  <2>3. CASE e.conn = Close(c) /\ \E f \in CloseTells(c) : Qos0Of(f, n)
    <3>1. InConn(c, n) /\ ~InConn(e.conn, n) BY <2>3, CloseHolds
    <3> QED BY <1>1, <1>4, <1>7, <3>1 DEF OnePlace
  <2>4. \/ InSes(ses, n) /\ ~InSes(e.ses, n)
        \/ \E f \in items : Qos0Of(f, n)
        \/ e.conn = Close(c) /\ \E f \in CloseTells(c) : Qos0Of(f, n)
    BY <1>6, <1>9 DEF Told
  <2> QED BY <2>1, <2>2, <2>3, <2>4
<1>10. \A t, u \in e.told :
          /\ t.what = "publish" /\ t.call = n
          /\ u.what = "publish" /\ u.call = n
          => t.ok = u.ok
  BY <1>6
<1>11. ~(InConn(e.conn, n) /\ InSes(e.ses, n))
  BY <1>1, <1>4, <1>7, <1>8 DEF OnePlace
<1>12. Moved(e, rest, n)
  BY <1>2, <1>4, <1>5, <1>7, <1>8, <1>9, <1>10, <1>11 DEF Moved
<1>13. Counts(e, rest, n)
  BY <1>2, <1>3 DEF Counts
<1> QED BY <1>12, <1>13

LEMMA DropsKeeps ==
    ASSUME CInv, NEW e, NEW rest \in Seq(Handlers), NEW c, NEW items,
           Drops(e, c, items), Released(c, items, rest),
           EffectTyped(e), IdsOnceOf(e.ses), ReadsOn(e),
           Do(e, rest), UNCHANGED <<setup, resolving, pubCalls, subCalls>>,
           nextPacketId' \in Ids,
           \/ rest = loop
           \/ /\ loop # <<>> /\ rest = Tail(loop) /\ Head(loop).kind # "read"
    PROVE  CInv'
<1>1. Short(e.posts) /\ \A n : ~Asked(e.posts, n)
  BY HarmlessFacts DEF Drops
<1>2. \A n \in PubCalls : Moved(e, rest, n) /\ Counts(e, rest, n)
  BY DropsMoved
<1>3. Sound(e, rest) BY <1>1, <1>2 DEF Sound
<1> QED BY <1>3, DoKeeps

\* A part of the entries has the identifiers of the whole.
LEMMA PartIds ==
    ASSUME NEW s, NEW r, IdsOnceOf(s), r.pub \subseteq s.pub, r.sub \subseteq s.sub
    PROVE  IdsOnceOf(r)
BY DEF IdsOnceOf

\* A callback may be told besides: of a subscribe, or of a QoS 0 publish.
TellsMore(told, base, more) ==
    \A t \in told :
        \/ t \in base
        \/ t.what = "subscribe"
        \/ t.ok = FALSE /\ \E i \in more : Qos0Of(i, t.call)

\* A failure is such a handler.
LEMMA FailsDrops ==
    ASSUME CInv, NEW e, NEW f, NEW s, NEW c, NEW items, NEW more,
           Fails(f, s, c, items), s.pub \subseteq ses.pub, items \subseteq more,
           e.ses = f.ses, e.conn = f.conn, e.posts = f.posts,
           TellsMore(e.told, f.told, more)
    PROVE  Drops(e, c, more)
<1>1. Harmless(e.posts) BY DEF Fails, Harmless
<1>2. e.ses.pub \subseteq ses.pub /\ s.pub \subseteq ses.pub BY DEF Fails
<1>3. ses.pub \subseteq PubEntries BY DEF CInv, Typed, Sessions
<1>4. \A x \in s.pub \ e.ses.pub :
         InSes(ses, x.call) /\ ~InSes(e.ses, x.call)
  <2> SUFFICES ASSUME NEW x \in s.pub \ e.ses.pub
               PROVE  InSes(ses, x.call) /\ ~InSes(e.ses, x.call)
    OBVIOUS
  <2>1. x \in ses.pub /\ x.call \in PubCalls BY <1>2, <1>3 DEF PubEntries
  <2>2. OnceInSes(ses, x.call) BY <2>1 DEF CInv, OnePlace
  <2> QED BY <1>2, <2>1, <2>2 DEF OnceInSes, InSes
<1>5. PICK all \in {items, items \cup CloseTells(c)} :
         /\ (e.conn = c /\ all = items) \/ e.conn = Close(c)
         /\ f.told = Lost(s, e.ses) \cup DroppedQos0(all)
  BY DEF Fails
<1>6. ASSUME NEW t \in f.told, t.what = "publish"
      PROVE  /\ t.ok = FALSE
             /\ \/ InSes(ses, t.call) /\ ~InSes(e.ses, t.call)
                \/ \E i \in all : Qos0Of(i, t.call)
  <2>1. CASE \E x \in s.pub \ e.ses.pub : t = ToldPub(x.call, FALSE)
    BY <1>4, <2>1 DEF ToldPub
  <2>2. CASE \E x \in s.sub \ e.ses.sub : t = ToldSub(x.call, FALSE)
    BY <1>6, <2>2 DEF ToldSub
  <2>3. CASE \E i \in all : /\ i.type = "PUBLISH" /\ i.pid = 0
                            /\ t = ToldPub(i.call, FALSE)
    BY <2>3 DEF ToldPub, Qos0Of
  <2> QED BY <1>5, <1>6, <2>1, <2>2, <2>3 DEF Lost, DroppedQos0
<1> DEFINE wide == IF all = items THEN more ELSE more \cup CloseTells(c)
<1>7. /\ wide \in {more, more \cup CloseTells(c)}
      /\ (e.conn = c /\ wide = more) \/ e.conn = Close(c)
      /\ all \subseteq wide /\ more \subseteq wide
  BY <1>5
<1> HIDE DEF wide
<1>8. \A t \in e.told :
         t.what = "publish" =>
            /\ t.ok = FALSE
            /\ \/ InSes(ses, t.call) /\ ~InSes(e.ses, t.call)
               \/ \E i \in wide : Qos0Of(i, t.call)
  BY <1>6, <1>7 DEF TellsMore
<1>9. \A x \in e.ses.pub : \E y \in ses.pub :
         x.pid = y.pid /\ x.call = y.call /\ x.attempts = y.attempts
  BY <1>2
<1> QED BY <1>1, <1>7, <1>8, <1>9 DEF Drops

-----------------------------------------------------------------------------
(* What the io thread takes from its queue *)

LEMMA HeadTyped ==
    ASSUME Typed, NEW kind, Running(kind)
    PROVE  /\ loop # <<>> /\ Head(loop) \in Handlers /\ Head(loop).kind = kind
           /\ Tail(loop) \in Seq(Handlers)
           /\ kind \in {"enqueue", "aborted"} => Arg \in Frames
           /\ kind = "publish" => Arg \in PubCalls
           /\ kind = "subscribe" => Arg \in SubCalls
           /\ kind = "packet" => Arg \in Packets \cup {BrokenRead}
           /\ kind \in {"pubRetry", "recRetry"} => Arg \in Ids
           /\ kind \in {"connected", "written", "resolved"} => Arg \in BOOLEAN
<1>1. loop \in Seq(Handlers) /\ loop # <<>> /\ Head(loop).kind = kind
  BY DEF Typed, Running
<1>2. Head(loop) \in Handlers /\ Tail(loop) \in Seq(Handlers)
  BY <1>1, TailFacts
<1> QED BY <1>1, <1>2 DEF Handlers, Arg

\* What is taken from the connection or from the loop was there.
LEMMA ReleasedFacts ==
    ASSUME CInv
    PROVE  /\ \A rest : Released(conn, {}, rest)
           /\ \A c, rest : c.queue = conn.queue /\ c.inFlight = conn.inFlight
                           => Released(c, {}, rest)
           /\ Running("publish") =>
                 Released(conn, {Frame("PUBLISH", 0, Arg)}, Tail(loop))
           /\ Running("aborted") => Released(conn, {Arg}, Tail(loop))
           /\ \A rest : Released(FailPending(conn), Queued(conn), rest)
           /\ conn.inFlight # NoItem =>
                 \A rest :
                    /\ Released(TakeInFlight(conn), {conn.inFlight}, rest)
                    /\ Released(FailPending(DropSocket(TakeInFlight(conn))),
                                {conn.inFlight} \cup Queued(conn), rest)
<1> USE DEF Released
<1>1. \A n \in PubCalls : OnceInConn(conn, n) /\ OnceInLoop(loop, n)
                          /\ ~(InLoop(loop, n) /\ InConn(conn, n))
  BY DEF CInv, OnePlace
<1>2. \A c, rest : c.queue = conn.queue /\ c.inFlight = conn.inFlight
                   => Released(c, {}, rest)
  BY <1>1 DEF OnceInConn, InConn, Held, Queued
<1>3. \A rest : Released(conn, {}, rest) BY <1>1
<1>4. conn \in Conns /\ loop \in Seq(Handlers) BY DEF CInv, Typed
<1>5. loop # <<>> => \A n \in PubCalls :
         Bears(Head(loop), n) => /\ InLoop(loop, n) /\ ~InLoop(Tail(loop), n)
                                 /\ ~InConn(conn, n)
  BY <1>1, <1>4, TailFacts
<1>6. Running("publish") =>
         Released(conn, {Frame("PUBLISH", 0, Arg)}, Tail(loop))
  <2> SUFFICES ASSUME Running("publish"), NEW n \in PubCalls,
                      Qos0Of(Frame("PUBLISH", 0, Arg), n)
               PROVE  /\ ~InConn(conn, n) /\ InLoop(loop, n)
                      /\ ~InLoop(Tail(loop), n)
    BY <1>1
  <2>1. loop # <<>> /\ Bears(Head(loop), n)
    BY DEF Running, Bears, Qos0Of, Frame, Arg
  <2> QED BY <1>5, <2>1
<1>7. Running("aborted") => Released(conn, {Arg}, Tail(loop))
  <2> SUFFICES ASSUME Running("aborted"), NEW n \in PubCalls, Qos0Of(Arg, n)
               PROVE  /\ ~InConn(conn, n) /\ InLoop(loop, n)
                      /\ ~InLoop(Tail(loop), n)
    BY <1>1
  <2>1. loop # <<>> /\ Bears(Head(loop), n)
    BY DEF Running, Bears, Arg
  <2> QED BY <1>5, <2>1
<1>8. \A rest : Released(FailPending(conn), Queued(conn), rest)
  <2> DEFINE c == FailPending(conn)
  <2>1. c.queue = <<>> /\ c.inFlight = conn.inFlight
    BY <1>4 DEF FailPending, Conns, Connections
  <2> HIDE DEF c
  <2>2. Held(c) = {conn.inFlight} \ {NoItem} /\ Len(c.queue) = 0
    BY <2>1 DEF Held, Queued
  <2>3. \A n \in PubCalls : OnceInConn(c, n) /\ (InConn(c, n) => InConn(conn, n))
    BY <2>2 DEF OnceInConn, InConn, Held
  <2>4. ASSUME NEW n \in PubCalls, NEW f \in Queued(conn), Qos0Of(f, n)
        PROVE  ~InConn(c, n) /\ InConn(conn, n)
    BY <1>1, <2>2, <2>4 DEF OnceInConn, InConn, Held, Queued
  <2> QED BY <2>3, <2>4 DEF c
<1>9. ASSUME conn.inFlight # NoItem, NEW rest
      PROVE  Released(TakeInFlight(conn), {conn.inFlight}, rest)
  <2> DEFINE c == TakeInFlight(conn)
  <2>1. c.queue = conn.queue /\ c.inFlight = NoItem
    BY <1>4 DEF TakeInFlight, Conns, Connections
  <2> HIDE DEF c
  <2>2. Held(c) = Queued(conn) BY <2>1 DEF Held, Queued
  <2>3. \A n \in PubCalls : OnceInConn(c, n) /\ (InConn(c, n) => InConn(conn, n))
    BY <1>1, <2>1, <2>2 DEF OnceInConn, InConn, Held
  <2>4. ASSUME NEW n \in PubCalls, Qos0Of(conn.inFlight, n)
        PROVE  ~InConn(c, n) /\ InConn(conn, n)
    BY <1>1, <1>9, <2>2, <2>4 DEF OnceInConn, InConn, Held, Queued
  <2> QED BY <2>3, <2>4 DEF c
<1>10. ASSUME conn.inFlight # NoItem, NEW rest
       PROVE  Released(FailPending(DropSocket(TakeInFlight(conn))),
                       {conn.inFlight} \cup Queued(conn), rest)
  <2> DEFINE c == FailPending(DropSocket(TakeInFlight(conn)))
  <2>1. c.queue = <<>> /\ c.inFlight = NoItem
    BY <1>4 DEF TakeInFlight, DropSocket, FailPending, Conns, Connections
  <2> HIDE DEF c
  <2>2. Held(c) = {} /\ Len(c.queue) = 0 BY <2>1 DEF Held, Queued
  <2>3. \A n \in PubCalls : OnceInConn(c, n) /\ ~InConn(c, n)
    BY <2>1, <2>2 DEF OnceInConn, InConn
  <2>4. {conn.inFlight} \cup Queued(conn) = Held(conn) BY <1>10 DEF Held
  <2> QED BY <2>3, <2>4 DEF c, InConn
<1> QED BY <1>2, <1>3, <1>6, <1>7, <1>8, <1>9, <1>10

\* A handler of the io thread with such an effect keeps the invariant.
LEMMA HandleDrops ==
    ASSUME CInv, UNCHANGED setup, NEW kind, Running(kind), kind # "read",
           NEW e, NEW c, NEW items, Handle(e),
           Drops(e, c, items), Released(c, items, Tail(loop)),
           EffectTyped(e), IdsOnceOf(e.ses), ReadsOn(e)
    PROVE  CInv'
<1>1. /\ loop # <<>> /\ Head(loop).kind # "read" /\ Tail(loop) \in Seq(Handlers)
  BY HeadTyped DEF CInv
<1>2. nextPacketId' \in Ids BY DEF CInv, Typed, Handle
<1>3. Do(e, Tail(loop)) /\ UNCHANGED <<resolving, pubCalls, subCalls>>
  BY DEF Handle, Aside
<1> QED BY <1>1, <1>2, <1>3, DropsKeeps

LEMMA SoundKeeps ==
    ASSUME CInv, UNCHANGED setup, NEW kind, Running(kind), kind # "read",
           NEW e, Handle(e), Sound(e, Tail(loop))
    PROVE  CInv'
<1>1. /\ loop # <<>> /\ Head(loop).kind # "read" /\ Tail(loop) \in Seq(Handlers)
  BY HeadTyped DEF CInv
<1>2. nextPacketId' \in Ids BY DEF CInv, Typed, Handle
<1>3. Do(e, Tail(loop)) /\ UNCHANGED <<resolving, pubCalls, subCalls>>
  BY DEF Handle, Aside
<1> QED BY <1>1, <1>2, <1>3, DoKeeps

LEMMA QuietDrops ==
    ASSUME NEW e, NEW c, Harmless(e.posts), e.ses.pub \subseteq ses.pub,
           e.conn = c, \A t \in e.told : t.what = "subscribe"
    PROVE  Drops(e, c, {})
<1>1. "subscribe" # "publish" OBVIOUS
<1>2. \A t \in e.told : t.what # "publish" BY <1>1
<1>3. FALSE \in BOOLEAN /\ {} \in {{}, {} \cup CloseTells(c)} OBVIOUS
<1> QED BY <1>2, <1>3 DEF Drops

\* A failure that leaves the session as open as it was.
LEMMA FailKeeps ==
    ASSUME CInv, UNCHANGED setup, NEW kind, Running(kind),
           kind \notin {"read", "packet"}, NEW f, NEW s \in Sessions,
           NEW c \in Conns, NEW items, NEW more, Fails(f, s, c, items),
           items \subseteq more, s.pub \subseteq ses.pub,
           s.sub \subseteq ses.sub, s.closed = ses.closed,
           Live(c) => Live(conn), Released(c, more, Tail(loop)),
           NEW e, Handle(e), e.ses = f.ses, e.conn = f.conn,
           e.posts = f.posts, e.read = f.read, e.flush = f.flush,
           TellsMore(e.told, f.told, more)
    PROVE  CInv'
<1>1. Drops(e, c, more) BY FailsDrops
<1>2. EffectTyped(e) BY FailsTyped DEF EffectTyped
<1>3. IdsOnceOf(e.ses)
  <2>1. e.ses.pub \subseteq ses.pub /\ e.ses.sub \subseteq ses.sub BY DEF Fails
  <2> QED BY <2>1, PartIds DEF CInv
<1>4. ReadsOn(e)
  <2>1. ~Running("packet") BY DEF Running
  <2>2. Live(e.conn) => e.conn = c /\ e.ses.closed = s.closed
    <3>1. ~Live(Close(c)) BY CloseHolds
    <3>2. \/ f.conn = c /\ f.ses.closed = s.closed
          \/ f.conn = Close(c)
      BY DEF Fails
    <3> QED BY <3>1, <3>2
  <2> QED BY <2>1, <2>2 DEF ReadsOn, CInv, Reading
<1> QED BY <1>1, <1>2, <1>3, <1>4, HandleDrops

\* A handler that leaves publishes and the connection's frames alone.
LEMMA QuietKeeps ==
    ASSUME CInv, UNCHANGED setup, NEW kind, Running(kind),
           kind \notin {"read", "packet"}, NEW e, Handle(e),
           e.ses \in Sessions, e.ses.pub \subseteq ses.pub,
           e.ses.sub \subseteq ses.sub, e.ses.closed = ses.closed,
           e.conn \in Conns, e.conn.queue = conn.queue,
           e.conn.inFlight = conn.inFlight, Live(e.conn) => Live(conn),
           Harmless(e.posts), \A t \in e.told : t.what = "subscribe",
           e.read \in BOOLEAN, e.flush \in BOOLEAN
    PROVE  CInv'
<1>1. Drops(e, e.conn, {}) BY QuietDrops
<1>2. Released(e.conn, {}, Tail(loop)) BY ReleasedFacts
<1>3. EffectTyped(e) BY HarmlessFacts DEF EffectTyped
<1>4. IdsOnceOf(e.ses) BY PartIds DEF CInv
<1>5. ReadsOn(e) BY DEF ReadsOn, Running, CInv, Reading
<1> QED BY <1>1, <1>2, <1>3, <1>4, <1>5, HandleDrops

-----------------------------------------------------------------------------
(* The actions of the io thread *)

LEMMA NoEffectFields ==
    /\ NoEffect.ses = ses /\ NoEffect.conn = conn /\ NoEffect.told = {}
    /\ NoEffect.posts = <<>> /\ NoEffect.read = FALSE /\ NoEffect.flush = FALSE
BY DEF NoEffect

LEMMA SendFacts ==
    ASSUME NEW type \in FrameTypes, NEW pid \in 0 .. MaxId, NEW call \in Nat
    PROVE  /\ Frame(type, pid, call) \in Frames
           /\ Frame(type, pid, call).type = type
           /\ type # "PUBLISH" => Harmless(<<Send(Frame(type, pid, call))>>)
BY DEF Frame, Frames, Harmless

LEMMA PlainFacts ==
    ASSUME NEW type \in FrameTypes
    PROVE  /\ Plain(type) \in Frames
           /\ type # "PUBLISH" => Harmless(<<Send(Plain(type))>>)
<1>1. 0 \in 0 .. MaxId /\ 0 \in Nat BY MaxIdAssumption
<1> QED BY <1>1, SendFacts DEF Plain

LEMMA ConnectSteps ==
    ASSUME CInv, UNCHANGED setup, RunResolveFailed \/ RunConnected \/ RunConnTimer
    PROVE  CInv'
<1>1. ses \in Sessions /\ conn \in Conns BY DEF CInv, Typed
<1>2. Harmless(<<>>) BY DEF Harmless
<1>3. ASSUME NEW c \in Conns, c.queue = conn.queue, c.inFlight = conn.inFlight,
             Live(c) => Live(conn), NEW kind, Running(kind),
             kind \notin {"read", "packet"}, NEW e, Handle(e),
             e.ses = ses, e.conn = c, Harmless(e.posts), e.told = {},
             e.read = FALSE, e.flush = FALSE
      PROVE  CInv'
  BY <1>1, <1>3, QuietKeeps
<1>4. CASE RunResolveFailed
  <2> DEFINE e == ConnectFailed(conn)
  <2>1. Running("resolved") /\ Handle(e) BY <1>4 DEF RunResolveFailed
  <2>2. /\ e.ses = ses /\ e.conn = conn /\ e.posts = <<>> /\ e.told = {}
        /\ e.read = FALSE /\ e.flush = FALSE
    BY DEF ConnectFailed, NoEffect
  <2> HIDE DEF e
  <2> QED BY <1>1, <1>2, <1>3, <2>1, <2>2
<1>5. CASE RunConnected
  <2> DEFINE c == [conn EXCEPT !.state = IF Arg THEN "handshaking"
                                               ELSE "disconnected"]
             e == IF ~Arg THEN ConnectFailed(c)
                  ELSE IF ses.closed THEN [NoEffect EXCEPT !.conn = c]
                  ELSE [NoEffect EXCEPT !.conn = c,
                                        !.posts = <<Send(Plain("CONNECT"))>>]
  <2>1. Running("connected") /\ Handle(e) BY <1>5 DEF RunConnected
  <2>2. /\ c \in Conns /\ c.queue = conn.queue /\ c.inFlight = conn.inFlight
        /\ ~Live(c)
    BY <1>1 DEF Conns, Connections, ConnectionStates, Live
  <2> HIDE DEF c
  <2>3. /\ e.ses = ses /\ e.conn = c /\ e.told = {}
        /\ e.posts \in {<<>>, <<Send(Plain("CONNECT"))>>}
        /\ e.read = FALSE /\ e.flush = FALSE
    BY DEF ConnectFailed, NoEffect
  <2> HIDE DEF e
  <2>4. Harmless(<<Send(Plain("CONNECT"))>>) BY PlainFacts DEF FrameTypes
  <2>5. Harmless(e.posts) BY <1>2, <2>3, <2>4
  <2> QED BY <1>3, <2>1, <2>2, <2>3, <2>5
<1>6. CASE RunConnTimer
  <2>1. CASE ses.closed
    <3>1. Running("connTimer") /\ Handle(NoEffect)
      BY <1>6, <2>1 DEF RunConnTimer
    <3> QED BY <1>1, <1>2, <1>3, <3>1, NoEffectFields
  <2>2. CASE ~ses.closed
    <3>1. Running("connTimer") /\ Handle(Abandon(ses))
      BY <1>6, <2>2 DEF RunConnTimer
    <3> QED BY <1>1, <3>1, AbandonFails, FailKeeps, ReleasedFacts DEF TellsMore
  <2> QED BY <2>1, <2>2
<1> QED BY <1>4, <1>5, <1>6

\* A publish refused, its frame counted among those that fail.
LEMMA RefusedKeeps ==
    ASSUME CInv, UNCHANGED setup, RunPublishRejected \/ RunPublishNoId
    PROVE  CInv'
<1> DEFINE told == ToldPub(Arg, FALSE)
           more == {Frame("PUBLISH", 0, Arg)}
<1>1. ses \in Sessions /\ conn \in Conns BY DEF CInv, Typed
<1>2. /\ told.ok = FALSE
      /\ \E i \in more : Qos0Of(i, told.call)
  BY DEF ToldPub, Qos0Of, Frame
<1>3. CASE RunPublishRejected
  <2> DEFINE e == Tells({told})
  <2>1. Running("publish") /\ Handle(e) BY <1>3 DEF RunPublishRejected
  <2>2. /\ e.ses = ses /\ e.conn = conn /\ e.posts = <<>> /\ e.told = {told}
        /\ e.read = FALSE /\ e.flush = FALSE
    BY DEF Tells, NoEffect
  <2>3. Fails(NoEffect, ses, conn, {})
    <3>1. Lost(ses, ses) = {} /\ DroppedQos0({}) = {} BY DEF Lost, DroppedQos0
    <3> QED BY <1>1, <3>1, NoEffectFields DEF Fails
  <2>4. Released(conn, more, Tail(loop)) BY <2>1, ReleasedFacts
  <2> HIDE DEF e, told, more
  <2> QED BY <1>1, <1>2, <2>1, <2>2, <2>3, <2>4, NoEffectFields, FailKeeps
       DEF TellsMore
<1>4. CASE RunPublishNoId
  <2> DEFINE f == NotifyClosedOnce(ses)
             e == [f EXCEPT !.told = f.told \cup {told}]
  <2>1. Running("publish") /\ Handle(e)
    BY <1>4 DEF RunPublishNoId, PublishAccepted
  <2>2. Fails(f, ses, conn, {}) BY <1>1, NotifyFails
  <2>3. /\ e.ses = f.ses /\ e.conn = f.conn /\ e.posts = f.posts
        /\ e.told = f.told \cup {told} /\ e.read = f.read /\ e.flush = f.flush
    BY DEF NotifyClosedOnce, NoEffect
  <2>4. Released(conn, more, Tail(loop)) BY <2>1, ReleasedFacts
  <2> HIDE DEF e, f, told, more
  <2>5. TellsMore(e.told, f.told, more)
    BY <1>2, <2>3 DEF TellsMore
  <2>6. /\ {} \subseteq more /\ ses.pub \subseteq ses.pub
        /\ ses.sub \subseteq ses.sub
        /\ "publish" \notin {"read", "packet"}
    OBVIOUS
  <2> QED BY <1>1, <2>1, <2>2, <2>3, <2>4, <2>5, <2>6, FailKeeps
<1> QED BY <1>3, <1>4

\* notify_closed_once() and the end of a handler.
LEMMA NotifyKeeps ==
    ASSUME CInv, UNCHANGED setup, NEW kind, Running(kind),
           kind \notin {"read", "packet"}, NEW e, Handle(e),
           e.ses = NotifyClosedOnce(ses).ses, e.conn = NotifyClosedOnce(ses).conn,
           e.posts = NotifyClosedOnce(ses).posts,
           e.read = NotifyClosedOnce(ses).read,
           e.flush = NotifyClosedOnce(ses).flush,
           TellsMore(e.told, NotifyClosedOnce(ses).told, {})
    PROVE  CInv'
<1> DEFINE f == NotifyClosedOnce(ses)
<1>1. ses \in Sessions /\ conn \in Conns BY DEF CInv, Typed
<1>2. Fails(f, ses, conn, {}) BY <1>1, NotifyFails
<1>3. Released(conn, {}, Tail(loop)) BY ReleasedFacts
<1> HIDE DEF f
<1>4. e.ses = f.ses /\ e.conn = f.conn /\ e.posts = f.posts
      /\ e.read = f.read /\ e.flush = f.flush
      /\ TellsMore(e.told, f.told, {})
  BY DEF f
<1> QED BY <1>1, <1>2, <1>3, <1>4, FailKeeps

LEMMA SubscribeRefusedKeeps ==
    ASSUME CInv, UNCHANGED setup, RunSubscribeRejected \/ RunSubscribeNoId
    PROVE  CInv'
<1> DEFINE told == ToldSub(Arg, FALSE)
<1>1. ses \in Sessions /\ conn \in Conns BY DEF CInv, Typed
<1>2. told.what = "subscribe" BY DEF ToldSub
<1> HIDE DEF told
<1>3. CASE RunSubscribeRejected
  <2> DEFINE e == Tells({told})
  <2>1. Running("subscribe") /\ Handle(e) BY <1>3 DEF RunSubscribeRejected, told
  <2>2. /\ e.ses = ses /\ e.conn = conn /\ e.posts = <<>> /\ e.told = {told}
        /\ e.read = FALSE /\ e.flush = FALSE
    BY DEF Tells, NoEffect
  <2>3. Harmless(<<>>) BY DEF Harmless
  <2> HIDE DEF e
  <2> QED BY <1>1, <1>2, <2>1, <2>2, <2>3, QuietKeeps
<1>4. CASE RunSubscribeNoId
  <2> DEFINE f == NotifyClosedOnce(ses)
             e == [f EXCEPT !.told = f.told \cup {told}]
  <2>1. Running("subscribe") /\ Handle(e) BY <1>4 DEF RunSubscribeNoId, told
  <2>2. /\ e.ses = f.ses /\ e.conn = f.conn /\ e.posts = f.posts
        /\ e.told = f.told \cup {told} /\ e.read = f.read /\ e.flush = f.flush
    BY DEF NotifyClosedOnce, NoEffect
  <2>3. TellsMore(e.told, f.told, {}) BY <1>2, <2>2 DEF TellsMore
  <2> HIDE DEF e
  <2> QED BY <2>1, <2>2, <2>3, NotifyKeeps
<1> QED BY <1>3, <1>4

\* The frames that met a closed connection, waited on one that cannot send, or
\* were caught in a failed write.
LEMMA FailedKeeps ==
    ASSUME CInv, UNCHANGED setup,
           RunAborted \/ RunFailPending \/ RunWrittenFailed
    PROVE  CInv'
<1>1. ses \in Sessions /\ conn \in Conns BY DEF CInv, Typed
<1>2. ASSUME NEW kind, Running(kind), kind \notin {"read", "packet"},
             NEW c \in Conns, NEW items, Live(c) => Live(conn),
             Handle(FailItems(ses, c, items, FALSE)),
             Released(c, items, Tail(loop))
      PROVE  CInv'
  <2> DEFINE e == FailItems(ses, c, items, FALSE)
  <2>1. Fails(e, ses, c, items) BY <1>1, FailItemsFails
  <2>2. Handle(e) BY <1>2
  <2> HIDE DEF e
  <2>3. TellsMore(e.told, e.told, items) BY DEF TellsMore
  <2>4. /\ items \subseteq items /\ ses.pub \subseteq ses.pub
        /\ ses.sub \subseteq ses.sub
    OBVIOUS
  <2> QED BY <1>1, <1>2, <2>1, <2>2, <2>3, <2>4, FailKeeps
<1>3. CASE RunAborted
  <2>1. Running("aborted") /\ Handle(FailItems(ses, conn, {Arg}, FALSE))
    BY <1>3 DEF RunAborted
  <2> QED BY <1>1, <1>2, <2>1, ReleasedFacts
<1>4. CASE RunFailPending
  <2> DEFINE c == FailPending(conn)
  <2>1. Running("failPending") /\ Handle(FailItems(ses, c, Queued(conn), FALSE))
    BY <1>4 DEF RunFailPending
  <2>2. c \in Conns BY <1>1, ConnTypes
  <2>3. Live(c) => Live(conn)
    BY <1>1 DEF FailPending, Live, Conns, Connections
  <2>4. Released(c, Queued(conn), Tail(loop)) BY ReleasedFacts
  <2> HIDE DEF c
  <2> QED BY <1>2, <2>1, <2>2, <2>3, <2>4
<1>5. CASE RunWrittenFailed
  <2> DEFINE c == FailPending(DropSocket(TakeInFlight(conn)))
             items == {conn.inFlight} \cup Queued(conn)
  <2>1. /\ Running("written") /\ conn.inFlight # NoItem
        /\ Handle(FailItems(ses, c, items, FALSE))
    BY <1>5 DEF RunWrittenFailed, TakenOver
  <2>2. c \in Conns
    <3>1. TakeInFlight(conn) \in Conns BY <1>1, ConnTypes
    <3>2. DropSocket(TakeInFlight(conn)) \in Conns BY <3>1, ConnTypes
    <3> QED BY <3>2, ConnTypes
  <2>3. ~Live(c)
    BY <1>1 DEF FailPending, DropSocket, TakeInFlight, Live, Conns, Connections
  <2>4. Released(c, items, Tail(loop)) BY <2>1, ReleasedFacts
  <2> HIDE DEF c, items
  <2> QED BY <1>2, <2>1, <2>2, <2>3, <2>4
<1> QED BY <1>3, <1>4, <1>5

\* The PUBREL timer, the keep-alive timers, and a completion nobody waits for.
LEMMA AgainFields ==
    ASSUME NEW x \in PubEntries \cup RecEntries
    PROVE  /\ Again(x).pid = x.pid /\ Again(x).call = x.call
           /\ Again(x).attempts = x.attempts + 1
           /\ \A T : x.attempts + 1 \in T =>
                 Again(x) \in [pid : Ids, call : PubCalls, attempts : T,
                               armed : BOOLEAN]
<1>1. PICK T : x \in [pid : Ids, call : PubCalls, attempts : T, armed : BOOLEAN]
  BY DEF PubEntries, RecEntries
<1> DEFINE more == x.attempts + 1
<1>2. Again(x) = [x EXCEPT !.attempts = more, !.armed = TRUE] BY DEF Again
<1> HIDE DEF more
<1>3. /\ Again(x).pid = x.pid /\ Again(x).call = x.call
      /\ Again(x).attempts = more
  BY <1>1, <1>2
<1>4. ASSUME NEW U, more \in U
      PROVE  Again(x) \in [pid : Ids, call : PubCalls, attempts : U,
                           armed : BOOLEAN]
  BY <1>1, <1>2, <1>4
<1> QED BY <1>3, <1>4 DEF more

LEMMA RecRetryKeeps == ASSUME CInv, UNCHANGED setup, RunRecRetry PROVE CInv'
<1> DEFINE mine == {x \in ses.rec : x.pid = Arg}
           frames == {Frame("PUBREL", Arg, x.call) : x \in mine}
<1>1. /\ Typed /\ ses \in Sessions /\ conn \in Conns /\ setup \in Setup
      /\ Running("recRetry")
  BY DEF CInv, Typed, RunRecRetry
<1>2. Arg \in Ids BY <1>1, HeadTyped
<1>3. ses.rec \subseteq RecEntries /\ MaxSends \in Nat \ {0}
  BY <1>1, SetupTypes DEF Sessions
<1>4. Harmless(<<>>) BY DEF Harmless
<1>5. CASE mine = {}
  <2>1. Handle(NoEffect) BY <1>5 DEF RunRecRetry
  <2> QED BY <1>1, <1>4, <2>1, NoEffectFields, QuietKeeps
<1>6. CASE mine # {} /\ \E x \in mine : Spent(x)
  <2>1. Handle(NotifyClosedOnce(ses)) BY <1>6 DEF RunRecRetry
  <2> QED BY <1>1, <2>1, NotifyKeeps DEF TellsMore
<1>7. CASE mine # {} /\ ~\E x \in mine : Spent(x)
  <2> DEFINE rec == (ses.rec \ mine) \cup {Again(x) : x \in mine}
             sf == CHOOSE f \in frames : TRUE
             e == [NoEffect EXCEPT
                      !.ses.rec = (@ \ mine) \cup {Again(x) : x \in mine},
                      !.posts = <<Send(sf)>>]
  <2>1. Handle(e) BY <1>7 DEF RunRecRetry
  <2>2. \A x \in mine : Again(x) \in RecEntries
    <3> SUFFICES ASSUME NEW x \in mine PROVE Again(x) \in RecEntries OBVIOUS
    <3>1. x \in RecEntries /\ x.attempts \in 0 .. MaxSends
          /\ ~(x.attempts >= MaxSends)
      BY <1>3, <1>7 DEF Spent, RecEntries
    <3>2. x.attempts + 1 \in 0 .. MaxSends BY <1>3, <3>1
    <3> QED BY <3>1, <3>2, AgainFields DEF RecEntries
  <2>3. rec \subseteq RecEntries BY <1>3, <2>2
  <2>4. sf \in frames BY <1>7
  <2>5. PICK x \in mine : sf = Frame("PUBREL", Arg, x.call) BY <2>4
  <2>6. Harmless(<<Send(sf)>>)
    <3>1. x.call \in Nat BY <1>3, <2>5 DEF RecEntries, PubCalls
    <3>2. Arg \in 0 .. MaxId BY <1>2, MaxIdAssumption DEF Ids
    <3>3. "PUBREL" \in FrameTypes BY DEF FrameTypes
    <3> QED BY <2>5, <3>1, <3>2, <3>3, SendFacts
  <2> HIDE DEF sf, mine
  <2>7. /\ e.ses = [ses EXCEPT !.rec = rec] /\ e.conn = conn
        /\ e.posts = <<Send(sf)>> /\ e.told = {}
        /\ e.read = FALSE /\ e.flush = FALSE
    BY DEF NoEffect
  <2> HIDE DEF e, rec
  <2>8. /\ e.ses \in Sessions /\ e.ses.pub = ses.pub /\ e.ses.sub = ses.sub
        /\ e.ses.closed = ses.closed
    BY <1>1, <2>3, <2>7 DEF Sessions
  <2> QED BY <1>1, <2>1, <2>6, <2>7, <2>8, QuietKeeps
<1> QED BY <1>5, <1>6, <1>7

LEMMA PingKeeps ==
    ASSUME CInv, UNCHANGED setup, RunPingDue \/ RunPongDue \/ RunWrittenQuiet
    PROVE  CInv'
<1>1. ses \in Sessions /\ conn \in Conns BY DEF CInv, Typed
<1>2. CASE RunPingDue
  <2> DEFINE e == [NoEffect EXCEPT !.posts = <<Send(Plain("PINGREQ"))>>]
  <2>1. Running("pingDue") /\ Handle(e) BY <1>2 DEF RunPingDue
  <2>2. /\ e.ses = ses /\ e.conn = conn /\ e.told = {}
        /\ e.posts = <<Send(Plain("PINGREQ"))>>
        /\ e.read = FALSE /\ e.flush = FALSE
    BY DEF NoEffect
  <2>3. Harmless(e.posts) BY <2>2, PlainFacts DEF FrameTypes
  <2> HIDE DEF e
  <2> QED BY <1>1, <2>1, <2>2, <2>3, QuietKeeps
<1>3. CASE RunPongDue
  <2>1. Running("pongDue") /\ Handle(NotifyClosedOnce(ses))
    BY <1>3 DEF RunPongDue
  <2> QED BY <2>1, NotifyKeeps DEF TellsMore
<1>4. CASE RunWrittenQuiet
  <2>1. Running("written") /\ Handle(NoEffect) BY <1>4 DEF RunWrittenQuiet
  <2>2. Harmless(<<>>) BY DEF Harmless
  <2> QED BY <1>1, <2>1, <2>2, NoEffectFields, QuietKeeps
<1> QED BY <1>2, <1>3, <1>4

-----------------------------------------------------------------------------
(* Accepting, queueing and sending again *)

LEMMA NthIdType ==
    ASSUME NEW i \in Ids, NEW k \in 1 .. MaxId - 1
    PROVE  NthId(i, k) \in Ids
BY MaxIdAssumption DEF NthId, Ids

\* A frame posted to the connection.
LEMMA PostFacts ==
    ASSUME NEW f \in Frames, NEW kind \in {"enqueue", "aborted"}
    PROVE  /\ Short(<<Handler(kind, f)>>)
           /\ <<Handler(kind, f)>> \in Seq(Handlers)
           /\ \A n : ~Asked(<<Handler(kind, f)>>, n)
           /\ \A n : InLoop(<<Handler(kind, f)>>, n) <=> Qos0Of(f, n)
           /\ \A n : Sends(<<Handler(kind, f)>>, n) <=>
                        /\ kind = "enqueue"
                        /\ f.type = "PUBLISH" /\ f.call = n
<1> DEFINE h == Handler(kind, f)
           posts == <<h>>
<1>1. h \in Handlers /\ h.kind = kind /\ h.arg = f BY DEF Handler, Handlers
<1> HIDE DEF h
<1>2. Short(posts) /\ posts \in Seq(Handlers) BY <1>1 DEF Short
<1>3. /\ \A n : InLoop(posts, n) <=> Bears(h, n)
      /\ \A n : Asked(posts, n) <=> h.kind = "publish" /\ h.arg = n
      /\ \A n : Sends(posts, n) <=> /\ h.kind = "enqueue"
                                    /\ h.arg.type = "PUBLISH"
                                    /\ h.arg.call = n
  BY <1>1, <1>2, ShortFacts
<1> HIDE DEF posts
<1>4. /\ \A n : InLoop(posts, n) <=> Qos0Of(f, n)
      /\ \A n : ~Asked(posts, n)
      /\ \A n : Sends(posts, n) <=> /\ kind = "enqueue"
                                    /\ f.type = "PUBLISH" /\ f.call = n
  BY <1>1, <1>3 DEF Bears
<1> QED BY <1>2, <1>4 DEF h, posts

\* The publish that is being run is nowhere else.
LEMMA AskedFacts ==
    ASSUME CInv, Running("publish")
    PROVE  /\ Arg \in PubCalls
           /\ InLoop(loop, Arg) /\ ~InLoop(Tail(loop), Arg)
           /\ Asked(loop, Arg) /\ ~Asked(Tail(loop), Arg)
           /\ ~InConn(conn, Arg) /\ ~InSes(ses, Arg)
<1>1. /\ Typed /\ loop \in Seq(Handlers) /\ loop # <<>>
      /\ Head(loop).kind = "publish"
  BY DEF CInv, Typed, Running
<1>2. Arg \in PubCalls BY <1>1, HeadTyped
<1>3. OnePlace(Arg) BY <1>2 DEF CInv
<1>4. Bears(Head(loop), Arg) BY <1>1 DEF Bears, Arg
<1>5. /\ InLoop(loop, Arg) /\ ~InLoop(Tail(loop), Arg) /\ Asked(loop, Arg)
  BY <1>1, <1>3, <1>4, TailFacts DEF OnePlace, Arg
<1>6. ~Asked(Tail(loop), Arg) BY <1>5 DEF Asked, InLoop, Bears
<1> QED BY <1>2, <1>3, <1>5, <1>6 DEF OnePlace

\* Where a publish is that no handler touches.
LEMMA UntouchedMoved ==
    ASSUME CInv, NEW n \in PubCalls, NEW e, NEW rest,
           OnceInConn(e.conn, n), InConn(e.conn, n) => InConn(conn, n),
           \A x \in e.ses.pub : x.call = n => x \in ses.pub,
           ~Told(e, n), ~InLoop(e.posts, n), ~Sends(e.posts, n)
    PROVE  Moved(e, rest, n) /\ Counts(e, rest, n)
<1>1. OnePlace(n) BY DEF CInv
<1>2. InSes(e.ses, n) => InSes(ses, n) BY DEF InSes
<1>3. OnceInSes(e.ses, n) BY <1>1 DEF OnceInSes, OnePlace
<1>4. \A t, u \in e.told :
         /\ t.what = "publish" /\ t.call = n
         /\ u.what = "publish" /\ u.call = n
         => t.ok = u.ok
  BY DEF Told
<1>5. Moved(e, rest, n) BY <1>1, <1>2, <1>3, <1>4 DEF Moved, OnePlace
<1>6. Counts(e, rest, n) BY DEF Counts
<1> QED BY <1>5, <1>6

LEMMA Qos0Keeps == ASSUME CInv, UNCHANGED setup, RunPublishQos0 PROVE CInv'
<1> DEFINE f == Frame("PUBLISH", 0, Arg)
           e == [NoEffect EXCEPT !.posts = <<Send(f)>>]
<1>1. Running("publish") /\ Handle(e)
  BY DEF RunPublishQos0, PublishAccepted
<1>2. /\ Typed /\ ses \in Sessions /\ conn \in Conns BY DEF CInv, Typed
<1>3. /\ e.ses = ses /\ e.conn = conn /\ e.told = {} /\ e.posts = <<Send(f)>>
      /\ e.read = FALSE /\ e.flush = FALSE
  BY DEF NoEffect
<1>4. f \in Frames
  <2>1. Arg \in Nat BY <1>1, <1>2, HeadTyped DEF PubCalls
  <2> QED BY <2>1, SendFacts, MaxIdAssumption DEF FrameTypes
<1>5. f.type = "PUBLISH" /\ f.pid = 0 /\ f.call = Arg BY DEF Frame
<1> HIDE DEF f, e
<1>6. /\ Short(e.posts) /\ e.posts \in Seq(Handlers)
      /\ \A n : ~Asked(e.posts, n)
      /\ \A n : InLoop(e.posts, n) <=> n = Arg
      /\ \A n : Sends(e.posts, n) <=> n = Arg
  BY <1>3, <1>4, <1>5, PostFacts DEF Send, Qos0Of
<1>7. ASSUME NEW n \in PubCalls
      PROVE  Moved(e, Tail(loop), n) /\ Counts(e, Tail(loop), n)
  <2>0. OnePlace(n) /\ ~Told(e, n) BY <1>3 DEF CInv, Told
  <2>1. CASE n # Arg BY <1>3, <1>6, <2>0, <2>1, UntouchedMoved DEF OnePlace
  <2>2. CASE n = Arg
    <3>1. /\ InLoop(loop, n) /\ ~InLoop(Tail(loop), n)
          /\ Asked(loop, n) /\ ~Asked(Tail(loop), n)
          /\ ~InConn(conn, n) /\ ~InSes(ses, n)
      BY <1>1, <2>2, AskedFacts
    <3>2. \A t \in e.told : FALSE BY <1>3
    <3>3. Moved(e, Tail(loop), n)
      BY <1>3, <2>0, <3>1, <3>2 DEF Moved, OnePlace
    <3>4. Counts(e, Tail(loop), n)
      BY <1>3, <1>6, <2>2, <3>1 DEF Counts, InSes
    <3> QED BY <3>3, <3>4
  <2> QED BY <2>1, <2>2
<1>8. ReadsOn(e) BY <1>1, <1>3 DEF ReadsOn, Running, CInv, Reading
<1>9. EffectTyped(e) /\ IdsOnceOf(e.ses)
  BY <1>2, <1>3, <1>6 DEF EffectTyped, CInv
<1>10. Sound(e, Tail(loop)) BY <1>6, <1>7, <1>8, <1>9 DEF Sound
<1> QED BY <1>1, <1>10, SoundKeeps

LEMMA PublishKeeps == ASSUME CInv, UNCHANGED setup, RunPublish PROVE CInv'
<1>1. Running("publish") /\ Typed /\ ses \in Sessions /\ conn \in Conns
      /\ nextPacketId \in Ids /\ setup \in Setup
  BY DEF CInv, Typed, RunPublish, PublishAccepted
<1>2. PICK k \in 1 .. MaxId - 1 :
         LET pid == NthId(nextPacketId, k)
             entry == [pid |-> pid, call |-> Arg,
                       attempts |-> 1, armed |-> TRUE]
         IN  /\ FirstFreeAt(nextPacketId, Pids, k)
             /\ nextPacketId' = pid
             /\ IF Cardinality(ses.pub) >= MaxPending
                THEN Do(OnWindowFull(Arg), Tail(loop))
                ELSE Do([NoEffect EXCEPT
                            !.ses = [ses EXCEPT !.pub = @ \cup {entry}],
                            !.posts = <<Send(Frame("PUBLISH", pid, Arg))>>],
                        Tail(loop))
  BY DEF RunPublish
<1> DEFINE pid == NthId(nextPacketId, k)
           entry == [pid |-> pid, call |-> Arg, attempts |-> 1, armed |-> TRUE]
<1>3. pid \in Ids /\ nextPacketId' \in Ids BY <1>1, <1>2, NthIdType
<1>4. UNCHANGED <<resolving, pubCalls, subCalls>> BY DEF RunPublish, Aside
<1>5. /\ loop # <<>> /\ Head(loop).kind # "read" /\ Tail(loop) \in Seq(Handlers)
      /\ Arg \in PubCalls
  BY <1>1, HeadTyped
<1>6. CASE Cardinality(ses.pub) >= MaxPending
  <2> DEFINE told == ToldPub(Arg, FALSE)
             more == {Frame("PUBLISH", 0, Arg)}
             e == Tells({told})
  <2>1. Do(e, Tail(loop)) BY <1>2, <1>6 DEF OnWindowFull
  <2>2. /\ e.ses = ses /\ e.conn = conn /\ e.posts = <<>> /\ e.told = {told}
        /\ e.read = FALSE /\ e.flush = FALSE
    BY DEF Tells, NoEffect
  <2>3. Fails(NoEffect, ses, conn, {})
    <3>1. Lost(ses, ses) = {} /\ DroppedQos0({}) = {} BY DEF Lost, DroppedQos0
    <3> QED BY <1>1, <3>1, NoEffectFields DEF Fails
  <2>4. Released(conn, more, Tail(loop)) BY <1>1, ReleasedFacts
  <2>5. told.ok = FALSE /\ \E i \in more : Qos0Of(i, told.call)
    BY DEF ToldPub, Qos0Of, Frame
  <2> HIDE DEF e, told, more
  <2>6. Drops(e, conn, more)
    <3>1. TellsMore(e.told, NoEffect.told, more) BY <2>2, <2>5 DEF TellsMore
    <3> QED BY <2>2, <2>3, <3>1, NoEffectFields, FailsDrops
  <2>7. <<>> \in Seq(Handlers) OBVIOUS
  <2>8. EffectTyped(e) /\ IdsOnceOf(e.ses)
    BY <1>1, <2>2, <2>7 DEF EffectTyped, CInv
  <2>9. ReadsOn(e) BY <1>1, <2>2 DEF ReadsOn, Running, CInv, Reading
  <2> QED BY <1>3, <1>4, <1>5, <2>1, <2>4, <2>6, <2>8, <2>9, DropsKeeps
<1>7. CASE ~(Cardinality(ses.pub) >= MaxPending)
  <2> DEFINE f == Frame("PUBLISH", pid, Arg)
             s == [ses EXCEPT !.pub = @ \cup {entry}]
             e == [NoEffect EXCEPT !.ses = s, !.posts = <<Send(f)>>]
  <2>1. Do(e, Tail(loop)) /\ pid \notin Pids
    BY <1>2, <1>7 DEF FirstFreeAt
  <2>2. f \in Frames
    <3>1. Arg \in Nat /\ pid \in 0 .. MaxId
      BY <1>3, <1>5, MaxIdAssumption DEF PubCalls, Ids
    <3> QED BY <3>1, SendFacts DEF FrameTypes
  <2>3. f.type = "PUBLISH" /\ f.pid = pid /\ f.call = Arg /\ pid # 0
    BY <1>3, MaxIdAssumption DEF Frame, Ids
  <2>4. entry \in PubEntries
    <3>1. 1 \in 1 .. MaxSends BY <1>1, SetupTypes
    <3> QED BY <1>3, <1>5, <3>1 DEF PubEntries
  <2>5. entry.pid = pid /\ entry.call = Arg /\ entry.attempts = 1 OBVIOUS
  <2> HIDE DEF pid, entry, f
  <2>6. /\ s \in Sessions /\ s.pub = ses.pub \cup {entry} /\ s.sub = ses.sub
        /\ s.closed = ses.closed
    BY <1>1, <2>4 DEF Sessions
  <2> HIDE DEF s
  <2>7. /\ e.ses = s /\ e.conn = conn /\ e.told = {} /\ e.posts = <<Send(f)>>
        /\ e.read = FALSE /\ e.flush = FALSE
    BY DEF NoEffect
  <2> HIDE DEF e
  <2>8. /\ Short(e.posts) /\ e.posts \in Seq(Handlers)
        /\ \A n : ~Asked(e.posts, n)
        /\ \A n : ~InLoop(e.posts, n)
        /\ \A n : Sends(e.posts, n) <=> n = Arg
    BY <2>2, <2>3, <2>7, PostFacts DEF Send, Qos0Of
  <2>9. ASSUME NEW n \in PubCalls
        PROVE  Moved(e, Tail(loop), n) /\ Counts(e, Tail(loop), n)
    <3>0. OnePlace(n) /\ ~Told(e, n) BY <2>7 DEF CInv, Told
    <3>1. CASE n # Arg
      BY <2>5, <2>6, <2>7, <2>8, <3>0, <3>1, UntouchedMoved DEF OnePlace
    <3>2. CASE n = Arg
      <4>1. /\ InLoop(loop, n) /\ ~InLoop(Tail(loop), n)
            /\ Asked(loop, n) /\ ~Asked(Tail(loop), n)
            /\ ~InConn(conn, n) /\ ~InSes(ses, n)
        BY <1>1, <3>2, AskedFacts
      <4>2. \A t \in e.told : FALSE BY <2>7
      <4>3. \A x \in e.ses.pub : x.call = n => x = entry
        BY <2>6, <2>7, <4>1 DEF InSes
      <4>4. Moved(e, Tail(loop), n)
        BY <2>7, <2>8, <3>0, <4>1, <4>2, <4>3
           DEF Moved, OnePlace, OnceInSes
      <4>5. Counts(e, Tail(loop), n)
        BY <2>5, <2>8, <3>2, <4>1, <4>3 DEF Counts
      <4> QED BY <4>4, <4>5
    <3> QED BY <3>1, <3>2
  <2>10. IdsOnceOf(e.ses)
    <3>1. /\ \A x \in ses.pub \cup ses.sub : x.pid # pid
      BY <2>1 DEF Pids
    <3> QED BY <2>5, <2>6, <2>7, <3>1 DEF IdsOnceOf, CInv
  <2>11. EffectTyped(e) BY <1>1, <2>6, <2>7, <2>8 DEF EffectTyped
  <2>12. ReadsOn(e) BY <1>1, <2>6, <2>7 DEF ReadsOn, Running, CInv, Reading
  <2>13. Sound(e, Tail(loop)) BY <2>8, <2>9, <2>10, <2>11, <2>12 DEF Sound
  <2> QED BY <1>3, <1>4, <1>5, <2>1, <2>13, DoKeeps
<1> QED BY <1>6, <1>7

LEMMA SubscribeKeeps == ASSUME CInv, UNCHANGED setup, RunSubscribe PROVE CInv'
<1>1. Running("subscribe") /\ Typed /\ ses \in Sessions /\ conn \in Conns
      /\ nextPacketId \in Ids
  BY DEF CInv, Typed, RunSubscribe
<1>2. PICK k \in 1 .. MaxId - 1 :
         LET pid == NthId(nextPacketId, k)
         IN  /\ FirstFreeAt(nextPacketId, Pids, k)
             /\ nextPacketId' = pid
             /\ Do([NoEffect EXCEPT
                      !.ses = [ses EXCEPT !.sub =
                                 @ \cup {[pid |-> pid, call |-> Arg]}],
                      !.posts = <<Send(Frame("SUBSCRIBE", pid, Arg))>>],
                   Tail(loop))
  BY DEF RunSubscribe
<1> DEFINE pid == NthId(nextPacketId, k)
           entry == [pid |-> pid, call |-> Arg]
           f == Frame("SUBSCRIBE", pid, Arg)
           s == [ses EXCEPT !.sub = @ \cup {entry}]
           e == [NoEffect EXCEPT !.ses = s, !.posts = <<Send(f)>>]
<1>3. pid \in Ids /\ nextPacketId' \in Ids BY <1>1, <1>2, NthIdType
<1>4. UNCHANGED <<resolving, pubCalls, subCalls>> BY DEF RunSubscribe, Aside
<1>5. /\ loop # <<>> /\ Head(loop).kind # "read" /\ Tail(loop) \in Seq(Handlers)
      /\ Arg \in SubCalls
  BY <1>1, HeadTyped
<1>6. Do(e, Tail(loop)) /\ pid \notin Pids BY <1>2 DEF FirstFreeAt
<1>7. Harmless(<<Send(f)>>)
  <2>1. Arg \in Nat /\ pid \in 0 .. MaxId
    BY <1>3, <1>5, MaxIdAssumption DEF SubCalls, Ids
  <2> QED BY <2>1, SendFacts DEF FrameTypes
<1>8. entry \in SubEntries /\ entry.pid = pid BY <1>3, <1>5 DEF SubEntries
<1> HIDE DEF pid, entry, f
<1>9. /\ s \in Sessions /\ s.sub = ses.sub \cup {entry} /\ s.pub = ses.pub
      /\ s.closed = ses.closed
  BY <1>1, <1>8 DEF Sessions
<1> HIDE DEF s
<1>10. /\ e.ses = s /\ e.conn = conn /\ e.told = {} /\ e.posts = <<Send(f)>>
       /\ e.read = FALSE /\ e.flush = FALSE
  BY DEF NoEffect
<1> HIDE DEF e
<1>11. IdsOnceOf(e.ses)
  <2>1. \A x \in ses.pub \cup ses.sub : x.pid # pid BY <1>6 DEF Pids
  <2> QED BY <1>8, <1>9, <1>10, <2>1 DEF IdsOnceOf, CInv
<1>12. EffectTyped(e) BY <1>1, <1>7, <1>9, <1>10, HarmlessFacts DEF EffectTyped
<1>13. ReadsOn(e) BY <1>1, <1>9, <1>10 DEF ReadsOn, Running, CInv, Reading
<1>14. Drops(e, conn, {}) BY <1>7, <1>9, <1>10, QuietDrops
<1>15. Released(conn, {}, Tail(loop)) BY ReleasedFacts
<1> QED BY <1>3, <1>4, <1>5, <1>6, <1>11, <1>12, <1>13, <1>14, <1>15, DropsKeeps

LEMMA EnqueueFacts ==
    ASSUME NEW c \in Conns, NEW f \in Frames
    PROVE  /\ Enqueue(c, f) \in Conns
           /\ Enqueue(c, f).state = c.state /\ Enqueue(c, f).closed = c.closed
           /\ \A n : InConn(Enqueue(c, f), n) => InConn(c, n) \/ Qos0Of(f, n)
           /\ \A n : OnceInConn(c, n) /\ ~(InConn(c, n) /\ Qos0Of(f, n))
                     => OnceInConn(Enqueue(c, f), n)
<1> DEFINE d == Enqueue(c, f)
           q == c.queue
<1>1. d = [c EXCEPT !.queue = Append(q, f)] BY DEF Enqueue
<1>2. q \in Seq(Frames) /\ Append(q, f) \in Seq(Frames)
  BY AppendProperties DEF Conns, Connections
<1>3. /\ d \in Conns /\ d.state = c.state /\ d.closed = c.closed
      /\ d.inFlight = c.inFlight /\ d.queue = Append(q, f)
  BY <1>1, <1>2 DEF Conns, Connections
<1>4. /\ Len(d.queue) = Len(q) + 1 /\ Len(q) \in Nat
      /\ \A i \in 1 .. Len(q) : d.queue[i] = q[i]
      /\ d.queue[Len(q) + 1] = f
      /\ \A i \in 1 .. Len(d.queue) : i \in 1 .. Len(q) \/ i = Len(q) + 1
  BY <1>2, <1>3, AppendProperties, LenProperties
<1> HIDE DEF d, q
<1>5. Queued(d) \subseteq Queued(c) \cup {f} BY <1>4 DEF Queued, q
<1>6. Held(d) \subseteq Held(c) \cup {f} BY <1>3, <1>5 DEF Held
<1>7. \A n : InConn(d, n) => InConn(c, n) \/ Qos0Of(f, n)
  BY <1>6 DEF InConn
<1>8. ASSUME NEW n, OnceInConn(c, n), ~(InConn(c, n) /\ Qos0Of(f, n))
      PROVE  OnceInConn(d, n)
  <2>1. \A i \in 1 .. Len(q) : Qos0Of(q[i], n) => ~Qos0Of(f, n)
    BY <1>8 DEF InConn, Held, Queued, q
  <2>2. c.inFlight # NoItem /\ Qos0Of(c.inFlight, n) => ~Qos0Of(f, n)
    BY <1>8 DEF InConn, Held
  <2>3. \A i, j \in 1 .. Len(d.queue) :
           Qos0Of(d.queue[i], n) /\ Qos0Of(d.queue[j], n) => i = j
    BY <1>4, <1>8, <2>1 DEF OnceInConn, q
  <2>4. c.inFlight # NoItem /\ Qos0Of(c.inFlight, n) =>
           \A i \in 1 .. Len(d.queue) : ~Qos0Of(d.queue[i], n)
    BY <1>4, <1>8, <2>2 DEF OnceInConn, q
  <2> QED BY <1>3, <2>3, <2>4 DEF OnceInConn
<1> QED BY <1>3, <1>7, <1>8 DEF d

LEMMA EnqueueKeeps == ASSUME CInv, UNCHANGED setup, RunEnqueue PROVE CInv'
<1>1. /\ Typed /\ ses \in Sessions /\ conn \in Conns /\ Running("enqueue")
      /\ loop \in Seq(Handlers)
  BY DEF CInv, Typed, RunEnqueue
<1>2. Arg \in Frames BY <1>1, HeadTyped
<1>3. ASSUME NEW n \in PubCalls, Qos0Of(Arg, n)
      PROVE  /\ InLoop(loop, n) /\ ~InLoop(Tail(loop), n)
             /\ ~InConn(conn, n) /\ ~InSes(ses, n)
  <2>1. Bears(Head(loop), n) BY <1>1, <1>3 DEF Bears, Arg, Running
  <2>2. loop # <<>> /\ OnePlace(n) BY <1>1 DEF Running, CInv
  <2> QED BY <1>1, <2>1, <2>2, TailFacts DEF OnePlace
<1>4. CASE conn.closed
  <2> DEFINE e == [NoEffect EXCEPT !.posts = <<Handler("aborted", Arg)>>]
  <2>1. Handle(e) BY <1>4 DEF RunEnqueue
  <2>2. /\ e.ses = ses /\ e.conn = conn /\ e.told = {}
        /\ e.posts = <<Handler("aborted", Arg)>>
        /\ e.read = FALSE /\ e.flush = FALSE
    BY DEF NoEffect
  <2> HIDE DEF e
  <2>3. /\ Short(e.posts) /\ e.posts \in Seq(Handlers)
        /\ \A n : ~Asked(e.posts, n) /\ ~Sends(e.posts, n)
        /\ \A n : InLoop(e.posts, n) <=> Qos0Of(Arg, n)
    BY <1>2, <2>2, PostFacts
  <2>4. ASSUME NEW n \in PubCalls
        PROVE  Moved(e, Tail(loop), n) /\ Counts(e, Tail(loop), n)
    <3>0. OnePlace(n) /\ ~Told(e, n) BY <2>2 DEF CInv, Told
    <3>1. CASE ~Qos0Of(Arg, n)
      BY <2>2, <2>3, <3>0, <3>1, UntouchedMoved DEF OnePlace
    <3>2. CASE Qos0Of(Arg, n)
      <4>1. \A t \in e.told : FALSE BY <2>2
      <4>2. Moved(e, Tail(loop), n)
        BY <1>3, <2>2, <3>0, <3>2, <4>1 DEF Moved, OnePlace
      <4>3. Counts(e, Tail(loop), n) BY <2>2, <2>3 DEF Counts
      <4> QED BY <4>2, <4>3
    <3> QED BY <3>1, <3>2
  <2>5. ReadsOn(e) BY <1>1, <2>2 DEF ReadsOn, Running, CInv, Reading
  <2>6. EffectTyped(e) /\ IdsOnceOf(e.ses)
    BY <1>1, <2>2, <2>3 DEF EffectTyped, CInv
  <2>7. Sound(e, Tail(loop)) BY <2>3, <2>4, <2>5, <2>6 DEF Sound
  <2> QED BY <1>1, <2>1, <2>7, SoundKeeps
<1>5. CASE ~conn.closed
  <2> DEFINE c == Enqueue(conn, Arg)
             e == [NoEffect EXCEPT !.conn = c, !.flush = TRUE]
  <2>1. Handle(e) BY <1>5 DEF RunEnqueue
  <2>2. /\ c \in Conns /\ (Live(c) => Live(conn))
        /\ \A n : InConn(c, n) => InConn(conn, n) \/ Qos0Of(Arg, n)
        /\ \A n : OnceInConn(conn, n) /\ ~(InConn(conn, n) /\ Qos0Of(Arg, n))
                  => OnceInConn(c, n)
    BY <1>1, <1>2, EnqueueFacts DEF Live
  <2> HIDE DEF c
  <2>3. /\ e.ses = ses /\ e.conn = c /\ e.told = {} /\ e.posts = <<>>
        /\ e.read = FALSE /\ e.flush = TRUE
    BY DEF NoEffect
  <2> HIDE DEF e
  <2>4. /\ Short(e.posts) /\ e.posts \in Seq(Handlers)
        /\ \A n : ~Asked(e.posts, n) /\ ~Sends(e.posts, n)
                  /\ ~InLoop(e.posts, n)
    BY <2>3, HarmlessFacts DEF Harmless
  <2>5. ASSUME NEW n \in PubCalls
        PROVE  Moved(e, Tail(loop), n) /\ Counts(e, Tail(loop), n)
    <3>0. OnePlace(n) /\ ~Told(e, n) BY <2>3 DEF CInv, Told
    <3>1. OnceInConn(c, n) BY <1>3, <2>2, <3>0 DEF OnePlace
    <3>2. CASE ~Qos0Of(Arg, n)
      BY <2>2, <2>3, <2>4, <3>0, <3>1, <3>2, UntouchedMoved
    <3>3. CASE Qos0Of(Arg, n)
      <4>1. \A t \in e.told : FALSE BY <2>3
      <4>2. Moved(e, Tail(loop), n)
        BY <1>3, <2>3, <2>4, <3>0, <3>1, <3>3, <4>1 DEF Moved, OnePlace
      <4>3. Counts(e, Tail(loop), n) BY <2>3, <2>4 DEF Counts
      <4> QED BY <4>2, <4>3
    <3> QED BY <3>2, <3>3
  <2>6. ReadsOn(e) BY <1>1, <2>2, <2>3 DEF ReadsOn, Running, CInv, Reading
  <2>7. EffectTyped(e) /\ IdsOnceOf(e.ses)
    BY <1>1, <2>2, <2>3, <2>4 DEF EffectTyped, CInv
  <2>8. Sound(e, Tail(loop)) BY <2>4, <2>5, <2>6, <2>7 DEF Sound
  <2> QED BY <1>1, <2>1, <2>8, SoundKeeps
<1> QED BY <1>4, <1>5

\* A timer armed anew leaves the entries what they were.
Renewed(p, q) ==
    /\ \A x \in p : \E y \in q :
          x.pid = y.pid /\ x.call = y.call /\ x.attempts = y.attempts
    /\ (\A x, y \in q : x.pid = y.pid => x = y)
          => \A x, y \in p : x.pid = y.pid => x = y

LEMMA ArmedFacts ==
    ASSUME NEW T, NEW pid,
           NEW q \in SUBSET [pid : Ids, call : PubCalls, attempts : T,
                             armed : BOOLEAN]
    PROVE  /\ Armed(q, pid) \in SUBSET [pid : Ids, call : PubCalls,
                                        attempts : T, armed : BOOLEAN]
           /\ Renewed(Armed(q, pid), q)
<1> DEFINE again(x) == IF x.pid = pid THEN [x EXCEPT !.armed = TRUE] ELSE x
           p == {again(x) : x \in q}
<1>1. Armed(q, pid) = p BY DEF Armed
<1>2. \A x \in q :
         /\ again(x) \in [pid : Ids, call : PubCalls, attempts : T,
                          armed : BOOLEAN]
         /\ again(x).pid = x.pid /\ again(x).call = x.call
         /\ again(x).attempts = x.attempts
  OBVIOUS
<1> HIDE DEF again
<1>3. Renewed(p, q) BY <1>2 DEF Renewed
<1> QED BY <1>1, <1>2, <1>3

LEMMA RenewedIds ==
    ASSUME NEW s, NEW r, IdsOnceOf(s), Renewed(r.pub, s.pub),
           r.sub \subseteq s.sub
    PROVE  IdsOnceOf(r)
BY DEF IdsOnceOf, Renewed

\* The write handlers, which find the entry or not.
LEMMA WrittenKeeps == ASSUME CInv, UNCHANGED setup, RunWritten PROVE CInv'
<1> DEFINE item == conn.inFlight
           c == TakeInFlight(conn)
           g == OnWritten(item)
           e == [g EXCEPT !.conn = c, !.flush = TRUE]
<1>1. /\ Typed /\ ses \in Sessions /\ conn \in Conns /\ setup \in Setup
      /\ Running("written") /\ conn.inFlight # NoItem
  BY DEF CInv, Typed, RunWritten, TakenOver
<1>2. /\ c \in Conns /\ (Live(c) => Live(conn))
  BY <1>1, ConnTypes DEF TakeInFlight, Live, Conns, Connections
<1>3. Released(c, {item}, Tail(loop)) /\ Released(c, {}, Tail(loop))
  BY <1>1, ReleasedFacts DEF Released
<1>4. /\ ses.pub \in SUBSET PubEntries /\ ses.rec \in SUBSET RecEntries
      /\ ses.closed \in BOOLEAN
  BY <1>1 DEF Sessions
<1>5. CASE item.type = "DISCONNECT"
  <2> DEFINE d == FailItems(ses, c, {}, TRUE)
  <2>1. Handle(d) BY <1>5 DEF RunWritten
  <2>2. Fails(d, ses, c, {}) BY <1>1, ClosingFails
  <2> HIDE DEF d, c
  <2>3. TellsMore(d.told, d.told, {}) BY DEF TellsMore
  <2>4. {} \subseteq {} /\ ses.pub \subseteq ses.pub /\ ses.sub \subseteq ses.sub
    OBVIOUS
  <2> QED BY <1>1, <1>2, <1>3, <2>1, <2>2, <2>3, <2>4, FailKeeps
<1>6. ASSUME item.type # "DISCONNECT", NEW s \in Sessions, NEW told,
             NEW read \in BOOLEAN,
             s.closed = ses.closed, Renewed(s.pub, ses.pub),
             s.sub \subseteq ses.sub,
             \A t \in told : t.what = "publish" =>
                                t.ok = TRUE /\ Qos0Of(item, t.call),
             g.ses = s, g.told = told, g.posts = <<>>, g.read = read,
             e.ses = g.ses, e.conn = c, e.told = g.told, e.posts = g.posts,
             e.read = g.read, e.flush = TRUE
      PROVE  CInv'
  <2>1. Handle(e) BY <1>6 DEF RunWritten
  <2> HIDE DEF e, g, c
  <2>2. IdsOnceOf(e.ses) BY <1>6, RenewedIds DEF CInv
  <2>3. e.posts = <<>> /\ Harmless(e.posts) BY <1>6 DEF Harmless
  <2>4. EffectTyped(e) BY <1>2, <1>6, <2>3, HarmlessFacts DEF EffectTyped
  <2>5. ReadsOn(e)
    BY <1>1, <1>2, <1>6 DEF ReadsOn, Running, CInv, Reading
  <2>6. Drops(e, c, {item})
    <3>1. TRUE \in BOOLEAN /\ {item} \in {{item}, {item} \cup CloseTells(c)}
      OBVIOUS
    <3>2. e.conn = c /\ {item} = {item} BY <1>6
    <3>3. \A t \in e.told :
             t.what = "publish" =>
                /\ t.ok = TRUE
                /\ \E f \in {item} : Qos0Of(f, t.call)
      BY <1>6
    <3>4. \A x \in e.ses.pub : \E y \in ses.pub :
             x.pid = y.pid /\ x.call = y.call /\ x.attempts = y.attempts
      BY <1>6 DEF Renewed
    <3> QED BY <2>3, <3>1, <3>2, <3>3, <3>4 DEF Drops
  <2> QED BY <1>1, <1>3, <2>1, <2>2, <2>4, <2>5, <2>6, HandleDrops
<1>7. Renewed(ses.pub, ses.pub) /\ ses.sub \subseteq ses.sub
  BY DEF Renewed
<1>8. CASE item.type = "CONNECT"
  <2> DEFINE ping == IF KeepAlive THEN "ping" ELSE ses.ping
             s == [ses EXCEPT !.ping = ping]
  <2>1. g = [NoEffect EXCEPT !.ses.ping = IF KeepAlive THEN "ping" ELSE @,
                             !.read = TRUE]
    BY <1>8 DEF OnWritten
  <2>2. /\ g.ses = s /\ g.told = {} /\ g.posts = <<>> /\ g.read = TRUE
        /\ e.ses = g.ses /\ e.conn = c /\ e.told = g.told /\ e.posts = g.posts
        /\ e.read = g.read /\ e.flush = TRUE
    BY <2>1 DEF NoEffect
  <2>3. ping \in {"off", "ping", "pong"} BY <1>1 DEF Sessions
  <2> HIDE DEF ping
  <2>4. /\ s \in Sessions /\ s.closed = ses.closed /\ s.pub = ses.pub
        /\ s.sub = ses.sub
    BY <1>1, <2>3 DEF Sessions
  <2> HIDE DEF g, e, s, c
  <2>5. item.type # "DISCONNECT" BY <1>8
  <2> QED BY <1>6, <1>7, <2>2, <2>4, <2>5
<1>9. CASE item.type = "PUBLISH" /\ item.pid = 0
  <2> DEFINE told == {ToldPub(item.call, TRUE)}
  <2>1. g = Tells(told) BY <1>9 DEF OnWritten
  <2>2. /\ g.ses = ses /\ g.told = told /\ g.posts = <<>> /\ g.read = FALSE
        /\ e.ses = g.ses /\ e.conn = c /\ e.told = g.told /\ e.posts = g.posts
        /\ e.read = g.read /\ e.flush = TRUE
    BY <2>1 DEF Tells, NoEffect
  <2>3. \A t \in told : t.ok = TRUE /\ Qos0Of(item, t.call)
    BY <1>9 DEF ToldPub, Qos0Of
  <2>4. item.type # "DISCONNECT" BY <1>9
  <2> HIDE DEF g, e, c, told
  <2> QED BY <1>1, <1>6, <1>7, <2>2, <2>3, <2>4
<1>10. CASE item.type = "PUBLISH" /\ item.pid # 0
  <2> DEFINE s == [ses EXCEPT !.pub = Armed(ses.pub, item.pid)]
  <2>1. g = [NoEffect EXCEPT !.ses.pub = Armed(@, item.pid)]
    BY <1>10 DEF OnWritten
  <2>2. /\ g.ses = s /\ g.told = {} /\ g.posts = <<>> /\ g.read = FALSE
        /\ e.ses = g.ses /\ e.conn = c /\ e.told = g.told /\ e.posts = g.posts
        /\ e.read = g.read /\ e.flush = TRUE
    BY <2>1 DEF NoEffect
  <2>3. /\ Armed(ses.pub, item.pid) \in SUBSET PubEntries
        /\ Renewed(Armed(ses.pub, item.pid), ses.pub)
    BY <1>4, ArmedFacts DEF PubEntries
  <2>4. /\ s \in Sessions /\ s.closed = ses.closed
        /\ s.pub = Armed(ses.pub, item.pid) /\ s.sub = ses.sub
    BY <1>1, <2>3 DEF Sessions
  <2>5. item.type # "DISCONNECT" BY <1>10
  <2> HIDE DEF g, e, s, c
  <2> QED BY <1>6, <1>7, <2>2, <2>3, <2>4, <2>5
<1>11. CASE item.type = "PUBREL"
  <2> DEFINE s == [ses EXCEPT !.rec = Armed(ses.rec, item.pid)]
  <2>1. g = [NoEffect EXCEPT !.ses.rec = Armed(@, item.pid)]
    BY <1>11 DEF OnWritten
  <2>2. /\ g.ses = s /\ g.told = {} /\ g.posts = <<>> /\ g.read = FALSE
        /\ e.ses = g.ses /\ e.conn = c /\ e.told = g.told /\ e.posts = g.posts
        /\ e.read = g.read /\ e.flush = TRUE
    BY <2>1 DEF NoEffect
  <2>3. Armed(ses.rec, item.pid) \in SUBSET RecEntries
    BY <1>4, ArmedFacts DEF RecEntries
  <2>4. /\ s \in Sessions /\ s.closed = ses.closed /\ s.pub = ses.pub
        /\ s.sub = ses.sub
    BY <1>1, <2>3 DEF Sessions
  <2>5. item.type # "DISCONNECT" BY <1>11
  <2> HIDE DEF g, e, s, c
  <2> QED BY <1>6, <1>7, <2>2, <2>4, <2>5
<1>12. CASE item.type = "SUBSCRIBE"
  <2> DEFINE told == {ToldSub(x.call, TRUE) :
                         x \in {y \in ses.sub : y.pid = item.pid}}
  <2>1. g = Tells(told) BY <1>12 DEF OnWritten
  <2>2. /\ g.ses = ses /\ g.told = told /\ g.posts = <<>> /\ g.read = FALSE
        /\ e.ses = g.ses /\ e.conn = c /\ e.told = g.told /\ e.posts = g.posts
        /\ e.read = g.read /\ e.flush = TRUE
    BY <2>1 DEF Tells, NoEffect
  <2>3. \A t \in told : t.what # "publish" BY DEF ToldSub
  <2>4. item.type # "DISCONNECT" BY <1>12
  <2> HIDE DEF g, e, c, told
  <2> QED BY <1>1, <1>6, <1>7, <2>2, <2>3, <2>4
<1>13. CASE item.type = "PINGREQ"
  <2> DEFINE s == [ses EXCEPT !.ping = "pong"]
  <2>1. g = AwaitPong BY <1>13 DEF OnWritten
  <2>2. /\ g.ses = s /\ g.told = {} /\ g.posts = <<>> /\ g.read = FALSE
        /\ e.ses = g.ses /\ e.conn = c /\ e.told = g.told /\ e.posts = g.posts
        /\ e.read = g.read /\ e.flush = TRUE
    BY <2>1 DEF AwaitPong, NoEffect
  <2>3. /\ s \in Sessions /\ s.closed = ses.closed /\ s.pub = ses.pub
        /\ s.sub = ses.sub
    BY <1>1 DEF Sessions
  <2>4. item.type # "DISCONNECT" BY <1>13
  <2> HIDE DEF g, e, s, c
  <2> QED BY <1>6, <1>7, <2>2, <2>3, <2>4
<1>14. CASE item.type \notin {"CONNECT", "PUBLISH", "PUBREL", "SUBSCRIBE",
                              "PINGREQ", "DISCONNECT"}
  <2>1. g = NoEffect BY <1>14 DEF OnWritten
  <2>2. /\ g.ses = ses /\ g.told = {} /\ g.posts = <<>> /\ g.read = FALSE
        /\ e.ses = g.ses /\ e.conn = c /\ e.told = g.told /\ e.posts = g.posts
        /\ e.read = g.read /\ e.flush = TRUE
    BY <2>1 DEF NoEffect
  <2>3. item.type # "DISCONNECT" BY <1>14
  <2> HIDE DEF g, e, c
  <2> QED BY <1>1, <1>6, <1>7, <2>2, <2>3
<1> QED BY <1>5, <1>8, <1>9, <1>10, <1>11, <1>12, <1>13, <1>14

-----------------------------------------------------------------------------
(* The packets of the broker *)

\* Most packets find an entry or not, and may take it away.
LEMMA PacketKeeps ==
    ASSUME CInv, UNCHANGED setup, Running("packet"), NEW e, Handle(e),
           e.ses \in Sessions, e.conn \in Conns,
           e.conn.queue = conn.queue, e.conn.inFlight = conn.inFlight,
           Live(e.conn) => ~e.ses.closed,
           Renewed(e.ses.pub, ses.pub), e.ses.sub \subseteq ses.sub,
           Harmless(e.posts), e.read = TRUE, e.flush = FALSE,
           \A t \in e.told :
              t.what = "publish" =>
                 t.ok = TRUE /\ InSes(ses, t.call) /\ ~InSes(e.ses, t.call)
    PROVE  CInv'
<1> DEFINE c == e.conn
<1>1. IdsOnceOf(e.ses) BY RenewedIds DEF CInv
<1>2. EffectTyped(e) BY HarmlessFacts DEF EffectTyped
<1>3. ReadsOn(e) BY DEF ReadsOn
<1>4. Drops(e, c, {})
  <2>1. TRUE \in BOOLEAN /\ {} \in {{}, {} \cup CloseTells(c)} OBVIOUS
  <2>2. e.conn = c OBVIOUS
  <2>3. \A x \in e.ses.pub : \E y \in ses.pub :
           x.pid = y.pid /\ x.call = y.call /\ x.attempts = y.attempts
    BY DEF Renewed
  <2> HIDE DEF c
  <2> QED BY <2>1, <2>2, <2>3 DEF Drops
<1>5. Released(c, {}, Tail(loop)) BY ReleasedFacts
<1> HIDE DEF c
<1>6. "packet" # "read" OBVIOUS
<1> QED BY <1>1, <1>2, <1>3, <1>4, <1>5, <1>6, HandleDrops

\* A packet may end the session.
LEMMA PacketFails ==
    ASSUME CInv, UNCHANGED setup, Running("packet"),
           NEW f, NEW s \in Sessions, Fails(f, s, conn, {}),
           s.pub \subseteq ses.pub, s.sub \subseteq ses.sub,
           f.conn = Close(conn) \/ s.closed = ses.closed,
           NEW e, Handle(e), e.ses = f.ses, e.conn = f.conn,
           e.posts = f.posts, e.read \in BOOLEAN, e.flush = FALSE,
           e.told = f.told, e.read = TRUE \/ f.conn = Close(conn)
    PROVE  CInv'
<1>1. conn \in Conns /\ Close(conn) \in Conns BY ConnTypes DEF CInv, Typed
<1>2. IdsOnceOf(e.ses)
  <2>1. e.ses.pub \subseteq ses.pub /\ e.ses.sub \subseteq ses.sub
    BY DEF Fails
  <2> QED BY <2>1, PartIds DEF CInv
<1>3. EffectTyped(e)
  <2>1. <<>> \in Seq(Handlers) OBVIOUS
  <2> QED BY <1>1, <2>1 DEF EffectTyped, Fails
<1>4. ReadsOn(e)
  <2>1. CASE e.conn = Close(conn) BY <2>1, CloseHolds DEF ReadsOn
  <2>2. CASE e.conn # Close(conn)
    BY <2>2 DEF ReadsOn, Fails, CInv, Reading
  <2> QED BY <2>1, <2>2
<1>5. Drops(e, conn, {})
  <2>1. TellsMore(e.told, f.told, {}) BY DEF TellsMore
  <2>2. {} \subseteq {} OBVIOUS
  <2> QED BY <2>1, <2>2, FailsDrops
<1>6. Released(conn, {}, Tail(loop)) BY ReleasedFacts
<1>7. "packet" # "read" OBVIOUS
<1> QED BY <1>2, <1>3, <1>4, <1>5, <1>6, <1>7, HandleDrops

\* The read that follows does not change what a failure leaves.
LEMMA ReadFields ==
    ASSUME NEW s
    PROVE  /\ [NotifyClosedOnce(s) EXCEPT !.read = TRUE].ses
                = NotifyClosedOnce(s).ses
           /\ [NotifyClosedOnce(s) EXCEPT !.read = TRUE].conn
                = NotifyClosedOnce(s).conn
           /\ [NotifyClosedOnce(s) EXCEPT !.read = TRUE].told
                = NotifyClosedOnce(s).told
           /\ [NotifyClosedOnce(s) EXCEPT !.read = TRUE].posts
                = NotifyClosedOnce(s).posts
           /\ [NotifyClosedOnce(s) EXCEPT !.read = TRUE].flush
                = NotifyClosedOnce(s).flush
           /\ [NotifyClosedOnce(s) EXCEPT !.read = TRUE].read = TRUE
           /\ [Abandon(s) EXCEPT !.read = TRUE].ses = Abandon(s).ses
           /\ [Abandon(s) EXCEPT !.read = TRUE].conn = Abandon(s).conn
           /\ [Abandon(s) EXCEPT !.read = TRUE].told = Abandon(s).told
           /\ [Abandon(s) EXCEPT !.read = TRUE].posts = Abandon(s).posts
           /\ [Abandon(s) EXCEPT !.read = TRUE].flush = Abandon(s).flush
           /\ [Abandon(s) EXCEPT !.read = TRUE].read = TRUE
BY DEF NotifyClosedOnce, Abandon, FailItems, NoEffect

\* An acknowledged entry leaves, and no other entry has its call.
LEMMA WithoutFacts ==
    ASSUME CInv, NEW pid
    PROVE  /\ Without(ses.pub, pid) \subseteq ses.pub
           /\ Renewed(Without(ses.pub, pid), ses.pub)
           /\ \A n \in CallsOf(ses.pub, pid) :
                 /\ n \in PubCalls /\ InSes(ses, n)
                 /\ \A x \in Without(ses.pub, pid) : x.call # n
<1>1. Without(ses.pub, pid) \subseteq ses.pub BY DEF Without
<1>2. Renewed(Without(ses.pub, pid), ses.pub) BY <1>1 DEF Renewed
<1>3. ASSUME NEW n \in CallsOf(ses.pub, pid)
      PROVE  /\ n \in PubCalls /\ InSes(ses, n)
             /\ \A x \in Without(ses.pub, pid) : x.call # n
  <2>1. PICK y \in ses.pub : y.pid = pid /\ y.call = n BY DEF CallsOf
  <2>2. n \in PubCalls
    BY <2>1 DEF CInv, Typed, Sessions, PubEntries
  <2>3. OnceInSes(ses, n) BY <2>2 DEF CInv, OnePlace
  <2>4. \A x \in Without(ses.pub, pid) : x.call # n
    BY <2>1, <2>3 DEF Without, OnceInSes
  <2> QED BY <2>1, <2>2, <2>4 DEF InSes
<1> QED BY <1>1, <1>2, <1>3

\* The timer of an entry stops.
LEMMA DisarmedFacts ==
    ASSUME NEW T, NEW mine, NEW q, mine \subseteq q,
           q \in SUBSET [pid : Ids, call : PubCalls, attempts : T,
                         armed : BOOLEAN]
    PROVE  /\ (q \ mine) \cup {[x EXCEPT !.armed = FALSE] : x \in mine}
                \in SUBSET [pid : Ids, call : PubCalls, attempts : T,
                            armed : BOOLEAN]
           /\ Renewed((q \ mine) \cup {[x EXCEPT !.armed = FALSE] : x \in mine},
                      q)
<1> DEFINE off(x) == [x EXCEPT !.armed = FALSE]
           p == (q \ mine) \cup {off(x) : x \in mine}
<1>1. \A x \in q :
         /\ off(x) \in [pid : Ids, call : PubCalls, attempts : T,
                        armed : BOOLEAN]
         /\ off(x).pid = x.pid /\ off(x).call = x.call
         /\ off(x).attempts = x.attempts
  OBVIOUS
<1> HIDE DEF off
<1>2. p \in SUBSET [pid : Ids, call : PubCalls, attempts : T, armed : BOOLEAN]
  BY <1>1
<1>3. \A x \in p : \E y \in q :
         /\ x.pid = y.pid /\ x.call = y.call /\ x.attempts = y.attempts
         /\ (y \in mine /\ x = off(y)) \/ (y \notin mine /\ x = y)
  BY <1>1
<1> HIDE DEF p
<1>4. Renewed(p, q) BY <1>3 DEF Renewed
<1> QED BY <1>2, <1>4 DEF p, off

\* The PUBREC: the PUBLISH timer stops and a PUBREL entry is made.
LEMMA PubrecKeeps ==
    ASSUME CInv, UNCHANGED setup, Running("packet"), NEW pid,
           Handle([OnPubrec(pid) EXCEPT !.read = TRUE])
    PROVE  CInv'
<1>1. /\ Typed /\ ses \in Sessions /\ conn \in Conns /\ setup \in Setup
      /\ (Live(conn) => ~ses.closed)
  BY DEF CInv, Typed, Reading
<1>2. CASE CallsOf(ses.pub, pid) = {}
  <2> DEFINE e == [NoEffect EXCEPT !.read = TRUE]
  <2>1. Handle(e) BY <1>2 DEF OnPubrec
  <2>2. /\ e.ses = ses /\ e.conn = conn /\ e.told = {} /\ e.posts = <<>>
        /\ e.read = TRUE /\ e.flush = FALSE
    BY DEF NoEffect
  <2>3. Harmless(e.posts) /\ Renewed(ses.pub, ses.pub)
    BY <2>2 DEF Harmless, Renewed
  <2> HIDE DEF e
  <2> QED BY <1>1, <2>1, <2>2, <2>3, PacketKeeps
<1>3. CASE CallsOf(ses.pub, pid) # {}
  <2> DEFINE n == CHOOSE x \in CallsOf(ses.pub, pid) : TRUE
             mine == {x \in ses.pub : x.pid = pid}
             pub == (ses.pub \ mine)
                    \cup {[x EXCEPT !.armed = FALSE] : x \in mine}
             rec == Without(ses.rec, pid) \cup {PubrelEntry(pid, n)}
             posts == <<Send(Frame("PUBREL", pid, n))>>
             g == [NoEffect EXCEPT !.ses.pub =
                                      (@ \ mine) \cup
                                      {[x EXCEPT !.armed = FALSE] : x \in mine},
                                   !.ses.rec = Without(@, pid)
                                               \cup {PubrelEntry(pid, n)},
                                   !.posts = posts]
             e == [g EXCEPT !.read = TRUE]
  <2>1. OnPubrec(pid) = g BY <1>3 DEF OnPubrec
  <2>2. Handle(e) BY <2>1
  <2>3. n \in CallsOf(ses.pub, pid) BY <1>3
  <2>4. PICK y \in ses.pub : y.pid = pid /\ y.call = n BY <2>3 DEF CallsOf
  <2>5. /\ ses.pub \in SUBSET PubEntries /\ ses.rec \in SUBSET RecEntries
    BY <1>1 DEF Sessions
  <2>6. pid \in Ids /\ n \in PubCalls BY <2>4, <2>5 DEF PubEntries
  <2>7. rec \in SUBSET RecEntries
    <3>1. 0 \in 0 .. MaxSends BY <1>1, SetupTypes
    <3>2. PubrelEntry(pid, n) \in RecEntries
      BY <2>6, <3>1 DEF PubrelEntry, RecEntries
    <3>3. Without(ses.rec, pid) \subseteq RecEntries BY <2>5 DEF Without
    <3> QED BY <3>2, <3>3
  <2>8. pub \in SUBSET PubEntries /\ Renewed(pub, ses.pub)
    <3>1. mine \subseteq ses.pub OBVIOUS
    <3> HIDE DEF mine
    <3> QED BY <2>5, <3>1, DisarmedFacts DEF PubEntries
  <2>9. Harmless(posts)
    <3>1. n \in Nat /\ pid \in 0 .. MaxId
      BY <2>6, MaxIdAssumption DEF PubCalls, Ids
    <3>2. "PUBREL" \in FrameTypes BY DEF FrameTypes
    <3> QED BY <3>1, <3>2, SendFacts
  <2> HIDE DEF n, mine, posts
  <2>10. /\ e.ses = [ses EXCEPT !.pub = pub, !.rec = rec] /\ e.conn = conn
         /\ e.told = {} /\ e.posts = posts
         /\ e.read = TRUE /\ e.flush = FALSE
    BY DEF NoEffect
  <2> HIDE DEF e, g, pub, rec
  <2>11. /\ e.ses \in Sessions /\ e.ses.pub = pub /\ e.ses.sub = ses.sub
         /\ e.ses.closed = ses.closed
    BY <1>1, <2>7, <2>8, <2>10 DEF Sessions
  <2> QED BY <1>1, <2>2, <2>8, <2>9, <2>10, <2>11, PacketKeeps
<1> QED BY <1>2, <1>3

\* The PUBACK and the PUBCOMP: the publish is answered.
LEMMA AcknowledgedKeeps ==
    ASSUME CInv, UNCHANGED setup, Running("packet"), NEW pid,
           \/ Handle([OnPuback(pid) EXCEPT !.read = TRUE])
           \/ Handle([OnPubcomp(pid) EXCEPT !.read = TRUE])
    PROVE  CInv'
<1> DEFINE pub == Without(ses.pub, pid)
           told == {ToldPub(n, TRUE) : n \in CallsOf(ses.pub, pid)}
<1>1. /\ Typed /\ ses \in Sessions /\ conn \in Conns
      /\ (Live(conn) => ~ses.closed)
  BY DEF CInv, Typed, Reading
<1>2. /\ pub \subseteq ses.pub /\ Renewed(pub, ses.pub)
      /\ \A n \in CallsOf(ses.pub, pid) :
            InSes(ses, n) /\ \A x \in pub : x.call # n
  BY WithoutFacts
<1>3. \A t \in told : t.ok = TRUE /\ t.call \in CallsOf(ses.pub, pid)
  BY DEF ToldPub
<1>4. Harmless(<<>>) BY DEF Harmless
<1>5. CASE Handle([OnPuback(pid) EXCEPT !.read = TRUE])
  <2> DEFINE e == [OnPuback(pid) EXCEPT !.read = TRUE]
  <2>1. /\ e.ses = [ses EXCEPT !.pub = pub] /\ e.conn = conn
        /\ e.told = told /\ e.posts = <<>> /\ e.read = TRUE /\ e.flush = FALSE
    BY DEF OnPuback, NoEffect
  <2>2. Handle(e) BY <1>5
  <2> HIDE DEF e, pub, told
  <2>3. /\ e.ses \in Sessions /\ e.ses.pub = pub /\ e.ses.sub = ses.sub
        /\ e.ses.closed = ses.closed
    BY <1>1, <1>2, <2>1 DEF Sessions
  <2>4. \A t \in e.told :
           t.ok = TRUE /\ InSes(ses, t.call) /\ ~InSes(e.ses, t.call)
    BY <1>2, <1>3, <2>1, <2>3 DEF InSes
  <2> QED BY <1>1, <1>2, <1>4, <2>1, <2>2, <2>3, <2>4, PacketKeeps
<1>6. CASE Handle([OnPubcomp(pid) EXCEPT !.read = TRUE])
  <2> DEFINE rec == Without(ses.rec, pid)
             e == [OnPubcomp(pid) EXCEPT !.read = TRUE]
  <2>1. /\ e.ses = [ses EXCEPT !.rec = rec, !.pub = pub] /\ e.conn = conn
        /\ e.told = told /\ e.posts = <<>> /\ e.read = TRUE /\ e.flush = FALSE
    BY DEF OnPubcomp, NoEffect
  <2>2. Handle(e) BY <1>6
  <2>3. rec \subseteq ses.rec BY DEF Without
  <2> HIDE DEF e, pub, told, rec
  <2>4. /\ e.ses \in Sessions /\ e.ses.pub = pub /\ e.ses.sub = ses.sub
        /\ e.ses.closed = ses.closed
    <3>1. pub \subseteq PubEntries /\ rec \subseteq RecEntries
      BY <1>1, <1>2, <2>3 DEF Sessions
    <3> QED BY <1>1, <2>1, <3>1 DEF Sessions
  <2>5. \A t \in e.told :
           t.ok = TRUE /\ InSes(ses, t.call) /\ ~InSes(e.ses, t.call)
    BY <1>2, <1>3, <2>1, <2>4 DEF InSes
  <2> QED BY <1>1, <1>2, <1>4, <2>1, <2>2, <2>4, <2>5, PacketKeeps
<1> QED BY <1>5, <1>6

\* The SUBACK: granted, refused, or with too few codes.
LEMMA SubackKeeps ==
    ASSUME CInv, UNCHANGED setup, Running("packet"), NEW pid, NEW how,
           Handle([OnSuback(pid, how) EXCEPT !.read = TRUE])
    PROVE  CInv'
<1> DEFINE s == [ses EXCEPT !.sub = Without(@, pid)]
           told(ok) == {ToldSub(n, ok) : n \in CallsOf(ses.sub, pid)}
<1>1. /\ Typed /\ ses \in Sessions /\ conn \in Conns
      /\ (Live(conn) => ~ses.closed)
  BY DEF CInv, Typed, Reading
<1>2. /\ s \in Sessions /\ s.pub = ses.pub /\ s.sub \subseteq ses.sub
      /\ s.closed = ses.closed
  BY <1>1 DEF Sessions, Without
<1>3. Harmless(<<>>) /\ Renewed(ses.pub, ses.pub) BY DEF Harmless, Renewed
<1>4. CASE s = ses
  <2> DEFINE e == [NoEffect EXCEPT !.read = TRUE]
  <2>1. OnSuback(pid, how) = NoEffect BY <1>4 DEF OnSuback
  <2>2. Handle(e) BY <2>1
  <2>3. /\ e.ses = ses /\ e.conn = conn /\ e.told = {} /\ e.posts = <<>>
        /\ e.read = TRUE /\ e.flush = FALSE
    BY DEF NoEffect
  <2> HIDE DEF e
  <2> QED BY <1>1, <1>3, <2>2, <2>3, PacketKeeps
<1>5. CASE s # ses /\ how = "short"
  <2> DEFINE e == [NotifyClosedOnce(s) EXCEPT !.read = TRUE]
  <2>1. OnSuback(pid, how) = NotifyClosedOnce(s) BY <1>5 DEF OnSuback
  <2>2. Handle(e) BY <2>1
  <2> HIDE DEF s
  <2>3. /\ e.ses = NotifyClosedOnce(s).ses /\ e.conn = NotifyClosedOnce(s).conn
        /\ e.told = NotifyClosedOnce(s).told
        /\ e.posts = NotifyClosedOnce(s).posts
        /\ e.flush = NotifyClosedOnce(s).flush /\ e.read = TRUE
    BY ReadFields
  <2>4. Fails(NotifyClosedOnce(s), s, conn, {}) BY <1>2, NotifyFails
  <2>5. e.flush = FALSE BY <2>3, <2>4 DEF Fails
  <2> HIDE DEF e
  <2> QED BY <1>2, <2>2, <2>3, <2>4, <2>5, PacketFails
<1>6. CASE s # ses /\ how # "short"
  <2> DEFINE heard == told(how = "granted")
             e == [NoEffect EXCEPT !.ses = s, !.told = heard, !.read = TRUE]
  <2>1. OnSuback(pid, how) = [NoEffect EXCEPT !.ses = s, !.told = heard]
    BY <1>6 DEF OnSuback
  <2>2. [[NoEffect EXCEPT !.ses = s, !.told = heard] EXCEPT !.read = TRUE] = e
    BY DEF NoEffect
  <2>3. Handle(e) BY <2>1, <2>2
  <2>4. \A t \in heard : t.what # "publish" BY DEF ToldSub
  <2> HIDE DEF heard, s
  <2>5. /\ e.ses = s /\ e.conn = conn /\ e.told = heard /\ e.posts = <<>>
        /\ e.read = TRUE /\ e.flush = FALSE
    BY DEF NoEffect
  <2> HIDE DEF e
  <2> QED BY <1>1, <1>2, <1>3, <2>3, <2>4, <2>5, PacketKeeps
<1> QED BY <1>4, <1>5, <1>6

\* The CONNACK.
LEMMA ConnackKeeps ==
    ASSUME CInv, UNCHANGED setup, Running("packet"), NEW how,
           Handle([OnConnack(how) EXCEPT !.read = TRUE])
    PROVE  CInv'
<1> DEFINE s == [ses EXCEPT !.connTimer = FALSE]
<1>1. Typed /\ ses \in Sessions /\ conn \in Conns BY DEF CInv, Typed
<1>2. /\ s \in Sessions /\ s.pub = ses.pub /\ s.sub = ses.sub
      /\ s.closed = ses.closed
  BY <1>1 DEF Sessions
<1>3. CASE how = "granted"
  <2> DEFINE t == [s EXCEPT !.closed = FALSE]
             c == [conn EXCEPT !.state = "connected"]
             e == [[NoEffect EXCEPT !.ses = t, !.conn = c,
                                    !.event = "connected"]
                      EXCEPT !.read = TRUE]
  <2>1. Handle(e) BY <1>3 DEF OnConnack
  <2>2. /\ c \in Conns /\ c.queue = conn.queue /\ c.inFlight = conn.inFlight
    <3>1. "connected" \in ConnectionStates BY DEF ConnectionStates
    <3>2. c \in Conns BY <1>1, <3>1, ConnTypes
    <3> QED BY <1>1, <3>2 DEF Conns, Connections
  <2>3. /\ t \in Sessions /\ t.pub = ses.pub /\ t.sub = ses.sub
        /\ t.closed = FALSE
    BY <1>1 DEF Sessions
  <2> HIDE DEF t, c, s
  <2>4. /\ e.ses = t /\ e.conn = c /\ e.told = {} /\ e.posts = <<>>
        /\ e.read = TRUE /\ e.flush = FALSE
    BY DEF NoEffect
  <2>5. Harmless(e.posts) /\ Renewed(ses.pub, ses.pub)
    BY <2>4 DEF Harmless, Renewed
  <2> HIDE DEF e
  <2> QED BY <2>1, <2>2, <2>3, <2>4, <2>5, PacketKeeps
<1>4. CASE how # "granted"
  <2> DEFINE e == [Abandon(s) EXCEPT !.read = TRUE]
  <2>1. Handle(e) BY <1>4 DEF OnConnack
  <2> HIDE DEF s
  <2>2. /\ e.ses = Abandon(s).ses /\ e.conn = Abandon(s).conn
        /\ e.told = Abandon(s).told /\ e.posts = Abandon(s).posts
        /\ e.flush = Abandon(s).flush /\ e.read = TRUE
    BY ReadFields
  <2>3. Fails(Abandon(s), s, conn, {}) /\ Abandon(s).conn = Close(conn)
    BY <1>2, AbandonFails
  <2>4. e.flush = FALSE BY <2>2, <2>3 DEF Fails
  <2> HIDE DEF e
  <2> QED BY <1>2, <2>1, <2>2, <2>3, <2>4, PacketFails
<1> QED BY <1>3, <1>4

\* A PUBLISH, a PUBREL and a PINGRESP are answered, or leave everything.
LEMMA AnsweredKeeps ==
    ASSUME CInv, UNCHANGED setup, Running("packet"), NEW posts,
           Harmless(posts),
           Handle([[NoEffect EXCEPT !.posts = posts] EXCEPT !.read = TRUE])
    PROVE  CInv'
<1> DEFINE e == [[NoEffect EXCEPT !.posts = posts] EXCEPT !.read = TRUE]
<1>1. /\ ses \in Sessions /\ conn \in Conns /\ (Live(conn) => ~ses.closed)
  BY DEF CInv, Typed, Reading
<1>2. /\ e.ses = ses /\ e.conn = conn /\ e.told = {} /\ e.posts = posts
      /\ e.read = TRUE /\ e.flush = FALSE
  BY DEF NoEffect
<1>3. Handle(e) OBVIOUS
<1>4. Renewed(ses.pub, ses.pub) BY DEF Renewed
<1> HIDE DEF e
<1> QED BY <1>1, <1>2, <1>3, <1>4, PacketKeeps

\* notify_closed_once(), for an unknown qos or a broken stream.
LEMMA PacketNotifies ==
    ASSUME CInv, UNCHANGED setup, Running("packet"), NEW e, Handle(e),
           e.ses = NotifyClosedOnce(ses).ses,
           e.conn = NotifyClosedOnce(ses).conn,
           e.told = NotifyClosedOnce(ses).told,
           e.posts = NotifyClosedOnce(ses).posts,
           e.flush = NotifyClosedOnce(ses).flush, e.read \in BOOLEAN,
           e.read = TRUE \/ NotifyClosedOnce(ses).conn = Close(conn)
    PROVE  CInv'
<1>1. ses \in Sessions BY DEF CInv, Typed
<1>2. Fails(NotifyClosedOnce(ses), ses, conn, {}) BY <1>1, NotifyFails
<1>3. e.flush = FALSE BY <1>2 DEF Fails
<1> QED BY <1>1, <1>2, <1>3, PacketFails

LEMMA PublishPacketKeeps ==
    ASSUME CInv, UNCHANGED setup, Running("packet"), NEW qos,
           Handle([OnPublish(qos) EXCEPT !.read = TRUE])
    PROVE  CInv'
<1>1. /\ "PUBACK" \in FrameTypes /\ "PUBREC" \in FrameTypes
      /\ "PUBACK" # "PUBLISH" /\ "PUBREC" # "PUBLISH"
  BY DEF FrameTypes
<1>2. /\ Harmless(<<>>) /\ Harmless(<<Send(Plain("PUBACK"))>>)
      /\ Harmless(<<Send(Plain("PUBREC"))>>)
  BY <1>1, PlainFacts DEF Harmless
<1>3. CASE qos = 0
  <2>1. OnPublish(qos) = NoEffect BY <1>3 DEF OnPublish
  <2> DEFINE e == [NoEffect EXCEPT !.read = TRUE]
  <2>2. Handle(e) BY <2>1
  <2>3. /\ e.ses = ses /\ e.conn = conn /\ e.told = {} /\ e.posts = <<>>
        /\ e.read = TRUE /\ e.flush = FALSE
    BY DEF NoEffect
  <2>4. /\ ses \in Sessions /\ conn \in Conns /\ (Live(conn) => ~ses.closed)
        /\ Renewed(ses.pub, ses.pub)
    BY DEF CInv, Typed, Reading, Renewed
  <2> HIDE DEF e
  <2> QED BY <1>2, <2>2, <2>3, <2>4, PacketKeeps
<1>4. CASE qos = 1
  <2> DEFINE posts == <<Send(Plain("PUBACK"))>>
  <2>1. OnPublish(qos) = [NoEffect EXCEPT !.posts = posts]
    BY <1>4 DEF OnPublish
  <2> HIDE DEF posts
  <2> QED BY <1>2, <2>1, AnsweredKeeps DEF posts
<1>5. CASE qos = 2
  <2> DEFINE posts == <<Send(Plain("PUBREC"))>>
  <2>1. OnPublish(qos) = [NoEffect EXCEPT !.posts = posts]
    BY <1>5 DEF OnPublish
  <2> HIDE DEF posts
  <2> QED BY <1>2, <2>1, AnsweredKeeps DEF posts
<1>6. CASE qos \notin {0, 1, 2}
  <2> DEFINE e == [NotifyClosedOnce(ses) EXCEPT !.read = TRUE]
  <2>1. OnPublish(qos) = NotifyClosedOnce(ses) BY <1>6 DEF OnPublish
  <2>2. Handle(e) BY <2>1
  <2>3. /\ e.ses = NotifyClosedOnce(ses).ses
        /\ e.conn = NotifyClosedOnce(ses).conn
        /\ e.told = NotifyClosedOnce(ses).told
        /\ e.posts = NotifyClosedOnce(ses).posts
        /\ e.flush = NotifyClosedOnce(ses).flush /\ e.read = TRUE
    BY ReadFields
  <2> HIDE DEF e
  <2> QED BY <2>2, <2>3, PacketNotifies
<1> QED BY <1>3, <1>4, <1>5, <1>6

LEMMA RunPacketKeeps == ASSUME CInv, UNCHANGED setup, RunPacket PROVE CInv'
<1> DEFINE p == Arg
<1>1. Running("packet") /\ Handle([OnPacket(p) EXCEPT !.read = TRUE])
  BY DEF RunPacket
<1>2. /\ p \in Packets /\ ses \in Sessions /\ conn \in Conns
      /\ (Live(conn) => ~ses.closed)
  <2>1. Typed BY DEF CInv
  <2>2. p \in Packets BY <1>1, <2>1, HeadTyped DEF RunPacket
  <2> QED BY <2>1, <2>2 DEF CInv, Typed, Reading
<1> HIDE DEF p
<1>3. CASE p.type = "CONNACK"
  <2>1. OnPacket(p) = OnConnack(p.how) BY <1>3 DEF OnPacket
  <2> QED BY <1>1, <2>1, ConnackKeeps
<1>4. CASE p.type = "PUBLISH"
  <2>1. OnPacket(p) = OnPublish(p.how) BY <1>4 DEF OnPacket
  <2> QED BY <1>1, <2>1, PublishPacketKeeps
<1>5. CASE p.type = "SUBACK"
  <2>1. OnPacket(p) = OnSuback(p.pid, p.how) BY <1>5 DEF OnPacket
  <2> QED BY <1>1, <2>1, SubackKeeps
<1>6. CASE p.type = "PUBACK"
  <2>1. OnPacket(p) = OnPuback(p.pid) BY <1>6 DEF OnPacket
  <2> QED BY <1>1, <2>1, AcknowledgedKeeps
<1>7. CASE p.type = "PUBREC"
  <2>1. OnPacket(p) = OnPubrec(p.pid) BY <1>7 DEF OnPacket
  <2> QED BY <1>1, <2>1, PubrecKeeps
<1>8. CASE p.type = "PUBREL"
  <2> DEFINE posts == <<Send(Plain("PUBCOMP"))>>
  <2>1. OnPacket(p) = [NoEffect EXCEPT !.posts = posts] BY <1>8 DEF OnPacket
  <2>2. Harmless(posts)
    <3>1. "PUBCOMP" \in FrameTypes /\ "PUBCOMP" # "PUBLISH" BY DEF FrameTypes
    <3> QED BY <3>1, PlainFacts
  <2> HIDE DEF posts
  <2> QED BY <1>1, <2>1, <2>2, AnsweredKeeps
<1>9. CASE p.type = "PUBCOMP"
  <2>1. OnPacket(p) = OnPubcomp(p.pid) BY <1>9 DEF OnPacket
  <2> QED BY <1>1, <2>1, AcknowledgedKeeps
<1>10. CASE p.type = "PINGRESP"
  <2> DEFINE ping == IF KeepAlive THEN "ping" ELSE "off"
             g == [NoEffect EXCEPT
                      !.ses.ping = IF KeepAlive THEN "ping" ELSE "off"]
             e == [g EXCEPT !.read = TRUE]
  <2>1. OnPacket(p) = g BY <1>10 DEF OnPacket
  <2>2. Handle(e) BY <1>1, <2>1
  <2>3. /\ e.ses = [ses EXCEPT !.ping = ping] /\ e.conn = conn /\ e.told = {}
        /\ e.posts = <<>> /\ e.read = TRUE /\ e.flush = FALSE
    BY DEF NoEffect
  <2>4. ping \in {"off", "ping", "pong"} OBVIOUS
  <2> HIDE DEF e, g, ping
  <2>5. /\ e.ses \in Sessions /\ e.ses.pub = ses.pub /\ e.ses.sub = ses.sub
        /\ e.ses.closed = ses.closed
    BY <1>2, <2>3, <2>4 DEF Sessions
  <2>6. Harmless(<<>>) /\ Renewed(ses.pub, ses.pub) BY DEF Harmless, Renewed
  <2> QED BY <1>1, <1>2, <2>2, <2>3, <2>5, <2>6, PacketKeeps
<1> QED BY <1>2, <1>3, <1>4, <1>5, <1>6, <1>7, <1>8, <1>9, <1>10 DEF Packets

\* The stream is broken: the session is over, if it is not already.
LEMMA BrokenReadKeeps == ASSUME CInv, UNCHANGED setup, RunBrokenRead PROVE CInv'
<1> DEFINE e == NotifyClosedOnce(ses)
<1>1. Running("packet") /\ Handle(e) BY DEF RunBrokenRead
<1>2. ses \in Sessions /\ conn \in Conns BY DEF CInv, Typed
<1>3. Fails(e, ses, conn, {}) /\ (~ses.closed => e.conn = Close(conn))
  BY <1>2, NotifyFails
<1>4. CASE e.conn = Close(conn)
  BY <1>1, <1>3, <1>4, PacketNotifies DEF Fails
<1>5. CASE e.conn # Close(conn)
  <2>1. e = [NoEffect EXCEPT !.ses = ses] /\ ses.closed
    BY <1>3, <1>5 DEF NotifyClosedOnce
  <2>2. /\ e.ses = ses /\ e.conn = conn /\ e.told = {} /\ e.posts = <<>>
        /\ e.read = FALSE /\ e.flush = FALSE
    BY <2>1 DEF NoEffect
  <2> HIDE DEF e
  <2>3. ~Live(conn) BY <2>1 DEF CInv, Reading
  <2>4. ReadsOn(e) /\ IdsOnceOf(e.ses) BY <2>2, <2>3 DEF ReadsOn, CInv
  <2>5. EffectTyped(e) BY <1>2, <1>3, FailsTyped
  <2>6. Drops(e, conn, {}) BY <2>2, QuietDrops DEF Harmless
  <2>7. Released(conn, {}, Tail(loop)) BY ReleasedFacts
  <2>8. "packet" # "read" OBVIOUS
  <2> QED BY <1>1, <2>4, <2>5, <2>6, <2>7, <2>8, HandleDrops
<1> QED BY <1>4, <1>5

\* The PUBLISH timer: the entry is sent again, or has used its attempts up.
LEMMA PubRetryKeeps == ASSUME CInv, UNCHANGED setup, RunPubRetry PROVE CInv'
<1> DEFINE mine == {x \in ses.pub : x.pid = Arg}
           frames == {Frame("PUBLISH", Arg, x.call) : x \in mine}
<1>1. /\ Typed /\ ses \in Sessions /\ conn \in Conns /\ setup \in Setup
      /\ Running("pubRetry")
  BY DEF CInv, Typed, RunPubRetry
<1>2. Arg \in Ids /\ Arg # 0 /\ Arg \in 0 .. MaxId
  BY <1>1, HeadTyped, MaxIdAssumption DEF Ids
<1>3. ses.pub \subseteq PubEntries /\ MaxSends \in Nat \ {0}
  BY <1>1, SetupTypes DEF Sessions
<1>4. CASE mine = {}
  <2>1. Handle(NoEffect) BY <1>4 DEF RunPubRetry
  <2>2. Harmless(<<>>) BY DEF Harmless
  <2> QED BY <1>1, <2>1, <2>2, NoEffectFields, QuietKeeps
<1>5. CASE mine # {} /\ \E x \in mine : Spent(x)
  <2> DEFINE e == FailItems(ses, conn, frames, FALSE)
  <2>1. Handle(e) BY <1>5 DEF RunPubRetry
  <2>2. Fails(e, ses, conn, frames) BY <1>1, FailItemsFails
  <2>3. \A f \in frames : \A n : ~Qos0Of(f, n) BY <1>2 DEF Frame, Qos0Of
  <2> HIDE DEF e, frames
  <2>4. Released(conn, frames, Tail(loop))
    BY <2>3, ReleasedFacts DEF Released
  <2>5. TellsMore(e.told, e.told, frames) BY DEF TellsMore
  <2>6. frames \subseteq frames /\ ses.pub \subseteq ses.pub
        /\ ses.sub \subseteq ses.sub
    OBVIOUS
  <2> QED BY <1>1, <2>1, <2>2, <2>4, <2>5, <2>6, FailKeeps
<1>6. CASE mine # {} /\ ~\E x \in mine : Spent(x)
  <2> DEFINE pub == (ses.pub \ mine) \cup {Again(x) : x \in mine}
             sf == CHOOSE f \in frames : TRUE
             e == [NoEffect EXCEPT
                      !.ses.pub = (@ \ mine) \cup {Again(x) : x \in mine},
                      !.posts = <<Send(sf)>>]
  <2>1. Handle(e) BY <1>6 DEF RunPubRetry
  <2>2. sf \in frames BY <1>6
  <2>3. PICK y \in mine : sf = Frame("PUBLISH", Arg, y.call) BY <2>2
  <2>4. /\ y \in ses.pub /\ y \in PubEntries /\ y.pid = Arg
        /\ y.attempts \in 1 .. MaxSends /\ ~(y.attempts >= MaxSends)
        /\ y.call \in PubCalls /\ y.call \in Nat
    BY <1>3, <1>6, <2>3 DEF Spent, PubEntries, PubCalls
  <2>5. y.attempts < MaxSends /\ y.attempts + 1 \in 1 .. MaxSends
    BY <1>3, <2>4
  <2>6. mine = {y} BY <2>3, <2>4 DEF CInv, IdsOnceOf
  <2>7. /\ Again(y) \in PubEntries /\ Again(y).pid = y.pid
        /\ Again(y).call = y.call /\ Again(y).attempts = y.attempts + 1
    BY <2>4, <2>5, AgainFields DEF PubEntries
  <2>8. pub = (ses.pub \ {y}) \cup {Again(y)} BY <2>6
  <2>9. /\ sf \in Frames /\ sf.type = "PUBLISH" /\ sf.pid # 0
        /\ sf.call = y.call
    <3>1. "PUBLISH" \in FrameTypes BY DEF FrameTypes
    <3> HIDE DEF sf, mine
    <3>2. sf \in Frames BY <1>2, <2>3, <2>4, <3>1, SendFacts
    <3>3. sf.type = "PUBLISH" /\ sf.pid = Arg /\ sf.call = y.call
      BY <2>3 DEF Frame
    <3> QED BY <1>2, <3>2, <3>3
  <2> HIDE DEF sf, mine
  <2>10. /\ e.ses = [ses EXCEPT !.pub = pub] /\ e.conn = conn
         /\ e.posts = <<Send(sf)>> /\ e.told = {}
         /\ e.read = FALSE /\ e.flush = FALSE
    BY DEF NoEffect
  <2> HIDE DEF e, pub
  <2>11. /\ e.ses \in Sessions /\ e.ses.pub = pub /\ e.ses.sub = ses.sub
         /\ e.ses.closed = ses.closed
    BY <1>1, <1>3, <2>7, <2>8, <2>10 DEF Sessions
  <2>12. /\ Short(e.posts) /\ e.posts \in Seq(Handlers)
         /\ \A n : ~Asked(e.posts, n)
         /\ \A n : ~InLoop(e.posts, n)
         /\ \A n : Sends(e.posts, n) <=> n = y.call
    <3>1. e.posts = <<Handler("enqueue", sf)>> BY <2>10 DEF Send
    <3>2. /\ Short(e.posts) /\ e.posts \in Seq(Handlers)
          /\ \A n : ~Asked(e.posts, n)
          /\ \A n : InLoop(e.posts, n) <=> Qos0Of(sf, n)
          /\ \A n : Sends(e.posts, n) <=> sf.type = "PUBLISH" /\ sf.call = n
      BY <2>9, <3>1, PostFacts
    <3>3. \A n : ~Qos0Of(sf, n) BY <2>9 DEF Qos0Of
    <3> QED BY <2>9, <3>2, <3>3
  <2>13. ASSUME NEW n \in PubCalls
         PROVE  Moved(e, Tail(loop), n) /\ Counts(e, Tail(loop), n)
    <3>0. OnePlace(n) /\ ~Told(e, n) BY <2>10 DEF CInv, Told
    <3>1. CASE n # y.call
      BY <2>7, <2>8, <2>10, <2>11, <2>12, <3>0, <3>1, UntouchedMoved
         DEF OnePlace
    <3>2. CASE n = y.call
      <4>1. InSes(ses, n) /\ ~InConn(conn, n)
        BY <2>4, <3>0, <3>2 DEF InSes, OnePlace
      <4>2. \A t \in e.told : FALSE BY <2>10
      <4>3. \A x \in e.ses.pub : x.call = n => x = Again(y)
        BY <2>4, <2>8, <2>11, <3>0, <3>2 DEF OnePlace, OnceInSes
      <4>4. Moved(e, Tail(loop), n)
        BY <2>10, <2>12, <3>0, <4>1, <4>2, <4>3
           DEF Moved, OnePlace, OnceInSes
      <4>5. Counts(e, Tail(loop), n)
        BY <2>4, <2>5, <2>7, <2>12, <3>2, <4>3 DEF Counts
      <4> QED BY <4>4, <4>5
    <3> QED BY <3>1, <3>2
  <2>14. IdsOnceOf(e.ses)
    BY <2>4, <2>7, <2>8, <2>11 DEF IdsOnceOf, CInv
  <2>15. EffectTyped(e) BY <1>1, <2>10, <2>11, <2>12 DEF EffectTyped
  <2>16. ReadsOn(e) BY <1>1, <2>10, <2>11 DEF ReadsOn, Running, CInv, Reading
  <2>17. Sound(e, Tail(loop)) BY <2>12, <2>13, <2>14, <2>15, <2>16 DEF Sound
  <2>18. "pubRetry" # "read" OBVIOUS
  <2> QED BY <1>1, <2>1, <2>17, <2>18, SoundKeeps
<1> QED BY <1>4, <1>5, <1>6

\* close(), between two handlers.
LEMMA CloseKeeps == ASSUME CInv, UNCHANGED setup, AppClose PROVE CInv'
<1> DEFINE e == FailItems(ses, conn, {}, TRUE)
<1>1. /\ Typed /\ ses \in Sessions /\ conn \in Conns /\ loop \in Seq(Handlers)
      /\ nextPacketId \in Ids
  BY DEF CInv, Typed
<1>2. /\ Do(e, loop) /\ UNCHANGED <<resolving, pubCalls, subCalls>>
      /\ nextPacketId' = nextPacketId
  BY DEF AppClose
<1>3. Fails(e, ses, conn, {}) /\ e.conn = Close(conn) BY <1>1, ClosingFails
<1> HIDE DEF e
<1>4. EffectTyped(e) BY <1>1, <1>3, FailsTyped
<1>5. IdsOnceOf(e.ses)
  <2>1. e.ses.pub \subseteq ses.pub /\ e.ses.sub \subseteq ses.sub
    BY <1>3 DEF Fails
  <2> QED BY <2>1, PartIds DEF CInv
<1>6. ReadsOn(e) BY <1>3, CloseHolds DEF ReadsOn
<1>7. Drops(e, conn, {})
  <2>1. TellsMore(e.told, e.told, {}) BY DEF TellsMore
  <2>2. {} \subseteq {} /\ ses.pub \subseteq ses.pub OBVIOUS
  <2> QED BY <1>3, <2>1, <2>2, FailsDrops
<1>8. Released(conn, {}, loop) BY ReleasedFacts
<1>9. nextPacketId' \in Ids BY <1>1, <1>2
<1> QED BY <1>1, <1>2, <1>4, <1>5, <1>6, <1>7, <1>8, <1>9, DropsKeeps

-----------------------------------------------------------------------------
(* Steps that only queue a handler, or take one from the queue *)

\* What a publish call depends on stays where it was, or goes from the loop.
LEMMA PlacesKept ==
    ASSUME CInv, Typed', Reading',
           Renewed(ses'.pub, ses.pub), ses'.sub \subseteq ses.sub,
           conn'.queue = conn.queue, conn'.inFlight = conn.inFlight,
           \A n \in PubCalls :
              /\ OnceInLoop(loop', n)
              /\ InLoop(loop', n) => InLoop(loop, n)
              /\ Asked(loop', n) => Asked(loop, n),
           UNCHANGED <<setup, pubAnswers, sent, pubCalls>>
    PROVE  CInv'
<1>1. IdsOnceOf(ses)' BY RenewedIds DEF CInv, IdsOnceOf
<1>2. PubCalls' = PubCalls /\ MaxSends' = MaxSends BY SameTypes
<1>3. ASSUME NEW n \in PubCalls PROVE (OnePlace(n) /\ Counted(n))'
  <2>1. OnePlace(n) /\ Counted(n) /\ IdsOnceOf(ses) BY DEF CInv
  <2>2. InSes(ses', n) => InSes(ses, n) BY DEF Renewed, InSes
  <2>3. OnceInSes(ses', n)
    <3> SUFFICES ASSUME NEW x \in ses'.pub, NEW y \in ses'.pub,
                        x.call = n, y.call = n
                 PROVE  x = y
      BY DEF OnceInSes
    <3>1. PICK v \in ses.pub : x.pid = v.pid /\ x.call = v.call BY DEF Renewed
    <3>2. PICK w \in ses.pub : y.pid = w.pid /\ y.call = w.call BY DEF Renewed
    <3>3. v = w BY <2>1, <3>1, <3>2 DEF OnePlace, OnceInSes
    <3> QED BY <2>1, <3>1, <3>2, <3>3 DEF Renewed, IdsOnceOf
  <2>4. (InConn(conn', n) <=> InConn(conn, n)) /\ OnceInConn(conn', n)
    BY <2>1 DEF InConn, Held, Queued, OnceInConn, OnePlace
  <2>5. \A x \in ses'.pub : x.call = n => sent[n].PUBLISH = x.attempts
    BY <2>1 DEF Counted, Renewed
  <2>6. OnePlace(n)' BY <2>1, <2>2, <2>3, <2>4 DEF OnePlace
  <2>7. Counted(n)' BY <1>2, <2>1, <2>5 DEF Counted
  <2> QED BY <2>6, <2>7
<1> QED BY <1>1, <1>2, <1>3 DEF CInv

\* A handler is queued that bears no publish.
LEMMA AppendKeeps ==
    ASSUME CInv, NEW h \in Handlers, loop' = Append(loop, h),
           \/ h.kind \notin {"publish", "enqueue", "aborted"}
           \/ h.kind = "enqueue" /\ h.arg.type # "PUBLISH",
           ses' \in Sessions, ses'.closed = ses.closed,
           Renewed(ses'.pub, ses.pub), ses'.sub \subseteq ses.sub,
           UNCHANGED <<setup, conn, nextPacketId, readBusy, pubCalls,
                       pubAnswers, sent>>,
           resolving' \in Nat, connecting' \in BOOLEAN,
           ops' \in Seq(Frames), inbox' \in Seq(Packets),
           readOp' = readOp \/ (readOp' = FALSE /\ h.kind = "read"),
           app' \in {"idle", "posted", "trying", "up", "down"},
           subCalls' \in 0 .. NumSubs
    PROVE  CInv'
<1>0. Typed /\ Reading /\ loop \in Seq(Handlers) /\ readOp \in BOOLEAN
  BY DEF CInv, Typed
<1>1. /\ loop' \in Seq(Handlers)
      /\ \A kind : HasIn(loop', kind) <=> HasIn(loop, kind) \/ h.kind = kind
      /\ \A n : InLoop(loop', n) <=> InLoop(loop, n) \/ Bears(h, n)
      /\ \A n : Asked(loop', n) <=>
                   Asked(loop, n) \/ (h.kind = "publish" /\ h.arg = n)
      /\ \A n : OnceInLoop(loop, n) /\ ~(InLoop(loop, n) /\ Bears(h, n))
                => OnceInLoop(loop', n)
  BY <1>0, AppendFacts
<1>2. \A n : ~Bears(h, n) /\ ~(h.kind = "publish" /\ h.arg = n)
  BY DEF Bears, Qos0Of
<1>3. Typed' BY <1>0, <1>1, SameTypes DEF Typed
<1>4. Reading' BY <1>0, <1>1 DEF Reading
<1>5. \A n \in PubCalls :
         /\ OnceInLoop(loop', n)
         /\ InLoop(loop', n) => InLoop(loop, n)
         /\ Asked(loop', n) => Asked(loop, n)
  BY <1>1, <1>2 DEF CInv, OnePlace
<1> QED BY <1>3, <1>4, <1>5, PlacesKept

\* The calls of the application are posted.
LEMMA PublishCallKeeps == ASSUME CInv, UNCHANGED setup, AppPublish PROVE CInv'
<1> DEFINE m == pubCalls + 1
           h == Handler("publish", m)
<1>1. /\ Typed /\ Reading /\ IdsOnceOf(ses) /\ setup \in Setup
      /\ loop \in Seq(Handlers) /\ pubCalls \in 0 .. Len(PubQos)
  BY DEF CInv, Typed
<1>2. /\ pubCalls < Len(PubQos) /\ pubCalls' = m /\ loop' = Append(loop, h)
      /\ UNCHANGED <<ses, conn, nextPacketId, resolving, connecting, ops,
                     readBusy, readOp, inbox, app, subCalls, pubAnswers, sent>>
  BY DEF AppPublish, net, history
<1>3. m \in PubCalls /\ m \in 0 .. Len(PubQos) /\ m \in Nat
  BY <1>1, <1>2, SetupTypes
<1>4. h \in Handlers /\ h.kind = "publish" /\ h.arg = m
  BY <1>3 DEF Handler, Handlers
<1> HIDE DEF h
<1>5. /\ loop' \in Seq(Handlers)
      /\ \A kind : HasIn(loop', kind) <=> HasIn(loop, kind) \/ h.kind = kind
      /\ \A n : InLoop(loop', n) <=> InLoop(loop, n) \/ Bears(h, n)
      /\ \A n : Asked(loop', n) <=>
                   Asked(loop, n) \/ (h.kind = "publish" /\ h.arg = n)
      /\ \A n : OnceInLoop(loop, n) /\ ~(InLoop(loop, n) /\ Bears(h, n))
                => OnceInLoop(loop', n)
  BY <1>1, <1>2, <1>4, AppendFacts
<1>6. Typed'
  <2>1. pubCalls' \in (0 .. Len(PubQos))' BY <1>2, <1>3, SameTypes
  <2> QED BY <1>1, <1>2, <1>5, <2>1, SameTypes DEF Typed
<1>7. Reading' BY <1>1, <1>2, <1>4, <1>5 DEF Reading
<1>8. IdsOnceOf(ses)' BY <1>1, <1>2 DEF IdsOnceOf
<1>9. PubCalls' = PubCalls /\ MaxSends' = MaxSends BY SameTypes
<1>10. ASSUME NEW n \in PubCalls PROVE (OnePlace(n) /\ Counted(n))'
  <2>1. OnePlace(n) /\ Counted(n) BY DEF CInv
  <2>2. Bears(h, n) <=> n = m BY <1>4 DEF Bears
  <2>3. n = m => n > pubCalls BY <1>1
  <2>4. n > m => n > pubCalls
    BY <1>1, <1>3, SetupTypes
  <2>5. /\ InSes(ses', n) <=> InSes(ses, n)
        /\ InConn(conn', n) <=> InConn(conn, n)
        /\ OnceInSes(ses', n) <=> OnceInSes(ses, n)
        /\ OnceInConn(conn', n) <=> OnceInConn(conn, n)
    BY <1>2
  <2>6. ~(m > m) BY <1>3
  <2>7. OnePlace(n)'
    BY <1>2, <1>5, <2>1, <2>2, <2>3, <2>4, <2>5, <2>6 DEF OnePlace
  <2>8. Counted(n)'
    BY <1>2, <1>4, <1>5, <1>9, <2>1, <2>2, <2>3, <2>4 DEF Counted
  <2> QED BY <2>7, <2>8
<1> QED BY <1>6, <1>7, <1>8, <1>9, <1>10 DEF CInv

LEMMA CallKeeps ==
    ASSUME CInv, UNCHANGED setup, AppConnect \/ AppSubscribe \/ AppDisconnect
    PROVE  CInv'
<1>1. /\ Typed /\ ses \in Sessions /\ loop \in Seq(Handlers)
      /\ setup \in Setup /\ resolving \in Nat /\ connecting \in BOOLEAN
      /\ ops \in Seq(Frames) /\ inbox \in Seq(Packets) /\ readOp \in BOOLEAN
      /\ app \in {"idle", "posted", "trying", "up", "down"}
      /\ subCalls \in 0 .. NumSubs
  BY DEF CInv, Typed
<1>2. Renewed(ses.pub, ses.pub) /\ ses.sub \subseteq ses.sub BY DEF Renewed
<1>3. CASE AppConnect
  <2> DEFINE h == Handler("connect", 0)
  <2>1. h \in Handlers /\ h.kind = "connect" BY DEF Handler, Handlers
  <2>2. /\ loop' = Append(loop, h) /\ app' = "posted"
        /\ UNCHANGED <<ses, conn, nextPacketId, resolving, connecting, ops,
                       readBusy, readOp, inbox, pubCalls, subCalls,
                       pubAnswers, sent>>
    BY <1>3 DEF AppConnect, net, history
  <2> HIDE DEF h
  <2> QED BY <1>1, <1>2, <2>1, <2>2, AppendKeeps
<1>4. CASE AppSubscribe
  <2> DEFINE h == Handler("subscribe", subCalls + 1)
  <2>1. /\ loop' = Append(loop, h) /\ subCalls < NumSubs
        /\ subCalls' = subCalls + 1
        /\ UNCHANGED <<ses, conn, nextPacketId, resolving, connecting, ops,
                       readBusy, readOp, inbox, app, pubCalls, pubAnswers,
                       sent>>
    BY <1>4 DEF AppSubscribe, net, history
  <2>2. subCalls + 1 \in SubCalls /\ subCalls + 1 \in 0 .. NumSubs
    BY <1>1, <2>1, SetupTypes
  <2>3. h \in Handlers /\ h.kind = "subscribe"
    BY <2>2 DEF Handler, Handlers
  <2> HIDE DEF h
  <2> QED BY <1>1, <1>2, <2>1, <2>2, <2>3, AppendKeeps
<1>5. CASE AppDisconnect
  <2> DEFINE h == Send(Plain("DISCONNECT"))
  <2>1. /\ loop' = Append(loop, h) /\ ses' = [ses EXCEPT !.ping = "off"]
        /\ UNCHANGED <<conn, nextPacketId, resolving, connecting, ops,
                       readBusy, readOp, inbox, app, pubCalls, subCalls,
                       pubAnswers, sent>>
    BY <1>5 DEF AppDisconnect, net, history
  <2>2. Plain("DISCONNECT") \in Frames
    BY PlainFacts DEF FrameTypes
  <2>3. h \in Handlers /\ h.kind = "enqueue" /\ h.arg.type = "DISCONNECT"
    BY <2>2 DEF Send, Handler, Handlers, Plain, Frame
  <2>4. /\ ses' \in Sessions /\ ses'.closed = ses.closed
        /\ ses'.pub = ses.pub /\ ses'.sub = ses.sub
    BY <1>1, <2>1 DEF Sessions
  <2> HIDE DEF h
  <2> QED BY <1>1, <1>2, <2>1, <2>3, <2>4, AppendKeeps
<1> QED BY <1>3, <1>4, <1>5

\* What a broker may answer is a packet.
LEMMA AnswersTyped ==
    ASSUME setup \in Setup, NEW f \in Frames
    PROVE  Answers(f) \subseteq Packets
<1>1. f.pid \in 0 .. MaxId /\ 0 \in 0 .. MaxId BY MaxIdAssumption DEF Frames
<1>2. \A type \in {"CONNACK", "SUBACK", "PUBACK", "PUBREC", "PUBREL", "PUBCOMP",
                   "PINGRESP"} :
         \A pid \in 0 .. MaxId :
            \A how \in {"granted", "refused", "short", "ok"} :
               Packet(type, pid, how) \in Packets
  BY DEF Packet, Packets
<1>3. setup.subacks \subseteq {"granted", "refused", "short"} BY DEF Setup
<1>4. CASE f.type = "CONNECT"
  <2>1. Answers(f) \subseteq {Packet("CONNACK", 0, "granted"),
                              Packet("CONNACK", 0, "refused")}
    BY <1>4 DEF Answers
  <2> QED BY <1>1, <1>2, <2>1
<1>5. CASE f.type = "PUBLISH" /\ f.pid # 0
  <2>1. Answers(f) \subseteq {Packet("PUBACK", f.pid, "ok"),
                              Packet("PUBREC", f.pid, "ok")}
    BY <1>5 DEF Answers
  <2> QED BY <1>1, <1>2, <2>1
<1>6. CASE f.type = "PUBREL"
  <2>1. Answers(f) = {Packet("PUBCOMP", f.pid, "ok")} BY <1>6 DEF Answers
  <2> QED BY <1>1, <1>2, <2>1
<1>7. CASE f.type = "SUBSCRIBE"
  <2>1. Answers(f) = {Packet("SUBACK", f.pid, how) : how \in setup.subacks}
    BY <1>7 DEF Answers
  <2> QED BY <1>1, <1>2, <1>3, <2>1
<1>8. CASE f.type = "PINGREQ"
  <2>1. Answers(f) = {Packet("PINGRESP", 0, "ok")} BY <1>8 DEF Answers
  <2> QED BY <1>1, <1>2, <2>1
<1>9. CASE f.type = "PUBREC"
  <2>1. Answers(f) = {Packet("PUBREL", 0, "ok")} BY <1>9 DEF Answers
  <2> QED BY <1>1, <1>2, <2>1
<1>10. CASE /\ f.type \notin {"CONNECT", "PUBREL", "SUBSCRIBE", "PINGREQ",
                             "PUBREC"}
            /\ ~(f.type = "PUBLISH" /\ f.pid # 0)
  <2>1. Answers(f) = {} BY <1>10 DEF Answers
  <2> QED BY <2>1
<1> QED BY <1>4, <1>5, <1>6, <1>7, <1>8, <1>9, <1>10

\* Operations complete.
LEMMA OutsideKeeps ==
    ASSUME CInv, UNCHANGED setup,
           ResolveDone \/ ConnectDone \/ WriteTaken \/ WriteBroken \/ ReadDone
    PROVE  CInv'
<1>1. /\ Typed /\ ses \in Sessions /\ loop \in Seq(Handlers)
      /\ setup \in Setup /\ resolving \in Nat /\ connecting \in BOOLEAN
      /\ ops \in Seq(Frames) /\ inbox \in Seq(Packets) /\ readOp \in BOOLEAN
      /\ app \in {"idle", "posted", "trying", "up", "down"}
      /\ subCalls \in 0 .. NumSubs
  BY DEF CInv, Typed
<1>2. Renewed(ses.pub, ses.pub) /\ ses.sub \subseteq ses.sub BY DEF Renewed
<1>3. /\ \A kind \in {"resolved", "connected", "written"}, ok \in BOOLEAN :
            Handler(kind, ok) \in Handlers /\ Handler(kind, ok).kind = kind
      /\ \A p \in Packets \cup {BrokenRead} :
            /\ Handler("read", p) \in Handlers
            /\ Handler("read", p).kind = "read"
  BY DEF Handler, Handlers
<1>4. /\ ops # <<>> => Head(ops) \in Frames /\ Tail(ops) \in Seq(Frames)
      /\ inbox # <<>> => Head(inbox) \in Packets /\ Tail(inbox) \in Seq(Packets)
  BY <1>1, HeadTailProperties
<1>5. CASE ResolveDone
  <2>1. PICK ok \in BOOLEAN : loop' = Append(loop, Handler("resolved", ok))
    BY <1>5 DEF ResolveDone, Completes
  <2>2. /\ resolving' = resolving - 1 /\ resolving > 0
        /\ UNCHANGED <<ses, conn, nextPacketId, connecting, ops, readBusy,
                       readOp, inbox, app, pubCalls, subCalls, pubAnswers, sent>>
    BY <1>5 DEF ResolveDone, calls, history
  <2>3. resolving' \in Nat BY <1>1, <2>2
  <2>4. /\ Handler("resolved", ok) \in Handlers
        /\ Handler("resolved", ok).kind = "resolved"
    BY <1>3
  <2> QED BY <1>1, <1>2, <2>1, <2>2, <2>3, <2>4, AppendKeeps
<1>6. CASE ConnectDone
  <2>1. PICK ok \in BOOLEAN : loop' = Append(loop, Handler("connected", ok))
    BY <1>6 DEF ConnectDone, Completes
  <2>2. /\ connecting' = FALSE
        /\ UNCHANGED <<ses, conn, nextPacketId, resolving, ops, readBusy,
                       readOp, inbox, app, pubCalls, subCalls, pubAnswers, sent>>
    BY <1>6 DEF ConnectDone, calls, history
  <2>3. /\ Handler("connected", ok) \in Handlers
        /\ Handler("connected", ok).kind = "connected"
    BY <1>3
  <2> QED BY <1>1, <1>2, <2>1, <2>2, <2>3, AppendKeeps
<1>7. CASE WriteTaken
  <2> DEFINE f == Head(ops)
  <2>1. /\ loop' = Append(loop, Handler("written", TRUE))
        /\ ops # <<>> /\ ops' = Tail(ops)
        /\ UNCHANGED <<ses, conn, nextPacketId, resolving, connecting,
                       readBusy, readOp, app, pubCalls, subCalls, pubAnswers,
                       sent>>
    BY <1>7 DEF WriteTaken, Completes, calls, history
  <2>2. inbox' = inbox \/ \E p \in Answers(f) : inbox' = Append(inbox, p)
    BY <1>7 DEF WriteTaken
  <2>3. f \in Frames /\ ops' \in Seq(Frames) BY <1>4, <2>1
  <2>4. Answers(f) \subseteq Packets BY <1>1, <2>3, AnswersTyped
  <2>5. inbox' \in Seq(Packets)
    <3>1. inbox \in Seq(Packets) BY <1>1
    <3>2. \A p \in Packets : Append(inbox, p) \in Seq(Packets)
      BY <3>1, AppendProperties
    <3> HIDE DEF f
    <3> QED BY <2>2, <2>4, <3>1, <3>2
  <2>6. /\ Handler("written", TRUE) \in Handlers
        /\ Handler("written", TRUE).kind = "written"
    BY <1>3
  <2> QED BY <1>1, <1>2, <2>1, <2>3, <2>5, <2>6, AppendKeeps
<1>8. CASE WriteBroken
  <2>1. /\ loop' = Append(loop, Handler("written", FALSE))
        /\ ops # <<>> /\ ops' = Tail(ops)
        /\ UNCHANGED <<ses, conn, nextPacketId, resolving, connecting,
                       readBusy, readOp, inbox, app, pubCalls, subCalls,
                       pubAnswers, sent>>
    BY <1>8 DEF WriteBroken, Completes, calls, history
  <2>2. ops' \in Seq(Frames) BY <1>4, <2>1
  <2>3. /\ Handler("written", FALSE) \in Handlers
        /\ Handler("written", FALSE).kind = "written"
    BY <1>3
  <2> QED BY <1>1, <1>2, <2>1, <2>2, <2>3, AppendKeeps
<1>9. CASE ReadDone
  <2>1. /\ readOp' = FALSE
        /\ UNCHANGED <<ses, conn, nextPacketId, resolving, connecting, ops,
                       readBusy, app, pubCalls, subCalls, pubAnswers, sent>>
    BY <1>9 DEF ReadDone, calls, history
  <2>2. PICK p \in Packets \cup {BrokenRead} :
           loop' = Append(loop, Handler("read", p)) /\ inbox' \in Seq(Packets)
    <3>1. CASE inbox # <<>> /\ inbox' = Tail(inbox)
               /\ loop' = Append(loop, Handler("read", Head(inbox)))
      BY <1>4, <3>1
    <3>2. CASE inbox' = <<>> /\ loop' = Append(loop, Handler("read", BrokenRead))
      BY <3>2
    <3> QED BY <1>9, <3>1, <3>2 DEF ReadDone, Completes
  <2>3. Handler("read", p) \in Handlers /\ Handler("read", p).kind = "read"
    BY <1>3
  <2> QED BY <1>1, <1>2, <2>1, <2>2, <2>3, AppendKeeps
<1> QED BY <1>5, <1>6, <1>7, <1>8, <1>9

\* The broker publishes, or nothing happens.
LEMMA BrokerKeeps ==
    ASSUME CInv, UNCHANGED setup, BrokerPublish \/ UNCHANGED session
    PROVE  CInv'
<1>1. /\ Typed /\ Reading /\ inbox \in Seq(Packets) /\ setup \in Setup
  BY DEF CInv, Typed
<1>2. UNCHANGED <<ses, conn, nextPacketId, loop, resolving, connecting, ops,
                  readBusy, readOp, app, pubCalls, subCalls, pubAnswers, sent>>
  BY DEF BrokerPublish, session, net, calls, history
<1>3. inbox' \in Seq(Packets)
  <2>1. CASE BrokerPublish
    <3>1. PICK qos \in setup.inboundQos :
             inbox' = Append(inbox, Packet("PUBLISH", 0, qos))
      BY <2>1 DEF BrokerPublish
    <3>2. qos \in 0 .. 3 BY <1>1 DEF Setup
    <3>3. 0 \in 0 .. MaxId BY MaxIdAssumption
    <3>4. Packet("PUBLISH", 0, qos) \in Packets
      BY <3>2, <3>3 DEF Packet, Packets
    <3> QED BY <1>1, <3>1, <3>4, AppendProperties
  <2>2. CASE UNCHANGED session BY <1>1, <2>2 DEF session, net
  <2> QED BY <2>1, <2>2
<1>4. Typed' BY <1>1, <1>2, <1>3, SameTypes DEF Typed
<1>5. Reading' BY <1>1, <1>2 DEF Reading
<1>6. Renewed(ses'.pub, ses.pub) /\ ses'.sub \subseteq ses.sub
  BY <1>2 DEF Renewed
<1>7. \A n \in PubCalls :
         /\ OnceInLoop(loop', n)
         /\ InLoop(loop', n) => InLoop(loop, n)
         /\ Asked(loop', n) => Asked(loop, n)
  BY <1>2 DEF CInv, OnePlace
<1>8. conn'.queue = conn.queue /\ conn'.inFlight = conn.inFlight
      /\ UNCHANGED <<setup, pubAnswers, sent, pubCalls>>
  BY <1>2
<1> QED BY <1>4, <1>5, <1>6, <1>7, <1>8, PlacesKept

\* A timer expires.
LEMMA TimersKeep == ASSUME CInv, UNCHANGED setup, Timers PROVE CInv'
<1>1. /\ Typed /\ ses \in Sessions /\ loop \in Seq(Handlers)
      /\ setup \in Setup /\ resolving \in Nat /\ connecting \in BOOLEAN
      /\ ops \in Seq(Frames) /\ inbox \in Seq(Packets) /\ readOp \in BOOLEAN
      /\ app \in {"idle", "posted", "trying", "up", "down"}
      /\ subCalls \in 0 .. NumSubs
  BY DEF CInv, Typed
<1>2. Renewed(ses.pub, ses.pub) /\ ses.sub \subseteq ses.sub BY DEF Renewed
<1>3. /\ ses.pub \in SUBSET PubEntries /\ ses.rec \in SUBSET RecEntries
  BY <1>1 DEF Sessions
<1>4. ASSUME NEW s \in Sessions, NEW kind, NEW arg, Expires(s, kind, arg),
             s.closed = ses.closed, Renewed(s.pub, ses.pub), s.sub = ses.sub,
             \/ kind \in {"connTimer", "pingDue", "pongDue"} /\ arg = 0
             \/ kind \in {"pubRetry", "recRetry"} /\ arg \in Ids
      PROVE  CInv'
  <2> DEFINE h == Handler(kind, arg)
  <2>1. h \in Handlers /\ h.kind = kind BY <1>4 DEF Handler, Handlers
  <2>2. /\ loop' = Append(loop, h) /\ ses' = s
        /\ UNCHANGED <<conn, nextPacketId, resolving, connecting, ops,
                       readBusy, readOp, inbox, app, pubCalls, subCalls,
                       pubAnswers, sent>>
    BY <1>4 DEF Expires, Completes, net, calls, history
  <2> HIDE DEF h
  <2>3. h.kind \notin {"publish", "enqueue", "aborted"} BY <1>4, <2>1
  <2>4. s.sub \subseteq ses.sub BY <1>4
  <2> QED BY <1>1, <1>4, <2>1, <2>2, <2>3, <2>4, AppendKeeps
<1>5. CASE ConnTimerExpires
  <2> DEFINE s == [ses EXCEPT !.connTimer = FALSE]
  <2>1. Expires(s, "connTimer", 0) BY <1>5 DEF ConnTimerExpires
  <2>2. /\ s \in Sessions /\ s.closed = ses.closed /\ s.pub = ses.pub
        /\ s.sub = ses.sub
    BY <1>1 DEF Sessions
  <2> HIDE DEF s
  <2> QED BY <1>2, <1>4, <2>1, <2>2
<1>6. CASE PingTimerExpires
  <2> DEFINE s == [ses EXCEPT !.ping = "off"]
  <2>1. Expires(s, "pingDue", 0) \/ Expires(s, "pongDue", 0)
    BY <1>6 DEF PingTimerExpires
  <2>2. /\ s \in Sessions /\ s.closed = ses.closed /\ s.pub = ses.pub
        /\ s.sub = ses.sub
    BY <1>1 DEF Sessions
  <2> HIDE DEF s
  <2> QED BY <1>2, <1>4, <2>1, <2>2
<1>7. CASE PubTimerExpires
  <2>1. PICK x \in ses.pub :
           Expires([ses EXCEPT !.pub =
                       (@ \ {x}) \cup {[x EXCEPT !.armed = FALSE]}],
                   "pubRetry", x.pid)
    BY <1>7 DEF PubTimerExpires
  <2> DEFINE p == (ses.pub \ {x}) \cup {[y EXCEPT !.armed = FALSE] : y \in {x}}
             s == [ses EXCEPT !.pub = p]
  <2>2. p = (ses.pub \ {x}) \cup {[x EXCEPT !.armed = FALSE]} OBVIOUS
  <2>3. p \in SUBSET PubEntries /\ Renewed(p, ses.pub)
    <3>1. {x} \subseteq ses.pub OBVIOUS
    <3> QED BY <1>3, <3>1, DisarmedFacts DEF PubEntries
  <2>4. x.pid \in Ids BY <1>3 DEF PubEntries
  <2>5. Expires(s, "pubRetry", x.pid) BY <2>1, <2>2
  <2> HIDE DEF p
  <2>6. /\ s \in Sessions /\ s.closed = ses.closed /\ s.pub = p
        /\ s.sub = ses.sub
    BY <1>1, <2>3 DEF Sessions
  <2> HIDE DEF s
  <2> QED BY <1>4, <2>3, <2>4, <2>5, <2>6
<1>8. CASE RecTimerExpires
  <2>1. PICK x \in ses.rec :
           Expires([ses EXCEPT !.rec =
                       (@ \ {x}) \cup {[x EXCEPT !.armed = FALSE]}],
                   "recRetry", x.pid)
    BY <1>8 DEF RecTimerExpires
  <2> DEFINE p == (ses.rec \ {x}) \cup {[y EXCEPT !.armed = FALSE] : y \in {x}}
             s == [ses EXCEPT !.rec = p]
  <2>2. p = (ses.rec \ {x}) \cup {[x EXCEPT !.armed = FALSE]} OBVIOUS
  <2>3. p \in SUBSET RecEntries /\ Renewed(p, ses.rec)
    <3>1. {x} \subseteq ses.rec OBVIOUS
    <3> QED BY <1>3, <3>1, DisarmedFacts DEF RecEntries
  <2>4. x.pid \in Ids BY <1>3 DEF RecEntries
  <2>5. Expires(s, "recRetry", x.pid) BY <2>1, <2>2
  <2> HIDE DEF p
  <2>6. /\ s \in Sessions /\ s.closed = ses.closed /\ s.pub = ses.pub
        /\ s.sub = ses.sub
    BY <1>1, <2>3 DEF Sessions
  <2> HIDE DEF s
  <2> QED BY <1>2, <1>4, <2>4, <2>5, <2>6
<1> QED BY <1>5, <1>6, <1>7, <1>8 DEF Timers

\* async_connect(), the resolver's answer, and a read that is complete.
LEMMA StartKeeps ==
    ASSUME CInv, UNCHANGED setup, RunConnect \/ RunResolved \/ RunRead
    PROVE  CInv'
<1>1. /\ Typed /\ Reading /\ ses \in Sessions /\ conn \in Conns
      /\ loop \in Seq(Handlers) /\ resolving \in Nat /\ setup \in Setup
  BY DEF CInv, Typed
<1>2. PICK kind \in {"connect", "resolved", "read"} : Running(kind)
  BY DEF RunConnect, RunResolved, RunRead
<1>3. /\ loop # <<>> /\ Head(loop).kind = kind /\ Tail(loop) \in Seq(Handlers)
      /\ kind = "read" => Arg \in Packets \cup {BrokenRead}
  <2>1. ASSUME kind = "read" PROVE Arg \in Packets \cup {BrokenRead}
    <3>1. Head(loop) \in Handlers /\ Head(loop).kind = "read"
      BY <1>1, <1>2, <2>1, HeadTyped
    <3> QED BY <3>1 DEF Handlers, Arg
  <2> QED BY <1>1, <1>2, <2>1, HeadTyped
<1>4. /\ \A k : HasIn(loop, k) <=> kind = k \/ HasIn(Tail(loop), k)
      /\ \A n : InLoop(Tail(loop), n) => InLoop(loop, n)
      /\ \A n : Asked(Tail(loop), n) => Asked(loop, n)
      /\ \A n \in PubCalls : OnceInLoop(Tail(loop), n)
  BY <1>1, <1>3, TailFacts DEF CInv, OnePlace
<1>5. CASE RunConnect
  <2>1. /\ ses' = ArmConnTimer([ses EXCEPT !.closed = FALSE])
        /\ conn' = BeginConnect(conn)
        /\ resolving' = resolving + 1 /\ app' = "trying"
        /\ loop' = Tail(loop) /\ Running("connect")
        /\ UNCHANGED <<nextPacketId, connecting, ops, readBusy, readOp, inbox,
                       pubCalls, subCalls, pubAnswers, sent>>
    BY <1>5 DEF RunConnect
  <2>2. /\ ses' \in Sessions /\ ses'.pub = ses.pub /\ ses'.sub = ses.sub
    <3>1. ConnectTimeout \in BOOLEAN BY <1>1, SetupTypes
    <3> QED BY <1>1, <2>1, <3>1 DEF ArmConnTimer, Sessions
  <2>3. conn' \in Conns BY <1>1, <2>1, ConnTypes
  <2>4. /\ conn'.queue = conn.queue /\ conn'.inFlight = conn.inFlight
        /\ conn'.open = conn.open /\ ~Live(conn')
    BY <1>1, <2>1 DEF BeginConnect, Conns, Connections, Live
  <2>5. kind = "connect" BY <1>2, <2>1 DEF Running
  <2>6. Typed'
    <3>1. resolving' \in Nat BY <1>1, <2>1
    <3> QED BY <1>1, <1>3, <2>1, <2>2, <2>3, <3>1, SameTypes DEF Typed
  <2>7. Reading' BY <1>1, <1>4, <2>1, <2>4, <2>5 DEF Reading
  <2>8. Renewed(ses'.pub, ses.pub) /\ ses'.sub \subseteq ses.sub
    BY <2>2 DEF Renewed
  <2> QED BY <1>4, <2>1, <2>4, <2>6, <2>7, <2>8, PlacesKept
<1>6. CASE RunResolved
  <2> DEFINE gone == IF conn.open THEN Aborted ELSE <<>>
  <2>1. /\ conn' = [conn EXCEPT !.open = TRUE] /\ connecting' = TRUE
        /\ ops' = <<>> /\ readOp' = FALSE /\ inbox' = <<>>
        /\ loop' = Tail(loop) \o gone /\ Running("resolved")
        /\ UNCHANGED <<ses, nextPacketId, resolving, readBusy, app, pubCalls,
                       subCalls, pubAnswers, sent>>
    BY <1>6 DEF RunResolved, calls, history
  <2>2. /\ gone \in Seq(Handlers)
        /\ readOp => HasIn(gone, "read")
        /\ \A h \in Elements(gone) :
              h.kind \in {"read", "written", "connected"}
    <3>1. readOp => conn.open BY <1>1 DEF Reading
    <3>2. Elements(<<>>) = {} BY DEF Elements
    <3>3. <<>> \in Seq(Handlers) OBVIOUS
    <3> QED BY <1>1, <3>1, <3>2, <3>3, AbortedElements
  <2> HIDE DEF gone
  <2>3. \A n : ~InLoop(gone, n) /\ ~Asked(gone, n) /\ OnceInLoop(gone, n)
    BY <2>2, Idle
  <2>4. /\ loop' \in Seq(Handlers)
        /\ \A k : HasIn(loop', k) <=> HasIn(Tail(loop), k) \/ HasIn(gone, k)
        /\ \A n : InLoop(loop', n) <=> InLoop(Tail(loop), n) \/ InLoop(gone, n)
        /\ \A n : Asked(loop', n) <=> Asked(Tail(loop), n) \/ Asked(gone, n)
        /\ \A n : /\ OnceInLoop(Tail(loop), n) /\ OnceInLoop(gone, n)
                  /\ ~(InLoop(Tail(loop), n) /\ InLoop(gone, n))
                  => OnceInLoop(loop', n)
    BY <1>3, <2>1, <2>2, ConcatFacts, ConcatProperties
  <2>5. conn' \in Conns BY <1>1, <2>1, ConnTypes
  <2>6. /\ conn'.queue = conn.queue /\ conn'.inFlight = conn.inFlight
        /\ conn'.open = TRUE /\ (Live(conn') <=> Live(conn))
    BY <1>1, <2>1 DEF Conns, Connections, Live
  <2>7. kind = "resolved" BY <1>2, <2>1 DEF Running
  <2>8. Typed'
    <3>1. <<>> \in Seq(Frames) /\ <<>> \in Seq(Packets) OBVIOUS
    <3> QED BY <1>1, <2>1, <2>4, <2>5, <3>1, SameTypes DEF Typed
  <2>9. Reading' BY <1>1, <1>4, <2>1, <2>2, <2>4, <2>6, <2>7 DEF Reading
  <2>10. Renewed(ses'.pub, ses.pub) /\ ses'.sub \subseteq ses.sub
    BY <2>1 DEF Renewed
  <2>11. \A n \in PubCalls :
            /\ OnceInLoop(loop', n)
            /\ InLoop(loop', n) => InLoop(loop, n)
            /\ Asked(loop', n) => Asked(loop, n)
    BY <1>4, <2>3, <2>4
  <2> QED BY <2>1, <2>6, <2>8, <2>9, <2>10, <2>11, PlacesKept
<1>7. CASE RunRead
  <2> DEFINE h == Handler("packet", Arg)
  <2>1. /\ readBusy' = FALSE /\ loop' = Append(Tail(loop), h)
        /\ Running("read")
        /\ UNCHANGED <<ses, conn, nextPacketId, resolving, connecting, ops,
                       readOp, inbox, app, pubCalls, subCalls, pubAnswers,
                       sent>>
    BY <1>7 DEF RunRead, calls, history
  <2>2. kind = "read" BY <1>2, <2>1 DEF Running
  <2>3. h \in Handlers /\ h.kind = "packet"
    BY <1>3, <2>2 DEF Handler, Handlers
  <2> HIDE DEF h
  <2>4. \A n : ~Bears(h, n) BY <2>3 DEF Bears
  <2>5. /\ loop' \in Seq(Handlers)
        /\ \A k : HasIn(loop', k) <=> HasIn(Tail(loop), k) \/ h.kind = k
        /\ \A n : InLoop(loop', n) <=> InLoop(Tail(loop), n) \/ Bears(h, n)
        /\ \A n : Asked(loop', n) <=> \/ Asked(Tail(loop), n)
                                      \/ h.kind = "publish" /\ h.arg = n
        /\ \A n : /\ OnceInLoop(Tail(loop), n)
                  /\ ~(InLoop(Tail(loop), n) /\ Bears(h, n))
                  => OnceInLoop(loop', n)
    BY <1>3, <2>1, <2>3, AppendFacts
  <2>6. Typed' BY <1>1, <2>1, <2>5, SameTypes DEF Typed
  <2>7. Reading' BY <1>1, <2>1, <2>3, <2>5 DEF Reading
  <2>8. Renewed(ses'.pub, ses.pub) /\ ses'.sub \subseteq ses.sub
    BY <2>1 DEF Renewed
  <2>9. \A n \in PubCalls :
           /\ OnceInLoop(loop', n)
           /\ InLoop(loop', n) => InLoop(loop, n)
           /\ Asked(loop', n) => Asked(loop, n)
    BY <1>4, <2>3, <2>4, <2>5
  <2>10. conn'.queue = conn.queue /\ conn'.inFlight = conn.inFlight BY <2>1
  <2> QED BY <2>1, <2>6, <2>7, <2>8, <2>9, <2>10, PlacesKept
<1> QED BY <1>5, <1>6, <1>7

-----------------------------------------------------------------------------
(* The theorems *)

LEMMA InitCInv == Init => CInv
<1> SUFFICES ASSUME Init PROVE CInv OBVIOUS
<1>1. Typed BY InitTypes
<1>2. /\ ses.pub = {} /\ ses.sub = {} /\ conn.queue = <<>>
      /\ conn.inFlight = NoItem /\ conn.state = "disconnected"
      /\ loop = <<>> /\ pubCalls = 0 /\ readBusy = FALSE /\ readOp = FALSE
      /\ pubAnswers = [n \in PubCalls |-> <<>>]
      /\ sent = [n \in PubCalls |-> [PUBLISH |-> 0, PUBREL |-> 0]]
  BY DEF Init, NewSession, NewConnection
<1>3. IdsOnceOf(ses) BY <1>2 DEF IdsOnceOf
<1>4. Reading BY <1>2 DEF Reading, Live
<1>5. /\ \A n : ~InLoop(loop, n) /\ ~Asked(loop, n) /\ OnceInLoop(loop, n)
      /\ \A n : ~InSes(ses, n) /\ OnceInSes(ses, n)
      /\ \A n : ~InConn(conn, n) /\ OnceInConn(conn, n)
  BY <1>2 DEF InLoop, Asked, OnceInLoop, InSes, OnceInSes, InConn, OnceInConn,
              Elements, Held, Queued
<1>6. ASSUME NEW n \in PubCalls PROVE OnePlace(n) /\ Counted(n)
  <2>1. pubAnswers[n] = <<>> /\ Len(pubAnswers[n]) = 0 /\ sent[n].PUBLISH = 0
    BY <1>2
  <2>2. MaxSends \in Nat BY <1>1, SetupTypes DEF Typed
  <2>3. OnePlace(n) BY <1>5, <2>1 DEF OnePlace
  <2>4. Counted(n) BY <1>2, <1>5, <2>1, <2>2 DEF Counted
  <2> QED BY <2>3, <2>4
<1> QED BY <1>1, <1>3, <1>4, <1>6 DEF CInv

LEMMA IoThreadKeeps == ASSUME CInv, UNCHANGED setup, IoThread PROVE CInv'
<1>1. CASE RunConnect \/ RunResolved \/ RunRead BY <1>1, StartKeeps
<1>2. CASE RunResolveFailed \/ RunConnected \/ RunConnTimer
  BY <1>2, ConnectSteps
<1>3. CASE RunPublishRejected \/ RunPublishNoId BY <1>3, RefusedKeeps
<1>4. CASE RunPublishQos0 BY <1>4, Qos0Keeps
<1>5. CASE RunPublish BY <1>5, PublishKeeps
<1>6. CASE RunSubscribeRejected \/ RunSubscribeNoId
  BY <1>6, SubscribeRefusedKeeps
<1>7. CASE RunSubscribe BY <1>7, SubscribeKeeps
<1>8. CASE RunEnqueue BY <1>8, EnqueueKeeps
<1>9. CASE RunAborted \/ RunFailPending \/ RunWrittenFailed
  BY <1>9, FailedKeeps
<1>10. CASE RunWritten BY <1>10, WrittenKeeps
<1>11. CASE RunPacket BY <1>11, RunPacketKeeps
<1>12. CASE RunBrokenRead BY <1>12, BrokenReadKeeps
<1>13. CASE RunPubRetry BY <1>13, PubRetryKeeps
<1>14. CASE RunRecRetry BY <1>14, RecRetryKeeps
<1>15. CASE RunPingDue \/ RunPongDue \/ RunWrittenQuiet BY <1>15, PingKeeps
<1> QED BY <1>1, <1>2, <1>3, <1>4, <1>5, <1>6, <1>7, <1>8, <1>9, <1>10, <1>11,
           <1>12, <1>13, <1>14, <1>15 DEF IoThread

LEMMA NextCInv == CInv /\ [Next]_vars => CInv'
<1> SUFFICES ASSUME CInv, [Next]_vars PROVE CInv' OBVIOUS
<1>1. UNCHANGED setup BY DEF Next, vars
<1>2. CASE Application
  BY <1>1, <1>2, CallKeeps, PublishCallKeeps, CloseKeeps DEF Application
<1>3. CASE Outside BY <1>1, <1>3, OutsideKeeps, BrokerKeeps DEF Outside
<1>4. CASE Timers BY <1>1, <1>4, TimersKeep
<1>5. CASE IoThread BY <1>1, <1>5, IoThreadKeeps
<1>6. CASE UNCHANGED vars
  <2>1. UNCHANGED session BY <1>6 DEF vars
  <2> QED BY <1>1, <2>1, BrokerKeeps
<1> QED BY <1>2, <1>3, <1>4, <1>5, <1>6 DEF Next

\* What the code keeps between any two handlers: one owner per identifier, a
\* read loop, one place per publish and a count of its frames.
THEOREM ClientInvariant == Spec => []CInv
BY InitCInv, NextCInv, PTL DEF Spec

\* The types of the session, of the connection under it and of its frames: an
\* entry of pending_publishes_ never counts more attempts than the settings
\* allow, and a timer never leaves an entry of another shape.
THEOREM ClientTypeCorrect == Spec => []TypeOK
<1>1. CInv => TypeOK BY TypesTypeOK DEF CInv
<1> QED BY <1>1, ClientInvariant, PTL

\* acquire_packet_id() (client.hpp:720-740): as long as an identifier is
\* pending it is not given to another publish or subscribe, however often the
\* counter wraps and whatever is retried, dropped or acknowledged.
THEOREM OneOwnerPerId == Spec => []IdsUnique
<1>1. CInv => IdsUnique BY DEF CInv, IdsOnceOf, IdsUnique
<1> QED BY <1>1, ClientInvariant, PTL

\* start_read_loop() (client.hpp:313): a connection that is up always has a read
\* outstanding or the handler of one queued, so that the end of the stream is
\* noticed, whatever aborted reads of earlier sockets are still queued.
THEOREM SessionKeepsReading == Spec => []ReadLoopAlive
<1>1. ASSUME CInv PROVE ReadLoopAlive
  <2>1. \A kind : HasIn(loop, kind) => Has(kind)
    BY DEF HasIn, Has, Elements
  <2> QED BY <1>1, <2>1 DEF CInv, Reading, Live, ReadLoopAlive
<1> QED BY <1>1, ClientInvariant, PTL

\* README.md:202, the safety half: the callback of a publish is run once at
\* most, although the write handler of a QoS 0 frame, acknowledgements, the
\* retry timer, failed writes and notify_closed_once() race for it.
THEOREM AnsweredOnce == Spec => []PublishAnsweredOnce
<1>1. CInv => PublishAnsweredOnce
  BY DEF CInv, OnePlace, PublishAnsweredOnce
<1> QED BY <1>1, ClientInvariant, PTL

\* README.md:323 "up to 3 attempts": send_publish_entry() submits the frame of a
\* publish no more often than arm_publish_retry_timer() counts (client.hpp:815),
\* although a completed write and a retry start its timer anew and a PUBREC or
\* the teardown may leave an expired one behind.
THEOREM SendsBounded == Spec => []PublishesBounded
<1>1. CInv => PublishesBounded BY DEF CInv, Counted, PublishesBounded
<1> QED BY <1>1, ClientInvariant, PTL
=============================================================================
