-------------------------- MODULE ConnectionProofs --------------------------
(***************************************************************************)
(* The write queue of litemqtt::connection for every number of frames and  *)
(* attempts, every choice of closing handlers and, with orderly FALSE,     *)
(* an owner that makes every call at any moment: it connects next to an    *)
(* earlier chain or over a live session and marks a closed connection      *)
(* connected.  No handler runs twice, a closed connection holds none, and  *)
(* the frames reach the wire in call order.                                *)
(***************************************************************************)
EXTENDS Connection, SequenceTheorems, TLAPS

\* Queued handlers that carry a frame, and the frames they carry.
CarriesFrame(l, i) == l[i].kind \in {"enqueue", "aborted"}
DistinctCarriers(l) ==
    \A i, j \in 1 .. Len(l) :
        CarriesFrame(l, i) /\ CarriesFrame(l, j) /\ l[i].frame = l[j].frame
            => i = j
Carried(l) == {f \in Frames :
                 \E i \in 1 .. Len(l) : CarriesFrame(l, i) /\ l[i].frame = f}

\* write_queue_ holds no frame twice, nor the one in flight.
DistinctItems(c) ==
    /\ \A i, j \in 1 .. Len(c.queue) : c.queue[i] = c.queue[j] => i = j
    /\ c.inFlight \notin Queued(c)

\* Every frame is in one place at most, and in none once it was reported.
OnePlace ==
    /\ DistinctCarriers(loop)
    /\ DistinctItems(conn)
    /\ Carried(loop) \cap Held(conn) = {}
    /\ \A f \in Frames :
         /\ reports[f] \in {0, 1}
         /\ reports[f] = 1 => f \notin Carried(loop) /\ f \notin Held(conn)
         /\ f > calls =>
              /\ reports[f] = 0
              /\ f \notin Carried(loop) /\ f \notin Held(conn)

IInv == TypeOK /\ OnePlace /\ ClosedHoldsNothing

-----------------------------------------------------------------------------
(* Lemmas about the queue of the io_context *)

\* A handler that carries no frame changes nothing about the carried ones.
LEMMA AppendOther ==
    ASSUME NEW l \in Seq(Handlers), NEW h \in Handlers,
           h.kind \notin {"enqueue", "aborted"}
    PROVE  /\ Append(l, h) \in Seq(Handlers)
           /\ Carried(Append(l, h)) = Carried(l)
           /\ DistinctCarriers(l) => DistinctCarriers(Append(l, h))
BY DEF Carried, CarriesFrame, DistinctCarriers

\* Queueing a frame nobody carries yet.
LEMMA AppendFrame ==
    ASSUME NEW l \in Seq(Handlers), NEW h \in FrameHandlers,
           h.frame \notin Carried(l)
    PROVE  /\ Append(l, h) \in Seq(Handlers)
           /\ Carried(Append(l, h)) = Carried(l) \cup {h.frame}
           /\ DistinctCarriers(l) => DistinctCarriers(Append(l, h))
<1>1. h \in Handlers /\ h.frame \in Frames
      /\ h.kind \in {"enqueue", "aborted"}
  BY DEF Handlers, FrameHandlers
<1>2. Append(l, h) \in Seq(Handlers) BY <1>1
<1>3. Carried(Append(l, h)) = Carried(l) \cup {h.frame}
  BY <1>1 DEF Carried, CarriesFrame
<1>4. DistinctCarriers(l) => DistinctCarriers(Append(l, h))
  <2> SUFFICES ASSUME DistinctCarriers(l),
                      NEW i \in 1 .. Len(Append(l, h)),
                      NEW j \in 1 .. Len(Append(l, h)),
                      CarriesFrame(Append(l, h), i),
                      CarriesFrame(Append(l, h), j),
                      Append(l, h)[i].frame = Append(l, h)[j].frame,
                      i # j
               PROVE  FALSE
    BY DEF DistinctCarriers
  <2>1. \A k \in 1 .. Len(l) : CarriesFrame(l, k) => l[k] \in FrameHandlers
    BY DEF CarriesFrame, Handlers, FrameHandlers, OtherHandlers, Completions
  <2>2. \A k \in 1 .. Len(l) : CarriesFrame(l, k) => l[k].frame # h.frame
    BY <2>1 DEF Carried, FrameHandlers
  <2> QED BY <1>1, <2>2 DEF DistinctCarriers, CarriesFrame
<1> QED BY <1>2, <1>3, <1>4

\* Running the first handler.
LEMMA TailCarried ==
    ASSUME NEW l \in Seq(Handlers), l # <<>>
    PROVE  /\ Tail(l) \in Seq(Handlers)
           /\ Head(l) \in Handlers
           /\ Carried(Tail(l)) \subseteq Carried(l)
           /\ DistinctCarriers(l) => DistinctCarriers(Tail(l))
           /\ DistinctCarriers(l) /\ CarriesFrame(l, 1)
                => /\ Head(l).frame \in Carried(l)
                   /\ Head(l).frame \notin Carried(Tail(l))
<1>1. /\ Tail(l) \in Seq(Handlers) /\ Len(Tail(l)) = Len(l) - 1
      /\ \A i \in 1 .. Len(l) - 1 : Tail(l)[i] = l[i + 1]
      /\ Head(l) = l[1] /\ Head(l) \in Handlers /\ Len(l) \in Nat \ {0}
  BY HeadTailProperties, EmptySeq, LenProperties
<1>2. Carried(Tail(l)) \subseteq Carried(l)
  BY <1>1 DEF Carried, CarriesFrame
<1>3. DistinctCarriers(l) => DistinctCarriers(Tail(l))
  <2> SUFFICES ASSUME DistinctCarriers(l),
                      NEW i \in 1 .. Len(l) - 1, NEW j \in 1 .. Len(l) - 1,
                      CarriesFrame(Tail(l), i), CarriesFrame(Tail(l), j),
                      Tail(l)[i].frame = Tail(l)[j].frame
               PROVE  i = j
    BY <1>1 DEF DistinctCarriers
  <2>1. i + 1 \in 1 .. Len(l) /\ j + 1 \in 1 .. Len(l) BY <1>1
  <2>2. i + 1 = j + 1 BY <1>1, <2>1 DEF DistinctCarriers, CarriesFrame
  <2> QED BY <2>2
<1>4. ASSUME DistinctCarriers(l), CarriesFrame(l, 1)
      PROVE  /\ Head(l).frame \in Carried(l)
             /\ Head(l).frame \notin Carried(Tail(l))
  <2>1. Head(l).frame \in Frames
    BY <1>1, <1>4 DEF CarriesFrame, Handlers, FrameHandlers, OtherHandlers,
                      Completions
  <2>2. Head(l).frame \in Carried(l) BY <1>1, <1>4, <2>1 DEF Carried
  <2>3. ASSUME NEW i \in 1 .. Len(l) - 1, CarriesFrame(Tail(l), i),
               Tail(l)[i].frame = Head(l).frame
        PROVE  FALSE
    <3>1. i + 1 \in 1 .. Len(l) /\ 1 \in 1 .. Len(l) BY <1>1
    <3>2. i + 1 = 1 BY <1>1, <1>4, <2>3, <3>1 DEF DistinctCarriers, CarriesFrame
    <3> QED BY <3>2
  <2> QED BY <1>1, <2>2, <2>3 DEF Carried
<1> QED BY <1>1, <1>2, <1>3, <1>4

\* Completions of aborted operations carry no frame.
LEMMA ConcatCompletions ==
    ASSUME NEW l \in Seq(Handlers), NEW s \in Seq(Completions)
    PROVE  /\ l \o s \in Seq(Handlers)
           /\ Carried(l \o s) = Carried(l)
           /\ DistinctCarriers(l) => DistinctCarriers(l \o s)
<1>1. s \in Seq(Handlers) BY DEF Handlers
<1>2. /\ l \o s \in Seq(Handlers)
      /\ Len(l \o s) = Len(l) + Len(s)
      /\ Len(l) \in Nat /\ Len(s) \in Nat
      /\ \A i \in 1 .. Len(l) + Len(s) :
            (l \o s)[i] = IF i <= Len(l) THEN l[i] ELSE s[i - Len(l)]
  BY <1>1, ConcatProperties, LenProperties
<1>3. \A i \in 1 .. Len(l) + Len(s) : CarriesFrame(l \o s, i) => i \in 1 .. Len(l)
  <2> SUFFICES ASSUME NEW i \in 1 .. Len(l) + Len(s), i > Len(l)
               PROVE  ~CarriesFrame(l \o s, i)
    BY <1>2
  <2>1. i - Len(l) \in 1 .. Len(s) BY <1>2
  <2>2. s[i - Len(l)] \in Completions BY <2>1, ElementOfSeq
  <2> QED BY <1>2, <2>2 DEF CarriesFrame, Completions
<1>4. \A i \in 1 .. Len(l) : i \in 1 .. Len(l) + Len(s) /\ (l \o s)[i] = l[i]
  BY <1>2
<1>5. Carried(l \o s) = Carried(l)
  BY <1>2, <1>3, <1>4 DEF Carried, CarriesFrame
<1>6. DistinctCarriers(l) => DistinctCarriers(l \o s)
  BY <1>2, <1>3, <1>4 DEF DistinctCarriers, CarriesFrame
<1> QED BY <1>2, <1>5, <1>6

\* What closing a socket queues are completions.
LEMMA AbortedType ==
    ASSUME TypeOK
    PROVE  Aborted \in Seq(Completions)
<1>1. [i \in 1 .. Len(ops) |-> [kind |-> "written", ok |-> FALSE]]
        \in Seq(Completions)
  <2>1. Len(ops) \in Nat BY LenProperties DEF TypeOK
  <2>2. [kind |-> "written", ok |-> FALSE] \in Completions BY DEF Completions
  <2> QED BY <2>1, <2>2
<1>2. (IF connecting THEN <<[kind |-> "connected", ok |-> FALSE]>> ELSE <<>>)
        \in Seq(Completions)
  <2>1. [kind |-> "connected", ok |-> FALSE] \in Completions BY DEF Completions
  <2>2. <<[kind |-> "connected", ok |-> FALSE]>> \in Seq(Completions) BY <2>1
  <2>3. <<>> \in Seq(Completions) OBVIOUS
  <2> QED BY <2>2, <2>3
<1> QED BY <1>1, <1>2, ConcatProperties DEF Aborted

-----------------------------------------------------------------------------
(* Lemmas about the connection record *)

\* close() leaves a connection that holds nothing.
LEMMA CloseFacts ==
    ASSUME NEW c \in Connections(Frames), DistinctItems(c)
    PROVE  /\ Close(c) \in Connections(Frames)
           /\ DistinctItems(Close(c))
           /\ Close(c).closed
           /\ Held(Close(c)) \subseteq Held(c)
           /\ Held(Close(c)) \cap CloseTells(c) = {}
           /\ CloseTells(c) \subseteq Held(c)
           /\ (c.closed => Held(c) = {}) => Held(Close(c)) = {}
<1>1. CASE c.closed
  BY <1>1 DEF Close, CloseTells
<1>2. CASE ~c.closed
  <2>1. /\ Close(c) \in Connections(Frames) /\ Close(c).closed
        /\ Close(c).queue = <<>> /\ Close(c).inFlight = NoItem
    BY <1>2 DEF Close, Connections, ConnectionStates
  <2>2. Queued(Close(c)) = {} BY <2>1 DEF Queued
  <2>3. Held(Close(c)) = {} BY <2>1, <2>2 DEF Held
  <2>4. DistinctItems(Close(c)) BY <2>1, <2>2 DEF DistinctItems
  <2> QED BY <1>2, <2>1, <2>3, <2>4 DEF CloseTells
<1> QED BY <1>1, <1>2

\* Running the handlers of items that were taken out of c, closing ones
\* included, tells no frame that stays behind.
LEMMA HandlerFacts ==
    ASSUME NEW c \in Connections(Frames), DistinctItems(c),
           NEW items \in SUBSET Frames, items \cap Held(c) = {},
           c.closed => Held(c) = {}
    PROVE  /\ AfterHandlers(c, items) \in Connections(Frames)
           /\ DistinctItems(AfterHandlers(c, items))
           /\ Held(AfterHandlers(c, items)) \subseteq Held(c)
           /\ TellsAfter(c, items) \subseteq items \cup Held(c)
           /\ Held(AfterHandlers(c, items)) \cap TellsAfter(c, items) = {}
           /\ AfterHandlers(c, items).closed
                => Held(AfterHandlers(c, items)) = {}
BY CloseFacts DEF AfterHandlers, TellsAfter

\* do_write() moves the first item in flight and duplicates nothing.
LEMMA DoWriteFacts ==
    ASSUME NEW c \in Connections(Frames), DistinctItems(c), NoItem \notin Frames
    PROVE  /\ DoWrite(c) \in Connections(Frames)
           /\ DistinctItems(DoWrite(c))
           /\ Held(DoWrite(c)) \subseteq Held(c)
           /\ DoWrite(c).closed = c.closed
           /\ StartsWrite(c) => Head(c.queue) \in Frames
<1>1. CASE ~StartsWrite(c) BY <1>1 DEF DoWrite
<1>2. CASE StartsWrite(c)
  <2> DEFINE q == c.queue
             d == DoWrite(c)
  <2>1. q \in Seq(Frames) /\ q # <<>>
    BY <1>2 DEF StartsWrite, Connections
  <2>2. /\ Head(q) \in Frames /\ Tail(q) \in Seq(Frames)
        /\ Len(q) \in Nat \ {0} /\ Len(Tail(q)) = Len(q) - 1
        /\ \A i \in 1 .. Len(q) - 1 : Tail(q)[i] = q[i + 1]
        /\ Head(q) = q[1]
    BY <2>1, HeadTailProperties, EmptySeq
  <2>3. /\ d \in Connections(Frames) /\ d.queue = Tail(q)
        /\ d.inFlight = Head(q) /\ d.closed = c.closed
    BY <1>2, <2>2 DEF DoWrite, Connections
  <2> HIDE DEF d, q
  <2>4. Queued(d) \subseteq Queued(c)
    BY <2>2, <2>3 DEF Queued, q
  <2>5. \A i, j \in 1 .. Len(d.queue) : d.queue[i] = d.queue[j] => i = j
    <3> SUFFICES ASSUME NEW i \in 1 .. Len(q) - 1, NEW j \in 1 .. Len(q) - 1,
                        Tail(q)[i] = Tail(q)[j]
                 PROVE  i = j
      BY <2>2, <2>3
    <3>1. i + 1 \in 1 .. Len(q) /\ j + 1 \in 1 .. Len(q) BY <2>2
    <3>2. i + 1 = j + 1 BY <2>2, <3>1 DEF DistinctItems, q
    <3> QED BY <3>2
  <2>6. d.inFlight \notin Queued(d)
    <3> SUFFICES ASSUME NEW i \in 1 .. Len(q) - 1, Tail(q)[i] = q[1]
                 PROVE  FALSE
      BY <2>2, <2>3 DEF Queued
    <3>1. i + 1 \in 1 .. Len(q) /\ 1 \in 1 .. Len(q) BY <2>2
    <3>2. i + 1 = 1 BY <2>2, <3>1 DEF DistinctItems, q
    <3> QED BY <3>2
  <2>7. Head(q) \in Queued(c) BY <2>2 DEF Queued, q
  <2>8. Held(d) \subseteq Held(c) BY <2>3, <2>4, <2>7 DEF Held
  <2> QED BY <2>2, <2>3, <2>5, <2>6, <2>8 DEF DistinctItems, d, q
<1> QED BY <1>1, <1>2

\* enqueue_write() of a frame that is nowhere else.
LEMMA EnqueueFacts ==
    ASSUME NEW c \in Connections(Frames), DistinctItems(c),
           NEW f \in Frames, f \notin Held(c), NoItem \notin Frames
    PROVE  /\ Enqueue(c, f) \in Connections(Frames)
           /\ DistinctItems(Enqueue(c, f))
           /\ Held(Enqueue(c, f)) = Held(c) \cup {f}
           /\ Enqueue(c, f).closed = c.closed
<1> DEFINE e == Enqueue(c, f)
<1>1. /\ e \in Connections(Frames) /\ e.queue = Append(c.queue, f)
      /\ e.inFlight = c.inFlight /\ e.closed = c.closed
  BY DEF Enqueue, Connections
<1>2. /\ Len(c.queue) \in Nat /\ Len(e.queue) = Len(c.queue) + 1
      /\ \A i \in 1 .. Len(c.queue) : e.queue[i] = c.queue[i]
      /\ e.queue[Len(c.queue) + 1] = f
  BY <1>1, AppendProperties DEF Connections
<1> HIDE DEF e
<1>3. Queued(e) = Queued(c) \cup {f} BY <1>2 DEF Queued
<1>4. f \notin Queued(c) /\ f # c.inFlight BY DEF Held
<1>5. DistinctItems(e)
  <2>1. e.inFlight \notin Queued(e) BY <1>1, <1>3, <1>4 DEF DistinctItems
  <2>2. \A i \in 1 .. Len(c.queue) : c.queue[i] # f BY <1>4 DEF Queued
  <2>3. \A i, j \in 1 .. Len(e.queue) : e.queue[i] = e.queue[j] => i = j
    <3> SUFFICES ASSUME NEW i \in 1 .. Len(c.queue) + 1,
                        NEW j \in 1 .. Len(c.queue) + 1,
                        e.queue[i] = e.queue[j]
                 PROVE  i = j
      BY <1>2
    <3>1. CASE i = Len(c.queue) + 1
      <4>1. e.queue[j] = f BY <1>2, <3>1
      <4> QED BY <1>2, <2>2, <3>1, <4>1
    <3>2. CASE j = Len(c.queue) + 1
      <4>1. e.queue[i] = f BY <1>2, <3>2
      <4> QED BY <1>2, <2>2, <3>2, <4>1
    <3>3. CASE i # Len(c.queue) + 1 /\ j # Len(c.queue) + 1
      <4>1. i \in 1 .. Len(c.queue) /\ j \in 1 .. Len(c.queue) BY <1>2, <3>3
      <4>2. c.queue[i] = c.queue[j] BY <1>2, <4>1
      <4> QED BY <4>1, <4>2 DEF DistinctItems
    <3> QED BY <3>1, <3>2, <3>3
  <2> QED BY <2>1, <2>3 DEF DistinctItems
<1> QED BY <1>1, <1>3, <1>5 DEF Held, e

-----------------------------------------------------------------------------
(* The inductive invariant *)

\* Initially nothing is held, carried or reported.
LEMMA InitIInv == Init => IInv
<1> SUFFICES ASSUME Init PROVE IInv OBVIOUS
<1> USE ConnectionAssumption DEF Init, Frames
<1>1. /\ conn \in Connections(Frames) /\ conn.queue = <<>>
      /\ conn.inFlight = NoItem
  BY DEF NewConnection, Connections, ConnectionStates
<1>2. Queued(conn) = {} BY <1>1 DEF Queued
<1>3. Held(conn) = {} BY <1>1, <1>2 DEF Held
<1>4. Carried(loop) = {} BY DEF Carried
<1>5. DistinctItems(conn) BY <1>1, <1>2 DEF DistinctItems
<1>6. DistinctCarriers(loop) BY DEF DistinctCarriers
<1>7. TypeOK
  <2>1. loop \in Seq(Handlers) /\ ops \in Seq(Frames) /\ wire \in Seq(Frames)
    OBVIOUS
  <2>2. reports \in [Frames -> Nat] OBVIOUS
  <2>3. calls \in 0 .. MaxCalls /\ connects \in 0 .. MaxConnects OBVIOUS
  <2> QED BY <1>1, <2>1, <2>2, <2>3 DEF TypeOK
<1> QED BY <1>3, <1>4, <1>5, <1>6, <1>7 DEF IInv, OnePlace, ClosedHoldsNothing

\* The part of the invariant that a step which runs no handler keeps, when it
\* moves frames between the io_context and the connection.
LEMMA MoveStep ==
    ASSUME IInv, TypeOK', UNCHANGED <<calls, reports>>,
           DistinctCarriers(loop'), DistinctItems(conn'),
           Carried(loop') \cap Held(conn') = {},
           Carried(loop') \cup Held(conn')
               \subseteq Carried(loop) \cup Held(conn),
           conn'.closed => Held(conn') = {}
    PROVE  IInv'
BY DEF IInv, OnePlace, ClosedHoldsNothing

\* ... and when it runs the handlers of the frames in told, none of which is
\* anywhere afterwards.
LEMMA TellStep ==
    ASSUME IInv, TypeOK', UNCHANGED calls,
           NEW told \in SUBSET (Carried(loop) \cup Held(conn)),
           NEW fine, Tell(told, fine),
           DistinctCarriers(loop'), DistinctItems(conn'),
           Carried(loop') \subseteq Carried(loop),
           Held(conn') \subseteq Held(conn),
           told \cap (Carried(loop') \cup Held(conn')) = {},
           conn'.closed => Held(conn') = {}
    PROVE  IInv'
<1>1. \A f \in Frames : reports'[f] = IF f \in told THEN reports[f] + 1
                                                   ELSE reports[f]
  BY DEF Tell
<1>2. \A f \in told : f \in Frames => reports[f] = 0 /\ f <= calls
  BY DEF IInv, OnePlace, Frames, TypeOK
<1>3. Carried(loop') \cap Held(conn') = {} BY DEF IInv, OnePlace
<1>4. ASSUME NEW f \in Frames
      PROVE  /\ reports'[f] \in {0, 1}
             /\ reports'[f] = 1 => f \notin Carried(loop') /\ f \notin Held(conn')
             /\ f > calls => /\ reports'[f] = 0
                            /\ f \notin Carried(loop') /\ f \notin Held(conn')
  <2>1. CASE f \in told BY <1>1, <1>2, <2>1 DEF Frames, IInv, TypeOK
  <2>2. CASE f \notin told BY <1>1, <2>2 DEF IInv, OnePlace
  <2> QED BY <2>1, <2>2
<1> QED BY <1>3, <1>4 DEF IInv, OnePlace, ClosedHoldsNothing

\* Closing the socket while rest stays queued carries no new frame.
LEMMA BecomeFacts ==
    ASSUME TypeOK, NEW c, NEW rest \in Seq(Handlers), DistinctCarriers(rest),
           Become(c, rest)
    PROVE  /\ conn' = c
           /\ loop' \in Seq(Handlers)
           /\ Carried(loop') = Carried(rest)
           /\ DistinctCarriers(loop')
           /\ ops' \in Seq(Frames)
           /\ connecting' \in BOOLEAN
<1>1. CASE conn.open /\ ~c.open
  <2>1. Aborted \in Seq(Completions) BY AbortedType
  <2>2. /\ conn' = c /\ loop' = rest \o Aborted
        /\ ops' = <<>> /\ connecting' = FALSE
    BY <1>1 DEF Become
  <2>3. ops' \in Seq(Frames) BY <2>2
  <2> HIDE DEF Aborted
  <2> QED BY <2>1, <2>2, <2>3, ConcatCompletions
<1>2. CASE ~(conn.open /\ ~c.open) BY <1>2 DEF Become, TypeOK
<1> QED BY <1>1, <1>2

\* do_write() at the end of a handler keeps every frame in one place.
LEMMA ThenDoWriteFacts ==
    ASSUME TypeOK, NEW c \in Connections(Frames), DistinctItems(c),
           NEW rest \in Seq(Handlers), DistinctCarriers(rest),
           ThenDoWrite(c, rest)
    PROVE  /\ conn' \in Connections(Frames)
           /\ DistinctItems(conn')
           /\ Held(conn') \subseteq Held(c)
           /\ conn'.closed = c.closed
           /\ loop' \in Seq(Handlers)
           /\ Carried(loop') = Carried(rest)
           /\ DistinctCarriers(loop')
           /\ ops' \in Seq(Frames)
           /\ wire' \in Seq(Frames)
<1>0. NoItem \notin Frames BY ConnectionAssumption DEF Frames
<1>1. /\ conn' \in Connections(Frames)
      /\ DistinctItems(conn')
      /\ Held(conn') \subseteq Held(c)
      /\ conn'.closed = c.closed
      /\ StartsWrite(c) => Head(c.queue) \in Frames
  BY <1>0, DoWriteFacts DEF ThenDoWrite
<1>2. ops' \in Seq(Frames) /\ wire' \in Seq(Frames)
  BY <1>1 DEF ThenDoWrite, TypeOK
<1>3. /\ [kind |-> "failPending"] \in Handlers
      /\ [kind |-> "failPending"].kind \notin {"enqueue", "aborted"}
  BY DEF Handlers, OtherHandlers
<1>4. /\ loop' \in Seq(Handlers)
      /\ Carried(loop') = Carried(rest)
      /\ DistinctCarriers(loop')
  BY <1>3, AppendOther DEF ThenDoWrite
<1> QED BY <1>1, <1>2, <1>4

\* A completion is queued: nothing moves.
LEMMA QueueCompletion ==
    ASSUME IInv, NEW h \in Completions, loop' = Append(loop, h),
           UNCHANGED <<conn, calls, reports>>, TypeOK'
    PROVE  IInv'
<1>1. h \in Handlers /\ h.kind \notin {"enqueue", "aborted"}
  BY DEF Handlers, Completions
<1>2. /\ Carried(loop') = Carried(loop)
      /\ DistinctCarriers(loop')
  BY <1>1, AppendOther DEF IInv, TypeOK, OnePlace
<1> QED BY <1>2, MoveStep DEF IInv, OnePlace, ClosedHoldsNothing

-----------------------------------------------------------------------------
(* One step per action: calls of the owner *)

\* async_write_packet() brings in a frame that was nowhere.
LEMMA AsyncWritePacketStep == IInv /\ AsyncWritePacket => IInv'
<1> SUFFICES ASSUME IInv, AsyncWritePacket PROVE IInv' OBVIOUS
<1> DEFINE h == [kind |-> "enqueue", frame |-> calls + 1]
<1>1. calls + 1 \in Frames /\ h \in FrameHandlers /\ calls \in Nat
  BY ConnectionAssumption
     DEF AsyncWritePacket, IInv, TypeOK, Frames, FrameHandlers
<1>2. calls + 1 \notin Carried(loop) /\ calls + 1 \notin Held(conn)
  BY <1>1 DEF IInv, OnePlace
<1>3. loop' = Append(loop, h) BY DEF AsyncWritePacket
<1>4. loop \in Seq(Handlers) /\ h.frame = calls + 1 BY DEF IInv, TypeOK
<1> HIDE DEF h
<1>5. /\ loop' \in Seq(Handlers)
      /\ Carried(loop') = Carried(loop) \cup {calls + 1}
      /\ DistinctCarriers(loop')
  BY <1>1, <1>2, <1>3, <1>4, AppendFrame DEF IInv, OnePlace
<1>6. TypeOK'
  BY <1>5, <1>1 DEF AsyncWritePacket, IInv, TypeOK, net, history, Frames
<1>7. \A f \in Frames : f > calls' => f > calls /\ f # calls + 1
  BY <1>1 DEF AsyncWritePacket, Frames
<1>8. UNCHANGED <<conn, reports>> BY DEF AsyncWritePacket, history
<1>9. reports[calls + 1] = 0 BY <1>1 DEF IInv, OnePlace
<1> QED BY <1>2, <1>5, <1>6, <1>7, <1>8, <1>9
        DEF IInv, OnePlace, ClosedHoldsNothing

\* async_connect() leaves queue and flight alone.
LEMMA AsyncConnectStep == IInv /\ AsyncConnect => IInv'
<1> SUFFICES ASSUME IInv, AsyncConnect PROVE IInv' OBVIOUS
<1>1. /\ conn' \in Connections(Frames) /\ conn'.queue = conn.queue
      /\ conn'.inFlight = conn.inFlight /\ conn'.closed = FALSE
  BY DEF AsyncConnect, BeginConnect, IInv, TypeOK, Connections,
         ConnectionStates
<1>2. Held(conn') = Held(conn) /\ DistinctItems(conn')
  BY <1>1 DEF Held, Queued, DistinctItems, IInv, OnePlace
<1>3. TypeOK'
  BY <1>1, ConnectionAssumption
     DEF AsyncConnect, IInv, TypeOK, net, history
<1>4. UNCHANGED <<loop, calls, reports>> BY DEF AsyncConnect, history
<1> QED BY <1>1, <1>2, <1>3, <1>4, MoveStep DEF IInv, OnePlace

\* mark_connected() leaves queue and flight alone.
LEMMA MarkConnectedStep == IInv /\ MarkConnected => IInv'
<1> SUFFICES ASSUME IInv, MarkConnected PROVE IInv' OBVIOUS
<1>1. /\ conn' \in Connections(Frames) /\ conn'.queue = conn.queue
      /\ conn'.inFlight = conn.inFlight /\ conn'.closed = conn.closed
  BY DEF MarkConnected, IInv, TypeOK, Connections, ConnectionStates
<1>2. Held(conn') = Held(conn) /\ DistinctItems(conn')
  BY <1>1 DEF Held, Queued, DistinctItems, IInv, OnePlace
<1>3. TypeOK' BY <1>1 DEF MarkConnected, IInv, TypeOK, net, history
<1>4. UNCHANGED <<loop, calls, reports>> BY DEF MarkConnected, history
<1> QED BY <1>1, <1>2, <1>3, <1>4, MoveStep
        DEF IInv, OnePlace, ClosedHoldsNothing

\* close() runs the handlers of all it held, once.
LEMMA OwnerCloseStep == IInv /\ OwnerClose => IInv'
<1> SUFFICES ASSUME IInv, OwnerClose PROVE IInv' OBVIOUS
<1>1. conn \in Connections(Frames) /\ DistinctItems(conn)
      /\ loop \in Seq(Handlers) /\ DistinctCarriers(loop)
  BY DEF IInv, TypeOK, OnePlace
<1>2. /\ conn' = Close(conn) /\ loop' \in Seq(Handlers)
      /\ Carried(loop') = Carried(loop) /\ DistinctCarriers(loop')
      /\ ops' \in Seq(Frames) /\ connecting' \in BOOLEAN
  BY <1>1, BecomeFacts DEF OwnerClose, IInv
<1>3. /\ conn' \in Connections(Frames) /\ DistinctItems(conn')
      /\ Held(conn') \subseteq Held(conn)
      /\ Held(conn') \cap CloseTells(conn) = {}
      /\ CloseTells(conn) \subseteq Held(conn)
      /\ Held(conn') = {}
  BY <1>1, <1>2, CloseFacts DEF IInv, ClosedHoldsNothing
<1>4. Tell(CloseTells(conn), {}) /\ UNCHANGED calls BY DEF OwnerClose
<1>5. TypeOK'
  BY <1>2, <1>3, <1>4 DEF OwnerClose, Tell, IInv, TypeOK
<1>6. CloseTells(conn) \cap Carried(loop') = {}
  BY <1>2, <1>3 DEF IInv, OnePlace
<1> QED BY <1>2, <1>3, <1>4, <1>5, <1>6, TellStep

-----------------------------------------------------------------------------
(* One step per action: the network *)

\* The resolver answers: one completion is queued.
LEMMA ResolveDoneStep == IInv /\ ResolveDone => IInv'
<1> SUFFICES ASSUME IInv, ResolveDone PROVE IInv' OBVIOUS
<1>1. PICK ok \in BOOLEAN : loop' = Append(loop, [kind |-> "resolved", ok |-> ok])
  BY DEF ResolveDone
<1>2. [kind |-> "resolved", ok |-> ok] \in Completions BY DEF Completions
<1>3. loop' \in Seq(Handlers) BY <1>1, <1>2 DEF IInv, TypeOK, Handlers
<1>4. TypeOK' BY <1>3 DEF ResolveDone, IInv, TypeOK, history
<1> QED BY <1>1, <1>2, <1>4, QueueCompletion DEF ResolveDone, history

\* The connect ends: one completion is queued.
LEMMA ConnectDoneStep == IInv /\ ConnectDone => IInv'
<1> SUFFICES ASSUME IInv, ConnectDone PROVE IInv' OBVIOUS
<1>1. PICK ok \in BOOLEAN : loop' = Append(loop, [kind |-> "connected", ok |-> ok])
  BY DEF ConnectDone
<1>2. [kind |-> "connected", ok |-> ok] \in Completions BY DEF Completions
<1>3. loop' \in Seq(Handlers) BY <1>1, <1>2 DEF IInv, TypeOK, Handlers
<1>4. TypeOK' BY <1>3 DEF ConnectDone, IInv, TypeOK, history
<1> QED BY <1>1, <1>2, <1>4, QueueCompletion DEF ConnectDone, history

\* A write ends: one completion is queued.
LEMMA WriteDoneStep == IInv /\ WriteDone => IInv'
<1> SUFFICES ASSUME IInv, WriteDone PROVE IInv' OBVIOUS
<1>1. PICK ok \in BOOLEAN :
         /\ loop' = Append(loop, [kind |-> "written", ok |-> ok])
         /\ delivered' = IF ok THEN delivered \cup {Head(ops)} ELSE delivered
  BY DEF WriteDone
<1>2. [kind |-> "written", ok |-> ok] \in Completions BY DEF Completions
<1>3. loop' \in Seq(Handlers) BY <1>1, <1>2 DEF IInv, TypeOK, Handlers
<1>4. ops' \in Seq(Frames) /\ Head(ops) \in Frames
  BY DEF WriteDone, IInv, TypeOK
<1>5. TypeOK' BY <1>1, <1>3, <1>4 DEF WriteDone, IInv, TypeOK
<1> QED BY <1>1, <1>2, <1>5, QueueCompletion DEF WriteDone

-----------------------------------------------------------------------------
(* One step per action: handlers of the io thread *)

\* What every handler starts from: it was the first of the queue.
LEMMA HandlerStart ==
    ASSUME IInv, loop # <<>>
    PROVE  /\ conn \in Connections(Frames) /\ DistinctItems(conn)
           /\ conn.closed => Held(conn) = {}
           /\ Head(loop) \in Handlers
           /\ Tail(loop) \in Seq(Handlers) /\ DistinctCarriers(Tail(loop))
           /\ Carried(Tail(loop)) \subseteq Carried(loop)
           /\ Head(loop).kind \in {"enqueue", "aborted"}
                => /\ Head(loop).frame \in Frames
                   /\ Head(loop).frame \in Carried(loop)
                   /\ Head(loop).frame \notin Carried(Tail(loop))
                   /\ Head(loop).frame \notin Held(conn)
<1>1. /\ conn \in Connections(Frames) /\ DistinctItems(conn)
      /\ conn.closed => Held(conn) = {}
      /\ loop \in Seq(Handlers) /\ DistinctCarriers(loop)
  BY DEF IInv, TypeOK, OnePlace, ClosedHoldsNothing
<1>2. Head(loop) = loop[1] OBVIOUS
<1>3. Head(loop).kind \in {"enqueue", "aborted"} => CarriesFrame(loop, 1)
  BY <1>2 DEF CarriesFrame
<1>4. Carried(loop) \subseteq Frames BY DEF Carried
<1> QED BY <1>1, <1>3, <1>4, TailCarried DEF IInv, OnePlace

\* A handler that runs the handlers of items taken out of c, which hold
\* together no more than conn and the frame of the queued handler did.
LEMMA RunItems ==
    ASSUME IInv, loop # <<>>,
           NEW c \in Connections(Frames), DistinctItems(c),
           Held(c) \subseteq Held(conn), c.closed => Held(c) = {},
           NEW items \in SUBSET (Carried(loop) \cup Held(conn)),
           items \cap Held(c) = {}, items \cap Carried(Tail(loop)) = {},
           NEW fine \in SUBSET Frames,
           Become(AfterHandlers(c, items), Tail(loop)),
           Tell(TellsAfter(c, items), fine),
           UNCHANGED <<resolving, calls, connects, wire, delivered>>
    PROVE  IInv'
<1> DEFINE d == AfterHandlers(c, items)
           told == TellsAfter(c, items)
<1>1. items \in SUBSET Frames
  <2>1. Carried(loop) \subseteq Frames BY DEF Carried
  <2>2. Held(conn) \subseteq Frames
    <3>1. conn.queue \in Seq(Frames) /\ conn.inFlight \in Frames \cup {NoItem}
      BY DEF IInv, TypeOK, Connections
    <3>2. Queued(conn) \subseteq Frames BY <3>1, ElementOfSeq DEF Queued
    <3> QED BY <3>1, <3>2 DEF Held
  <2> QED BY <2>1, <2>2
<1>2. /\ d \in Connections(Frames) /\ DistinctItems(d)
      /\ Held(d) \subseteq Held(c)
      /\ told \subseteq items \cup Held(c)
      /\ Held(d) \cap told = {}
      /\ d.closed => Held(d) = {}
  BY <1>1, HandlerFacts
<1>3. /\ Tail(loop) \in Seq(Handlers) /\ DistinctCarriers(Tail(loop))
      /\ Carried(Tail(loop)) \subseteq Carried(loop)
  BY HandlerStart
<1> HIDE DEF d, told
<1>4. /\ conn' = d /\ loop' \in Seq(Handlers)
      /\ Carried(loop') = Carried(Tail(loop)) /\ DistinctCarriers(loop')
      /\ ops' \in Seq(Frames) /\ connecting' \in BOOLEAN
  BY <1>3, BecomeFacts DEF IInv, d
<1>5. Tell(told, fine) BY DEF told
<1>6. TypeOK' BY <1>2, <1>4, <1>5 DEF Tell, IInv, TypeOK
<1>7. told \cap (Carried(loop') \cup Held(conn')) = {}
  BY <1>2, <1>3, <1>4 DEF IInv, OnePlace
<1>8. told \in SUBSET (Carried(loop) \cup Held(conn)) BY <1>2
<1> QED BY <1>2, <1>3, <1>4, <1>5, <1>6, <1>7, <1>8, TellStep

\* enqueue_write() moves its frame from the loop to the queue or on.
LEMMA RunEnqueueStep == IInv /\ RunEnqueue => IInv'
<1> SUFFICES ASSUME IInv, RunEnqueue PROVE IInv' OBVIOUS
<1> DEFINE f == Head(loop).frame
<1>0. loop # <<>> /\ Head(loop).kind = "enqueue"
  BY DEF RunEnqueue, Running
<1>1. /\ conn \in Connections(Frames) /\ DistinctItems(conn)
      /\ conn.closed => Held(conn) = {}
      /\ Tail(loop) \in Seq(Handlers) /\ DistinctCarriers(Tail(loop))
      /\ Carried(Tail(loop)) \subseteq Carried(loop)
      /\ f \in Frames /\ f \in Carried(loop) /\ f \notin Carried(Tail(loop))
      /\ f \notin Held(conn)
  BY <1>0, HandlerStart
<1>2. /\ UNCHANGED <<resolving, connecting, calls, connects, reports, good,
                     delivered>>
      /\ conn.closed =>
           /\ loop' = Append(Tail(loop), [kind |-> "aborted", frame |-> f])
           /\ UNCHANGED <<conn, ops, wire>>
      /\ ~conn.closed => ThenDoWrite(Enqueue(conn, f), Tail(loop))
  BY DEF RunEnqueue
<1> HIDE DEF f
<1>3. CASE conn.closed
  <2>1. [kind |-> "aborted", frame |-> f] \in FrameHandlers
    BY <1>1 DEF FrameHandlers
  <2>2. /\ loop' \in Seq(Handlers)
        /\ Carried(loop') = Carried(Tail(loop)) \cup {f}
        /\ DistinctCarriers(loop')
    BY <1>1, <1>2, <1>3, <2>1, AppendFrame
  <2>3. TypeOK' BY <1>2, <1>3, <2>2 DEF IInv, TypeOK
  <2> QED BY <1>1, <1>2, <1>3, <2>2, <2>3, MoveStep
          DEF IInv, OnePlace, ClosedHoldsNothing
<1>4. CASE ~conn.closed
  <2> DEFINE e == Enqueue(conn, f)
  <2>1. NoItem \notin Frames BY ConnectionAssumption DEF Frames
  <2>2. /\ e \in Connections(Frames) /\ DistinctItems(e)
        /\ Held(e) = Held(conn) \cup {f} /\ e.closed = conn.closed
    BY <1>1, <2>1, EnqueueFacts
  <2> HIDE DEF e
  <2>3. ThenDoWrite(e, Tail(loop)) BY <1>2, <1>4 DEF e
  <2>4. /\ conn' \in Connections(Frames) /\ DistinctItems(conn')
        /\ Held(conn') \subseteq Held(e) /\ conn'.closed = e.closed
        /\ loop' \in Seq(Handlers) /\ Carried(loop') = Carried(Tail(loop))
        /\ DistinctCarriers(loop')
        /\ ops' \in Seq(Frames) /\ wire' \in Seq(Frames)
    BY <1>1, <2>2, <2>3, ThenDoWriteFacts DEF IInv
  <2>5. TypeOK' BY <1>2, <2>4 DEF IInv, TypeOK
  <2>6. Carried(loop') \cap Held(conn') = {}
    BY <1>1, <2>2, <2>4 DEF IInv, OnePlace
  <2>7. Carried(loop') \cup Held(conn') \subseteq Carried(loop) \cup Held(conn)
    BY <1>1, <2>2, <2>4
  <2>8. ~conn'.closed BY <1>4, <2>2, <2>4
  <2> QED BY <1>2, <2>4, <2>5, <2>6, <2>7, <2>8, MoveStep
<1> QED BY <1>3, <1>4

\* The report of a refused frame runs its handler, once.
LEMMA RunAbortedStep == IInv /\ RunAborted => IInv'
<1> SUFFICES ASSUME IInv, RunAborted PROVE IInv' OBVIOUS
<1> DEFINE items == {Head(loop).frame}
<1>1. loop # <<>> /\ Head(loop).kind = "aborted" BY DEF RunAborted, Running
<1>2. /\ items \in SUBSET (Carried(loop) \cup Held(conn))
      /\ items \cap Held(conn) = {} /\ items \cap Carried(Tail(loop)) = {}
      /\ conn \in Connections(Frames) /\ DistinctItems(conn)
      /\ conn.closed => Held(conn) = {}
  BY <1>1, HandlerStart
<1>3. /\ Become(AfterHandlers(conn, items), Tail(loop))
      /\ Tell(TellsAfter(conn, items), {})
      /\ UNCHANGED <<resolving, calls, connects, wire, delivered>>
  BY DEF RunAborted
<1> HIDE DEF items
<1> QED BY <1>1, <1>2, <1>3, RunItems

\* fail_pending_writes() runs the handlers of the queue, once.
LEMMA RunFailPendingStep == IInv /\ RunFailPending => IInv'
<1> SUFFICES ASSUME IInv, RunFailPending PROVE IInv' OBVIOUS
<1> DEFINE items == Queued(conn)
           c == FailPending(conn)
<1>1. loop # <<>> BY DEF RunFailPending, Running
<1>2. conn \in Connections(Frames) /\ DistinctItems(conn)
      /\ (conn.closed => Held(conn) = {})
      /\ Carried(Tail(loop)) \subseteq Carried(loop)
  BY <1>1, HandlerStart
<1>3. /\ c \in Connections(Frames) /\ c.queue = <<>>
      /\ c.inFlight = conn.inFlight /\ c.closed = conn.closed
  <2>1. <<>> \in Seq(Frames) OBVIOUS
  <2> QED BY <1>2, <2>1 DEF FailPending, Connections
<1>4. /\ Become(AfterHandlers(c, items), Tail(loop))
      /\ Tell(TellsAfter(c, items), {})
      /\ UNCHANGED <<resolving, calls, connects, wire, delivered>>
  BY DEF RunFailPending
<1> HIDE DEF c
<1>5. Queued(c) = {} BY <1>3 DEF Queued
<1>6. Held(c) = {conn.inFlight} \ {NoItem} /\ DistinctItems(c)
  BY <1>3, <1>5 DEF Held, DistinctItems
<1>7. Held(c) \subseteq Held(conn) /\ items \subseteq Held(conn)
      /\ items \cap Held(c) = {}
  BY <1>2, <1>6 DEF Held, DistinctItems
<1>8. items \cap Carried(Tail(loop)) = {}
  BY <1>2, <1>7 DEF IInv, OnePlace
<1> HIDE DEF items
<1> QED BY <1>1, <1>2, <1>3, <1>4, <1>6, <1>7, <1>8, RunItems

\* A completion that finds no item runs nothing.
LEMMA RunWrittenQuietStep == IInv /\ RunWrittenQuiet => IInv'
<1> SUFFICES ASSUME IInv, RunWrittenQuiet PROVE IInv' OBVIOUS
<1>1. loop # <<>> BY DEF RunWrittenQuiet, Running
<1>2. /\ loop' = Tail(loop)
      /\ UNCHANGED <<conn, net, calls, connects, history>>
  BY DEF RunWrittenQuiet
<1>3. /\ loop' \in Seq(Handlers) /\ DistinctCarriers(loop')
      /\ Carried(loop') \subseteq Carried(loop)
  BY <1>1, <1>2, HandlerStart
<1>4. TypeOK' BY <1>2, <1>3 DEF IInv, TypeOK, net, history
<1> QED BY <1>2, <1>3, <1>4, MoveStep
        DEF IInv, OnePlace, ClosedHoldsNothing, history

\* Taking the item out of in_flight_ leaves the queue.
LEMMA TakeFacts ==
    ASSUME NEW c \in Connections(Frames), DistinctItems(c), c.inFlight # NoItem,
           NoItem \notin Frames
    PROVE  /\ TakeInFlight(c) \in Connections(Frames)
           /\ DistinctItems(TakeInFlight(c))
           /\ TakeInFlight(c).closed = c.closed
           /\ Held(TakeInFlight(c)) = Queued(c)
           /\ Held(c) = Queued(c) \cup {c.inFlight}
           /\ c.inFlight \in Frames /\ c.inFlight \notin Queued(c)
<1> DEFINE d == TakeInFlight(c)
<1>1. /\ d \in Connections(Frames) /\ d.queue = c.queue
      /\ d.inFlight = NoItem /\ d.closed = c.closed
  BY DEF TakeInFlight, Connections
<1> HIDE DEF d
<1>2. Queued(d) = Queued(c) BY <1>1 DEF Queued
<1>3. Queued(c) \subseteq Frames
  BY ElementOfSeq DEF Queued, Connections
<1>4. DistinctItems(d) BY <1>1, <1>2, <1>3 DEF DistinctItems
<1>5. c.inFlight \in Frames /\ c.inFlight \notin Queued(c)
  BY DEF Connections, DistinctItems
<1> QED BY <1>1, <1>2, <1>4, <1>5 DEF Held, d

\* A successful write runs its handler and starts the next.
LEMMA RunWrittenOkStep == IInv /\ RunWrittenOk => IInv'
<1> SUFFICES ASSUME IInv, RunWrittenOk PROVE IInv' OBVIOUS
<1> DEFINE item == conn.inFlight
           c == TakeInFlight(conn)
<1>0. NoItem \notin Frames BY ConnectionAssumption DEF Frames
<1>1. loop # <<>> /\ item # NoItem BY DEF RunWrittenOk, Running, TakenOver
<1>2. /\ conn \in Connections(Frames) /\ DistinctItems(conn)
      /\ (conn.closed => Held(conn) = {})
      /\ Tail(loop) \in Seq(Handlers) /\ DistinctCarriers(Tail(loop))
      /\ Carried(Tail(loop)) \subseteq Carried(loop)
  BY <1>1, HandlerStart
<1>3. /\ c \in Connections(Frames) /\ DistinctItems(c)
      /\ c.closed = conn.closed
      /\ Held(c) = Queued(conn) /\ Held(conn) = Queued(conn) \cup {item}
      /\ item \in Frames /\ item \notin Queued(conn)
  BY <1>0, <1>1, <1>2, TakeFacts
<1>4. /\ Tell(TellsAfter(c, {item}), {item})
      /\ item \in Closers => Become(Close(c), Tail(loop)) /\ UNCHANGED wire
      /\ item \notin Closers => ThenDoWrite(c, Tail(loop)) /\ UNCHANGED connecting
      /\ UNCHANGED <<resolving, calls, connects, delivered>>
  BY DEF RunWrittenOk
<1>5. item \notin Carried(Tail(loop)) BY <1>2, <1>3 DEF IInv, OnePlace
<1> HIDE DEF item, c
<1>6. CASE item \in Closers
  <2>1. Become(AfterHandlers(c, {item}), Tail(loop))
    BY <1>4, <1>6 DEF AfterHandlers
  <2> QED BY <1>1, <1>2, <1>3, <1>4, <1>5, <1>6, <2>1, RunItems
<1>7. CASE item \notin Closers
  <2>1. ThenDoWrite(c, Tail(loop)) BY <1>4, <1>7
  <2>2. Tell({item}, {item}) BY <1>4, <1>7 DEF TellsAfter
  <2>3. /\ conn' \in Connections(Frames) /\ DistinctItems(conn')
        /\ Held(conn') \subseteq Held(c) /\ conn'.closed = c.closed
        /\ loop' \in Seq(Handlers) /\ Carried(loop') = Carried(Tail(loop))
        /\ DistinctCarriers(loop')
        /\ ops' \in Seq(Frames) /\ wire' \in Seq(Frames)
    BY <1>2, <1>3, <2>1, ThenDoWriteFacts DEF IInv
  <2>4. TypeOK' BY <1>3, <1>4, <1>7, <2>2, <2>3 DEF Tell, IInv, TypeOK
  <2>5. {item} \in SUBSET (Carried(loop) \cup Held(conn)) BY <1>3
  <2>6. {item} \cap (Carried(loop') \cup Held(conn')) = {}
    BY <1>3, <1>5, <2>3
  <2>7. conn'.closed => Held(conn') = {} BY <1>2, <1>3, <2>3
  <2>8. Carried(loop') \subseteq Carried(loop) /\ Held(conn') \subseteq Held(conn)
    BY <1>2, <1>3, <2>3
  <2> QED BY <1>4, <2>2, <2>3, <2>4, <2>5, <2>6, <2>7, <2>8, TellStep
<1> QED BY <1>6, <1>7

\* A failed write runs its handler and those of the queue.
LEMMA RunWrittenFailedStep == IInv /\ RunWrittenFailed => IInv'
<1> SUFFICES ASSUME IInv, RunWrittenFailed PROVE IInv' OBVIOUS
<1> DEFINE items == {conn.inFlight} \cup Queued(conn)
           c == FailPending(DropSocket(TakeInFlight(conn)))
<1>0. NoItem \notin Frames BY ConnectionAssumption DEF Frames
<1>1. loop # <<>> /\ conn.inFlight # NoItem BY DEF RunWrittenFailed, Running, TakenOver
<1>2. /\ conn \in Connections(Frames) /\ DistinctItems(conn)
      /\ (conn.closed => Held(conn) = {})
      /\ Carried(Tail(loop)) \subseteq Carried(loop)
  BY <1>1, HandlerStart
<1>3. items = Held(conn) BY <1>0, <1>1, <1>2, TakeFacts
<1>4. /\ c \in Connections(Frames) /\ c.queue = <<>>
      /\ c.inFlight = NoItem /\ c.closed = conn.closed
  <2>1. <<>> \in Seq(Frames) OBVIOUS
  <2> QED BY <1>2, <2>1 DEF FailPending, DropSocket, TakeInFlight,
                            Connections, ConnectionStates
<1>5. /\ Become(AfterHandlers(c, items), Tail(loop))
      /\ Tell(TellsAfter(c, items), {})
      /\ UNCHANGED <<resolving, calls, connects, wire, delivered>>
  BY DEF RunWrittenFailed
<1> HIDE DEF c, items
<1>6. Queued(c) = {} BY <1>4 DEF Queued
<1>7. Held(c) = {} /\ DistinctItems(c)
  BY <1>4, <1>6 DEF Held, DistinctItems
<1>8. items \cap Carried(Tail(loop)) = {}
  BY <1>2, <1>3 DEF IInv, OnePlace
<1> QED BY <1>1, <1>3, <1>4, <1>5, <1>7, <1>8, RunItems

\* Opening the socket leaves queue and flight alone.
LEMMA RunResolvedStep == IInv /\ RunResolved => IInv'
<1> SUFFICES ASSUME IInv, RunResolved PROVE IInv' OBVIOUS
<1>1. loop # <<>> BY DEF RunResolved, Running
<1>2. /\ conn \in Connections(Frames) /\ DistinctItems(conn)
      /\ (conn.closed => Held(conn) = {})
      /\ Tail(loop) \in Seq(Handlers) /\ DistinctCarriers(Tail(loop))
      /\ Carried(Tail(loop)) \subseteq Carried(loop)
  BY <1>1, HandlerStart
<1>3. UNCHANGED <<resolving, calls, connects, history>> BY DEF RunResolved
<1>4. CASE Head(loop).ok
  <2>1. /\ conn' = [conn EXCEPT !.open = TRUE]
        /\ connecting' = TRUE /\ ops' = <<>>
        /\ loop' = Tail(loop) \o (IF conn.open THEN Aborted ELSE <<>>)
    BY <1>4 DEF RunResolved
  <2>2. /\ conn' \in Connections(Frames) /\ conn'.queue = conn.queue
        /\ conn'.inFlight = conn.inFlight /\ conn'.closed = conn.closed
    BY <1>2, <2>1 DEF Connections
  <2>3. Held(conn') = Held(conn) /\ DistinctItems(conn')
    BY <1>2, <2>2 DEF Held, Queued, DistinctItems
  <2>4. (IF conn.open THEN Aborted ELSE <<>>) \in Seq(Completions)
    BY AbortedType DEF IInv
  <2>5. /\ loop' \in Seq(Handlers) /\ Carried(loop') = Carried(Tail(loop))
        /\ DistinctCarriers(loop')
    BY <1>2, <2>1, <2>4, ConcatCompletions
  <2>6. ops' \in Seq(Frames) BY <2>1
  <2>7. TypeOK' BY <1>3, <2>1, <2>2, <2>5, <2>6 DEF IInv, TypeOK, history
  <2>8. Carried(loop') \subseteq Carried(loop) BY <1>2, <2>5
  <2> QED BY <1>2, <1>3, <2>2, <2>3, <2>5, <2>7, <2>8, MoveStep
          DEF IInv, OnePlace, history
<1>5. CASE ~Head(loop).ok
  <2>1. loop' = Tail(loop) /\ UNCHANGED <<conn, connecting, ops>>
    BY <1>5 DEF RunResolved
  <2>2. TypeOK' BY <1>2, <1>3, <2>1 DEF IInv, TypeOK, history
  <2> QED BY <1>2, <1>3, <2>1, <2>2, MoveStep DEF IInv, OnePlace, history
<1> QED BY <1>4, <1>5

\* The end of a connect leaves queue and flight alone.
LEMMA RunConnectedStep == IInv /\ RunConnected => IInv'
<1> SUFFICES ASSUME IInv, RunConnected PROVE IInv' OBVIOUS
<1>1. loop # <<>> BY DEF RunConnected, Running
<1>2. /\ conn \in Connections(Frames) /\ DistinctItems(conn)
      /\ (conn.closed => Held(conn) = {})
      /\ Tail(loop) \in Seq(Handlers) /\ DistinctCarriers(Tail(loop))
      /\ Carried(Tail(loop)) \subseteq Carried(loop)
  BY <1>1, HandlerStart
<1>3. /\ loop' = Tail(loop)
      /\ UNCHANGED <<net, calls, connects, history>>
      /\ conn' \in Connections(Frames) /\ conn'.queue = conn.queue
      /\ conn'.inFlight = conn.inFlight /\ conn'.closed = conn.closed
  BY <1>2 DEF RunConnected, Connections, ConnectionStates
<1>4. Held(conn') = Held(conn) /\ DistinctItems(conn')
  BY <1>2, <1>3 DEF Held, Queued, DistinctItems
<1>5. TypeOK' BY <1>2, <1>3 DEF IInv, TypeOK, net, history
<1> QED BY <1>2, <1>3, <1>4, <1>5, MoveStep DEF IInv, OnePlace, history

\* A stuttering step changes nothing the invariant speaks of.
LEMMA StutterStep == IInv /\ UNCHANGED vars => IInv'
<1> SUFFICES ASSUME IInv, UNCHANGED vars PROVE IInv' OBVIOUS
<1>1. TypeOK' BY DEF IInv, TypeOK, vars, net, history
<1> QED BY <1>1, MoveStep
        DEF IInv, OnePlace, ClosedHoldsNothing, vars, history

\* Every step keeps the invariant.
LEMMA NextIInv == IInv /\ [Next]_vars => IInv'
BY AsyncWritePacketStep, AsyncConnectStep, MarkConnectedStep, OwnerCloseStep,
   ResolveDoneStep, ConnectDoneStep, WriteDoneStep,
   RunEnqueueStep, RunAbortedStep, RunFailPendingStep, RunWrittenQuietStep,
   RunWrittenOkStep, RunWrittenFailedStep, RunResolvedStep, RunConnectedStep,
   StutterStep
   DEF Next, Owner, Network, IoThread

\* The strengthened invariant holds in every reachable state.
THEOREM Invariance == Spec => []IInv
BY InitIInv, NextIInv, PTL DEF Spec

-----------------------------------------------------------------------------
(* The theorems *)

\* Type correctness for every number of frames and attempts.
THEOREM TypeCorrect == Spec => []TypeOK
<1>1. IInv => TypeOK BY DEF IInv
<1> QED BY <1>1, Invariance, PTL

\* Whatever the owner does between handlers, be it a second chain next to the
\* first, a connect over a live session, a late mark_connected() or a write
\* during a connect, and whichever write handlers close: none runs twice, and
\* once one ran its frame is nowhere in the connection or the loop.
THEOREM NoHandlerRunsTwice == Spec => []ReportedAtMostOnce
<1>1. IInv => ReportedAtMostOnce
  BY DEF IInv, OnePlace, ReportedAtMostOnce, Carriers, Carried, CarriesFrame
<1> QED BY <1>1, Invariance, PTL

\* A closed connection holds no handler, so it keeps no owner alive
\* (connection.hpp:274-278), whatever the owner does.
THEOREM NoHandlerOnClosed == Spec => []ClosedHoldsNothing
<1>1. IInv => ClosedHoldsNothing BY DEF IInv
<1> QED BY <1>1, Invariance, PTL

-----------------------------------------------------------------------------
(* The order of the frames *)

\* The posted enqueue_write() calls are queued in call order, and frame f is
\* older than all of them.
LoopOrdered(l) ==
    \A i, j \in 1 .. Len(l) :
        l[i].kind = "enqueue" /\ l[j].kind = "enqueue" /\ i < j
            => l[i].frame < l[j].frame
Older(f, l) == \A j \in 1 .. Len(l) : l[j].kind = "enqueue" => f < l[j].frame

Ascending(s) == \A i, j \in 1 .. Len(s) : i < j => s[i] < s[j]

\* Wire, queue and loop hold the frames oldest first, and those on the wire are
\* older than those in the queue, which are older than those in the loop.
OrderInv ==
    /\ LoopOrdered(loop)
    /\ Ascending(conn.queue)
    /\ Ascending(wire)
    /\ \A i \in 1 .. Len(conn.queue) : Older(conn.queue[i], loop)
    /\ \A i \in 1 .. Len(wire) :
         /\ Older(wire[i], loop)
         /\ \A j \in 1 .. Len(conn.queue) : wire[i] < conn.queue[j]
         /\ wire[i] <= calls

\* m holds the posted enqueue_write() calls of l in their order, or fewer.
Follows(m, l) ==
    /\ m \in Seq(Handlers)
    /\ LoopOrdered(l) => LoopOrdered(m)
    /\ \A f : Older(f, l) => Older(f, m)

LEMMA FollowsTail ==
    ASSUME NEW l \in Seq(Handlers), l # <<>>
    PROVE  /\ Follows(Tail(l), l)
           /\ LoopOrdered(l) /\ Head(l).kind = "enqueue"
                => Older(Head(l).frame, Tail(l))
           /\ \A f : Older(f, l) /\ Head(l).kind = "enqueue"
                => f < Head(l).frame
<1>1. /\ Tail(l) \in Seq(Handlers) /\ Len(Tail(l)) = Len(l) - 1
      /\ \A i \in 1 .. Len(l) - 1 : Tail(l)[i] = l[i + 1]
      /\ Head(l) = l[1] /\ Len(l) \in Nat \ {0}
  BY HeadTailProperties, EmptySeq, LenProperties
<1>2. \A i \in 1 .. Len(l) - 1 : i + 1 \in 1 .. Len(l) /\ 1 < i + 1
  BY <1>1
<1>3. 1 \in 1 .. Len(l) BY <1>1
<1>4. \A i, j \in 1 .. Len(l) - 1 : i < j => i + 1 < j + 1 BY <1>1
<1>5. LoopOrdered(l) => LoopOrdered(Tail(l))
  BY <1>1, <1>2, <1>4 DEF LoopOrdered
<1>6. \A f : Older(f, l) => Older(f, Tail(l)) BY <1>1, <1>2 DEF Older
<1>7. LoopOrdered(l) /\ Head(l).kind = "enqueue" => Older(Head(l).frame, Tail(l))
  BY <1>1, <1>2, <1>3 DEF LoopOrdered, Older
<1>8. \A f : Older(f, l) /\ Head(l).kind = "enqueue" => f < Head(l).frame
  BY <1>1, <1>3 DEF Older
<1> QED BY <1>1, <1>5, <1>6, <1>7, <1>8 DEF Follows

LEMMA FollowsAppend ==
    ASSUME NEW l \in Seq(Handlers), NEW h \in Handlers, h.kind # "enqueue"
    PROVE  Follows(Append(l, h), l)
<1>1. /\ Append(l, h) \in Seq(Handlers)
      /\ Len(Append(l, h)) = Len(l) + 1 /\ Len(l) \in Nat
      /\ \A i \in 1 .. Len(l) : Append(l, h)[i] = l[i]
      /\ Append(l, h)[Len(l) + 1] = h
  BY AppendProperties, LenProperties
<1>2. \A i \in 1 .. Len(l) + 1 : i \in 1 .. Len(l) \/ i = Len(l) + 1 BY <1>1
<1>3. LoopOrdered(l) => LoopOrdered(Append(l, h)) BY <1>1, <1>2 DEF LoopOrdered
<1>4. \A f : Older(f, l) => Older(f, Append(l, h)) BY <1>1, <1>2 DEF Older
<1> QED BY <1>1, <1>3, <1>4 DEF Follows

LEMMA FollowsConcat ==
    ASSUME NEW l \in Seq(Handlers), NEW s \in Seq(Completions)
    PROVE  Follows(l \o s, l)
<1>1. s \in Seq(Handlers) BY DEF Handlers
<1>2. /\ l \o s \in Seq(Handlers)
      /\ Len(l \o s) = Len(l) + Len(s)
      /\ Len(l) \in Nat /\ Len(s) \in Nat
      /\ \A i \in 1 .. Len(l) + Len(s) :
            (l \o s)[i] = IF i <= Len(l) THEN l[i] ELSE s[i - Len(l)]
  BY <1>1, ConcatProperties, LenProperties
<1>3. ASSUME NEW i \in 1 .. Len(l) + Len(s), (l \o s)[i].kind = "enqueue"
      PROVE  i \in 1 .. Len(l) /\ (l \o s)[i] = l[i]
  <2>1. CASE i <= Len(l) BY <1>2, <2>1
  <2>2. CASE i > Len(l)
    <3>1. i - Len(l) \in 1 .. Len(s) BY <1>2, <2>2
    <3>2. s[i - Len(l)] \in Completions BY <3>1, ElementOfSeq
    <3> QED BY <1>2, <1>3, <2>2, <3>2 DEF Completions
  <2> QED BY <1>2, <2>1, <2>2
<1>4. LoopOrdered(l) => LoopOrdered(l \o s) BY <1>2, <1>3 DEF LoopOrdered
<1>5. \A f : Older(f, l) => Older(f, l \o s) BY <1>2, <1>3 DEF Older
<1> QED BY <1>2, <1>4, <1>5 DEF Follows

\* A step that queues no enqueue_write(), starts no write and at most empties
\* the queue keeps the order.
LEMMA OrderStep ==
    ASSUME OrderInv, Follows(loop', loop), UNCHANGED <<wire, calls>>,
           conn'.queue \in {conn.queue, <<>>}
    PROVE  OrderInv'
<1>1. CASE conn'.queue = conn.queue BY <1>1 DEF OrderInv, Follows
<1>2. CASE conn'.queue = <<>>
  <2>1. 1 .. Len(conn'.queue) = {} BY <1>2
  <2> QED BY <2>1 DEF OrderInv, Follows, Ascending
<1> QED BY <1>1, <1>2

\* Such a step of a handler: rest stays queued, and closing the socket adds
\* the aborted completions.
LEMMA OrderBecome ==
    ASSUME TypeOK, OrderInv, NEW rest, Follows(rest, loop), NEW c,
           NEW items, Become(AfterHandlers(c, items), rest),
           UNCHANGED <<wire, calls>>, c.queue \in {conn.queue, <<>>}
    PROVE  OrderInv'
<1>1. conn' = AfterHandlers(c, items) /\ loop' \in {rest, rest \o Aborted}
  BY DEF Become
<1>2. conn'.queue \in {conn.queue, <<>>} BY <1>1 DEF AfterHandlers, Close
<1>3. Aborted \in Seq(Completions) BY AbortedType
<1> HIDE DEF Aborted
<1>4. Follows(rest \o Aborted, rest) BY <1>3, FollowsConcat DEF Follows
<1>5. Follows(loop', loop) BY <1>1, <1>4 DEF Follows
<1> QED BY <1>2, <1>5, OrderStep

\* do_write() of a connection whose queue continues the wire keeps the order.
LEMMA OrderDoWrite ==
    ASSUME IInv, NEW c \in Connections(Frames), NEW rest, rest \in Seq(Handlers),
           ThenDoWrite(c, rest), UNCHANGED calls,
           LoopOrdered(rest), Ascending(c.queue), Ascending(wire),
           \A i \in 1 .. Len(c.queue) : Older(c.queue[i], rest)
                                        /\ c.queue[i] <= calls,
           \A i \in 1 .. Len(wire) :
             /\ Older(wire[i], rest)
             /\ \A j \in 1 .. Len(c.queue) : wire[i] < c.queue[j]
             /\ wire[i] <= calls
    PROVE  OrderInv'
<1>1. Follows(loop', rest)
  <2>1. /\ [kind |-> "failPending"] \in Handlers
        /\ [kind |-> "failPending"].kind # "enqueue"
    BY DEF Handlers, OtherHandlers
  <2>2. Follows(rest, rest) BY DEF Follows
  <2> QED BY <2>1, <2>2, FollowsAppend DEF ThenDoWrite
<1>2. CASE ~StartsWrite(c)
  <2>1. conn' = c /\ wire' = wire BY <1>2 DEF ThenDoWrite, DoWrite
  <2> QED BY <1>1, <2>1 DEF OrderInv, Follows
<1>3. CASE StartsWrite(c)
  <2> DEFINE q == c.queue
  <2>1. q \in Seq(Frames) /\ q # <<>> /\ wire \in Seq(Frames)
    BY <1>3 DEF StartsWrite, Connections, IInv, TypeOK
  <2>2. /\ Len(q) \in Nat \ {0} /\ Len(Tail(q)) = Len(q) - 1
        /\ \A i \in 1 .. Len(q) - 1 : Tail(q)[i] = q[i + 1]
        /\ Head(q) = q[1]
    BY <2>1, HeadTailProperties, EmptySeq
  <2>3. conn'.queue = Tail(q) /\ wire' = Append(wire, Head(q))
    BY <1>3 DEF ThenDoWrite, DoWrite, Connections
  <2>4. /\ Len(wire) \in Nat /\ Len(wire') = Len(wire) + 1
        /\ \A i \in 1 .. Len(wire) : wire'[i] = wire[i]
        /\ wire'[Len(wire) + 1] = q[1]
    BY <2>1, <2>2, <2>3, AppendProperties, LenProperties
  <2>5. /\ \A i \in 1 .. Len(q) - 1 : i + 1 \in 1 .. Len(q) /\ 1 < i + 1
        /\ 1 \in 1 .. Len(q)
        /\ \A i \in 1 .. Len(wire) + 1 : i \in 1 .. Len(wire) \/ i = Len(wire) + 1
    BY <2>2, <2>4
  <2> HIDE DEF q
  <2>6. /\ Ascending(q)
        /\ \A i \in 1 .. Len(q) : Older(q[i], loop') /\ q[i] <= calls
        /\ \A i \in 1 .. Len(wire) :
             /\ Older(wire[i], loop') /\ wire[i] <= calls
             /\ \A j \in 1 .. Len(q) : wire[i] < q[j]
    BY <1>1 DEF q, Follows
  <2>7. Ascending(conn'.queue)
    <3> SUFFICES ASSUME NEW i \in 1 .. Len(q) - 1, NEW j \in 1 .. Len(q) - 1,
                        i < j
                 PROVE  Tail(q)[i] < Tail(q)[j]
      BY <2>2, <2>3 DEF Ascending
    <3>1. i + 1 < j + 1 OBVIOUS
    <3> QED BY <2>2, <2>5, <2>6, <3>1 DEF Ascending
  <2>8. Ascending(wire')
    <3> SUFFICES ASSUME NEW i \in 1 .. Len(wire) + 1, NEW j \in 1 .. Len(wire) + 1,
                        i < j
                 PROVE  wire'[i] < wire'[j]
      BY <2>4 DEF Ascending
    <3>1. i \in 1 .. Len(wire) BY <2>4
    <3>2. CASE j \in 1 .. Len(wire) BY <2>4, <3>1, <3>2 DEF Ascending
    <3>3. CASE j = Len(wire) + 1 BY <2>4, <2>5, <2>6, <3>1, <3>3
    <3> QED BY <2>5, <3>2, <3>3
  <2>9. \A i \in 1 .. Len(conn'.queue) : Older(conn'.queue[i], loop')
    BY <2>2, <2>3, <2>5, <2>6
  <2>10. ASSUME NEW i \in 1 .. Len(wire')
         PROVE  /\ Older(wire'[i], loop')
                /\ \A j \in 1 .. Len(conn'.queue) : wire'[i] < conn'.queue[j]
                /\ wire'[i] <= calls
    <3>1. CASE i \in 1 .. Len(wire)
      BY <2>2, <2>3, <2>4, <2>5, <2>6, <3>1
    <3>2. CASE i = Len(wire) + 1
      BY <2>2, <2>3, <2>4, <2>5, <2>6, <3>2 DEF Ascending
    <3> QED BY <2>4, <2>5, <3>1, <3>2
  <2> QED BY <1>1, <2>7, <2>8, <2>9, <2>10 DEF OrderInv, Follows
<1> QED BY <1>2, <1>3

\* What is queued was submitted.
LEMMA QueueSubmitted ==
    ASSUME IInv, NEW i \in 1 .. Len(conn.queue)
    PROVE  conn.queue[i] \in Frames /\ conn.queue[i] <= calls
<1>1. conn.queue[i] \in Frames /\ conn.queue[i] \in Held(conn)
  BY ElementOfSeq DEF IInv, TypeOK, Connections, Held, Queued
<1>2. ~(conn.queue[i] > calls) BY <1>1 DEF IInv, OnePlace
<1> QED BY <1>1, <1>2, ConnectionAssumption DEF IInv, TypeOK, Frames

\* async_write_packet(): the youngest frame is queued last.
LEMMA AsyncWritePacketOrder ==
    ASSUME IInv, OrderInv, AsyncWritePacket
    PROVE  OrderInv'
<1> DEFINE h == [kind |-> "enqueue", frame |-> calls + 1]
           l == loop
<1>1. /\ loop' = Append(l, h) /\ calls' = calls + 1
      /\ UNCHANGED <<conn, wire>>
      /\ h.kind = "enqueue" /\ h.frame = calls + 1
  BY DEF AsyncWritePacket, history
<1>2. /\ l \in Seq(Handlers) /\ h \in Handlers /\ calls \in Nat
      /\ wire \in Seq(Frames)
  BY ConnectionAssumption
     DEF AsyncWritePacket, IInv, TypeOK, Frames, Handlers, FrameHandlers
<1>3. /\ Len(loop') = Len(l) + 1 /\ Len(l) \in Nat
      /\ \A i \in 1 .. Len(l) : loop'[i] = l[i]
      /\ loop'[Len(l) + 1] = h
      /\ \A i \in 1 .. Len(l) + 1 : i \in 1 .. Len(l) \/ i = Len(l) + 1
  BY <1>1, <1>2, AppendProperties, LenProperties
<1> HIDE DEF h, l
<1>4. ASSUME NEW i \in 1 .. Len(l), l[i].kind = "enqueue"
      PROVE  l[i].frame <= calls
  <2>1. l[i].frame \in Frames
    BY <1>2, <1>4, ElementOfSeq DEF Handlers, FrameHandlers, OtherHandlers,
                                    Completions
  <2>2. l[i].frame \in Carried(loop)
    BY <1>4, <2>1 DEF Carried, CarriesFrame, l
  <2>3. ~(l[i].frame > calls) BY <2>1, <2>2 DEF IInv, OnePlace
  <2> QED BY <1>2, <2>1, <2>3 DEF Frames
<1>5. LoopOrdered(loop')
  <2> SUFFICES ASSUME NEW i \in 1 .. Len(l) + 1, NEW j \in 1 .. Len(l) + 1,
                      loop'[i].kind = "enqueue", loop'[j].kind = "enqueue",
                      i < j
               PROVE  loop'[i].frame < loop'[j].frame
    BY <1>3 DEF LoopOrdered
  <2>1. i \in 1 .. Len(l) /\ loop'[i] = l[i] BY <1>3
  <2>2. CASE j \in 1 .. Len(l)
    BY <1>3, <2>1, <2>2 DEF OrderInv, LoopOrdered, l
  <2>3. CASE j = Len(l) + 1
    <3>1. l[i].frame <= calls /\ loop'[j].frame = calls + 1
      BY <1>1, <1>3, <1>4, <2>1, <2>3
    <3>2. l[i].frame \in Nat
      BY <1>2, <2>1, ElementOfSeq DEF Handlers, FrameHandlers, OtherHandlers,
                                      Completions, Frames
    <3> QED BY <1>2, <2>1, <3>1, <3>2
  <2> QED BY <1>3, <2>2, <2>3
<1>6. ASSUME NEW f \in Frames, f <= calls, Older(f, l)
      PROVE  Older(f, loop')
  <2>1. f < calls + 1 BY <1>2, <1>6 DEF Frames
  <2> QED BY <1>1, <1>3, <1>6, <2>1 DEF Older
<1>7. \A i \in 1 .. Len(conn.queue) : Older(conn.queue[i], loop')
  BY <1>6, QueueSubmitted DEF OrderInv, l
<1>8. \A i \in 1 .. Len(wire) : wire[i] \in Frames BY <1>2, ElementOfSeq
<1>9. \A i \in 1 .. Len(wire) : Older(wire[i], loop') /\ wire[i] <= calls'
  BY <1>1, <1>2, <1>6, <1>8 DEF OrderInv, Frames, l
<1> QED BY <1>1, <1>5, <1>7, <1>9 DEF OrderInv

\* enqueue_write(): the frame goes behind the older ones.
LEMMA RunEnqueueOrder ==
    ASSUME IInv, OrderInv, RunEnqueue
    PROVE  OrderInv'
<1> DEFINE f == Head(loop).frame
           rest == Tail(loop)
<1>1. loop # <<>> /\ Head(loop).kind = "enqueue" /\ loop \in Seq(Handlers)
  BY DEF RunEnqueue, Running, IInv, TypeOK
<1>2. /\ Follows(rest, loop) /\ Older(f, rest)
      /\ \A x : Older(x, loop) => x < f
      /\ f \in Frames /\ f \in Carried(loop) /\ f \notin Held(conn)
      /\ conn \in Connections(Frames) /\ DistinctItems(conn)
  BY <1>1, FollowsTail, HandlerStart DEF OrderInv
<1>3. f <= calls
  <2>1. ~(f > calls) BY <1>2 DEF IInv, OnePlace
  <2> QED BY <1>2, <2>1, ConnectionAssumption DEF IInv, TypeOK, Frames
<1>4. /\ UNCHANGED calls
      /\ conn.closed => /\ loop' = Append(rest, [kind |-> "aborted", frame |-> f])
                        /\ UNCHANGED <<conn, wire>>
      /\ ~conn.closed => ThenDoWrite(Enqueue(conn, f), rest)
  BY DEF RunEnqueue
<1> HIDE DEF f, rest
<1>5. CASE conn.closed
  <2> DEFINE h == [kind |-> "aborted", frame |-> f]
  <2>1. h \in Handlers /\ h.kind # "enqueue"
    BY <1>2 DEF Handlers, FrameHandlers
  <2>2. loop' = Append(rest, h) /\ UNCHANGED <<conn, wire>> BY <1>4, <1>5
  <2> HIDE DEF h
  <2>3. Follows(loop', rest) BY <1>2, <2>1, <2>2, FollowsAppend DEF Follows
  <2>4. Follows(loop', loop) BY <1>2, <2>3 DEF Follows
  <2> QED BY <1>4, <2>2, <2>4, OrderStep
<1>6. CASE ~conn.closed
  <2> DEFINE c == Enqueue(conn, f)
             q == conn.queue
  <2>1. c \in Connections(Frames) /\ c.queue = Append(q, f) /\ q \in Seq(Frames)
    BY <1>2 DEF Enqueue, Connections
  <2>2. ThenDoWrite(c, rest) BY <1>4, <1>6
  <2>3. /\ Len(q) \in Nat /\ Len(c.queue) = Len(q) + 1
        /\ \A i \in 1 .. Len(q) : c.queue[i] = q[i]
        /\ c.queue[Len(q) + 1] = f
        /\ \A i \in 1 .. Len(q) + 1 : i \in 1 .. Len(q) \/ i = Len(q) + 1
    BY <2>1, AppendProperties, LenProperties
  <2> HIDE DEF c
  <2>4. Ascending(c.queue)
    <3> SUFFICES ASSUME NEW i \in 1 .. Len(q) + 1, NEW j \in 1 .. Len(q) + 1,
                        i < j
                 PROVE  c.queue[i] < c.queue[j]
      BY <2>3 DEF Ascending
    <3>1. i \in 1 .. Len(q) /\ c.queue[i] = q[i] BY <2>3
    <3>2. CASE j \in 1 .. Len(q)
      BY <2>3, <3>1, <3>2 DEF OrderInv, Ascending
    <3>3. CASE j = Len(q) + 1
      BY <1>2, <2>3, <3>1, <3>3 DEF OrderInv
    <3> QED BY <2>3, <3>2, <3>3
  <2>5. \A i \in 1 .. Len(c.queue) : Older(c.queue[i], rest)
                                     /\ c.queue[i] <= calls
    BY <1>2, <1>3, <2>3, QueueSubmitted DEF OrderInv, Follows
  <2>6. \A i \in 1 .. Len(wire) :
          /\ Older(wire[i], rest)
          /\ \A j \in 1 .. Len(c.queue) : wire[i] < c.queue[j]
          /\ wire[i] <= calls
    BY <1>2, <2>3 DEF OrderInv, Follows
  <2>7. rest \in Seq(Handlers) /\ LoopOrdered(rest) /\ Ascending(wire)
    BY <1>2 DEF Follows, OrderInv
  <2> HIDE DEF q
  <2> QED BY <1>4, <2>1, <2>2, <2>4, <2>5, <2>6, <2>7, OrderDoWrite
<1> QED BY <1>5, <1>6

\* A write succeeded: the next frame out is the oldest that waits.
LEMMA RunWrittenOkOrder ==
    ASSUME IInv, OrderInv, RunWrittenOk
    PROVE  OrderInv'
<1> DEFINE item == conn.inFlight
           c == TakeInFlight(conn)
           rest == Tail(loop)
<1>1. loop # <<>> /\ loop \in Seq(Handlers) /\ conn \in Connections(Frames)
  BY DEF RunWrittenOk, Running, TakenOver, IInv, TypeOK
<1>2. /\ item \in Closers => Become(Close(c), rest) /\ UNCHANGED wire
      /\ item \notin Closers => ThenDoWrite(c, rest)
      /\ UNCHANGED calls
  BY DEF RunWrittenOk
<1>3. Follows(rest, loop) BY <1>1, FollowsTail
<1>4. c \in Connections(Frames) /\ c.queue = conn.queue
  BY <1>1 DEF TakeInFlight, Connections
<1>5. CASE item \in Closers
  <2>1. Become(AfterHandlers(c, {item}), rest) BY <1>2, <1>5 DEF AfterHandlers
  <2> HIDE DEF item, c, rest
  <2> QED BY <1>2, <1>3, <1>4, <1>5, <2>1, OrderBecome DEF IInv
<1> HIDE DEF item, c, rest
<1>6. CASE item \notin Closers
  <2>1. \A i \in 1 .. Len(c.queue) : Older(c.queue[i], rest)
                                     /\ c.queue[i] <= calls
    BY <1>3, <1>4, QueueSubmitted DEF OrderInv, Follows
  <2>2. /\ rest \in Seq(Handlers) /\ LoopOrdered(rest) /\ Ascending(wire)
        /\ Ascending(c.queue)
        /\ \A i \in 1 .. Len(wire) :
             /\ Older(wire[i], rest)
             /\ \A j \in 1 .. Len(c.queue) : wire[i] < c.queue[j]
             /\ wire[i] <= calls
    BY <1>3, <1>4 DEF Follows, OrderInv
  <2> QED BY <1>2, <1>4, <1>6, <2>1, <2>2, OrderDoWrite
<1> QED BY <1>5, <1>6

\* Handlers that fail what they run, and close() itself.
LEMMA FailuresOrder ==
    ASSUME IInv, OrderInv,
           OwnerClose \/ RunAborted \/ RunFailPending \/ RunWrittenFailed
    PROVE  OrderInv'
<1>1. loop \in Seq(Handlers) /\ conn \in Connections(Frames) /\ TypeOK
      /\ Follows(loop, loop)
  BY DEF IInv, TypeOK, Follows
<1>2. loop # <<>> => Follows(Tail(loop), loop) BY <1>1, FollowsTail
<1>3. CASE OwnerClose
  <2>1. /\ conn' = Close(conn) /\ UNCHANGED <<wire, calls>>
        /\ loop' \in {loop, loop \o Aborted}
    BY <1>3 DEF OwnerClose, Become
  <2>2. Aborted \in Seq(Completions) BY <1>1, AbortedType
  <2>3. conn'.queue \in {conn.queue, <<>>} BY <2>1 DEF Close
  <2> HIDE DEF Aborted
  <2>4. Follows(loop', loop) BY <1>1, <2>1, <2>2, FollowsConcat
  <2> QED BY <2>1, <2>3, <2>4, OrderStep
<1>4. CASE RunAborted
  <2>1. /\ Become(AfterHandlers(conn, {Head(loop).frame}), Tail(loop))
        /\ UNCHANGED <<wire, calls>> /\ loop # <<>>
    BY <1>4 DEF RunAborted, Running
  <2> QED BY <1>1, <1>2, <2>1, OrderBecome
<1>5. CASE RunFailPending
  <2> DEFINE c == FailPending(conn)
  <2>1. /\ Become(AfterHandlers(c, Queued(conn)), Tail(loop))
        /\ UNCHANGED <<wire, calls>> /\ loop # <<>>
    BY <1>5 DEF RunFailPending, Running
  <2>2. c.queue = <<>> BY <1>1 DEF FailPending, Connections
  <2> HIDE DEF c
  <2> QED BY <1>1, <1>2, <2>1, <2>2, OrderBecome
<1>6. CASE RunWrittenFailed
  <2> DEFINE c == FailPending(DropSocket(TakeInFlight(conn)))
  <2>1. /\ Become(AfterHandlers(c, {conn.inFlight} \cup Queued(conn)), Tail(loop))
        /\ UNCHANGED <<wire, calls>> /\ loop # <<>>
    BY <1>6 DEF RunWrittenFailed, Running, TakenOver
  <2>2. c.queue = <<>>
    BY <1>1 DEF FailPending, DropSocket, TakeInFlight, Connections
  <2> HIDE DEF c
  <2> QED BY <1>1, <1>2, <2>1, <2>2, OrderBecome
<1> QED BY <1>3, <1>4, <1>5, <1>6

\* Steps that leave the queue and the wire alone.
LEMMA OthersOrder ==
    ASSUME IInv, OrderInv,
           \/ AsyncConnect \/ MarkConnected \/ Network
           \/ RunWrittenQuiet \/ RunResolved \/ RunConnected
           \/ UNCHANGED vars
    PROVE  OrderInv'
<1>1. loop \in Seq(Handlers) /\ conn \in Connections(Frames) /\ TypeOK
      /\ Follows(loop, loop)
  BY DEF IInv, TypeOK, Follows
<1>2. conn'.queue = conn.queue /\ UNCHANGED <<wire, calls>>
  BY <1>1 DEF AsyncConnect, MarkConnected, BeginConnect, Network, ResolveDone,
         ConnectDone, WriteDone, RunWrittenQuiet, RunResolved, RunConnected,
         Connections, history, vars
<1>3. CASE AsyncConnect \/ MarkConnected \/ UNCHANGED vars
  <2>1. loop' = loop BY <1>3 DEF AsyncConnect, MarkConnected, vars
  <2> QED BY <1>1, <1>2, <2>1, OrderStep
<1>4. CASE Network
  <2>1. PICK kind \in {"resolved", "connected", "written"}, ok \in BOOLEAN :
           loop' = Append(loop, [kind |-> kind, ok |-> ok])
    BY <1>4 DEF Network, ResolveDone, ConnectDone, WriteDone
  <2> DEFINE h == [kind |-> kind, ok |-> ok]
  <2>2. h \in Handlers /\ h.kind # "enqueue" BY DEF Handlers, Completions
  <2> HIDE DEF h
  <2>3. Follows(loop', loop) BY <1>1, <2>1, <2>2, FollowsAppend DEF h
  <2> QED BY <1>2, <2>3, OrderStep
<1>5. CASE RunWrittenQuiet \/ RunResolved \/ RunConnected
  <2>1. /\ loop # <<>>
        /\ \/ loop' = Tail(loop)
           \/ loop' = Tail(loop) \o Aborted
           \/ loop' = Tail(loop) \o <<>>
    BY <1>5 DEF RunWrittenQuiet, RunResolved, RunConnected, Running
  <2>2. Aborted \in Seq(Completions) /\ <<>> \in Seq(Completions)
    BY <1>1, AbortedType
  <2>3. Follows(Tail(loop), loop) /\ Tail(loop) \in Seq(Handlers)
    BY <1>1, <2>1, FollowsTail DEF Follows
  <2> HIDE DEF Aborted
  <2>4. Follows(loop', Tail(loop))
    <3>1. Follows(Tail(loop), Tail(loop)) BY <2>3 DEF Follows
    <3> QED BY <2>1, <2>2, <2>3, <3>1, FollowsConcat
  <2>5. Follows(loop', loop) BY <2>3, <2>4 DEF Follows
  <2> QED BY <1>2, <2>5, OrderStep
<1> QED BY <1>3, <1>4, <1>5

\* Every step keeps the order.
LEMMA NextOrder == IInv /\ OrderInv /\ [Next]_vars => OrderInv'
BY AsyncWritePacketOrder, RunEnqueueOrder, RunWrittenOkOrder, FailuresOrder,
   OthersOrder DEF Next, Owner, IoThread

\* Whatever the owner does between handlers, across reconnects and with connect
\* chains that overlap, frames reach the wire in the order of the
\* async_write_packet() calls (connection.hpp:44, :264).
THEOREM FramesInCallOrder == Spec => []WireInCallOrder
<1>1. Init => OrderInv
  BY DEF Init, OrderInv, LoopOrdered, Ascending, NewConnection
<1>2. OrderInv => WireInCallOrder
  BY DEF OrderInv, Ascending, WireInCallOrder
<1> QED BY <1>1, <1>2, NextOrder, Invariance, PTL DEF Spec
=============================================================================
