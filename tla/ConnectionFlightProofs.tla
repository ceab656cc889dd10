---------------------- MODULE ConnectionFlightProofs ----------------------
(***************************************************************************)
(* The write in flight of litemqtt::connection, for an orderly owner: it   *)
(* connects only when the chain of the last attempt has ended and there is *)
(* no live session, submits no frame while a connect is under way, and     *)
(* marks no other connection connected than one that is handshaking.  One  *)
(* write at a time, the completion of a write finds its own item in        *)
(* in_flight_, success is delivery, and no frame is lost.                  *)
(***************************************************************************)
EXTENDS ConnectionProofs

Live == {"handshaking", "connected"}
Ends == {"resolved", "connected"}

\* A handler of a kind in K is queued; not two are; none is behind one of kind k;
\* a write that succeeded is.
Some(l, K) == \E i \in 1 .. Len(l) : l[i].kind \in K
Once(l, K) ==
    \A i, j \in 1 .. Len(l) : l[i].kind \in K /\ l[j].kind \in K => i = j
NoneBehind(l, k, K) ==
    \A i, j \in 1 .. Len(l) : l[i].kind = k /\ i < j => l[j].kind \notin K
Success(l) == \E i \in 1 .. Len(l) : l[i].kind = "written" /\ l[i].ok

\* One connect chain at a time, on a connection that is not in a session.
OneChain ==
    /\ Once(loop, Ends)
    /\ resolving \in {0, 1}
    /\ resolving = 1 => ~connecting /\ ~Some(loop, Ends)
    /\ connecting => ~Some(loop, Ends)
    /\ resolving = 1 \/ connecting \/ Some(loop, Ends) => conn.state \notin Live

\* Frames and completions of the session before are gone when the socket opens,
\* and a fail_pending_writes() posted for it when the connect ends.
Cleared ==
    /\ NoneBehind(loop, "resolved", {"enqueue", "written"})
    /\ connecting \/ Some(loop, {"connected"})
         => ~Some(loop, {"enqueue", "written"})
    /\ NoneBehind(loop, "connected", {"failPending"})

\* in_flight_ is the item of the write that is outstanding, or of its completion
\* once that is queued, and writing_ says so.
Flight ==
    /\ conn.writing <=> conn.inFlight # NoItem
    /\ conn.writing => Sendable(conn)
    /\ ops # <<>> =>
          conn.writing /\ ops = <<conn.inFlight>> /\ ~Some(loop, {"written"})
    /\ Sendable(conn) /\ ~conn.closed =>
          /\ ~Some(loop, {"failPending"})
          /\ Once(loop, {"written"})
          /\ Some(loop, {"written"}) => conn.writing
          /\ Success(loop) => conn.inFlight \in delivered

FInv == OneChain /\ Cleared /\ Flight

-----------------------------------------------------------------------------
(* Lemmas about the queue of the io_context *)

\* rest is queued where l was: l itself, or l without its first handler.
PartOf(rest, l) ==
    /\ rest \in Seq(Handlers)
    /\ \A K : Some(rest, K) => Some(l, K)
    /\ \A K : Once(l, K) => Once(rest, K)
    /\ \A k, K : NoneBehind(l, k, K) => NoneBehind(rest, k, K)
    /\ Success(rest) => Success(l)

LEMMA PartOfItself == \A l \in Seq(Handlers) : PartOf(l, l)
BY DEF PartOf

LEMMA PartOfTail ==
    ASSUME NEW l \in Seq(Handlers), l # <<>>
    PROVE  /\ PartOf(Tail(l), l)
           /\ Head(l) \in Handlers
           /\ Some(l, {Head(l).kind})
           /\ \A K : Once(l, K) /\ Head(l).kind \in K => ~Some(Tail(l), K)
           /\ \A K : NoneBehind(l, Head(l).kind, K) => ~Some(Tail(l), K)
           /\ Head(l).kind = "written" /\ Head(l).ok => Success(l)
<1>1. /\ Tail(l) \in Seq(Handlers) /\ Len(Tail(l)) = Len(l) - 1
      /\ \A i \in 1 .. Len(l) - 1 : Tail(l)[i] = l[i + 1]
      /\ Head(l) = l[1] /\ Head(l) \in Handlers /\ Len(l) \in Nat \ {0}
  BY HeadTailProperties, EmptySeq, LenProperties
<1>2. \A i \in 1 .. Len(l) - 1 : i + 1 \in 1 .. Len(l) /\ i + 1 # 1
  BY <1>1
<1>3. 1 \in 1 .. Len(l) BY <1>1
<1>4. \A K : Some(Tail(l), K) => Some(l, K) BY <1>1, <1>2 DEF Some
<1>5. ASSUME NEW K, Once(l, K) PROVE Once(Tail(l), K)
  <2> SUFFICES ASSUME NEW i \in 1 .. Len(l) - 1, NEW j \in 1 .. Len(l) - 1,
                      Tail(l)[i].kind \in K, Tail(l)[j].kind \in K
               PROVE  i = j
    BY <1>1 DEF Once
  <2>1. i + 1 = j + 1 BY <1>1, <1>2, <1>5 DEF Once
  <2> QED BY <2>1
<1>6. ASSUME NEW k, NEW K, NoneBehind(l, k, K) PROVE NoneBehind(Tail(l), k, K)
  <2> SUFFICES ASSUME NEW i \in 1 .. Len(l) - 1, NEW j \in 1 .. Len(l) - 1,
                      Tail(l)[i].kind = k, i < j
               PROVE  Tail(l)[j].kind \notin K
    BY <1>1 DEF NoneBehind
  <2>1. i + 1 < j + 1 OBVIOUS
  <2> QED BY <1>1, <1>2, <1>6, <2>1 DEF NoneBehind
<1>7. Success(Tail(l)) => Success(l) BY <1>1, <1>2 DEF Success
<1>8. Some(l, {Head(l).kind}) BY <1>1, <1>3 DEF Some
<1>9. \A K : Once(l, K) /\ Head(l).kind \in K => ~Some(Tail(l), K)
  BY <1>1, <1>2, <1>3 DEF Once, Some
<1>10. ASSUME NEW K, NoneBehind(l, Head(l).kind, K) PROVE ~Some(Tail(l), K)
  <2> SUFFICES ASSUME NEW i \in 1 .. Len(l) - 1 PROVE Tail(l)[i].kind \notin K
    BY <1>1 DEF Some
  <2>1. 1 < i + 1 /\ i + 1 \in 1 .. Len(l) BY <1>1, <1>2
  <2> QED BY <1>1, <1>3, <1>10, <2>1 DEF NoneBehind
<1>11. Head(l).kind = "written" /\ Head(l).ok => Success(l)
  BY <1>1, <1>3 DEF Success
<1> QED BY <1>1, <1>4, <1>5, <1>6, <1>7, <1>8, <1>9, <1>10, <1>11 DEF PartOf

\* Queueing one handler.
LEMMA AppendKind ==
    ASSUME NEW l \in Seq(Handlers), NEW h \in Handlers
    PROVE  /\ Append(l, h) \in Seq(Handlers)
           /\ \A K : Some(Append(l, h), K) <=> Some(l, K) \/ h.kind \in K
           /\ \A K : Once(l, K) /\ (h.kind \in K => ~Some(l, K))
                        => Once(Append(l, h), K)
           /\ \A k, K : NoneBehind(l, k, K) /\ (h.kind \in K => ~Some(l, {k}))
                           => NoneBehind(Append(l, h), k, K)
           /\ Success(Append(l, h))
                => Success(l) \/ (h.kind = "written" /\ h.ok)
<1>1. /\ Append(l, h) \in Seq(Handlers)
      /\ Len(Append(l, h)) = Len(l) + 1 /\ Len(l) \in Nat
      /\ \A i \in 1 .. Len(l) : Append(l, h)[i] = l[i]
      /\ Append(l, h)[Len(l) + 1] = h
  BY AppendProperties, LenProperties
<1> DEFINE m == Append(l, h)
           n == Len(l)
<1>2. \A i \in 1 .. n + 1 : i \in 1 .. n \/ i = n + 1 BY <1>1
<1>3. \A i \in 1 .. n : i \in 1 .. n + 1 /\ i < n + 1 BY <1>1
<1>4. n + 1 \in 1 .. n + 1 BY <1>1
<1>5. /\ Len(m) = n + 1 /\ m[n + 1] = h
      /\ \A i \in 1 .. n : m[i] = l[i]
  BY <1>1
<1> HIDE DEF m
<1>6. \A K : Some(m, K) <=> Some(l, K) \/ h.kind \in K
  BY <1>2, <1>3, <1>4, <1>5 DEF Some, n
<1>7. \A K : Once(l, K) /\ (h.kind \in K => ~Some(l, K)) => Once(m, K)
  BY <1>2, <1>3, <1>5 DEF Once, Some, n
<1>8. ASSUME NEW k, NEW K, NoneBehind(l, k, K), h.kind \in K => ~Some(l, {k})
      PROVE  NoneBehind(m, k, K)
  <2> SUFFICES ASSUME NEW i \in 1 .. n + 1, NEW j \in 1 .. n + 1,
                      m[i].kind = k, i < j, m[j].kind \in K
               PROVE  FALSE
    BY <1>5 DEF NoneBehind
  <2>1. i \in 1 .. n BY <1>1, <1>2
  <2>2. CASE j \in 1 .. n BY <1>5, <1>8, <2>1, <2>2 DEF NoneBehind, n
  <2>3. CASE j = n + 1 BY <1>5, <1>8, <2>1, <2>3 DEF Some, n
  <2> QED BY <1>2, <2>2, <2>3
<1>9. Success(m) => Success(l) \/ (h.kind = "written" /\ h.ok)
  BY <1>2, <1>5 DEF Success, n
<1> QED BY <1>1, <1>6, <1>7, <1>8, <1>9 DEF m

\* A handler of one kind is a handler of the kinds that include it.
LEMMA SomeMonotonic ==
    \A l, K, L : K \subseteq L /\ Some(l, K) => Some(l, L)
BY DEF Some

LEMMA SuccessIsWritten == \A l : Success(l) => Some(l, {"written"})
BY DEF Success, Some

\* What queueing a handler means for the classes the invariant speaks of.
LEMMA AppendClasses ==
    ASSUME NEW l \in Seq(Handlers), NEW h \in Handlers, NEW m,
           m = Append(l, h)
    PROVE  /\ m \in Seq(Handlers)
           /\ Some(m, Ends) <=> Some(l, Ends) \/ h.kind \in Ends
           /\ Some(m, {"resolved"}) <=>
                 Some(l, {"resolved"}) \/ h.kind = "resolved"
           /\ Some(m, {"connected"}) <=>
                 Some(l, {"connected"}) \/ h.kind = "connected"
           /\ Some(m, {"written"}) <=>
                 Some(l, {"written"}) \/ h.kind = "written"
           /\ Some(m, {"failPending"}) <=>
                 Some(l, {"failPending"}) \/ h.kind = "failPending"
           /\ Some(m, {"enqueue", "written"}) <=>
                 Some(l, {"enqueue", "written"})
                 \/ h.kind \in {"enqueue", "written"}
           /\ Once(l, Ends) /\ (h.kind \in Ends => ~Some(l, Ends))
                => Once(m, Ends)
           /\ Once(l, {"written"}) /\ (h.kind = "written" => ~Some(l, {"written"}))
                => Once(m, {"written"})
           /\ NoneBehind(l, "resolved", {"enqueue", "written"})
                /\ (h.kind \in {"enqueue", "written"} => ~Some(l, {"resolved"}))
                => NoneBehind(m, "resolved", {"enqueue", "written"})
           /\ NoneBehind(l, "connected", {"failPending"})
                /\ (h.kind = "failPending" => ~Some(l, {"connected"}))
                => NoneBehind(m, "connected", {"failPending"})
           /\ Success(m) => Success(l) \/ (h.kind = "written" /\ h.ok)
<1>1. /\ \A K : Some(m, K) <=> Some(l, K) \/ h.kind \in K
      /\ m \in Seq(Handlers)
      /\ Success(m) => Success(l) \/ (h.kind = "written" /\ h.ok)
  BY AppendKind
<1>2. \A K : Once(l, K) /\ (h.kind \in K => ~Some(l, K)) => Once(m, K)
  BY AppendKind
<1>3. \A k, K : NoneBehind(l, k, K) /\ (h.kind \in K => ~Some(l, {k}))
                  => NoneBehind(m, k, K)
  BY AppendKind
<1>4. /\ Some(m, Ends) <=> Some(l, Ends) \/ h.kind \in Ends
      /\ Some(m, {"resolved"}) <=> Some(l, {"resolved"}) \/ h.kind = "resolved"
      /\ Some(m, {"connected"}) <=>
            Some(l, {"connected"}) \/ h.kind = "connected"
      /\ Some(m, {"written"}) <=> Some(l, {"written"}) \/ h.kind = "written"
      /\ Some(m, {"failPending"}) <=>
            Some(l, {"failPending"}) \/ h.kind = "failPending"
      /\ Some(m, {"enqueue", "written"}) <=>
            Some(l, {"enqueue", "written"}) \/ h.kind \in {"enqueue", "written"}
  BY <1>1
<1>5. /\ Once(l, Ends) /\ (h.kind \in Ends => ~Some(l, Ends)) => Once(m, Ends)
      /\ Once(l, {"written"}) /\ (h.kind = "written" => ~Some(l, {"written"}))
            => Once(m, {"written"})
  BY <1>2
<1>6. /\ NoneBehind(l, "resolved", {"enqueue", "written"})
            /\ (h.kind \in {"enqueue", "written"} => ~Some(l, {"resolved"}))
            => NoneBehind(m, "resolved", {"enqueue", "written"})
      /\ NoneBehind(l, "connected", {"failPending"})
            /\ (h.kind = "failPending" => ~Some(l, {"connected"}))
            => NoneBehind(m, "connected", {"failPending"})
  BY <1>3
<1> QED BY <1>1, <1>4, <1>5, <1>6

-----------------------------------------------------------------------------
(* Lemmas about the state of the connection *)

\* What is outstanding excludes a connect chain, and a closed connection has
\* nothing in flight.
LEMMA FlightFacts ==
    ASSUME IInv, FInv
    PROVE  /\ conn \in Connections(Frames) /\ loop \in Seq(Handlers)
           /\ NoItem \notin Frames
           /\ conn.state \notin Live => ~conn.writing
           /\ conn.closed => ~conn.writing /\ conn.inFlight = NoItem
           /\ ~conn.writing => ops = <<>> /\ conn.inFlight = NoItem
           /\ conn.writing \/ ops # <<>> =>
                /\ resolving = 0 /\ ~connecting
                /\ ~Some(loop, Ends) /\ ~Some(loop, {"resolved"})
                /\ ~Some(loop, {"connected"})
           /\ ~Some(loop, Ends) =>
                ~Some(loop, {"resolved"}) /\ ~Some(loop, {"connected"})
<1>1. /\ conn \in Connections(Frames) /\ loop \in Seq(Handlers)
      /\ NoItem \notin Frames
  BY ConnectionAssumption DEF IInv, TypeOK, Frames
<1>2. conn.state \notin Live => ~conn.writing
  BY DEF FInv, Flight, Sendable, Live
<1>3. conn.closed => ~conn.writing /\ conn.inFlight = NoItem
  BY DEF IInv, ClosedHoldsNothing, Held, FInv, Flight
<1>4. ~conn.writing => ops = <<>> /\ conn.inFlight = NoItem
  BY DEF FInv, Flight
<1>5. ~Some(loop, Ends) =>
         ~Some(loop, {"resolved"}) /\ ~Some(loop, {"connected"})
  BY SomeMonotonic DEF Ends
<1>6. conn.writing \/ ops # <<>> =>
         resolving = 0 /\ ~connecting /\ ~Some(loop, Ends)
  BY <1>2, <1>4 DEF FInv, OneChain
<1> QED BY <1>1, <1>2, <1>3, <1>4, <1>5, <1>6

\* Closing the socket aborts the one write, the one connect, or nothing.
LEMMA AbortedShape ==
    ASSUME IInv, FInv
    PROVE  /\ ops # <<>> => Aborted = <<[kind |-> "written", ok |-> FALSE]>>
           /\ ops = <<>> /\ connecting =>
                Aborted = <<[kind |-> "connected", ok |-> FALSE]>>
           /\ ops = <<>> /\ ~connecting => Aborted = <<>>
<1> DEFINE w == [i \in 1 .. Len(ops) |-> [kind |-> "written", ok |-> FALSE]]
           c == IF connecting THEN <<[kind |-> "connected", ok |-> FALSE]>>
                              ELSE <<>>
<1>1. Aborted = w \o c BY DEF Aborted
<1>2. CASE ops # <<>>
  <2>1. ~connecting /\ ops = <<conn.inFlight>>
    BY <1>2, FlightFacts DEF FInv, Flight
  <2>2. Len(ops) = 1 /\ 1 .. 1 = {1} BY <2>1
  <2>3. w = <<[kind |-> "written", ok |-> FALSE]>>
    <3> DEFINE h == [kind |-> "written", ok |-> FALSE]
    <3>1. /\ w \in Seq({h}) /\ Len(w) = 1 /\ w[1] = h
          /\ <<h>> \in Seq({h}) /\ Len(<<h>>) = 1 /\ <<h>>[1] = h
      BY <2>2
    <3> HIDE DEF h, w
    <3> QED BY <2>2, <3>1, SeqEqual DEF h
  <2>4. c = <<>> BY <2>1
  <2> HIDE DEF w, c
  <2> QED BY <1>1, <1>2, <2>3, <2>4
<1>3. CASE ops = <<>>
  <2>1. w = <<>> BY <1>3
  <2>2. c \in Seq(Completions)
    <3>1. [kind |-> "connected", ok |-> FALSE] \in Completions
      BY DEF Completions
    <3>2. <<[kind |-> "connected", ok |-> FALSE]>> \in Seq(Completions)
      BY <3>1
    <3>3. <<>> \in Seq(Completions) OBVIOUS
    <3> QED BY <3>2, <3>3
  <2>3. Aborted = c
    <3> HIDE DEF w, c
    <3> QED BY <1>1, <2>1, <2>2
  <2> QED BY <1>3, <2>3
<1> QED BY <1>2, <1>3

\* A step that leaves the socket and the write in flight alone and queues
\* nothing keeps the invariant.
LEMMA KeepStep ==
    ASSUME FInv, PartOf(loop', loop),
           conn'.state = conn.state, conn'.open = conn.open,
           conn'.closed = conn.closed, conn'.writing = conn.writing,
           conn'.inFlight = conn.inFlight,
           UNCHANGED <<resolving, connecting, ops, delivered>>
    PROVE  FInv'
<1>1. OneChain' BY DEF FInv, OneChain, PartOf
<1>2. Cleared' BY DEF FInv, Cleared, PartOf
<1>3. Sendable(conn') = Sendable(conn) BY DEF Sendable
<1>4. Flight'
  <2> HIDE DEF Sendable
  <2> QED BY <1>3 DEF FInv, Flight, PartOf
<1> QED BY <1>1, <1>2, <1>4 DEF FInv

\* A step that takes the connection down keeps the invariant: what was
\* outstanding comes back aborted.
LEMMA DownStep ==
    ASSUME IInv, FInv, NEW rest, PartOf(rest, loop), NEW c, Become(c, rest),
           c.state = "disconnected", ~c.open, c.writing = FALSE,
           c.inFlight = NoItem, UNCHANGED <<resolving, delivered>>
    PROVE  FInv'
<1>1. conn' = c /\ rest \in Seq(Handlers) BY DEF Become, PartOf
<1>2. conn'.state \notin Live /\ ~Sendable(conn') BY <1>1 DEF Live, Sendable
<1>3. ops' = <<>> => Flight' BY <1>1, <1>2 DEF Flight
<1>4. CASE conn.open /\ ops # <<>>
  <2> DEFINE h == [kind |-> "written", ok |-> FALSE]
  <2>1. /\ loop' = rest \o <<h>> /\ ops' = <<>> /\ connecting' = FALSE
        /\ resolving = 0 /\ ~Some(loop, Ends) /\ ~Some(loop, {"resolved"})
        /\ ~Some(loop, {"connected"})
    BY <1>4, AbortedShape, FlightFacts DEF Become
  <2>2. h \in Handlers /\ h.kind = "written" BY DEF Handlers, Completions
  <2> HIDE DEF h
  <2>3. loop' = Append(rest, h) BY <1>1, <2>1, <2>2
  <2>4. /\ ~Some(rest, Ends) /\ ~Some(rest, {"resolved"})
        /\ ~Some(rest, {"connected"})
        /\ NoneBehind(rest, "resolved", {"enqueue", "written"})
        /\ NoneBehind(rest, "connected", {"failPending"})
        /\ Once(rest, Ends)
    BY <2>1 DEF PartOf, FInv, Cleared, OneChain
  <2>7. resolving' \in {0, 1} /\ resolving' # 1 BY <2>1
  <2>5. OneChain'
    BY <1>1, <2>1, <2>2, <2>3, <2>4, <2>7, AppendClasses DEF OneChain, Ends
  <2>6. Cleared'
    BY <1>1, <2>1, <2>2, <2>3, <2>4, AppendClasses DEF Cleared
  <2> QED BY <1>3, <2>1, <2>5, <2>6 DEF FInv
<1>5. CASE conn.open /\ ops = <<>> /\ connecting
  <2> DEFINE h == [kind |-> "connected", ok |-> FALSE]
  <2>1. /\ loop' = rest \o <<h>> /\ ops' = <<>> /\ connecting' = FALSE
        /\ resolving = 0 /\ ~Some(loop, Ends)
        /\ ~Some(loop, {"enqueue", "written"})
    BY <1>5, AbortedShape DEF Become, FInv, OneChain, Cleared
  <2>2. h \in Handlers /\ h.kind = "connected" BY DEF Handlers, Completions
  <2> HIDE DEF h
  <2>3. loop' = Append(rest, h) BY <1>1, <2>1, <2>2
  <2>4. /\ ~Some(rest, Ends) /\ ~Some(rest, {"enqueue", "written"})
        /\ NoneBehind(rest, "resolved", {"enqueue", "written"})
        /\ NoneBehind(rest, "connected", {"failPending"})
        /\ Once(rest, Ends)
    BY <2>1 DEF PartOf, FInv, Cleared, OneChain
  <2>7. resolving' \in {0, 1} /\ resolving' # 1 BY <2>1
  <2>5. OneChain'
    BY <1>1, <1>2, <2>1, <2>2, <2>3, <2>4, <2>7, AppendClasses
       DEF OneChain, Ends
  <2>6. Cleared'
    BY <1>1, <2>1, <2>2, <2>3, <2>4, AppendClasses DEF Cleared
  <2> QED BY <1>3, <2>1, <2>5, <2>6 DEF FInv
<1>6. CASE (~conn.open \/ ~connecting) /\ ops = <<>>
  <2>1. loop' = rest /\ ops' = <<>>
    BY <1>1, <1>6, AbortedShape DEF Become
  <2>2. connecting' => connecting BY DEF Become
  <2>3. OneChain' BY <1>2, <2>1, <2>2 DEF OneChain, FInv, PartOf
  <2>4. Cleared' BY <2>1, <2>2 DEF Cleared, FInv, PartOf
  <2> QED BY <1>3, <2>1, <2>3, <2>4 DEF FInv
<1>7. conn.open \/ ops = <<>> BY DEF FInv, Flight, Sendable
<1> QED BY <1>4, <1>5, <1>6, <1>7

\* do_write() at the end of a handler that left the connection as c, with no
\* write outstanding, keeps the invariant.
LEMMA DoWriteStep ==
    ASSUME IInv, FInv, NEW rest, PartOf(rest, loop), NEW c,
           ThenDoWrite(c, rest),
           c \in Connections(Frames), c.state = conn.state, c.open = conn.open,
           c.writing = FALSE, c.inFlight = NoItem, ops = <<>>,
           ~Some(rest, {"written"}), ~Some(rest, {"connected"}),
           Sendable(c) => ~Some(rest, {"failPending"}),
           UNCHANGED <<resolving, connecting, delivered>>
    PROVE  FInv'
<1>1. /\ rest \in Seq(Handlers)
      /\ NoneBehind(rest, "resolved", {"enqueue", "written"})
      /\ NoneBehind(rest, "connected", {"failPending"})
      /\ Once(rest, Ends)
      /\ ~Success(rest)
  BY SuccessIsWritten DEF PartOf, FInv, Cleared, OneChain
<1>2. CASE StartsWrite(c)
  <2>1. /\ Head(c.queue) \in Frames /\ Head(c.queue) # NoItem
        /\ Sendable(c) /\ ~PostsFailure(c)
    BY <1>2, FlightFacts DEF StartsWrite, PostsFailure, Connections
  <2>2. /\ conn' = [c EXCEPT !.writing = TRUE, !.inFlight = Head(c.queue),
                             !.queue = Tail(c.queue)]
        /\ ops' = Append(<<>>, Head(c.queue)) /\ loop' = rest
    BY <1>2, <2>1 DEF ThenDoWrite, DoWrite
  <2>3. /\ conn'.state = c.state /\ conn'.open = c.open
        /\ conn'.writing = TRUE /\ conn'.inFlight = Head(c.queue)
        /\ ops' = <<Head(c.queue)>>
    BY <2>2 DEF Connections
  <2>4. OneChain' /\ Cleared'
    BY <2>2, <2>3 DEF OneChain, Cleared, FInv, PartOf
  <2>5. Sendable(conn') BY <2>1, <2>3 DEF Sendable
  <2>6. Once(rest, {"written"}) BY DEF Once, Some
  <2> HIDE DEF Sendable
  <2>7. Flight' BY <1>1, <2>1, <2>2, <2>3, <2>5, <2>6 DEF Flight
  <2> QED BY <2>4, <2>7 DEF FInv
<1>3. CASE PostsFailure(c)
  <2> DEFINE h == [kind |-> "failPending"]
  <2>1. /\ ~Sendable(c) /\ ~StartsWrite(c)
        /\ conn' = c /\ ops' = ops /\ loop' = Append(rest, h)
    BY <1>3 DEF PostsFailure, StartsWrite, ThenDoWrite, DoWrite
  <2>2. h \in Handlers /\ h.kind = "failPending" BY DEF Handlers, OtherHandlers
  <2> HIDE DEF h
  <2>3. OneChain'
    BY <1>1, <2>1, <2>2, AppendClasses DEF OneChain, FInv, PartOf, Ends
  <2>4. Cleared'
    BY <1>1, <2>1, <2>2, AppendClasses DEF Cleared, FInv, PartOf
  <2> HIDE DEF Sendable
  <2>5. Flight' BY <2>1 DEF Flight
  <2> QED BY <2>3, <2>4, <2>5 DEF FInv
<1>4. CASE ~StartsWrite(c) /\ ~PostsFailure(c)
  <2>1. conn' = c /\ ops' = ops /\ loop' = rest
    BY <1>4 DEF ThenDoWrite, DoWrite
  <2>2. OneChain' /\ Cleared'
    BY <2>1 DEF OneChain, Cleared, FInv, PartOf
  <2>3. Once(rest, {"written"}) BY DEF Once, Some
  <2> HIDE DEF Sendable
  <2>4. Flight' BY <1>1, <2>1, <2>3 DEF Flight
  <2> QED BY <2>2, <2>4 DEF FInv
<1> QED BY <1>2, <1>3, <1>4

-----------------------------------------------------------------------------
(* One step per action: calls of the owner *)

\* Nothing is queued, held or outstanding at first.
LEMMA InitFInv == Init => FInv
<1> SUFFICES ASSUME Init PROVE FInv OBVIOUS
<1>1. /\ loop = <<>> /\ ops = <<>> /\ resolving = 0 /\ ~connecting
      /\ conn.writing = FALSE /\ conn.inFlight = NoItem /\ ~Sendable(conn)
  BY DEF Init, NewConnection, Sendable
<1>2. \A K : ~Some(loop, K) /\ Once(loop, K)
  BY <1>1 DEF Some, Once
<1>3. \A k, K : NoneBehind(loop, k, K) BY <1>1 DEF NoneBehind
<1> HIDE DEF Sendable
<1> QED BY <1>1, <1>2, <1>3 DEF FInv, OneChain, Cleared, Flight

\* A frame is submitted while no connect is under way.
LEMMA AsyncWritePacketFlight ==
    ASSUME orderly, IInv, FInv, AsyncWritePacket
    PROVE  FInv'
<1> DEFINE h == [kind |-> "enqueue", frame |-> calls + 1]
<1>1. /\ loop' = Append(loop, h) /\ ~ChainActive
      /\ UNCHANGED <<conn, resolving, connecting, ops, delivered>>
  BY DEF AsyncWritePacket, net, history
<1>2. h \in Handlers /\ h.kind = "enqueue" /\ loop \in Seq(Handlers)
  BY ConnectionAssumption
     DEF AsyncWritePacket, IInv, TypeOK, Frames, Handlers, FrameHandlers
<1> HIDE DEF h
<1>3. ~Some(loop, {"resolved"}) /\ ~Some(loop, {"connected"}) /\ ~connecting
  BY <1>1 DEF ChainActive, Has, Some
<1>4. OneChain' BY <1>1, <1>2, AppendClasses DEF OneChain, FInv, Ends
<1>5. Cleared' BY <1>1, <1>2, <1>3, AppendClasses DEF Cleared, FInv
<1> HIDE DEF Sendable
<1>6. Flight' BY <1>1, <1>2, AppendClasses DEF Flight, FInv
<1> QED BY <1>4, <1>5, <1>6 DEF FInv

\* A new attempt begins when the chain of the last one has ended.
LEMMA AsyncConnectFlight ==
    ASSUME orderly, IInv, FInv, AsyncConnect
    PROVE  FInv'
<1>1. /\ ~ChainActive /\ resolving' = resolving + 1
      /\ conn' = BeginConnect(conn)
      /\ conn.closed \/ conn.state \in {"disconnected", "connecting"}
      /\ UNCHANGED <<loop, connecting, ops, delivered>>
  BY DEF AsyncConnect, MayConnect, history
<1>2. ~Some(loop, Ends) /\ ~Some(loop, {"connected"}) /\ ~connecting
  BY <1>1 DEF ChainActive, Has, Some, Ends
<1>9. resolving = 0 /\ resolving' = 1
  BY <1>1 DEF ChainActive, FInv, OneChain
<1>3. /\ ~conn.writing /\ ops = <<>> /\ conn.inFlight = NoItem
  BY <1>1, FlightFacts DEF Live
<1>4. /\ conn'.state = "connecting" /\ conn'.writing = conn.writing
      /\ conn'.inFlight = NoItem
  BY <1>1, <1>3, FlightFacts DEF BeginConnect, Connections
<1>5. ~Sendable(conn') BY <1>4 DEF Sendable
<1>6. OneChain' BY <1>1, <1>2, <1>4, <1>9 DEF OneChain, FInv, Live
<1>7. Cleared' BY <1>1, <1>2 DEF Cleared, FInv
<1> HIDE DEF Sendable
<1>8. Flight' BY <1>1, <1>3, <1>4, <1>5 DEF Flight
<1> QED BY <1>6, <1>7, <1>8 DEF FInv

\* mark_connected() stays in a session.
LEMMA MarkConnectedFlight ==
    ASSUME orderly, IInv, FInv, MarkConnected
    PROVE  FInv'
<1>1. /\ conn.state = "handshaking"
      /\ UNCHANGED <<loop, resolving, connecting, ops, delivered>>
      /\ conn'.state = "connected" /\ conn'.open = conn.open
      /\ conn'.closed = conn.closed /\ conn'.writing = conn.writing
      /\ conn'.inFlight = conn.inFlight
  BY FlightFacts DEF MarkConnected, net, history, Connections
<1>2. Sendable(conn') = Sendable(conn) BY <1>1 DEF Sendable
<1>3. OneChain' BY <1>1 DEF OneChain, FInv, Live
<1>4. Cleared' BY <1>1 DEF Cleared, FInv
<1> HIDE DEF Sendable
<1>5. Flight' BY <1>1, <1>2 DEF Flight, FInv
<1> QED BY <1>3, <1>4, <1>5 DEF FInv

\* What close() leaves behind.
LEMMA CloseDown ==
    ASSUME NEW c \in Connections(Frames)
    PROVE  /\ c.closed => Close(c) = c
           /\ ~c.closed =>
                /\ Close(c).state = "disconnected" /\ ~Close(c).open
                /\ Close(c).writing = FALSE /\ Close(c).inFlight = NoItem
BY DEF Close

\* close() takes the connection down, or finds it closed.
LEMMA OwnerCloseFlight ==
    ASSUME IInv, FInv, OwnerClose
    PROVE  FInv'
<1>1. /\ Become(Close(conn), loop) /\ UNCHANGED <<resolving, delivered>>
      /\ conn \in Connections(Frames) /\ PartOf(loop, loop)
  BY FlightFacts, PartOfItself DEF OwnerClose
<1>2. CASE conn.closed
  <2>1. UNCHANGED <<conn, loop, ops, connecting>>
    BY <1>1, <1>2, CloseDown DEF Become
  <2> QED BY <1>1, <2>1, KeepStep
<1>3. CASE ~conn.closed
  BY <1>1, <1>3, CloseDown, DownStep
<1> QED BY <1>2, <1>3

-----------------------------------------------------------------------------
(* One step per action: the network *)

\* The resolver answers: the one link of the chain.
LEMMA ResolveDoneFlight ==
    ASSUME IInv, FInv, ResolveDone
    PROVE  FInv'
<1>1. PICK ok \in BOOLEAN : loop' = Append(loop, [kind |-> "resolved", ok |-> ok])
  BY DEF ResolveDone
<1> DEFINE h == [kind |-> "resolved", ok |-> ok]
<1>2. h \in Handlers /\ h.kind = "resolved" BY DEF Handlers, Completions
<1>3. /\ loop' = Append(loop, h) /\ loop \in Seq(Handlers)
      /\ resolving = 1 /\ resolving' = 0
      /\ UNCHANGED <<conn, connecting, ops, delivered>>
  BY <1>1, FlightFacts DEF ResolveDone, history, FInv, OneChain
<1> HIDE DEF h
<1>4. OneChain'
  <2>1. /\ resolving' \in {0, 1} /\ resolving' # 1
        /\ ~connecting /\ Once(loop, Ends) /\ ~Some(loop, Ends)
        /\ conn.state \notin Live
    BY <1>3 DEF OneChain, FInv
  <2> QED BY <1>2, <1>3, <2>1, AppendClasses DEF OneChain, Ends
<1>5. Cleared' BY <1>2, <1>3, AppendClasses DEF Cleared, OneChain, FInv
<1> HIDE DEF Sendable
<1>6. Flight' BY <1>2, <1>3, AppendClasses DEF Flight, FInv
<1> QED BY <1>4, <1>5, <1>6 DEF FInv

\* The connect ends: the one link of the chain.
LEMMA ConnectDoneFlight ==
    ASSUME IInv, FInv, ConnectDone
    PROVE  FInv'
<1>1. PICK ok \in BOOLEAN : loop' = Append(loop, [kind |-> "connected", ok |-> ok])
  BY DEF ConnectDone
<1> DEFINE h == [kind |-> "connected", ok |-> ok]
<1>2. h \in Handlers /\ h.kind = "connected" BY DEF Handlers, Completions
<1>3. /\ loop' = Append(loop, h) /\ loop \in Seq(Handlers)
      /\ connecting /\ connecting' = FALSE
      /\ UNCHANGED <<conn, resolving, ops, delivered>>
  BY <1>1, FlightFacts DEF ConnectDone, history
<1> HIDE DEF h
<1>4. OneChain' BY <1>2, <1>3, AppendClasses DEF OneChain, FInv, Ends
<1>5. Cleared' BY <1>2, <1>3, AppendClasses DEF Cleared, FInv
<1> HIDE DEF Sendable
<1>6. Flight' BY <1>2, <1>3, AppendClasses DEF Flight, FInv
<1> QED BY <1>4, <1>5, <1>6 DEF FInv

\* The write ends: its completion is the only one, and finds its item.
LEMMA WriteDoneFlight ==
    ASSUME IInv, FInv, WriteDone
    PROVE  FInv'
<1>1. PICK ok \in BOOLEAN :
         /\ loop' = Append(loop, [kind |-> "written", ok |-> ok])
         /\ delivered' = IF ok THEN delivered \cup {Head(ops)} ELSE delivered
  BY DEF WriteDone
<1> DEFINE h == [kind |-> "written", ok |-> ok]
<1>2. h \in Handlers /\ h.kind = "written" /\ h.ok = ok
  BY DEF Handlers, Completions
<1>3. /\ loop' = Append(loop, h) /\ loop \in Seq(Handlers)
      /\ ops # <<>> /\ ops' = Tail(ops)
      /\ UNCHANGED <<conn, resolving, connecting>>
  BY <1>1, FlightFacts DEF WriteDone
<1>4. /\ conn.writing /\ ops = <<conn.inFlight>> /\ ~Some(loop, {"written"})
      /\ conn.writing => Sendable(conn)
  BY <1>3 DEF FInv, Flight
<1>5. ops' = <<>> /\ Head(ops) = conn.inFlight BY <1>3, <1>4
<1>6. /\ ~Some(loop, Ends) /\ ~Some(loop, {"resolved"}) /\ ~connecting
      /\ ~Some(loop, {"connected"}) /\ ~Success(loop)
  BY <1>3, <1>4, FlightFacts, SuccessIsWritten
<1> HIDE DEF h
<1>7. OneChain' BY <1>2, <1>3, AppendClasses DEF OneChain, FInv, Ends
<1>8. Cleared' BY <1>2, <1>3, <1>6, AppendClasses DEF Cleared, FInv
<1>9. Success(loop') => conn.inFlight \in delivered'
  BY <1>1, <1>2, <1>3, <1>5, <1>6, AppendClasses
<1> HIDE DEF Sendable
<1>10. Flight'
  BY <1>2, <1>3, <1>4, <1>5, <1>9, AppendClasses DEF Flight, FInv
<1> QED BY <1>7, <1>8, <1>10 DEF FInv

-----------------------------------------------------------------------------
(* One step per action: handlers of the io thread *)

\* What a handler of kind k starts from.
LEMMA FirstFacts ==
    ASSUME IInv, FInv, NEW k, Running(k)
    PROVE  /\ loop # <<>> /\ loop \in Seq(Handlers)
           /\ PartOf(Tail(loop), loop) /\ Tail(loop) \in Seq(Handlers)
           /\ Head(loop) \in Handlers /\ Head(loop).kind = k
           /\ \A K : k \in K => Some(loop, K)
           /\ \A K : Once(loop, K) /\ k \in K => ~Some(Tail(loop), K)
           /\ \A K : NoneBehind(loop, k, K) => ~Some(Tail(loop), K)
           /\ k = "written" /\ Head(loop).ok => Success(loop)
<1>1. loop # <<>> /\ loop \in Seq(Handlers) /\ Head(loop).kind = k
  BY FlightFacts DEF Running
<1>2. \A K : k \in K => Some(loop, K)
  <2>1. Head(loop) = loop[1] /\ 1 \in 1 .. Len(loop)
    BY <1>1, HeadTailProperties, EmptySeq, LenProperties
  <2> QED BY <1>1, <2>1 DEF Some
<1> QED BY <1>1, <1>2, PartOfTail DEF PartOf

\* The handlers of items run, with c what remains of the connection.
LEMMA HandlersFlight ==
    ASSUME IInv, FInv, NEW rest, PartOf(rest, loop),
           NEW c \in Connections(Frames), NEW items,
           Become(AfterHandlers(c, items), rest),
           UNCHANGED <<resolving, delivered>>,
           \/ /\ c.state = "disconnected" /\ ~c.open
              /\ c.writing = FALSE /\ c.inFlight = NoItem
           \/ /\ c.state = conn.state /\ c.open = conn.open
              /\ c.closed = conn.closed /\ c.writing = conn.writing
              /\ c.inFlight = conn.inFlight
    PROVE  FInv'
<1> DEFINE d == AfterHandlers(c, items)
<1>1. d = c \/ (~c.closed /\ d = Close(c))
  BY CloseDown DEF AfterHandlers
<1> HIDE DEF d
<1>2. Become(d, rest) BY DEF d
<1>3. CASE d.state = "disconnected" /\ ~d.open /\ d.writing = FALSE
           /\ d.inFlight = NoItem
  BY <1>2, <1>3, DownStep
<1>4. CASE d = c /\ c.state = conn.state /\ c.open = conn.open
           /\ c.closed = conn.closed /\ c.writing = conn.writing
           /\ c.inFlight = conn.inFlight
  <2>1. /\ conn' = c /\ loop' = rest
        /\ UNCHANGED <<ops, connecting>>
    BY <1>2, <1>4 DEF Become
  <2> QED BY <1>4, <2>1, KeepStep
<1> QED BY <1>1, <1>3, <1>4, CloseDown

\* enqueue_write(): the frame waits, goes out, or is refused.
LEMMA RunEnqueueFlight ==
    ASSUME IInv, FInv, RunEnqueue
    PROVE  FInv'
<1> DEFINE f == Head(loop).frame
           rest == Tail(loop)
<1>1. /\ loop # <<>> /\ PartOf(rest, loop) /\ rest \in Seq(Handlers)
      /\ Head(loop).kind = "enqueue" /\ Some(loop, {"enqueue", "written"})
  BY FirstFacts DEF RunEnqueue
<1>2. f \in Frames /\ f \notin Held(conn) BY <1>1, HandlerStart
<1>3. /\ UNCHANGED <<resolving, connecting, delivered>>
      /\ conn.closed => /\ loop' = Append(rest, [kind |-> "aborted", frame |-> f])
                        /\ UNCHANGED <<conn, ops>>
      /\ ~conn.closed => ThenDoWrite(Enqueue(conn, f), rest)
  BY DEF RunEnqueue
<1>4. ~Some(loop, {"connected"}) /\ ~connecting
  BY <1>1 DEF FInv, Cleared
<1> HIDE DEF f, rest
<1>5. CASE conn.closed
  <2> DEFINE h == [kind |-> "aborted", frame |-> f]
  <2>1. h \in Handlers /\ h.kind = "aborted"
    BY <1>2 DEF Handlers, FrameHandlers
  <2>2. loop' = Append(rest, h) /\ UNCHANGED <<conn, ops>>
    BY <1>3, <1>5
  <2> HIDE DEF h
  <2>3. OneChain'
    BY <1>1, <1>3, <2>1, <2>2, AppendClasses DEF OneChain, FInv, Ends, PartOf
  <2>4. Cleared'
    BY <1>1, <1>3, <2>1, <2>2, AppendClasses DEF Cleared, FInv, PartOf
  <2> HIDE DEF Sendable
  <2>5. Flight'
    BY <1>1, <1>3, <1>5, <2>1, <2>2, AppendClasses, FlightFacts
       DEF Flight, FInv, PartOf
  <2> QED BY <2>3, <2>4, <2>5 DEF FInv
<1>6. CASE ~conn.closed
  <2> DEFINE c == Enqueue(conn, f)
  <2>1. conn \in Connections(Frames) /\ DistinctItems(conn) /\ NoItem \notin Frames
    BY FlightFacts DEF IInv, OnePlace
  <2>2. /\ c \in Connections(Frames) /\ c.state = conn.state
        /\ c.open = conn.open /\ c.closed = conn.closed
        /\ c.writing = conn.writing /\ c.inFlight = conn.inFlight
    BY <1>2, <2>1, EnqueueFacts DEF Enqueue, Connections
  <2>3. ThenDoWrite(c, rest) BY <1>3, <1>6
  <2> HIDE DEF c
  <2>4. CASE conn.writing
    <3>1. ~StartsWrite(c) /\ ~PostsFailure(c)
      BY <2>2, <2>4 DEF StartsWrite, PostsFailure
    <3>2. conn' = c /\ loop' = rest /\ ops' = ops
      BY <2>3, <3>1 DEF ThenDoWrite, DoWrite
    <3> QED BY <1>1, <1>3, <2>2, <3>2, KeepStep
  <2>5. CASE ~conn.writing
    <3>1. ops = <<>> /\ conn.inFlight = NoItem BY <2>5, FlightFacts
    <3>2. c.writing = FALSE /\ c.inFlight = NoItem
      BY <2>1, <2>2, <2>5, <3>1 DEF Connections
    <3>3. ~Some(rest, {"connected"}) BY <1>1, <1>4 DEF PartOf
    <3>4. CASE Sendable(c)
      <4>1. Sendable(conn) BY <2>2, <3>4 DEF Sendable
      <4>2. ~Some(rest, {"failPending"}) /\ ~Some(rest, {"written"})
        BY <1>1, <1>6, <2>5, <4>1 DEF FInv, Flight, PartOf
      <4> QED BY <1>1, <1>3, <2>2, <2>3, <3>1, <3>2, <3>3, <4>2, DoWriteStep
    <3>5. CASE ~Sendable(c)
      <4> HIDE DEF Sendable
      <4>1. ~Sendable(conn) BY <2>2, <3>5 DEF Sendable
      <4>2. ~StartsWrite(c) BY <3>5 DEF StartsWrite
      <4>3. conn' = c /\ ops' = ops BY <2>3, <4>2 DEF ThenDoWrite, DoWrite
      <4>4. loop' = rest \/ loop' = Append(rest, [kind |-> "failPending"])
        BY <2>3 DEF ThenDoWrite
      <4>5. Flight' BY <2>5, <3>1, <3>2, <3>5, <4>3 DEF Flight
      <4>6. CASE loop' = rest
        BY <1>1, <1>3, <2>2, <4>3, <4>6, KeepStep
      <4>7. CASE loop' = Append(rest, [kind |-> "failPending"])
        <5> DEFINE h == [kind |-> "failPending"]
        <5>1. h \in Handlers /\ h.kind = "failPending" /\ loop' = Append(rest, h)
          BY <4>7 DEF Handlers, OtherHandlers
        <5> HIDE DEF h
        <5>2. OneChain'
          BY <1>1, <1>3, <2>2, <4>3, <5>1, AppendClasses
             DEF OneChain, FInv, PartOf, Ends
        <5>3. Cleared'
          BY <1>1, <1>3, <3>3, <5>1, AppendClasses DEF Cleared, FInv, PartOf
        <5> QED BY <4>5, <5>2, <5>3 DEF FInv
      <4> QED BY <4>4, <4>6, <4>7
    <3> QED BY <3>4, <3>5
  <2> QED BY <2>4, <2>5
<1> QED BY <1>5, <1>6

\* The report of a refused frame.
LEMMA RunAbortedFlight ==
    ASSUME IInv, FInv, RunAborted
    PROVE  FInv'
<1>1. /\ PartOf(Tail(loop), loop) /\ conn \in Connections(Frames)
      /\ Become(AfterHandlers(conn, {Head(loop).frame}), Tail(loop))
      /\ UNCHANGED <<resolving, delivered>>
  BY FirstFacts, FlightFacts DEF RunAborted
<1> QED BY <1>1, HandlersFlight

\* fail_pending_writes() never meets a write that is under way.
LEMMA RunFailPendingFlight ==
    ASSUME IInv, FInv, RunFailPending
    PROVE  FInv'
<1> DEFINE c == FailPending(conn)
<1>1. /\ PartOf(Tail(loop), loop) /\ conn \in Connections(Frames)
      /\ Become(AfterHandlers(c, Queued(conn)), Tail(loop))
      /\ UNCHANGED <<resolving, delivered>>
      /\ Some(loop, {"failPending"})
  BY FirstFacts, FlightFacts DEF RunFailPending
<1>2. ~conn.writing
  BY <1>1, FlightFacts DEF FInv, Flight
<1>3. /\ c \in Connections(Frames) /\ c.state = conn.state
      /\ c.open = conn.open /\ c.closed = conn.closed
      /\ c.writing = conn.writing /\ c.inFlight = conn.inFlight
  <2>1. <<>> \in Seq(Frames) OBVIOUS
  <2> QED BY <1>1, <1>2, <2>1 DEF FailPending, Connections
<1> HIDE DEF c
<1> QED BY <1>1, <1>3, HandlersFlight

\* A completion that finds no item leaves everything alone.
LEMMA RunWrittenQuietFlight ==
    ASSUME IInv, FInv, RunWrittenQuiet
    PROVE  FInv'
<1>1. /\ PartOf(Tail(loop), loop) /\ loop' = Tail(loop)
      /\ UNCHANGED <<conn, resolving, connecting, ops, delivered>>
  BY FirstFacts DEF RunWrittenQuiet, net, history
<1> QED BY <1>1, KeepStep

\* What a completion that finds an item starts from: the item is its own.
LEMMA WrittenFacts ==
    ASSUME IInv, FInv, Running("written"), conn.inFlight # NoItem
    PROVE  /\ PartOf(Tail(loop), loop) /\ Tail(loop) \in Seq(Handlers)
           /\ conn \in Connections(Frames) /\ DistinctItems(conn)
           /\ conn.writing /\ Sendable(conn) /\ ~conn.closed
           /\ ops = <<>>
           /\ ~Some(Tail(loop), {"written"})
           /\ ~Some(Tail(loop), {"failPending"})
           /\ ~Some(Tail(loop), {"connected"})
           /\ Head(loop).ok => conn.inFlight \in delivered
<1>1. /\ conn \in Connections(Frames) /\ DistinctItems(conn)
      /\ ~conn.closed /\ conn.writing /\ Sendable(conn)
      /\ ~Some(loop, {"connected"})
  BY FlightFacts DEF IInv, OnePlace, FInv, Flight
<1>2. /\ PartOf(Tail(loop), loop) /\ Tail(loop) \in Seq(Handlers)
      /\ Some(loop, {"written"})
      /\ Once(loop, {"written"}) => ~Some(Tail(loop), {"written"})
      /\ Head(loop).ok => Success(loop)
  BY FirstFacts
<1>3. /\ ~Some(loop, {"failPending"}) /\ Once(loop, {"written"})
      /\ Success(loop) => conn.inFlight \in delivered
      /\ ops = <<>>
  BY <1>1, <1>2 DEF FInv, Flight
<1> QED BY <1>1, <1>2, <1>3 DEF PartOf

\* A write succeeded: the next one starts, or the handler closed.
LEMMA RunWrittenOkFlight ==
    ASSUME IInv, FInv, RunWrittenOk
    PROVE  FInv'
<1> DEFINE item == conn.inFlight
           c == TakeInFlight(conn)
           rest == Tail(loop)
<1>1. /\ PartOf(rest, loop) /\ conn \in Connections(Frames)
      /\ ~conn.closed /\ ops = <<>>
      /\ ~Some(rest, {"written"}) /\ ~Some(rest, {"failPending"})
      /\ ~Some(rest, {"connected"})
  BY WrittenFacts DEF RunWrittenOk, TakenOver
<1>2. /\ item \in Closers => Become(Close(c), rest)
      /\ item \notin Closers => ThenDoWrite(c, rest) /\ UNCHANGED connecting
      /\ UNCHANGED <<resolving, delivered>>
  BY DEF RunWrittenOk
<1>3. /\ c \in Connections(Frames) /\ c.state = conn.state
      /\ c.open = conn.open /\ c.closed = conn.closed
      /\ c.writing = FALSE /\ c.inFlight = NoItem
  BY <1>1 DEF TakeInFlight, Connections
<1> HIDE DEF item, c, rest
<1>4. CASE item \in Closers
  BY <1>1, <1>2, <1>3, <1>4, CloseDown, DownStep
<1>5. CASE item \notin Closers
  BY <1>1, <1>2, <1>3, <1>5, DoWriteStep
<1> QED BY <1>4, <1>5

\* A write failed: the socket is dropped.
LEMMA RunWrittenFailedFlight ==
    ASSUME IInv, FInv, RunWrittenFailed
    PROVE  FInv'
<1> DEFINE c == FailPending(DropSocket(TakeInFlight(conn)))
<1>1. PartOf(Tail(loop), loop) /\ conn \in Connections(Frames)
  BY WrittenFacts DEF RunWrittenFailed, TakenOver
<1>2. /\ Become(AfterHandlers(c, {conn.inFlight} \cup Queued(conn)), Tail(loop))
      /\ UNCHANGED <<resolving, delivered>>
  BY DEF RunWrittenFailed
<1>3. /\ c \in Connections(Frames) /\ c.state = "disconnected" /\ ~c.open
      /\ c.writing = FALSE /\ c.inFlight = NoItem
  <2>1. <<>> \in Seq(Frames) OBVIOUS
  <2> QED BY <1>1, <2>1 DEF FailPending, DropSocket, TakeInFlight, Connections,
                            ConnectionStates
<1> HIDE DEF c
<1> QED BY <1>1, <1>2, <1>3, HandlersFlight

\* The socket is opened: nothing of a session before is left.
LEMMA RunResolvedFlight ==
    ASSUME IInv, FInv, RunResolved
    PROVE  FInv'
<1>1. /\ PartOf(Tail(loop), loop) /\ Tail(loop) \in Seq(Handlers)
      /\ Some(loop, Ends)
      /\ Once(loop, Ends) => ~Some(Tail(loop), Ends)
      /\ NoneBehind(loop, "resolved", {"enqueue", "written"})
            => ~Some(Tail(loop), {"enqueue", "written"})
  BY FirstFacts DEF RunResolved, Ends
<1>2. /\ resolving = 0 /\ ~connecting /\ conn.state \notin Live
      /\ ~Some(Tail(loop), Ends)
      /\ ~Some(Tail(loop), {"enqueue", "written"})
  BY <1>1 DEF FInv, OneChain, Cleared
<1>3. /\ ~conn.writing /\ ops = <<>> /\ conn.inFlight = NoItem
      /\ conn \in Connections(Frames)
  BY <1>2, FlightFacts
<1>4. CASE Head(loop).ok
  <2>1. /\ conn' = [conn EXCEPT !.open = TRUE] /\ connecting' = TRUE
        /\ ops' = <<>> /\ resolving' = resolving
        /\ loop' = Tail(loop) \o (IF conn.open THEN Aborted ELSE <<>>)
    BY <1>4 DEF RunResolved
  <2>2. (IF conn.open THEN Aborted ELSE <<>>) = <<>>
    BY <1>2, <1>3, AbortedShape
  <2>3. loop' = Tail(loop) BY <1>1, <2>1, <2>2
  <2>4. /\ conn'.state = conn.state /\ conn'.writing = conn.writing
        /\ conn'.inFlight = NoItem
    BY <1>3, <2>1 DEF Connections
  <2>5. ~Sendable(conn') BY <1>2, <2>4 DEF Sendable, Live
  <2>6. OneChain'
    BY <1>1, <1>2, <2>1, <2>3, <2>4 DEF OneChain, FInv, PartOf
  <2>7. Cleared' BY <1>1, <1>2, <2>3 DEF Cleared, FInv, PartOf
  <2> HIDE DEF Sendable
  <2>8. Flight' BY <1>3, <2>1, <2>4, <2>5 DEF Flight
  <2> QED BY <2>6, <2>7, <2>8 DEF FInv
<1>5. CASE ~Head(loop).ok
  <2>1. /\ loop' = Tail(loop)
        /\ UNCHANGED <<conn, resolving, connecting, ops, delivered>>
    BY <1>5 DEF RunResolved, history
  <2> QED BY <1>1, <2>1, KeepStep
<1> QED BY <1>4, <1>5

\* The connect ends: a session begins with nothing left over in the loop.
LEMMA RunConnectedFlight ==
    ASSUME IInv, FInv, RunConnected
    PROVE  FInv'
<1>1. /\ PartOf(Tail(loop), loop) /\ Tail(loop) \in Seq(Handlers)
      /\ Some(loop, Ends) /\ Some(loop, {"connected"})
      /\ Once(loop, Ends) => ~Some(Tail(loop), Ends)
      /\ NoneBehind(loop, "connected", {"failPending"})
            => ~Some(Tail(loop), {"failPending"})
  BY FirstFacts DEF RunConnected, Ends
<1>2. /\ resolving = 0 /\ ~connecting /\ conn.state \notin Live
      /\ ~Some(Tail(loop), Ends) /\ ~Some(Tail(loop), {"failPending"})
      /\ ~Some(loop, {"enqueue", "written"})
  BY <1>1 DEF FInv, OneChain, Cleared
<1>3. /\ ~Some(Tail(loop), {"written"})
      /\ ~Some(Tail(loop), {"connected"})
      /\ ~Some(Tail(loop), {"enqueue", "written"})
  <2>1. /\ ~Some(Tail(loop), {"enqueue", "written"}) BY <1>1, <1>2 DEF PartOf
  <2> QED BY <1>2, <2>1, SomeMonotonic DEF Ends
<1>4. /\ ~conn.writing /\ ops = <<>> /\ conn.inFlight = NoItem
      /\ conn \in Connections(Frames)
  BY <1>2, FlightFacts
<1>5. /\ loop' = Tail(loop) /\ UNCHANGED <<resolving, connecting, ops, delivered>>
      /\ conn'.writing = conn.writing /\ conn'.inFlight = NoItem
  BY <1>4 DEF RunConnected, net, history, Connections
<1>6. OneChain' BY <1>1, <1>2, <1>5 DEF OneChain, FInv, PartOf
<1>7. Cleared' BY <1>1, <1>2, <1>3, <1>5 DEF Cleared, FInv, PartOf
<1>8. ~Success(loop') /\ Once(loop', {"written"})
  BY <1>3, <1>5, SuccessIsWritten DEF Once, Some
<1> HIDE DEF Sendable
<1>9. Flight' BY <1>2, <1>3, <1>4, <1>5, <1>8 DEF Flight
<1> QED BY <1>6, <1>7, <1>9 DEF FInv

\* Every step keeps the invariant.
LEMMA NextFInv ==
    ASSUME orderly, IInv, FInv, [Next]_vars
    PROVE  FInv'
<1>1. CASE UNCHANGED vars
  <2>1. PartOf(loop', loop)
    BY <1>1, FlightFacts, PartOfItself DEF vars
  <2> QED BY <1>1, <2>1, KeepStep DEF vars, net, history
<1> QED BY <1>1, AsyncWritePacketFlight, AsyncConnectFlight, MarkConnectedFlight,
           OwnerCloseFlight, ResolveDoneFlight, ConnectDoneFlight,
           WriteDoneFlight, RunEnqueueFlight, RunAbortedFlight,
           RunFailPendingFlight, RunWrittenQuietFlight, RunWrittenOkFlight,
           RunWrittenFailedFlight, RunResolvedFlight, RunConnectedFlight
           DEF Next, Owner, Network, IoThread

-----------------------------------------------------------------------------
(* Success is delivery *)

\* What GoodWasDelivered says of an orderly owner.
Good == good \subseteq delivered

\* Only the completion of a write that succeeded reports success, and its item
\* was delivered.
LEMMA NextGood ==
    ASSUME IInv, FInv, Good, [Next]_vars
    PROVE  Good'
<1>1. delivered \subseteq delivered'
  BY DEF Next, Owner, Network, IoThread, AsyncWritePacket, AsyncConnect,
         MarkConnected, OwnerClose, ResolveDone, ConnectDone, WriteDone,
         RunEnqueue, RunAborted, RunFailPending, RunWrittenQuiet, RunWrittenOk,
         RunWrittenFailed, RunResolved, RunConnected, history, vars
<1>2. CASE RunWrittenOk
  <2>1. good' = good \cup {conn.inFlight} BY <1>2 DEF RunWrittenOk, Tell
  <2>2. conn.inFlight \in delivered BY <1>2, WrittenFacts DEF RunWrittenOk, TakenOver
  <2> QED BY <1>1, <2>1, <2>2 DEF Good
<1>3. CASE ~RunWrittenOk
  <2>1. good' = good
    BY <1>3 DEF Next, Owner, Network, IoThread, AsyncWritePacket, AsyncConnect,
           MarkConnected, OwnerClose, ResolveDone, ConnectDone, WriteDone,
           RunEnqueue, RunAborted, RunFailPending, RunWrittenQuiet,
           RunWrittenFailed, RunResolved, RunConnected, history, vars, Tell
  <2> QED BY <1>1, <2>1 DEF Good
<1> QED BY <1>2, <1>3

-----------------------------------------------------------------------------
(* No frame is lost *)

\* Every frame that was submitted is somewhere, or was reported.
Kept ==
    \A f \in 1 .. calls :
        f \in Carried(loop) \/ f \in Held(conn) \/ reports[f] >= 1

\* A step that only moves frames, and one that runs the handlers of told.
LEMMA MoveKept ==
    ASSUME Kept, UNCHANGED <<calls, reports>>,
           Carried(loop) \cup Held(conn) \subseteq Carried(loop') \cup Held(conn')
    PROVE  Kept'
BY DEF Kept

LEMMA TellKept ==
    ASSUME IInv, Kept, UNCHANGED calls, NEW told, NEW fine, Tell(told, fine),
           Carried(loop) \cup Held(conn)
               \subseteq Carried(loop') \cup Held(conn') \cup told
    PROVE  Kept'
<1> SUFFICES ASSUME NEW f \in 1 .. calls,
                    f \notin Carried(loop'), f \notin Held(conn')
             PROVE  reports'[f] >= 1
  BY DEF Kept
<1>1. f \in Frames /\ reports[f] \in Nat
  BY ConnectionAssumption DEF IInv, TypeOK, Frames
<1>2. reports'[f] = IF f \in told THEN reports[f] + 1 ELSE reports[f]
  BY <1>1 DEF Tell
<1>3. f \in told \/ reports[f] >= 1 BY DEF Kept
<1> QED BY <1>1, <1>2, <1>3

\* The first handler takes away its own frame at most.
LEMMA TailKeeps ==
    ASSUME NEW l \in Seq(Handlers), l # <<>>
    PROVE  /\ Head(l).kind \notin {"enqueue", "aborted"} =>
                Carried(l) \subseteq Carried(Tail(l))
           /\ Carried(l) \subseteq Carried(Tail(l)) \cup {Head(l).frame}
<1>1. /\ Len(Tail(l)) = Len(l) - 1 /\ Len(l) \in Nat \ {0}
      /\ \A i \in 1 .. Len(l) - 1 : Tail(l)[i] = l[i + 1]
      /\ Head(l) = l[1]
  BY HeadTailProperties, EmptySeq, LenProperties
<1>2. ASSUME NEW f \in Carried(l), f \notin Carried(Tail(l))
      PROVE  CarriesFrame(l, 1) /\ l[1].frame = f
  <2>1. PICK i \in 1 .. Len(l) : CarriesFrame(l, i) /\ l[i].frame = f
    BY DEF Carried
  <2>2. CASE i = 1 BY <2>1, <2>2
  <2>3. CASE i # 1
    <3>1. i - 1 \in 1 .. Len(l) - 1 /\ Tail(l)[i - 1] = l[i]
      BY <1>1, <2>3
    <3>2. f \in Carried(Tail(l))
      BY <1>1, <2>1, <3>1 DEF Carried, CarriesFrame
    <3> QED BY <1>2, <3>2
  <2> QED BY <2>2, <2>3
<1> QED BY <1>1, <1>2 DEF CarriesFrame

\* do_write() with nothing in flight drops nothing.
LEMMA DoWriteKeeps ==
    ASSUME NEW c \in Connections(Frames), c.inFlight = NoItem, NoItem \notin Frames
    PROVE  Held(c) \subseteq Held(DoWrite(c))
<1>1. CASE ~StartsWrite(c) BY <1>1 DEF DoWrite
<1>2. CASE StartsWrite(c)
  <2> DEFINE q == c.queue
             d == DoWrite(c)
  <2>1. q \in Seq(Frames) /\ q # <<>>
    BY <1>2 DEF StartsWrite, Connections
  <2>2. /\ Head(q) \in Frames /\ Len(q) \in Nat \ {0}
        /\ Len(Tail(q)) = Len(q) - 1
        /\ \A i \in 1 .. Len(q) - 1 : Tail(q)[i] = q[i + 1]
        /\ Head(q) = q[1]
    BY <2>1, HeadTailProperties, EmptySeq
  <2>3. d.queue = Tail(q) /\ d.inFlight = Head(q)
    BY <1>2 DEF DoWrite, Connections
  <2> HIDE DEF d, q
  <2>4. ASSUME NEW i \in 1 .. Len(q) PROVE q[i] \in Held(d)
    <3>1. CASE i = 1 BY <2>2, <2>3, <3>1 DEF Held
    <3>2. CASE i # 1
      <4>1. i - 1 \in 1 .. Len(q) - 1 /\ Tail(q)[i - 1] = q[i] BY <2>2, <3>2
      <4>2. q[i] \in Queued(d) BY <2>2, <2>3, <4>1 DEF Queued
      <4> QED BY <4>2 DEF Held
    <3> QED BY <3>1, <3>2
  <2>5. Held(c) = {q[i] : i \in 1 .. Len(q)} BY DEF Held, Queued, q
  <2> QED BY <2>4, <2>5 DEF d
<1> QED BY <1>1, <1>2

\* Running the handlers of items drops nothing that is not told.
LEMMA HandlersKeep ==
    ASSUME NEW c \in Connections(Frames), NEW items
    PROVE  items \cup Held(c)
             \subseteq Held(AfterHandlers(c, items)) \cup TellsAfter(c, items)
BY DEF AfterHandlers, TellsAfter, Close, CloseTells

\* A handler that runs the handlers of items, with c left of the connection.
LEMMA ItemsKept ==
    ASSUME IInv, Kept, loop # <<>>, NEW c \in Connections(Frames), NEW items,
           Held(conn) \subseteq Held(c) \cup items,
           Carried(loop) \subseteq Carried(Tail(loop)) \cup items,
           NEW fine, Become(AfterHandlers(c, items), Tail(loop)),
           Tell(TellsAfter(c, items), fine), UNCHANGED calls
    PROVE  Kept'
<1> DEFINE d == AfterHandlers(c, items)
           told == TellsAfter(c, items)
<1>1. items \cup Held(c) \subseteq Held(d) \cup told BY HandlersKeep
<1> HIDE DEF d, told
<1>2. /\ Tail(loop) \in Seq(Handlers) /\ DistinctCarriers(Tail(loop))
      /\ Become(d, Tail(loop)) /\ Tell(told, fine)
  BY HandlerStart DEF d, told
<1>3. conn' = d /\ Carried(loop') = Carried(Tail(loop))
  BY <1>2, BecomeFacts DEF IInv
<1>4. Carried(loop) \cup Held(conn)
        \subseteq Carried(loop') \cup Held(conn') \cup told
  BY <1>1, <1>3
<1> QED BY <1>2, <1>4, TellKept

\* A completion is queued, or nothing is.
LEMMA QueueKept ==
    ASSUME IInv, Kept, NEW h \in Handlers, loop' = Append(loop, h),
           h.kind \notin {"enqueue", "aborted"},
           UNCHANGED <<conn, calls, reports>>
    PROVE  Kept'
BY AppendOther, MoveKept DEF IInv, TypeOK

\* async_write_packet() posts its frame.
LEMMA AsyncWritePacketKept ==
    ASSUME IInv, Kept, AsyncWritePacket
    PROVE  Kept'
<1> DEFINE h == [kind |-> "enqueue", frame |-> calls + 1]
<1>1. /\ calls + 1 \in Frames /\ h \in FrameHandlers /\ h.frame = calls + 1
      /\ calls \in Nat /\ loop \in Seq(Handlers)
  BY ConnectionAssumption
     DEF AsyncWritePacket, IInv, TypeOK, Frames, FrameHandlers
<1>2. loop' = Append(loop, h) /\ calls' = calls + 1
      /\ UNCHANGED <<conn, reports>>
  BY DEF AsyncWritePacket, history
<1>3. calls + 1 \notin Carried(loop) BY <1>1 DEF IInv, OnePlace
<1> HIDE DEF h
<1>4. Carried(loop') = Carried(loop) \cup {calls + 1}
  BY <1>1, <1>2, <1>3, AppendFrame
<1>5. \A f \in 1 .. calls' : f \in 1 .. calls \/ f = calls + 1
  BY <1>1, <1>2
<1> QED BY <1>2, <1>4, <1>5 DEF Kept

\* Calls of the owner other than that.
LEMMA OwnerKept ==
    ASSUME IInv, Kept, AsyncConnect \/ MarkConnected \/ OwnerClose
    PROVE  Kept'
<1>1. CASE AsyncConnect \/ MarkConnected
  <2>1. /\ conn'.queue = conn.queue /\ conn'.inFlight = conn.inFlight
        /\ UNCHANGED <<loop, calls, reports>>
    BY <1>1 DEF AsyncConnect, MarkConnected, BeginConnect, history, IInv, TypeOK,
                Connections
  <2>2. Held(conn') = Held(conn) BY <2>1 DEF Held, Queued
  <2> QED BY <2>1, <2>2, MoveKept
<1>2. CASE OwnerClose
  <2>1. /\ Become(Close(conn), loop) /\ Tell(CloseTells(conn), {})
        /\ UNCHANGED calls
    BY <1>2 DEF OwnerClose
  <2>2. conn' = Close(conn) /\ Carried(loop') = Carried(loop)
    BY <2>1, BecomeFacts DEF IInv, TypeOK, OnePlace
  <2>3. Held(conn) \subseteq Held(conn') \cup CloseTells(conn)
    BY <2>2 DEF Close, CloseTells
  <2> QED BY <2>1, <2>2, <2>3, TellKept
<1> QED BY <1>1, <1>2

\* The network queues completions.
LEMMA NetworkKept ==
    ASSUME IInv, Kept, Network
    PROVE  Kept'
<1>1. PICK kind \in {"resolved", "connected", "written"}, ok \in BOOLEAN :
         loop' = Append(loop, [kind |-> kind, ok |-> ok])
  BY DEF Network, ResolveDone, ConnectDone, WriteDone
<1> DEFINE h == [kind |-> kind, ok |-> ok]
<1>2. h \in Handlers /\ h.kind \notin {"enqueue", "aborted"}
  BY DEF Handlers, Completions
<1>3. UNCHANGED <<conn, calls, reports>>
  BY DEF Network, ResolveDone, ConnectDone, WriteDone, history
<1> HIDE DEF h
<1> QED BY <1>1, <1>2, <1>3, QueueKept DEF h

\* enqueue_write() moves its frame on.
LEMMA RunEnqueueKept ==
    ASSUME IInv, FInv, Kept, RunEnqueue
    PROVE  Kept'
<1> DEFINE f == Head(loop).frame
           rest == Tail(loop)
<1>1. /\ loop # <<>> /\ Head(loop).kind = "enqueue" /\ loop \in Seq(Handlers)
      /\ NoItem \notin Frames /\ conn \in Connections(Frames)
      /\ DistinctItems(conn)
  BY FlightFacts DEF RunEnqueue, Running, IInv, OnePlace
<1>2. /\ f \in Frames /\ f \notin Held(conn) /\ f \notin Carried(rest)
      /\ rest \in Seq(Handlers) /\ DistinctCarriers(rest)
      /\ Carried(loop) \subseteq Carried(rest) \cup {f}
  BY <1>1, HandlerStart, TailKeeps
<1>3. /\ UNCHANGED <<calls, reports>>
      /\ conn.closed => /\ loop' = Append(rest, [kind |-> "aborted", frame |-> f])
                        /\ UNCHANGED conn
      /\ ~conn.closed => ThenDoWrite(Enqueue(conn, f), rest)
  BY DEF RunEnqueue
<1> HIDE DEF f, rest
<1>4. CASE conn.closed
  <2> DEFINE h == [kind |-> "aborted", frame |-> f]
  <2>1. h \in FrameHandlers /\ h.frame = f BY <1>2 DEF FrameHandlers
  <2>2. loop' = Append(rest, h) /\ UNCHANGED conn BY <1>3, <1>4
  <2> HIDE DEF h
  <2>3. Carried(loop') = Carried(rest) \cup {f} BY <1>2, <2>1, <2>2, AppendFrame
  <2> QED BY <1>2, <1>3, <2>2, <2>3, MoveKept
<1>5. CASE ~conn.closed
  <2> DEFINE c == Enqueue(conn, f)
  <2>1. /\ c \in Connections(Frames) /\ DistinctItems(c)
        /\ Held(c) = Held(conn) \cup {f}
        /\ c.writing = conn.writing /\ c.inFlight = conn.inFlight
    BY <1>1, <1>2, EnqueueFacts DEF Enqueue, Connections
  <2>2. ThenDoWrite(c, rest) BY <1>3, <1>5
  <2> HIDE DEF c
  <2>3. conn' = DoWrite(c) /\ Carried(loop') = Carried(rest)
    BY <1>2, <2>1, <2>2, ThenDoWriteFacts DEF IInv, ThenDoWrite
  <2>4. Held(c) \subseteq Held(conn')
    <3>1. CASE conn.writing
      <4>1. ~StartsWrite(c) BY <2>1, <3>1 DEF StartsWrite
      <4> QED BY <2>3, <4>1 DEF DoWrite
    <3>2. CASE ~conn.writing
      BY <1>1, <2>1, <2>3, <3>2, FlightFacts, DoWriteKeeps
    <3> QED BY <3>1, <3>2
  <2> QED BY <1>2, <1>3, <2>1, <2>3, <2>4, MoveKept
<1> QED BY <1>4, <1>5

\* The reports of refused and of pending frames.
LEMMA ReportsKept ==
    ASSUME IInv, Kept, RunAborted \/ RunFailPending
    PROVE  Kept'
<1>1. loop # <<>> /\ loop \in Seq(Handlers) /\ conn \in Connections(Frames)
  BY DEF RunAborted, RunFailPending, Running, IInv, TypeOK
<1>2. CASE RunAborted
  <2> DEFINE items == {Head(loop).frame}
  <2>1. /\ Become(AfterHandlers(conn, items), Tail(loop))
        /\ Tell(TellsAfter(conn, items), {}) /\ UNCHANGED calls
    BY <1>2 DEF RunAborted
  <2>2. Carried(loop) \subseteq Carried(Tail(loop)) \cup items
    BY <1>1, TailKeeps
  <2> HIDE DEF items
  <2> QED BY <1>1, <2>1, <2>2, ItemsKept
<1>3. CASE RunFailPending
  <2> DEFINE items == Queued(conn)
             c == FailPending(conn)
  <2>1. /\ Become(AfterHandlers(c, items), Tail(loop))
        /\ Tell(TellsAfter(c, items), {}) /\ UNCHANGED calls
        /\ Head(loop).kind = "failPending"
    BY <1>3 DEF RunFailPending, Running
  <2>2. Carried(loop) \subseteq Carried(Tail(loop)) BY <1>1, <2>1, TailKeeps
  <2>3. c \in Connections(Frames) /\ c.inFlight = conn.inFlight
    <3>1. <<>> \in Seq(Frames) OBVIOUS
    <3> QED BY <1>1, <3>1 DEF FailPending, Connections
  <2>4. Held(conn) \subseteq Held(c) \cup items BY <2>3 DEF Held
  <2> HIDE DEF items, c
  <2> QED BY <1>1, <2>1, <2>2, <2>3, <2>4, ItemsKept
<1> QED BY <1>2, <1>3

\* A write succeeded: its own frame is reported, the next goes out.
LEMMA RunWrittenOkKept ==
    ASSUME IInv, FInv, Kept, RunWrittenOk
    PROVE  Kept'
<1> DEFINE item == conn.inFlight
           c == TakeInFlight(conn)
           rest == Tail(loop)
<1>0. NoItem \notin Frames /\ DistinctItems(conn)
  BY ConnectionAssumption DEF Frames, IInv, OnePlace
<1>1. /\ loop # <<>> /\ loop \in Seq(Handlers) /\ conn \in Connections(Frames)
      /\ Head(loop).kind = "written" /\ item # NoItem
  BY DEF RunWrittenOk, TakenOver, Running, IInv, TypeOK
<1>2. /\ Tell(TellsAfter(c, {item}), {item}) /\ UNCHANGED calls
      /\ item \in Closers => Become(Close(c), rest)
      /\ item \notin Closers => ThenDoWrite(c, rest)
  BY DEF RunWrittenOk
<1>3. Carried(loop) \subseteq Carried(rest) BY <1>1, TailKeeps
<1>4. c \in Connections(Frames) /\ c.inFlight = NoItem
      /\ DistinctItems(c) /\ Held(conn) \subseteq Held(c) \cup {item}
  BY <1>0, <1>1, TakeFacts DEF TakeInFlight, Connections
<1>5. rest \in Seq(Handlers) /\ DistinctCarriers(rest) BY <1>1, HandlerStart
<1>6. CASE item \in Closers
  <2>1. Become(AfterHandlers(c, {item}), rest)
    BY <1>2, <1>6 DEF AfterHandlers
  <2> HIDE DEF item, c
  <2> QED BY <1>1, <1>2, <1>3, <1>4, <2>1, ItemsKept
<1> HIDE DEF item, c, rest
<1>7. CASE item \notin Closers
  <2>1. conn' = DoWrite(c) /\ Carried(loop') = Carried(rest)
    BY <1>2, <1>4, <1>5, <1>7, ThenDoWriteFacts DEF IInv, ThenDoWrite
  <2>2. Held(c) \subseteq Held(conn') BY <1>0, <1>4, <2>1, DoWriteKeeps
  <2>3. item \in TellsAfter(c, {item}) BY DEF TellsAfter
  <2> QED BY <1>2, <1>3, <1>4, <2>1, <2>2, <2>3, TellKept
<1> QED BY <1>6, <1>7

\* A write failed: its own frame and all that wait are reported.
LEMMA RunWrittenFailedKept ==
    ASSUME IInv, Kept, RunWrittenFailed
    PROVE  Kept'
<1> DEFINE items == {conn.inFlight} \cup Queued(conn)
           c == FailPending(DropSocket(TakeInFlight(conn)))
<1>1. /\ loop # <<>> /\ loop \in Seq(Handlers) /\ conn \in Connections(Frames)
      /\ Head(loop).kind = "written"
  BY DEF RunWrittenFailed, TakenOver, Running, IInv, TypeOK
<1>2. /\ Become(AfterHandlers(c, items), Tail(loop))
      /\ Tell(TellsAfter(c, items), {}) /\ UNCHANGED calls
  BY DEF RunWrittenFailed
<1>3. Carried(loop) \subseteq Carried(Tail(loop)) BY <1>1, TailKeeps
<1>4. c \in Connections(Frames)
  <2>1. <<>> \in Seq(Frames) OBVIOUS
  <2> QED BY <1>1, <2>1 DEF FailPending, DropSocket, TakeInFlight, Connections,
                            ConnectionStates
<1>5. Held(conn) \subseteq items BY DEF Held
<1> HIDE DEF items, c
<1> QED BY <1>1, <1>2, <1>3, <1>4, <1>5, ItemsKept

\* Completions that touch no frame.
LEMMA OthersKept ==
    ASSUME IInv, Kept, RunWrittenQuiet \/ RunResolved \/ RunConnected
    PROVE  Kept'
<1>1. /\ loop # <<>> /\ loop \in Seq(Handlers)
      /\ Head(loop).kind \notin {"enqueue", "aborted"}
  BY DEF RunWrittenQuiet, RunResolved, RunConnected, Running, IInv, TypeOK
<1>2. /\ Tail(loop) \in Seq(Handlers)
      /\ Carried(loop) \subseteq Carried(Tail(loop))
  BY <1>1, HandlerStart, TailKeeps
<1>3. /\ conn'.queue = conn.queue /\ conn'.inFlight = conn.inFlight
      /\ UNCHANGED <<calls, reports>>
  BY DEF RunWrittenQuiet, RunResolved, RunConnected, history, IInv, TypeOK,
         Connections
<1>4. Held(conn') = Held(conn) BY <1>3 DEF Held, Queued
<1>5. \/ loop' = Tail(loop)
      \/ loop' = Tail(loop) \o Aborted
      \/ loop' = Tail(loop) \o <<>>
  BY DEF RunWrittenQuiet, RunResolved, RunConnected
<1>6. Aborted \in Seq(Completions) /\ <<>> \in Seq(Completions)
  BY AbortedType DEF IInv
<1> HIDE DEF Aborted
<1>7. Carried(loop') = Carried(Tail(loop))
  BY <1>2, <1>5, <1>6, ConcatCompletions
<1> QED BY <1>2, <1>3, <1>4, <1>7, MoveKept

\* Every step keeps every frame.
LEMMA NextKept ==
    ASSUME IInv, FInv, Kept, [Next]_vars
    PROVE  Kept'
<1>1. CASE UNCHANGED vars
  BY <1>1, MoveKept DEF vars, history
<1> QED BY <1>1, AsyncWritePacketKept, OwnerKept, NetworkKept, RunEnqueueKept,
           ReportsKept, RunWrittenOkKept, RunWrittenFailedKept, OthersKept
           DEF Next, Owner, IoThread

-----------------------------------------------------------------------------
(* The theorems *)

\* Of an orderly owner all of it holds.
OrderlyInv == orderly => FInv /\ Good /\ Kept

\* The invariants hold together.
LEMMA FlightInvariance == Spec => [](IInv /\ OrderlyInv)
<1>1. Init => IInv /\ OrderlyInv
  <2>1. Init => Good /\ Kept
    BY DEF Init, Good, Kept
  <2> QED BY <2>1, InitIInv, InitFInv DEF OrderlyInv
<1>2. IInv /\ OrderlyInv /\ [Next]_vars => (IInv /\ OrderlyInv)'
  <2> SUFFICES ASSUME IInv, OrderlyInv, [Next]_vars, orderly'
               PROVE  (FInv /\ Good /\ Kept)'
    BY NextIInv DEF OrderlyInv
  <2>1. orderly BY DEF Next, vars
  <2>2. FInv /\ Good /\ Kept BY <2>1 DEF OrderlyInv
  <2> QED BY <2>1, <2>2, NextFInv, NextGood, NextKept
<1> QED BY <1>1, <1>2, PTL DEF Spec

\* connection.hpp:45: one asio::async_write() at a time, of the buffer that
\* in_flight_ keeps alive, across close(), reconnects and failed writes, for an
\* orderly owner.
THEOREM NoOverlappingWrites == Spec => []OneWriteAtATime
<1>1. OrderlyInv => OneWriteAtATime
  <2> SUFFICES ASSUME OrderlyInv, orderly PROVE OneWriteAtATime
    BY DEF OneWriteAtATime
  <2>1. ops = <<>> \/ ops = <<conn.inFlight>>
    BY DEF OrderlyInv, FInv, Flight
  <2>2. ops # <<>> => conn.inFlight = ops[1] BY <2>1
  <2>3. Len(ops) <= 1
    <3>1. CASE ops = <<>> BY <3>1
    <3>2. CASE ops = <<conn.inFlight>>
      <4>1. Len(ops) = 1 BY <3>2
      <4> QED BY <4>1
    <3> QED BY <2>1, <3>1, <3>2
  <2> QED BY <2>2, <2>3 DEF OneWriteAtATime
<1> QED BY <1>1, FlightInvariance, PTL

\* A write handler that hears of success belongs to a frame the peer took: the
\* late completion of a write that was dropped is never taken for another's, by
\* an orderly owner.
THEOREM SuccessIsDelivery == Spec => []GoodWasDelivered
<1>1. OrderlyInv => GoodWasDelivered
  BY DEF OrderlyInv, Good, GoodWasDelivered
<1> QED BY <1>1, FlightInvariance, PTL

\* Every frame an orderly owner gives to async_write_packet() is on its way, or
\* its handler ran.
THEOREM NoFrameLost == Spec => []NothingLost
<1>1. IInv /\ OrderlyInv => NothingLost
  BY ConnectionAssumption
     DEF OrderlyInv, Kept, NothingLost, Carried, Carriers, CarriesFrame
<1> QED BY <1>1, FlightInvariance, PTL
=============================================================================
