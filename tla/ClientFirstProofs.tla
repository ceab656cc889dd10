-------------------------- MODULE ClientFirstProofs --------------------------
(***************************************************************************)
(* litemqtt::mqtt_client in its first attempts, for every setup.  From the *)
(* second attempt on, what an earlier one left behind can meet a new       *)
(* session: two connect chains on one socket, a late CONNACK, a keep-alive *)
(* timer nobody stopped.  Here is what holds before that.                  *)
(***************************************************************************)
EXTENDS ClientProofs

-----------------------------------------------------------------------------
(* Queues: what is in them once, and in which order *)

\* S is in s once at most.
Once(s, S) == \A i, j \in 1 .. Len(s) : s[i] \in S /\ s[j] \in S => i = j

\* No element of A is behind one of B.
Ordered(s, A, B) == \A i, j \in 1 .. Len(s) : s[i] \in A /\ s[j] \in B => i < j

Misses(s, S) == Elements(s) \cap S = {}

LEMMA AppendOrder ==
    ASSUME NEW T, NEW s \in Seq(T), NEW x \in T
    PROVE  /\ Append(s, x) \in Seq(T)
           /\ Elements(Append(s, x)) = Elements(s) \cup {x}
           /\ \A S : Misses(Append(s, x), S) <=> Misses(s, S) /\ x \notin S
           /\ \A S : Once(s, S) /\ (Misses(s, S) \/ x \notin S)
                      => Once(Append(s, x), S)
           /\ \A A, B : Ordered(s, A, B) /\ (x \in A => Misses(s, B) /\ x \notin B)
                         => Ordered(Append(s, x), A, B)
<1> DEFINE c == Append(s, x)
<1>1. /\ c \in Seq(T) /\ Len(c) = Len(s) + 1 /\ Len(s) \in Nat
      /\ \A i \in 1 .. Len(s) : c[i] = s[i]
      /\ c[Len(s) + 1] = x
      /\ \A i \in 1 .. Len(c) : i \in 1 .. Len(s) \/ i = Len(s) + 1
      /\ \A i \in 1 .. Len(s) : i \in 1 .. Len(c) /\ i < Len(s) + 1
      /\ Len(s) + 1 \in 1 .. Len(c)
  BY AppendProperties, LenProperties
<1> HIDE DEF c
<1>2. Elements(c) = Elements(s) \cup {x} BY <1>1 DEF Elements
<1>3. \A S : Misses(c, S) <=> Misses(s, S) /\ x \notin S BY <1>2 DEF Misses
<1>4. ASSUME NEW S, Once(s, S), Misses(s, S) \/ x \notin S PROVE Once(c, S)
  BY <1>1, <1>4 DEF Once, Misses, Elements
<1>5. ASSUME NEW A, NEW B, Ordered(s, A, B),
             x \in A => Misses(s, B) /\ x \notin B
      PROVE  Ordered(c, A, B)
  BY <1>1, <1>5 DEF Ordered, Misses, Elements
<1> QED BY <1>1, <1>2, <1>3, <1>4, <1>5 DEF c

LEMMA TailOrder ==
    ASSUME NEW T, NEW s \in Seq(T), s # <<>>
    PROVE  /\ Tail(s) \in Seq(T) /\ Head(s) \in T
           /\ Elements(s) = {Head(s)} \cup Elements(Tail(s))
           /\ \A S : /\ Misses(s, S) => Misses(Tail(s), S)
                     /\ Once(s, S) => /\ Once(Tail(s), S)
                                      /\ Head(s) \in S => Misses(Tail(s), S)
           /\ \A A, B : Ordered(s, A, B) =>
                           /\ Ordered(Tail(s), A, B)
                           /\ Head(s) \in B => Misses(s, A)
<1> DEFINE t == Tail(s)
           h == Head(s)
<1>1. /\ t \in Seq(T) /\ h \in T
      /\ Len(s) = Len(t) + 1 /\ Len(t) \in Nat
      /\ \A i \in 1 .. Len(t) : t[i] = s[i + 1]
      /\ s[1] = h
      /\ \A i \in 1 .. Len(s) : i = 1 \/ (i - 1 \in 1 .. Len(t) /\ i = (i - 1) + 1)
      /\ \A i \in 1 .. Len(t) : i + 1 \in 1 .. Len(s)
      /\ 1 \in 1 .. Len(s)
  BY HeadTailProperties, EmptySeq, LenProperties
<1> HIDE DEF t, h
<1>2. Elements(s) = {h} \cup Elements(t)
  <2>1. ASSUME NEW i \in 1 .. Len(s) PROVE s[i] \in {h} \cup Elements(t)
    <3>1. CASE i = 1 BY <1>1, <3>1
    <3>2. CASE i - 1 \in 1 .. Len(t) /\ i = (i - 1) + 1
      <4>1. s[i] = t[i - 1] BY <1>1, <3>2
      <4> QED BY <3>2, <4>1 DEF Elements
    <3> QED BY <1>1, <3>1, <3>2
  <2>2. \A i \in 1 .. Len(t) : t[i] \in Elements(s) BY <1>1 DEF Elements
  <2>3. h \in Elements(s) BY <1>1 DEF Elements
  <2> QED BY <2>1, <2>2, <2>3 DEF Elements
<1>3. \A S : Misses(s, S) => Misses(t, S) BY <1>2 DEF Misses
<1>4. ASSUME NEW S, Once(s, S)
      PROVE  Once(t, S) /\ (h \in S => Misses(t, S))
  <2>1. ASSUME NEW i \in 1 .. Len(t), NEW j \in 1 .. Len(t),
               t[i] \in S, t[j] \in S
        PROVE  i = j
    <3>1. i + 1 = j + 1 BY <1>1, <1>4, <2>1 DEF Once
    <3> QED BY <3>1
  <2>2. ASSUME h \in S, NEW i \in 1 .. Len(t), t[i] \in S PROVE FALSE
    <3>1. 1 = i + 1 BY <1>1, <1>4, <2>2 DEF Once
    <3> QED BY <3>1
  <2> QED BY <2>1, <2>2 DEF Once, Misses, Elements
<1>5. ASSUME NEW A, NEW B, Ordered(s, A, B)
      PROVE  Ordered(t, A, B) /\ (h \in B => Misses(s, A))
  <2>1. ASSUME NEW i \in 1 .. Len(t), NEW j \in 1 .. Len(t),
               t[i] \in A, t[j] \in B
        PROVE  i < j
    <3>1. i + 1 < j + 1 BY <1>1, <1>5, <2>1 DEF Ordered
    <3> QED BY <3>1
  <2>2. ASSUME h \in B, NEW i \in 1 .. Len(s), s[i] \in A PROVE FALSE
    <3>1. i < 1 BY <1>1, <1>5, <2>2 DEF Ordered
    <3> QED BY <3>1
  <2> QED BY <2>1, <2>2 DEF Ordered, Misses, Elements
<1> QED BY <1>1, <1>2, <1>3, <1>4, <1>5 DEF t, h

LEMMA ConcatOrder ==
    ASSUME NEW T, NEW a \in Seq(T), NEW b \in Seq(T)
    PROVE  /\ a \o b \in Seq(T)
           /\ Elements(a \o b) = Elements(a) \cup Elements(b)
           /\ \A S : Misses(a \o b, S) <=> Misses(a, S) /\ Misses(b, S)
           /\ \A S : Once(a, S) /\ Once(b, S) /\ (Misses(a, S) \/ Misses(b, S))
                      => Once(a \o b, S)
           /\ \A A, B : /\ Ordered(a, A, B) /\ Ordered(b, A, B)
                        /\ Misses(a, B) \/ Misses(b, A)
                        => Ordered(a \o b, A, B)
<1> DEFINE c == a \o b
<1>1. /\ c \in Seq(T)
      /\ Len(c) = Len(a) + Len(b) /\ Len(a) \in Nat /\ Len(b) \in Nat
      /\ \A i \in 1 .. Len(a) : c[i] = a[i]
      /\ \A i \in 1 .. Len(b) : c[Len(a) + i] = b[i]
      /\ \A i \in 1 .. Len(c) : \/ i \in 1 .. Len(a)
                                \/ /\ i - Len(a) \in 1 .. Len(b)
                                   /\ i = Len(a) + (i - Len(a))
  BY ConcatProperties, LenProperties
<1> HIDE DEF c
<1>2. /\ \A i \in 1 .. Len(a) : i \in 1 .. Len(c)
      /\ \A i \in 1 .. Len(b) : Len(a) + i \in 1 .. Len(c)
      /\ \A i \in 1 .. Len(c) : \/ i \in 1 .. Len(a)
                                \/ /\ i - Len(a) \in 1 .. Len(b)
                                   /\ c[i] = b[i - Len(a)]
  <2>1. ASSUME NEW i \in 1 .. Len(c), i \notin 1 .. Len(a)
        PROVE  i - Len(a) \in 1 .. Len(b) /\ c[i] = b[i - Len(a)]
    <3>1. i - Len(a) \in 1 .. Len(b) /\ i = Len(a) + (i - Len(a))
      BY <1>1, <2>1
    <3>2. c[Len(a) + (i - Len(a))] = b[i - Len(a)] BY <1>1, <3>1
    <3> QED BY <3>1, <3>2
  <2>2. \A i \in 1 .. Len(a) : i \in 1 .. Len(c) BY <1>1
  <2>3. \A i \in 1 .. Len(b) : Len(a) + i \in 1 .. Len(c) BY <1>1
  <2> QED BY <2>1, <2>2, <2>3
<1>3. Elements(c) = Elements(a) \cup Elements(b)
  <2>1. \A i \in 1 .. Len(c) : c[i] \in Elements(a) \cup Elements(b)
    BY <1>1, <1>2 DEF Elements
  <2>2. \A i \in 1 .. Len(a) : a[i] \in Elements(c) BY <1>1, <1>2 DEF Elements
  <2>3. \A i \in 1 .. Len(b) : b[i] \in Elements(c) BY <1>1, <1>2 DEF Elements
  <2> QED BY <2>1, <2>2, <2>3 DEF Elements
<1>4. \A S : Misses(c, S) <=> Misses(a, S) /\ Misses(b, S) BY <1>3 DEF Misses
<1>5. ASSUME NEW S, Once(a, S), Once(b, S), Misses(a, S) \/ Misses(b, S)
      PROVE  Once(c, S)
  <2> SUFFICES ASSUME NEW i \in 1 .. Len(c), NEW j \in 1 .. Len(c),
                      c[i] \in S, c[j] \in S
               PROVE  i = j
    BY DEF Once
  <2>1. CASE i \in 1 .. Len(a) /\ j \in 1 .. Len(a)
    BY <1>1, <1>5, <2>1 DEF Once
  <2>2. CASE i \notin 1 .. Len(a) /\ j \notin 1 .. Len(a)
    <3>1. i - Len(a) = j - Len(a) BY <1>2, <1>5, <2>2 DEF Once
    <3> QED BY <1>1, <3>1
  <2>3. CASE i \in 1 .. Len(a) /\ j \notin 1 .. Len(a)
    BY <1>1, <1>2, <1>5, <2>3 DEF Misses, Elements
  <2>4. CASE i \notin 1 .. Len(a) /\ j \in 1 .. Len(a)
    BY <1>1, <1>2, <1>5, <2>4 DEF Misses, Elements
  <2> QED BY <2>1, <2>2, <2>3, <2>4
<1>6. ASSUME NEW A, NEW B, Ordered(a, A, B), Ordered(b, A, B),
             Misses(a, B) \/ Misses(b, A)
      PROVE  Ordered(c, A, B)
  <2> SUFFICES ASSUME NEW i \in 1 .. Len(c), NEW j \in 1 .. Len(c),
                      c[i] \in A, c[j] \in B
               PROVE  i < j
    BY DEF Ordered
  <2>1. CASE i \in 1 .. Len(a) /\ j \in 1 .. Len(a)
    BY <1>1, <1>6, <2>1 DEF Ordered
  <2>2. CASE i \notin 1 .. Len(a) /\ j \notin 1 .. Len(a)
    <3>1. i - Len(a) < j - Len(a) BY <1>2, <1>6, <2>2 DEF Ordered
    <3> QED BY <1>1, <3>1
  <2>3. CASE i \in 1 .. Len(a) /\ j \notin 1 .. Len(a)
    BY <1>1, <2>3
  <2>4. CASE i \notin 1 .. Len(a) /\ j \in 1 .. Len(a)
    BY <1>1, <1>2, <1>6, <2>4 DEF Misses, Elements
  <2> QED BY <2>1, <2>2, <2>3, <2>4
<1>7. c \in Seq(T) BY <1>1
<1> QED BY <1>3, <1>4, <1>5, <1>6, <1>7 DEF c
-----------------------------------------------------------------------------
(* What is queued after a handler ran *)

Chain == {h \in Handlers : h.kind \in {"resolved", "connected"}}
Reads == {h \in Handlers : h.kind \in {"read", "packet"}}
OfKind(kind) == {h \in Handlers : h.kind = kind}
Posts(types) == {h \in Handlers : h.kind = "enqueue" /\ h.arg.type \in types}

\* The settings stay, and with them the sets of handlers.
LEMMA SameSets ==
    ASSUME UNCHANGED setup
    PROVE  /\ Chain' = Chain /\ Reads' = Reads /\ Handlers' = Handlers
           /\ \A kind : OfKind(kind)' = OfKind(kind)
           /\ \A types : Posts(types)' = Posts(types)
BY SameTypes DEF Chain, Reads, OfKind, Posts

LEMMA OneElement ==
    ASSUME NEW h \in Handlers
    PROVE  /\ <<h>> \in Seq(Handlers) /\ Elements(<<h>>) = {h}
           /\ \A S : Once(<<h>>, S)
BY DEF Elements, Once

LEMMA NoElement ==
    /\ <<>> \in Seq(Handlers) /\ Elements(<<>>) = {}
    /\ \A S : Once(<<>>, S) /\ Misses(<<>>, S)
BY DEF Elements, Once, Misses

LEMMA AbortedQueue ==
    ASSUME Typed
    PROVE  /\ Aborted \in Seq(Handlers)
           /\ \A h \in Elements(Aborted) :
                 \/ h.kind = "written"
                 \/ h.kind = "read" /\ readOp
                 \/ h.kind = "connected" /\ connecting
           /\ Once(Aborted, Chain)
<1> DEFINE R == IF readOp THEN <<Handler("read", BrokenRead)>> ELSE <<>>
           W == [i \in 1 .. Len(ops) |-> Handler("written", FALSE)]
           C == IF connecting THEN <<Handler("connected", FALSE)>> ELSE <<>>
<1>1. /\ Handler("read", BrokenRead) \in Handlers
      /\ Handler("written", FALSE) \in Handlers
      /\ Handler("connected", FALSE) \in Handlers
      /\ Handler("read", BrokenRead).kind = "read"
      /\ Handler("written", FALSE).kind = "written"
      /\ Handler("connected", FALSE).kind = "connected"
  BY DEF Handler, Handlers
<1>2. /\ R \in Seq(Handlers) /\ \A h \in Elements(R) : h.kind = "read" /\ readOp
      /\ Misses(R, Chain) /\ Once(R, Chain)
  <2>1. CASE readOp
    <3>1. R = <<Handler("read", BrokenRead)>> BY <2>1
    <3>2. R \in Seq(Handlers) /\ Elements(R) = {Handler("read", BrokenRead)}
          /\ Once(R, Chain)
      BY <1>1, <3>1, OneElement
    <3> QED BY <1>1, <2>1, <3>2 DEF Misses, Chain
  <2>2. CASE ~readOp BY <2>2, NoElement
  <2> QED BY <2>1, <2>2
<1>3. /\ W \in Seq(Handlers) /\ \A h \in Elements(W) : h.kind = "written"
      /\ Misses(W, Chain) /\ Once(W, Chain)
  <2>1. Len(ops) \in Nat BY LenProperties DEF Typed
  <2> DEFINE w == Handler("written", FALSE)
  <2>2. w \in Handlers /\ w.kind = "written" BY <1>1
  <2> HIDE DEF w
  <2>3. [i \in 1 .. Len(ops) |-> w] \in Seq(Handlers) BY <2>1, <2>2
  <2>4. Elements([i \in 1 .. Len(ops) |-> w]) \subseteq {w}
    BY <2>1 DEF Elements
  <2>5. Misses([i \in 1 .. Len(ops) |-> w], Chain)
    BY <2>2, <2>4 DEF Misses, Chain
  <2>6. Once([i \in 1 .. Len(ops) |-> w], Chain)
    BY <2>5 DEF Misses, Once, Elements
  <2> QED BY <2>2, <2>3, <2>4, <2>5, <2>6 DEF w
<1>4. /\ C \in Seq(Handlers)
      /\ \A h \in Elements(C) : h.kind = "connected" /\ connecting
      /\ Once(C, Chain)
  <2>1. CASE connecting
    <3>1. C = <<Handler("connected", FALSE)>> BY <2>1
    <3>2. C \in Seq(Handlers) /\ Elements(C) = {Handler("connected", FALSE)}
          /\ Once(C, Chain)
      BY <1>1, <3>1, OneElement
    <3> QED BY <1>1, <2>1, <3>2
  <2>2. CASE ~connecting BY <2>2, NoElement
  <2> QED BY <2>1, <2>2
<1>5. Aborted = R \o W \o C BY DEF Aborted
<1> HIDE DEF R, W, C
<1> DEFINE RW == R \o W
<1>6. /\ RW \in Seq(Handlers) /\ Elements(RW) = Elements(R) \cup Elements(W)
      /\ Misses(RW, Chain) /\ Once(RW, Chain)
  BY <1>2, <1>3, ConcatOrder
<1>7. Aborted = RW \o C BY <1>5
<1> HIDE DEF RW
<1>8. /\ RW \o C \in Seq(Handlers)
      /\ Elements(RW \o C) = Elements(RW) \cup Elements(C)
      /\ Once(RW \o C, Chain)
  BY <1>4, <1>6, ConcatOrder
<1> QED BY <1>2, <1>3, <1>4, <1>6, <1>7, <1>8

LEMMA Regrouped ==
    ASSUME NEW a \in Seq(Handlers), NEW b \in Seq(Handlers),
           NEW c \in Seq(Handlers)
    PROVE  (a \o b) \o c = a \o (b \o c)
<1> DEFINE l == (a \o b) \o c
           r == a \o (b \o c)
<1>1. /\ a \o b \in Seq(Handlers) /\ b \o c \in Seq(Handlers)
  BY ConcatProperties
<1>2. l \in Seq(Handlers) /\ r \in Seq(Handlers) /\ Len(l) = Len(r)
  BY <1>1, ConcatProperties, LenProperties
<1>3. \A i \in 1 .. Len(l) : l[i] = r[i]
  BY <1>1, ConcatProperties, LenProperties
<1> QED BY <1>2, <1>3, SeqEqual

\* A handler that posts at most one thing puts it behind what was queued, with
\* the completions of what it aborted, and a read or a fail_pending_writes() of
\* its own.
LEMMA DoQueue ==
    ASSUME Typed, NEW e, e.posts \in Seq(Handlers), Short(e.posts),
           Misses(e.posts, Chain), NEW rest \in Seq(Handlers), Do(e, rest)
    PROVE  \E more \in Seq(Handlers) :
              /\ loop' = rest \o more
              /\ Elements(e.posts) \subseteq Elements(more)
              /\ Once(more, Chain)
              /\ \A h \in Elements(more) :
                    \/ h \in Elements(e.posts)
                    \/ h.kind = "written"
                    \/ h.kind = "read" /\ (readOp \/ e.read)
                    \/ /\ h.kind = "connected" /\ connecting
                       /\ conn.open /\ ~e.conn.open
                    \/ h.kind = "failPending" /\ e.flush /\ PostsFailure(e.conn)
<1> DEFINE A == IF conn.open /\ ~e.conn.open THEN Aborted ELSE <<>>
           P == e.posts
           B == IF (e.read /\ ~readBusy) /\ ~e.conn.open
                THEN <<Handler("read", BrokenRead)>> ELSE <<>>
           C == IF e.flush /\ PostsFailure(e.conn)
                THEN <<Handler("failPending", 0)>> ELSE <<>>
<1>1. loop' = rest \o A \o P \o B \o C BY DEF Do
<1>2. /\ Handler("read", BrokenRead) \in Handlers
      /\ Handler("failPending", 0) \in Handlers
      /\ Handler("read", BrokenRead).kind = "read"
      /\ Handler("failPending", 0).kind = "failPending"
  BY DEF Handler, Handlers
<1>3. /\ A \in Seq(Handlers) /\ Once(A, Chain)
      /\ \A h \in Elements(A) :
            \/ h.kind = "written"
            \/ h.kind = "read" /\ readOp
            \/ h.kind = "connected" /\ connecting /\ conn.open /\ ~e.conn.open
  BY AbortedQueue, NoElement
<1>4. P \in Seq(Handlers) /\ Misses(P, Chain) /\ Once(P, Chain)
  BY DEF Misses, Once, Elements
<1>5. /\ B \in Seq(Handlers) /\ Misses(B, Chain) /\ Once(B, Chain)
      /\ \A h \in Elements(B) : h.kind = "read" /\ e.read
  <2>1. CASE B = <<>> BY <2>1, NoElement
  <2>2. CASE B = <<Handler("read", BrokenRead)>> /\ e.read
    <3>1. B \in Seq(Handlers) /\ Elements(B) = {Handler("read", BrokenRead)}
          /\ Once(B, Chain)
      BY <1>2, <2>2, OneElement
    <3> QED BY <1>2, <2>2, <3>1 DEF Misses, Chain
  <2> QED BY <2>1, <2>2
<1>6. /\ C \in Seq(Handlers) /\ Misses(C, Chain) /\ Once(C, Chain)
      /\ \A h \in Elements(C) :
            h.kind = "failPending" /\ e.flush /\ PostsFailure(e.conn)
  <2>1. CASE C = <<>> BY <2>1, NoElement
  <2>2. CASE C = <<Handler("failPending", 0)>> /\ e.flush /\ PostsFailure(e.conn)
    <3>1. C \in Seq(Handlers) /\ Elements(C) = {Handler("failPending", 0)}
          /\ Once(C, Chain)
      BY <1>2, <2>2, OneElement
    <3> QED BY <1>2, <2>2, <3>1 DEF Misses, Chain
  <2> QED BY <2>1, <2>2
<1> HIDE DEF A, P, B, C
<1> DEFINE AP == A \o P
           APB == AP \o B
           more == APB \o C
<1>7. /\ AP \in Seq(Handlers) /\ Elements(AP) = Elements(A) \cup Elements(P)
      /\ Once(AP, Chain)
  BY <1>3, <1>4, ConcatOrder
<1> HIDE DEF AP
<1>8. /\ APB \in Seq(Handlers) /\ Elements(APB) = Elements(AP) \cup Elements(B)
      /\ Once(APB, Chain)
  BY <1>5, <1>7, ConcatOrder
<1> HIDE DEF APB
<1>9. /\ more \in Seq(Handlers) /\ Elements(more) = Elements(APB) \cup Elements(C)
      /\ Once(more, Chain)
  BY <1>6, <1>8, ConcatOrder
<1>10. loop' = rest \o more
  <2>1. rest \o A \in Seq(Handlers) BY <1>3, ConcatProperties
  <2>2. (rest \o A) \o P = rest \o AP BY <1>3, <1>4, Regrouped DEF AP
  <2>3. (rest \o AP) \o B = rest \o APB
    BY <1>5, <1>7, Regrouped DEF APB
  <2>4. (rest \o APB) \o C = rest \o more
    BY <1>6, <1>8, Regrouped DEF more
  <2> QED BY <1>1, <2>2, <2>3, <2>4
<1> HIDE DEF more
<1>11. P = e.posts BY DEF P
<1> QED BY <1>3, <1>5, <1>6, <1>7, <1>8, <1>9, <1>10, <1>11
-----------------------------------------------------------------------------
(* The invariant of the first attempt *)

Flow == {"PUBLISH", "PUBREL"}
None(frames, types) == \A f \in frames : f.type \notin types

\* on_connect heard of a session; the connect chain is under way; the read loop
\* was started.
Granted == "connected" \in Elements(reported)
Dialing == resolving # 0 \/ connecting \/ ~Misses(loop, Chain)
Fresh == attempts = 0 \/ Dialing
CanRead == readBusy \/ readOp \/ ~Misses(loop, Reads)

\* One step of the connect chain at a time.
OneChain ==
    /\ resolving \in {0, 1}
    /\ resolving # 0 => ~connecting /\ Misses(loop, Chain)
    /\ connecting => Misses(loop, Chain)
    /\ Once(loop, Chain)

\* Before its end nothing was read or written.
Virgin ==
    /\ attempts = 0 => ~Dialing
    /\ Fresh => /\ ~readBusy /\ ~readOp /\ Misses(loop, Reads)
                /\ ~Granted
                /\ Misses(loop, Posts({"CONNECT"}))
                /\ None(Held(conn), {"CONNECT"})
                /\ conn.state \in {"disconnected", "connecting"}
                /\ ops = <<>>

\* Before the CONNACK nothing is published, and it comes once.
Unpublished ==
    ~Granted => /\ ses.pub = {} /\ ses.rec = {}
                /\ Misses(loop, Posts(Flow))
                /\ None(Held(conn), Flow) /\ None(Elements(ops), Flow)
                /\ conn.state # "connected"
GrantedOnce == Granted => conn.state \in {"connected", "disconnected"}

\* A closed connection holds nothing, a closed socket writes nothing.
Shut ==
    /\ conn.closed => Held(conn) = {}
    /\ ~conn.open => ops = <<>>

\* A socket opened for a session that was closed meanwhile comes to nothing.
Over ==
    conn.open /\ (ses.closed \/ conn.closed) =>
        /\ ~CanRead /\ None(Held(conn), {"CONNECT"})
        /\ conn.state # "connected"
        /\ conn.closed \/ Misses(loop, Posts({"CONNECT"}))

\* From the CONNECT on the connection can write ...
Shaking ==
    /\ conn.open
    /\ \/ CanRead \/ ~None(Held(conn), {"CONNECT"})
       \/ ~Misses(loop, Posts({"CONNECT"}))
    => conn.state \in {"handshaking", "connected"}

\* ... and what was to fail the writes of before was handled before it.
FailFirst ==
    /\ conn.open /\ (CanRead \/ ~None(Held(conn), {"CONNECT"}))
       => Misses(loop, OfKind("failPending"))
    /\ conn.open => Ordered(loop, OfKind("failPending"), Posts({"CONNECT"}))

\* The keep-alive of s is not lost: its timer runs or ran out, or a PINGREQ is
\* on its way through the handlers hs and the connection c.
Pinged(s, c, hs) ==
    \/ s.ping # "off"
    \/ \E h \in hs : h.kind \in {"pingDue", "pongDue"}
    \/ \E h \in hs : h.kind = "enqueue" /\ h.arg = Plain("PINGREQ")
    \/ ~None(Queued(c), {"PINGREQ"})
    \/ c.writing /\ c.inFlight # NoItem /\ c.inFlight.type = "PINGREQ"
Watched ==
    KeepAlive /\ ~quit /\ conn.open /\ CanRead =>
        Pinged(ses, conn, Elements(loop))

Outcomes == {"connected", "failed", "closed"}
FirstInv ==
    /\ reported \in Seq(Outcomes)
    /\ OneChain /\ Virgin /\ Unpublished /\ GrantedOnce
    /\ Shut /\ Over /\ Shaking /\ FailFirst /\ Watched

CFirst == attempts \in Nat /\ (attempts <= 1 => FirstInv)

-----------------------------------------------------------------------------
(* Handlers that leave the session as it is, bring it one frame further or *)
(* end it: all but those of the connect chain and the granted CONNACK       *)

Modest(e) ==
    /\ e.conn \in Conns
    /\ Short(e.posts) /\ e.posts \in Seq(Handlers)
    /\ \A h \in Elements(e.posts) :
          /\ h.kind \in {"enqueue", "aborted"}
          /\ h.kind = "enqueue" => h.arg.type # "CONNECT"
          /\ h.kind = "enqueue" /\ h.arg.type \in Flow => Granted
    /\ e.event \in {"none", "failed", "closed"}
    /\ e.read \in BOOLEAN
    /\ e.read => CanRead \/ ~None(Held(conn), {"CONNECT"})
    /\ ~Granted => e.ses.pub = {} /\ e.ses.rec = {}
    /\ e.conn.state \in {conn.state, "disconnected"}
    /\ e.conn.open => /\ conn.open /\ e.conn.state = conn.state
                      /\ e.conn.closed = conn.closed
                      /\ e.ses.closed => ses.closed \/ conn.closed
    /\ e.conn.closed => Held(e.conn) = {}
    /\ \A f \in Held(e.conn) :
          f \in Held(conn) \/ (~conn.closed /\ Running("enqueue") /\ f = Arg)

Minds(e, rest) ==
    /\ KeepAlive /\ ~quit /\ e.conn.open /\ (CanRead \/ e.read)
    => Pinged(e.ses, e.conn, Elements(rest) \cup Elements(e.posts))

LEMMA NoItemIsNone == NoItem \notin Frames
<1>1. Frames \subseteq [type : FrameTypes, pid : Nat, call : Nat]
  BY MaxIdAssumption DEF Frames
<1> QED BY <1>1, NoItemAssumption

LEMMA DoWriteFacts ==
    ASSUME NEW c \in Conns
    PROVE  /\ Held(DoWrite(c)) \subseteq Held(c)
           /\ Queued(DoWrite(c)) \subseteq Queued(c)
           /\ DoWrite(c).state = c.state /\ DoWrite(c).open = c.open
           /\ DoWrite(c).closed = c.closed
           /\ StartsWrite(c) => /\ Head(c.queue) \in Held(c)
                                /\ c.state \in {"handshaking", "connected"}
                                /\ c.open
           /\ \A s, hs : Pinged(s, c, hs) => Pinged(s, DoWrite(c), hs)
<1> DEFINE d == DoWrite(c)
<1>1. CASE ~StartsWrite(c)
  BY <1>1 DEF DoWrite
<1>2. CASE StartsWrite(c)
  <2> DEFINE q == c.queue
  <2>1. q \in Seq(Frames) /\ q # <<>> /\ ~c.writing
    BY <1>2 DEF StartsWrite, Conns, Connections
  <2>2. /\ d.state = c.state /\ d.open = c.open /\ d.closed = c.closed
        /\ d.writing = TRUE /\ d.inFlight = Head(q) /\ d.queue = Tail(q)
    BY <1>2 DEF DoWrite, Conns, Connections
  <2>3. /\ Elements(q) = {Head(q)} \cup Elements(Tail(q)) /\ Head(q) \in Frames
    BY <2>1, TailOrder
  <2>4. Queued(c) = Elements(q) /\ Queued(d) = Elements(Tail(q))
    BY <2>2 DEF Queued, Elements
  <2>5. c.state \in {"handshaking", "connected"} /\ c.open
    BY <1>2 DEF StartsWrite, Sendable
  <2> HIDE DEF d, q
  <2>6. Held(d) \subseteq Held(c) /\ Queued(d) \subseteq Queued(c)
        /\ Head(q) \in Held(c)
    BY <2>2, <2>3, <2>4 DEF Held
  <2>7. \A s, hs : Pinged(s, c, hs) => Pinged(s, d, hs)
    <3> SUFFICES ASSUME ~None(Queued(c), {"PINGREQ"}), None(Queued(d), {"PINGREQ"})
                 PROVE  d.inFlight # NoItem /\ d.inFlight.type = "PINGREQ"
      BY <2>1, <2>2 DEF Pinged
    <3>1. Head(q).type = "PINGREQ" BY <2>3, <2>4 DEF None
    <3> QED BY <2>2, <2>3, <3>1, NoItemIsNone
  <2> QED BY <2>2, <2>5, <2>6, <2>7 DEF d, q
<1> QED BY <1>1, <1>2

\* Such a handler ran: it was taken from the loop, or it ran between two others.
Ran(e, rest) ==
    /\ Modest(e)
    /\ Do(e, rest)
    /\ rest = loop \/ (loop # <<>> /\ rest = Tail(loop))
    /\ UNCHANGED <<setup, resolving, attempts>>

LEMMA RestFacts ==
    ASSUME Typed, NEW rest, rest = loop \/ (loop # <<>> /\ rest = Tail(loop))
    PROVE  /\ rest \in Seq(Handlers) /\ Elements(rest) \subseteq Elements(loop)
           /\ \A S : Misses(loop, S) => Misses(rest, S)
           /\ \A S : Once(loop, S) => Once(rest, S)
           /\ \A A, B : Ordered(loop, A, B) => Ordered(rest, A, B)
<1>1. loop \in Seq(Handlers) BY DEF Typed
<1>2. CASE rest = loop BY <1>1, <1>2
<1>3. CASE loop # <<>> /\ rest = Tail(loop)
  <2>1. /\ rest \in Seq(Handlers)
        /\ Elements(loop) = {Head(loop)} \cup Elements(rest)
        /\ \A S : Misses(loop, S) => Misses(rest, S)
        /\ \A S : Once(loop, S) => Once(rest, S)
        /\ \A A, B : Ordered(loop, A, B) => Ordered(rest, A, B)
    BY <1>1, <1>3, TailOrder
  <2> QED BY <2>1
<1> QED BY <1>2, <1>3

LEMMA RanQueue ==
    ASSUME Typed, OneChain, NEW e, NEW rest, Ran(e, rest)
    PROVE  /\ loop' \in Seq(Handlers)
           /\ Elements(rest) \cup Elements(e.posts) \subseteq Elements(loop')
           /\ \A h \in Elements(loop') :
                 \/ h \in Elements(loop)
                 \/ h \in Elements(e.posts)
                 \/ h.kind = "written"
                 \/ h.kind = "read" /\ (readOp \/ e.read)
                 \/ h.kind = "connected" /\ connecting
                    /\ conn.open /\ ~e.conn.open
                 \/ h.kind = "failPending" /\ e.flush /\ PostsFailure(e.conn)
           /\ Once(loop', Chain)
           /\ /\ Ordered(loop, OfKind("failPending"), Posts({"CONNECT"}))
              /\ \/ Misses(loop, Posts({"CONNECT"}))
                 \/ ~(e.flush /\ PostsFailure(e.conn))
              => Ordered(loop', OfKind("failPending"), Posts({"CONNECT"}))
<1> DEFINE A == OfKind("failPending")
           B == Posts({"CONNECT"})
<1>1. /\ e.posts \in Seq(Handlers) /\ Short(e.posts) /\ Modest(e) /\ Do(e, rest)
      /\ \A h \in Elements(e.posts) :
            /\ h.kind \in {"enqueue", "aborted"}
            /\ h.kind = "enqueue" => h.arg.type # "CONNECT"
  BY DEF Ran, Modest
<1>2. Misses(e.posts, Chain) /\ Misses(e.posts, A) /\ Misses(e.posts, B)
  BY <1>1 DEF Misses, Chain, OfKind, Posts
<1>3. /\ rest \in Seq(Handlers) /\ Elements(rest) \subseteq Elements(loop)
      /\ \A S : Misses(loop, S) => Misses(rest, S)
      /\ Once(loop, Chain) => Once(rest, Chain)
      /\ Ordered(loop, A, B) => Ordered(rest, A, B)
  BY RestFacts DEF Ran
<1>4. PICK more \in Seq(Handlers) :
         /\ loop' = rest \o more
         /\ Elements(e.posts) \subseteq Elements(more)
         /\ Once(more, Chain)
         /\ \A h \in Elements(more) :
               \/ h \in Elements(e.posts)
               \/ h.kind = "written"
               \/ h.kind = "read" /\ (readOp \/ e.read)
               \/ /\ h.kind = "connected" /\ connecting
                  /\ conn.open /\ ~e.conn.open
               \/ h.kind = "failPending" /\ e.flush /\ PostsFailure(e.conn)
  BY <1>1, <1>2, <1>3, DoQueue
<1>5. /\ loop' \in Seq(Handlers)
      /\ Elements(loop') = Elements(rest) \cup Elements(more)
      /\ /\ Once(rest, Chain)
         /\ Misses(rest, Chain) \/ Misses(more, Chain)
         => Once(loop', Chain)
      /\ /\ Ordered(rest, A, B) /\ Ordered(more, A, B)
         /\ Misses(rest, B) \/ Misses(more, A)
         => Ordered(loop', A, B)
  BY <1>3, <1>4, ConcatOrder
<1> HIDE DEF A, B
<1>6. Once(loop', Chain)
  <2>1. CASE connecting
    <3>1. Misses(rest, Chain) /\ Once(rest, Chain)
      BY <1>3, <2>1 DEF OneChain
    <3> QED BY <1>5, <3>1
  <2>2. CASE ~connecting
    <3>1. Misses(more, Chain) BY <1>2, <1>4, <2>2 DEF Misses, Chain
    <3> QED BY <1>3, <1>5, <3>1 DEF OneChain
  <2> QED BY <2>1, <2>2
<1>7. ASSUME Ordered(loop, A, B),
             Misses(loop, B) \/ ~(e.flush /\ PostsFailure(e.conn))
      PROVE  Ordered(loop', A, B)
  <2>1. Misses(more, B) BY <1>2, <1>4 DEF Misses, B, Posts
  <2>2. Ordered(more, A, B) BY <2>1 DEF Ordered, Misses, Elements
  <2>3. ~(e.flush /\ PostsFailure(e.conn)) => Misses(more, A)
    BY <1>2, <1>4 DEF Misses, A, OfKind
  <2> QED BY <1>3, <1>5, <1>7, <2>2, <2>3
<1> QED BY <1>3, <1>4, <1>5, <1>6, <1>7 DEF A, B

\* ... in the connection and on the socket,
LEMMA RanConn ==
    ASSUME Typed, NEW e, NEW rest, Ran(e, rest)
    PROVE  /\ Held(conn') \subseteq Held(e.conn)
           /\ conn'.state = e.conn.state /\ conn'.open = e.conn.open
           /\ conn'.closed = e.conn.closed
           /\ ses' = e.ses
           /\ \A s, hs : Pinged(s, e.conn, hs) => Pinged(s, conn', hs)
           /\ e.conn.open \/ ~conn.open =>
                 \/ ops' = ops
                 \/ /\ \A f \in Elements(ops') :
                          f \in Elements(ops) \/ f \in Held(e.conn)
                    /\ e.conn.state \in {"handshaking", "connected"}
                    /\ e.conn.open /\ Held(e.conn) # {}
           /\ conn.open /\ ~e.conn.open => ops' = <<>>
<1>1. e.conn \in Conns /\ Do(e, rest) BY DEF Ran, Modest
<1> DEFINE c == e.conn
<1>2. c \in Conns BY <1>1
<1>3. /\ ses' = e.ses
      /\ conn' = IF e.flush THEN DoWrite(c) ELSE c
      /\ ops' = IF conn.open /\ ~c.open THEN <<>>
                ELSE IF e.flush /\ StartsWrite(c)
                THEN Append(ops, Head(c.queue)) ELSE ops
  BY <1>1 DEF Do
<1> HIDE DEF c
<1>4. /\ Held(DoWrite(c)) \subseteq Held(c)
      /\ DoWrite(c).state = c.state /\ DoWrite(c).open = c.open
      /\ DoWrite(c).closed = c.closed
      /\ StartsWrite(c) => /\ Head(c.queue) \in Held(c)
                           /\ c.state \in {"handshaking", "connected"}
                           /\ c.open
      /\ \A s, hs : Pinged(s, c, hs) => Pinged(s, DoWrite(c), hs)
  BY <1>2, DoWriteFacts
<1>5. /\ Held(conn') \subseteq Held(c)
      /\ conn'.state = c.state /\ conn'.open = c.open /\ conn'.closed = c.closed
      /\ \A s, hs : Pinged(s, c, hs) => Pinged(s, conn', hs)
  BY <1>3, <1>4
<1>6. ASSUME c.open \/ ~conn.open, StartsWrite(c)
      PROVE  Elements(Append(ops, Head(c.queue)))
                = Elements(ops) \cup {Head(c.queue)}
  <2>1. ops \in Seq(Frames) /\ Head(c.queue) \in Frames
    BY <1>2, <1>6, ConnTypes DEF Typed
  <2> QED BY <2>1, AppendOrder
<1>7. ASSUME c.open \/ ~conn.open
      PROVE  \/ ops' = ops
             \/ /\ \A f \in Elements(ops') :
                      f \in Elements(ops) \/ f \in Held(c)
                /\ c.state \in {"handshaking", "connected"}
                /\ c.open /\ Held(c) # {}
  BY <1>3, <1>4, <1>6, <1>7
<1> QED BY <1>3, <1>5, <1>7 DEF c

\* ... and in what was reported.
LEMMA RanReported ==
    ASSUME reported \in Seq(Outcomes), NEW e, NEW rest, Ran(e, rest)
    PROVE  /\ reported' \in Seq(Outcomes)
           /\ Granted' <=> Granted
<1>1. /\ e.event \in {"none", "failed", "closed"}
      /\ reported' = IF e.event = "none" THEN reported
                                         ELSE Append(reported, e.event)
      /\ reported \in Seq(Outcomes)
  BY DEF Ran, Modest, Do, Record
<1>2. CASE e.event = "none" BY <1>1, <1>2 DEF Granted
<1>3. CASE e.event # "none"
  <2>1. e.event \in Outcomes /\ e.event # "connected" BY <1>1, <1>3 DEF Outcomes
  <2>2. /\ Append(reported, e.event) \in Seq(Outcomes)
        /\ Elements(Append(reported, e.event))
              = Elements(reported) \cup {e.event}
    BY <1>1, <2>1, AppendOrder
  <2> QED BY <1>1, <1>3, <2>1, <2>2 DEF Granted
<1> QED BY <1>2, <1>3

\* What they were and what they are: the sets do not change with the settings.
LEMMA RanKeeps ==
    ASSUME CInv, FirstInv, NEW e, NEW rest, Ran(e, rest),
           quit' = TRUE \/ (quit' = quit /\ Minds(e, rest))
    PROVE  FirstInv'
<1>1. Typed /\ OneChain /\ Virgin /\ Unpublished /\ GrantedOnce /\ Shut /\ Over
      /\ Shaking /\ FailFirst /\ Watched /\ reported \in Seq(Outcomes)
  BY DEF CInv, FirstInv
<1>2. /\ Modest(e) /\ Do(e, rest)
      /\ UNCHANGED <<setup, resolving, attempts>>
  BY DEF Ran
<1>3. /\ Chain' = Chain /\ Reads' = Reads
      /\ \A kind : OfKind(kind)' = OfKind(kind)
      /\ \A types : Posts(types)' = Posts(types)
      /\ KeepAlive' = KeepAlive
  BY <1>2, SameSets DEF KeepAlive
<1>4. /\ rest \in Seq(Handlers) /\ Elements(rest) \subseteq Elements(loop)
      /\ \A S : Misses(loop, S) => Misses(rest, S)
  BY <1>1, RestFacts DEF Ran
<1>5. /\ loop' \in Seq(Handlers)
      /\ Elements(rest) \cup Elements(e.posts) \subseteq Elements(loop')
      /\ \A h \in Elements(loop') :
            \/ h \in Elements(loop)
            \/ h \in Elements(e.posts)
            \/ h.kind = "written"
            \/ h.kind = "read" /\ (readOp \/ e.read)
            \/ h.kind = "connected" /\ connecting
               /\ conn.open /\ ~e.conn.open
            \/ h.kind = "failPending" /\ e.flush /\ PostsFailure(e.conn)
      /\ Once(loop', Chain)
      /\ /\ Ordered(loop, OfKind("failPending"), Posts({"CONNECT"}))
         /\ \/ Misses(loop, Posts({"CONNECT"}))
            \/ ~(e.flush /\ PostsFailure(e.conn))
         => Ordered(loop', OfKind("failPending"), Posts({"CONNECT"}))
  BY <1>1, RanQueue
<1>6. /\ Held(conn') \subseteq Held(e.conn)
      /\ conn'.state = e.conn.state /\ conn'.open = e.conn.open
      /\ conn'.closed = e.conn.closed
      /\ ses' = e.ses
      /\ \A s, hs : Pinged(s, e.conn, hs) => Pinged(s, conn', hs)
      /\ e.conn.open \/ ~conn.open =>
            \/ ops' = ops
            \/ /\ \A f \in Elements(ops') :
                     f \in Elements(ops) \/ f \in Held(e.conn)
               /\ e.conn.state \in {"handshaking", "connected"}
               /\ e.conn.open /\ Held(e.conn) # {}
      /\ conn.open /\ ~e.conn.open => ops' = <<>>
  BY <1>1, RanConn
<1>7. reported' \in Seq(Outcomes) /\ (Granted' <=> Granted)
  BY <1>1, RanReported
<1>8. /\ connecting' = (connecting /\ ~(conn.open /\ ~e.conn.open))
      /\ readBusy' = (readBusy \/ e.read)
      /\ (readOp' => readOp \/ e.read)
      /\ conn.open \in BOOLEAN /\ connecting \in BOOLEAN
      /\ e.read \in BOOLEAN
  <2>1. connecting \in BOOLEAN /\ readOp \in BOOLEAN /\ conn.open \in BOOLEAN
    BY <1>1 DEF Typed, Conns, Connections
  <2>2. e.read \in BOOLEAN /\ e.conn.open \in BOOLEAN
    BY <1>2 DEF Modest, Conns, Connections
  <2>3. /\ connecting' = (connecting /\ ~(conn.open /\ ~e.conn.open))
        /\ readBusy' = (readBusy \/ e.read)
        /\ readOp' = IF e.read /\ ~readBusy THEN e.conn.open
                     ELSE readOp /\ ~(conn.open /\ ~e.conn.open)
    BY <1>2 DEF Do
  <2> QED BY <2>1, <2>2, <2>3
<1>9. /\ \A h \in Elements(e.posts) :
            /\ h.kind \in {"enqueue", "aborted"}
            /\ h.kind = "enqueue" => h.arg.type # "CONNECT"
            /\ h.kind = "enqueue" /\ h.arg.type \in Flow => Granted
      /\ e.read => CanRead \/ ~None(Held(conn), {"CONNECT"})
      /\ ~Granted => e.ses.pub = {} /\ e.ses.rec = {}
      /\ e.conn.state \in {conn.state, "disconnected"}
      /\ e.conn.open => /\ conn.open /\ e.conn.state = conn.state
                        /\ e.conn.closed = conn.closed
                        /\ e.ses.closed => ses.closed \/ conn.closed
      /\ e.conn.closed => Held(e.conn) = {}
      /\ \A f \in Held(e.conn) :
            f \in Held(conn) \/ (~conn.closed /\ Running("enqueue") /\ f = Arg)
  BY <1>2 DEF Modest
\* A frame it queued was posted.
<1>10. Running("enqueue") =>
          \A types : Misses(loop, Posts(types)) => Arg.type \notin types
  <2> SUFFICES ASSUME Running("enqueue"), NEW types, Misses(loop, Posts(types))
               PROVE  Arg.type \notin types
    OBVIOUS
  <2>1. /\ loop # <<>> /\ Head(loop) \in Handlers
        /\ Head(loop).kind = "enqueue"
    BY <1>1, HeadTyped
  <2>2. Head(loop) \in Elements(loop) BY <1>1, <2>1, TailOrder DEF Typed
  <2> QED BY <2>1, <2>2 DEF Misses, Posts, Arg
<1>11. \A types : Misses(loop, Posts(types)) /\ None(Held(conn), types)
                     => None(Held(e.conn), types) /\ None(Held(conn'), types)
  BY <1>6, <1>9, <1>10 DEF None
<1>12. \A S : Misses(loop', S) <=> \A h \in Elements(loop') : h \notin S
  BY DEF Misses
<1>13. /\ \A h \in Elements(loop') \cap Chain :
             h \in Elements(loop) \/ (h.kind = "connected" /\ connecting
                                      /\ conn.open /\ ~e.conn.open)
       /\ \A h \in Elements(loop') \cap Reads :
             h \in Elements(loop) \/ (h.kind = "read" /\ (readOp \/ e.read))
       /\ \A h \in Elements(loop') \cap Posts({"CONNECT"}) : h \in Elements(loop)
       /\ \A h \in Elements(loop') \cap Posts(Flow) :
             h \in Elements(loop) \/ Granted
       /\ \A h \in Elements(loop') \cap OfKind("failPending") :
             h \in Elements(loop) \/ (e.flush /\ PostsFailure(e.conn))
  BY <1>5, <1>9 DEF Chain, Reads, Posts, OfKind
\* Who reads now did so before, or starts to.
<1>14. CanRead' => CanRead \/ e.read
  <2>1. CASE Misses(loop, Reads) /\ ~readOp /\ ~e.read
    <3>1. Misses(loop', Reads) BY <1>13, <2>1 DEF Misses
    <3> QED BY <1>3, <1>8, <2>1, <3>1 DEF CanRead
  <2> QED BY <2>1 DEF CanRead
<1>15. OneChain'
  BY <1>1, <1>2, <1>3, <1>5, <1>8, <1>13 DEF OneChain, Misses
<1>16. (Dialing' => Dialing) /\ (Fresh' => Fresh)
  BY <1>2, <1>3, <1>8, <1>13 DEF Dialing, Fresh, Misses
<1>17. Fresh => ~e.read /\ ~CanRead
  BY <1>1, <1>9 DEF Virgin, CanRead
<1>18. Virgin'
  <2>1. ASSUME Fresh'
        PROVE  /\ ~readBusy' /\ ~readOp' /\ Misses(loop', Reads)
               /\ ~Granted'
               /\ Misses(loop', Posts({"CONNECT"}))
               /\ None(Held(conn'), {"CONNECT"})
               /\ conn'.state \in {"disconnected", "connecting"}
               /\ ops' = <<>>
    <3>1. /\ Fresh /\ ~e.read /\ ~readBusy /\ ~readOp /\ Misses(loop, Reads)
          /\ ~Granted /\ Misses(loop, Posts({"CONNECT"}))
          /\ None(Held(conn), {"CONNECT"}) /\ ops = <<>>
          /\ conn.state \in {"disconnected", "connecting"}
      BY <1>1, <1>16, <1>17, <2>1 DEF Virgin
    <3>2. ~readBusy' /\ ~readOp' /\ Misses(loop', Reads)
      BY <1>8, <1>13, <3>1 DEF Misses
    <3>3. Misses(loop', Posts({"CONNECT"})) BY <1>13, <3>1 DEF Misses
    <3>4. None(Held(conn'), {"CONNECT"}) BY <1>11, <3>1
    <3>5. conn'.state \in {"disconnected", "connecting"}
      BY <1>6, <1>9, <3>1
    <3>6. ops' = <<>> BY <1>6, <1>8, <1>9, <3>1
    <3> QED BY <1>7, <3>1, <3>2, <3>3, <3>4, <3>5, <3>6
  <2>2. attempts' = 0 => ~Dialing' BY <1>1, <1>2, <1>16 DEF Virgin
  <2> QED BY <1>3, <2>1, <2>2 DEF Virgin
<1>19. Unpublished'
  <2>1. ASSUME ~Granted'
        PROVE  /\ ses'.pub = {} /\ ses'.rec = {}
               /\ Misses(loop', Posts(Flow))
               /\ None(Held(conn'), Flow) /\ None(Elements(ops'), Flow)
               /\ conn'.state # "connected"
    <3>1. /\ ~Granted /\ Misses(loop, Posts(Flow)) /\ None(Held(conn), Flow)
          /\ None(Elements(ops), Flow) /\ conn.state # "connected"
      BY <1>1, <1>7, <2>1 DEF Unpublished
    <3>2. Misses(loop', Posts(Flow)) BY <1>13, <3>1 DEF Misses
    <3>3. None(Held(conn'), Flow) /\ None(Held(e.conn), Flow) BY <1>11, <3>1
    <3>4. None(Elements(ops'), Flow)
      <4>1. None(Elements(<<>>), Flow) BY DEF None, Elements
      <4> QED BY <1>6, <1>8, <3>1, <3>3, <4>1 DEF None
    <3> QED BY <1>6, <1>9, <3>1, <3>2, <3>3, <3>4
  <2> QED BY <1>3, <2>1 DEF Unpublished, Flow
<1>20. GrantedOnce' BY <1>1, <1>6, <1>7, <1>9 DEF GrantedOnce
<1>21. Shut'
  <2>1. conn'.closed => Held(conn') = {} BY <1>6, <1>9
  <2>2. ~conn'.open => ops' = <<>> BY <1>1, <1>6, <1>8, <1>9 DEF Shut
  <2> QED BY <2>1, <2>2 DEF Shut
<1>22. Over'
  <2>1. ASSUME conn'.open, ses'.closed \/ conn'.closed
        PROVE  /\ ~CanRead' /\ None(Held(conn'), {"CONNECT"})
               /\ conn'.state # "connected"
               /\ conn'.closed \/ Misses(loop', Posts({"CONNECT"}))
    <3>1. /\ conn.open /\ (ses.closed \/ conn.closed)
          /\ e.conn.state = conn.state /\ e.conn.closed = conn.closed
      BY <1>6, <1>9, <2>1
    <3>2. /\ ~CanRead /\ None(Held(conn), {"CONNECT"})
          /\ conn.state # "connected"
          /\ conn.closed \/ Misses(loop, Posts({"CONNECT"}))
      BY <1>1, <3>1, <1>6, <1>9, <2>1 DEF Over
    <3>3. ~e.read BY <1>9, <3>2
    <3>4. ~CanRead' BY <1>14, <3>2, <3>3
    <3>5. None(Held(conn'), {"CONNECT"})
      <4>1. CASE conn.closed
        BY <1>6, <1>9, <3>1, <4>1 DEF None
      <4>2. CASE ~conn.closed BY <1>11, <3>2, <4>2
      <4> QED BY <4>1, <4>2
    <3>6. conn'.closed \/ Misses(loop', Posts({"CONNECT"}))
      BY <1>6, <1>13, <3>1, <3>2 DEF Misses
    <3> QED BY <1>6, <3>1, <3>2, <3>4, <3>5, <3>6
  <2> QED BY <1>3, <2>1 DEF Over
\* It took the CONNECT out of in_flight_, then.
<1>23. /\ CanRead' => CanRead \/ e.read
       /\ CanRead' \/ ~None(Held(conn'), {"CONNECT"})
          => \/ CanRead \/ ~None(Held(conn), {"CONNECT"})
             \/ Running("enqueue") /\ Arg.type = "CONNECT"
  <2>1. CanRead' => CanRead \/ e.read BY <1>14
  <2>2. ~None(Held(conn'), {"CONNECT"}) =>
           \/ ~None(Held(conn), {"CONNECT"})
           \/ Running("enqueue") /\ Arg.type = "CONNECT"
    BY <1>6, <1>9 DEF None
  <2> QED BY <1>9, <2>1, <2>2
<1>24. ASSUME conn'.open,
              \/ CanRead \/ ~None(Held(conn), {"CONNECT"})
              \/ ~Misses(loop, Posts({"CONNECT"}))
       PROVE  /\ conn.open /\ conn'.state \in {"handshaking", "connected"}
              /\ ~PostsFailure(e.conn)
  BY <1>1, <1>6, <1>9, <1>24 DEF Shaking, PostsFailure, Sendable
<1>25. Running("enqueue") /\ Arg.type = "CONNECT" =>
          ~Misses(loop, Posts({"CONNECT"}))
  BY <1>10
<1>26. Shaking'
  <2>1. ASSUME conn'.open, CanRead' \/ ~None(Held(conn'), {"CONNECT"})
                              \/ ~Misses(loop', Posts({"CONNECT"}))
        PROVE  conn'.state \in {"handshaking", "connected"}
    <3>1. ~Misses(loop', Posts({"CONNECT"})) => ~Misses(loop, Posts({"CONNECT"}))
      BY <1>13 DEF Misses
    <3> QED BY <1>23, <1>24, <1>25, <2>1, <3>1
  <2> QED BY <1>3, <2>1 DEF Shaking
<1>27. FailFirst'
  <2> DEFINE A == OfKind("failPending")
             B == Posts({"CONNECT"})
  <2>1. ASSUME conn'.open, CanRead' \/ ~None(Held(conn'), {"CONNECT"})
        PROVE  Misses(loop', A)
    <3>1. conn.open /\ ~PostsFailure(e.conn)
      BY <1>23, <1>24, <1>25, <2>1
    <3>2. Misses(loop, A)
      <4>1. CASE CanRead \/ ~None(Held(conn), {"CONNECT"})
        BY <1>1, <3>1, <4>1 DEF FailFirst
      <4>2. CASE Running("enqueue") /\ Arg.type = "CONNECT"
        <5>1. Head(loop) \in B /\ loop # <<>> /\ loop \in Seq(Handlers)
          BY <1>1, <4>2, HeadTyped DEF Posts, Arg, Typed
        <5>2. Ordered(loop, A, B) BY <1>1, <3>1 DEF FailFirst
        <5> HIDE DEF A, B
        <5> QED BY <5>1, <5>2, TailOrder
      <4> QED BY <1>23, <2>1, <4>1, <4>2
    <3> QED BY <1>13, <3>1, <3>2 DEF Misses
  <2>2. ASSUME conn'.open PROVE Ordered(loop', A, B)
    <3>1. Ordered(loop, A, B) BY <1>1, <1>6, <1>9, <2>2 DEF FailFirst
    <3>2. Misses(loop, B) \/ ~PostsFailure(e.conn) BY <1>24, <2>2
    <3> QED BY <1>5, <3>1, <3>2
  <2> QED BY <1>3, <2>1, <2>2 DEF FailFirst
<1>28. Watched'
  <2>1. ASSUME KeepAlive, ~quit', conn'.open, CanRead'
        PROVE  Pinged(ses', conn', Elements(loop'))
    <3>1. Minds(e, rest) /\ ~quit BY <2>1
    <3>2. Pinged(e.ses, e.conn, Elements(rest) \cup Elements(e.posts))
      BY <1>6, <1>23, <2>1, <3>1 DEF Minds
    <3>3. Pinged(e.ses, e.conn, Elements(loop'))
      BY <1>5, <3>2 DEF Pinged
    <3> QED BY <1>6, <3>3
  <2> QED BY <1>3, <2>1 DEF Watched, Pinged
<1>29. (reported \in Seq(Outcomes))' BY <1>7 DEF Outcomes
<1> QED BY <1>29, <1>15, <1>18, <1>19, <1>20, <1>21, <1>22, <1>26, <1>27, <1>28
        DEF FirstInv

\* In one step: a handler with a modest effect.
LEMMA HandleFirst ==
    ASSUME CInv, FirstInv, UNCHANGED setup, NEW kind, Running(kind), NEW e,
           Do(e, Tail(loop)), UNCHANGED Aside, Modest(e), Minds(e, Tail(loop))
    PROVE  FirstInv'
<1>1. loop # <<>> /\ UNCHANGED <<resolving, attempts, quit>>
  BY DEF Running, Aside
<1>2. Ran(e, Tail(loop)) BY <1>1 DEF Ran
<1> QED BY <1>1, <1>2, RanKeeps

-----------------------------------------------------------------------------
(* Why an effect is modest *)

\* The connection is left alone, and one frame is posted at most.
LEMMA AloneModest ==
    ASSUME CInv, FirstInv, NEW e, e.conn = conn,
           \/ e.posts = <<>>
           \/ \E f \in Frames : /\ e.posts = <<Send(f)>> /\ f.type # "CONNECT"
                                /\ f.type \in Flow => Granted,
           e.event \in {"none", "failed"}, e.read \in BOOLEAN,
           e.read => CanRead,
           ~Granted => e.ses.pub = {} /\ e.ses.rec = {},
           e.ses.closed => ses.closed \/ conn.closed
    PROVE  Modest(e)
<1>1. conn \in Conns /\ Shut BY DEF CInv, Typed, FirstInv
<1>2. /\ Short(e.posts) /\ e.posts \in Seq(Handlers)
      /\ \A h \in Elements(e.posts) :
            /\ h.kind \in {"enqueue", "aborted"}
            /\ h.kind = "enqueue" => h.arg.type # "CONNECT"
            /\ h.kind = "enqueue" /\ h.arg.type \in Flow => Granted
  <2>1. CASE e.posts = <<>> BY <2>1, NoElement DEF Short
  <2>2. ASSUME NEW f \in Frames, e.posts = <<Send(f)>>, f.type # "CONNECT",
               f.type \in Flow => Granted
        PROVE  /\ Short(e.posts) /\ e.posts \in Seq(Handlers)
               /\ \A h \in Elements(e.posts) :
                     /\ h.kind = "enqueue" /\ h.arg.type # "CONNECT"
                     /\ h.arg.type \in Flow => Granted
    <3>1. Send(f) \in Handlers /\ Send(f).kind = "enqueue" /\ Send(f).arg = f
      BY DEF Send, Handler, Handlers
    <3>2. Elements(<<Send(f)>>) = {Send(f)} /\ <<Send(f)>> \in Seq(Handlers)
      BY <3>1, OneElement
    <3> QED BY <2>2, <3>1, <3>2 DEF Short
  <2> QED BY <2>1, <2>2
<1> QED BY <1>1, <1>2 DEF Modest, Shut

\* The keep-alive is where it was.
LEMMA AloneMinds ==
    ASSUME CInv, FirstInv, NEW e, NEW rest,
           \/ rest = loop
           \/ /\ loop # <<>> /\ rest = Tail(loop)
              /\ Head(loop).kind \notin {"pingDue", "pongDue", "enqueue"},
           e.conn.open /\ (CanRead \/ e.read) =>
              /\ CanRead /\ conn.open
              /\ e.ses.ping = ses.ping \/ e.ses.ping # "off"
              /\ e.conn.queue = conn.queue /\ e.conn.inFlight = conn.inFlight
              /\ e.conn.writing = conn.writing
    PROVE  Minds(e, rest)
<1> SUFFICES ASSUME KeepAlive, ~quit, e.conn.open, CanRead \/ e.read
             PROVE  Pinged(e.ses, e.conn, Elements(rest) \cup Elements(e.posts))
  BY DEF Minds
<1>1. Pinged(ses, conn, Elements(loop)) BY DEF FirstInv, Watched
<1>2. \A h \in Elements(loop) :
         h.kind \in {"pingDue", "pongDue", "enqueue"} => h \in Elements(rest)
  <2>1. CASE rest = loop BY <2>1
  <2>2. CASE rest # loop
    <3>1. Elements(loop) = {Head(loop)} \cup Elements(rest)
      BY <2>2, TailOrder DEF CInv, Typed
    <3> QED BY <2>2, <3>1
  <2> QED BY <2>1, <2>2
<1>3. Queued(e.conn) = Queued(conn) BY DEF Queued
<1> QED BY <1>1, <1>2, <1>3 DEF Pinged

\* Nobody reads on a socket that outlived its session.
LEMMA OverMinds ==
    ASSUME FirstInv, NEW e, NEW rest,
           e.conn.open => conn.open /\ (ses.closed \/ conn.closed),
           e.read => CanRead
    PROVE  Minds(e, rest)
BY DEF FirstInv, Over, Minds

\* A failure: entries only go, and c is left alone or closed.
Calm(f, s, c) ==
    /\ f.posts = <<>> /\ f.event \in {"none", "failed", "closed"}
    /\ f.ses.pub \subseteq s.pub /\ f.ses.rec \subseteq s.rec
    /\ f.conn = c \/ f.conn = Close(c)
    /\ f.conn = Close(c)
       \/ (f.ses.closed = s.closed /\ f.ses.ping = s.ping)

LEMMA ForgetPing ==
    ASSUME NEW s \in Sessions, NEW items
    PROVE  Forget(s, items).ping = s.ping
BY DEF Forget, Sessions

LEMMA FailItemsCalm ==
    ASSUME NEW s \in Sessions, NEW c, NEW items, NEW closing \in BOOLEAN
    PROVE  /\ Calm(FailItems(s, c, items, closing), s, c)
           /\ closing => FailItems(s, c, items, closing).conn = Close(c)
<1> DEFINE closes == closing \/ "DISCONNECT" \in Types(items)
                             \/ (~s.closed /\ Notifies(items))
           all == IF closes THEN items \cup CloseTells(c) ELSE items
           down == ~s.closed /\ Notifies(all)
           after == IF down THEN Down(s) ELSE Forget(s, all)
           e == FailItems(s, c, items, closing)
<1>1. e = [NoEffect EXCEPT !.ses = after,
                           !.conn = IF closes THEN Close(c) ELSE c,
                           !.told = Lost(s, after) \cup DroppedQos0(all),
                           !.loose = ErasedFirst(s, IF down /\ ~closing
                                                    THEN items ELSE all),
                           !.event = IF down THEN "closed" ELSE "none"]
  BY Zenon DEF FailItems
<1>2. down => closes OBVIOUS
<1>3. ~down => after.closed = s.closed /\ after.ping = s.ping
  BY ForgetFields, ForgetPing
<1>4. after.pub \subseteq s.pub /\ after.rec \subseteq s.rec
  BY DownFields, ForgetFields
<1>5. closing => closes OBVIOUS
<1> HIDE DEF closes, all, down, after, e
<1>6. /\ e.ses = after /\ e.conn = (IF closes THEN Close(c) ELSE c)
      /\ e.posts = <<>> /\ e.event = IF down THEN "closed" ELSE "none"
  BY <1>1 DEF NoEffect
<1>7. Calm(e, s, c) /\ (closing => e.conn = Close(c))
  BY <1>2, <1>3, <1>4, <1>5, <1>6 DEF Calm
<1> QED BY <1>7 DEF e

LEMMA NotifyCalm ==
    ASSUME NEW s
    PROVE  /\ Calm(NotifyClosedOnce(s), s, conn)
           /\ ~s.closed => NotifyClosedOnce(s).conn = Close(conn)
           /\ s.closed => NotifyClosedOnce(s).conn = conn
           /\ [NotifyClosedOnce(s) EXCEPT !.read = TRUE].event
                 = NotifyClosedOnce(s).event
<1>1. CASE s.closed
  <2>1. NotifyClosedOnce(s) = [NoEffect EXCEPT !.ses = s]
    BY <1>1 DEF NotifyClosedOnce
  <2> QED BY <1>1, <2>1 DEF NoEffect, Calm
<1>2. CASE ~s.closed
  <2> DEFINE e == NotifyClosedOnce(s)
  <2>1. e = [NoEffect EXCEPT !.ses = Down(s),
                             !.conn = Close(conn),
                             !.told = Lost(s, Down(s))
                                      \cup DroppedQos0(CloseTells(conn)),
                             !.event = "closed"]
    BY <1>2 DEF NotifyClosedOnce
  <2> HIDE DEF e
  <2>2. e.ses = Down(s) /\ e.conn = Close(conn) /\ e.posts = <<>>
        /\ e.event = "closed" /\ [e EXCEPT !.read = TRUE].event = e.event
    BY <2>1 DEF NoEffect
  <2> QED BY <1>2, <2>2, DownFields DEF Calm, e
<1> QED BY <1>1, <1>2

LEMMA AbandonCalm ==
    ASSUME NEW s \in Sessions
    PROVE  /\ Calm(Abandon(s), s, conn)
           /\ Abandon(s).conn = Close(conn)
           /\ [Abandon(s) EXCEPT !.read = TRUE].event = Abandon(s).event
<1> DEFINE t == [s EXCEPT !.closed = TRUE]
           f == FailItems(t, conn, {}, TRUE)
           e == Abandon(s)
<1>1. t \in Sessions /\ t.pub = s.pub /\ t.rec = s.rec BY DEF Sessions
<1>2. /\ e.ses = f.ses /\ e.conn = f.conn /\ e.posts = f.posts
      /\ e.event = "failed" /\ [e EXCEPT !.read = TRUE].event = e.event
  BY DEF Abandon, FailItems, NoEffect
<1> HIDE DEF t
<1>3. Calm(f, t, conn) /\ f.conn = Close(conn) BY <1>1, FailItemsCalm
<1> HIDE DEF f, e
<1>4. Calm(e, s, conn) /\ e.conn = Close(conn) BY <1>1, <1>2, <1>3 DEF Calm
<1> QED BY <1>2, <1>4 DEF e

LEMMA CloseFacts ==
    ASSUME NEW c \in Conns
    PROVE  /\ Close(c) \in Conns /\ Held(Close(c)) \subseteq Held(c)
           /\ Close(c).closed /\ (Close(c).open => c.closed /\ c.open)
           /\ c.closed => Close(c) = c
           /\ ~c.closed => Held(Close(c)) = {} /\ ~Close(c).open
           /\ Close(c).state \in {c.state, "disconnected"}
           /\ Close(c).open => Close(c).state = c.state
<1>1. Close(c) \in Conns BY ConnTypes
<1>2. CASE c.closed BY <1>1, <1>2 DEF Close
<1>3. CASE ~c.closed
  BY <1>1, <1>3 DEF Close, Held, Queued
<1> QED BY <1>2, <1>3

\* A failing handler, of a connection of which c is left.
LEMMA CalmFirst ==
    ASSUME CInv, FirstInv, NEW f, NEW s, NEW c \in Conns, Calm(f, s, c),
           s.pub \subseteq ses.pub, s.rec \subseteq ses.rec,
           f.conn = Close(c) \/ (s.closed = ses.closed /\ s.ping = ses.ping),
           c.state \in {conn.state, "disconnected"},
           c.open => /\ conn.open /\ c.state = conn.state
                     /\ c.closed = conn.closed,
           c.closed => Held(c) = {}, Held(c) \subseteq Held(conn),
           NEW e, e.ses = f.ses, e.conn = f.conn, e.posts = f.posts,
           e.event = f.event, e.read \in BOOLEAN, e.read => CanRead,
           NEW rest,
           \/ f.conn = Close(c) \/ ~c.open \/ ~CanRead
           \/ /\ c = conn
              /\ \/ rest = loop
                 \/ /\ loop # <<>> /\ rest = Tail(loop)
                    /\ Head(loop).kind \notin {"pingDue", "pongDue", "enqueue"}
    PROVE  Modest(e) /\ Minds(e, rest)
<1>1. /\ Shut /\ Over /\ Unpublished BY DEF FirstInv
<1>2. /\ Close(c) \in Conns /\ Held(Close(c)) \subseteq Held(c)
      /\ Close(c).closed /\ (Close(c).open => c.closed /\ c.open)
      /\ c.closed => Close(c) = c
      /\ ~c.closed => Held(Close(c)) = {} /\ ~Close(c).open
      /\ Close(c).state \in {c.state, "disconnected"}
      /\ Close(c).open => Close(c).state = c.state
  BY CloseFacts
<1>3. Modest(e)
  <2>1. /\ Short(e.posts) /\ e.posts \in Seq(Handlers)
        /\ Elements(e.posts) = {}
    BY NoElement DEF Calm, Short
  <2>2. /\ e.conn = c \/ e.conn = Close(c)
        /\ e.event \in {"none", "failed", "closed"}
        /\ ~Granted => e.ses.pub = {} /\ e.ses.rec = {}
    BY <1>1 DEF Calm, Unpublished
  <2>3. /\ e.conn \in Conns
        /\ e.conn.state \in {conn.state, "disconnected"}
        /\ e.conn.closed => Held(e.conn) = {}
        /\ Held(e.conn) \subseteq Held(conn)
        /\ e.conn.open => /\ conn.open /\ e.conn.state = conn.state
                          /\ e.conn.closed = conn.closed
    BY <1>2, <2>2
  <2>4. e.conn.open /\ e.ses.closed => ses.closed \/ conn.closed
    BY <1>2 DEF Calm
  <2> QED BY <2>1, <2>2, <2>3, <2>4 DEF Modest
<1>4. Minds(e, rest)
  <2>1. CASE f.conn = Close(c)
    <3>1. e.conn.open => conn.open /\ (ses.closed \/ conn.closed)
      BY <1>2, <2>1
    <3> QED BY <3>1, OverMinds
  <2>2. CASE f.conn # Close(c) /\ (~c.open \/ ~CanRead)
    BY <2>2 DEF Calm, Minds
  <2>3. CASE f.conn # Close(c) /\ c.open /\ CanRead
    BY <2>3, AloneMinds DEF Calm
  <2> QED BY <2>1, <2>2, <2>3
<1> QED BY <1>3, <1>4

-----------------------------------------------------------------------------
(* The handlers, one after the other *)

LEMMA NoEffectEvent == NoEffect.event = "none"
BY DEF NoEffect

\* A handler that leaves the connection and the keep-alive alone.
LEMMA AloneFirst ==
    ASSUME CInv, FirstInv, UNCHANGED setup, NEW kind, Running(kind),
           kind \notin {"pingDue", "pongDue", "enqueue"}, NEW e,
           Do(e, Tail(loop)), UNCHANGED Aside, e.conn = conn,
           \/ e.posts = <<>>
           \/ \E f \in Frames : /\ e.posts = <<Send(f)>> /\ f.type # "CONNECT"
                                /\ f.type \in Flow => Granted,
           e.event \in {"none", "failed"}, e.read \in BOOLEAN,
           e.read => CanRead,
           ~Granted => e.ses.pub = {} /\ e.ses.rec = {},
           e.ses.closed = ses.closed,
           e.ses.ping = ses.ping \/ e.ses.ping # "off"
    PROVE  FirstInv'
<1>1. Modest(e) BY AloneModest
<1>2. /\ loop # <<>>
      /\ Head(loop).kind \notin {"pingDue", "pongDue", "enqueue"}
  BY DEF Running
<1>3. Minds(e, Tail(loop)) BY <1>2, AloneMinds
<1> QED BY <1>1, <1>3, HandleFirst

\* A handler that fails what it finds, on the connection as it is.
LEMMA FailsFirst ==
    ASSUME CInv, FirstInv, UNCHANGED setup, NEW kind, Running(kind),
           NEW f, NEW s, Calm(f, s, conn),
           s.pub \subseteq ses.pub, s.rec \subseteq ses.rec,
           f.conn = Close(conn) \/ (s.closed = ses.closed /\ s.ping = ses.ping),
           f.conn = Close(conn) \/ kind \notin {"pingDue", "pongDue", "enqueue"},
           NEW e, Do(e, Tail(loop)), UNCHANGED Aside,
           e.ses = f.ses, e.conn = f.conn, e.posts = f.posts,
           e.event = f.event, e.read \in BOOLEAN, e.read => CanRead
    PROVE  FirstInv'
<1>1. /\ loop # <<>> /\ Head(loop).kind = kind /\ conn \in Conns /\ Shut
  BY DEF Running, CInv, Typed, FirstInv
<1>2. Modest(e) /\ Minds(e, Tail(loop)) BY <1>1, CalmFirst DEF Shut
<1> QED BY <1>2, HandleFirst

\* notify_closed_once() of the session as it is.
LEMMA NotifyFirst ==
    ASSUME CInv, FirstInv, UNCHANGED setup, NEW kind, Running(kind),
           kind \notin {"pingDue", "pongDue", "enqueue"},
           NEW e, Do(e, Tail(loop)), UNCHANGED Aside,
           e.ses = NotifyClosedOnce(ses).ses, e.conn = NotifyClosedOnce(ses).conn,
           e.posts = NotifyClosedOnce(ses).posts,
           e.event = NotifyClosedOnce(ses).event,
           e.read \in BOOLEAN, e.read => CanRead
    PROVE  FirstInv'
<1>1. Calm(NotifyClosedOnce(ses), ses, conn) BY NotifyCalm
<1> QED BY <1>1, FailsFirst

LEMMA EndingsFirst ==
    ASSUME CInv, FirstInv, UNCHANGED setup,
           \/ RunResolveFailed \/ RunConnTimer \/ RunPublishRejected
           \/ RunPublishNoId \/ RunSubscribeRejected \/ RunSubscribeNoId
    PROVE  FirstInv'
<1>1. ses \in Sessions /\ (~Granted => ses.pub = {} /\ ses.rec = {})
  BY DEF CInv, Typed, FirstInv, Unpublished
<1>2. ASSUME NEW kind, Running(kind),
             kind \notin {"pingDue", "pongDue", "enqueue"},
             NEW e, Handle(e), e.conn = conn, e.ses = ses, e.posts = <<>>,
             e.event \in {"none", "failed"}, e.read = FALSE
      PROVE  FirstInv'
  <2>1. Do(e, Tail(loop)) /\ UNCHANGED Aside BY <1>2 DEF Handle
  <2> QED BY <1>1, <1>2, <2>1, AloneFirst
<1>3. CASE RunResolveFailed
  <2> DEFINE e == ConnectFailed(conn)
  <2>1. Running("resolved") /\ Handle(e) BY <1>3 DEF RunResolveFailed
  <2>2. /\ e.ses = ses /\ e.conn = conn /\ e.posts = <<>>
        /\ e.event \in {"none", "failed"} /\ e.read = FALSE
    BY DEF ConnectFailed, NoEffect
  <2> HIDE DEF e
  <2> QED BY <1>2, <2>1, <2>2
<1>4. CASE RunConnTimer
  <2>1. CASE ses.closed
    <3>1. Running("connTimer") /\ Handle(NoEffect)
      BY <1>4, <2>1 DEF RunConnTimer
    <3> QED BY <1>2, <3>1, NoEffectFields, NoEffectEvent
  <2>2. CASE ~ses.closed
    <3> DEFINE e == Abandon(ses)
    <3>1. Running("connTimer") /\ Do(e, Tail(loop)) /\ UNCHANGED Aside
      BY <1>4, <2>2 DEF RunConnTimer, Handle
    <3>2. Calm(e, ses, conn) /\ e.conn = Close(conn) BY <1>1, AbandonCalm
    <3>3. e.read = FALSE BY DEF Abandon, FailItems, NoEffect
    <3> HIDE DEF e
    <3> QED BY <3>1, <3>2, <3>3, FailsFirst
  <2> QED BY <2>1, <2>2
<1>5. CASE RunPublishRejected
  <2> DEFINE e == Tells({ToldPub(Arg, FALSE)})
  <2>1. Running("publish") /\ Handle(e) BY <1>5 DEF RunPublishRejected
  <2>2. /\ e.ses = ses /\ e.conn = conn /\ e.posts = <<>>
        /\ e.event = "none" /\ e.read = FALSE
    BY DEF Tells, NoEffect
  <2> HIDE DEF e
  <2> QED BY <1>2, <2>1, <2>2
<1>6. CASE RunSubscribeRejected
  <2> DEFINE e == Tells({ToldSub(Arg, FALSE)})
  <2>1. Running("subscribe") /\ Handle(e) BY <1>6 DEF RunSubscribeRejected
  <2>2. /\ e.ses = ses /\ e.conn = conn /\ e.posts = <<>>
        /\ e.event = "none" /\ e.read = FALSE
    BY DEF Tells, NoEffect
  <2> HIDE DEF e
  <2> QED BY <1>2, <2>1, <2>2
<1>7. ASSUME NEW more, NEW kind, Running(kind), kind \in {"publish", "subscribe"},
             Handle([NotifyClosedOnce(ses) EXCEPT !.told = more])
      PROVE  FirstInv'
  <2> DEFINE f == NotifyClosedOnce(ses)
             e == [f EXCEPT !.told = more]
  <2>1. Do(e, Tail(loop)) /\ UNCHANGED Aside BY <1>7 DEF Handle
  <2>2. /\ e.ses = f.ses /\ e.conn = f.conn /\ e.posts = f.posts
        /\ e.event = f.event /\ e.read = FALSE
    BY DEF NotifyClosedOnce, NoEffect
  <2> HIDE DEF e
  <2> QED BY <1>7, <2>1, <2>2, NotifyFirst
<1>8. CASE RunPublishNoId
  <2>1. Running("publish") BY <1>8 DEF RunPublishNoId, PublishAccepted
  <2>2. \E more : Handle([NotifyClosedOnce(ses) EXCEPT !.told = more])
    BY <1>8 DEF RunPublishNoId
  <2> QED BY <1>7, <2>1, <2>2
<1>9. CASE RunSubscribeNoId
  <2>1. Running("subscribe") BY <1>9 DEF RunSubscribeNoId
  <2>2. \E more : Handle([NotifyClosedOnce(ses) EXCEPT !.told = more])
    BY <1>9 DEF RunSubscribeNoId
  <2> QED BY <1>7, <2>1, <2>2
<1> QED BY <1>3, <1>4, <1>5, <1>6, <1>8, <1>9

\* Calls that are accepted: only in a session that was reported up.
LEMMA CallsFirst ==
    ASSUME CInv, FirstInv, UNCHANGED setup,
           RunPublishQos0 \/ RunPublish \/ RunSubscribe
    PROVE  FirstInv'
<1>1. /\ Typed /\ ses \in Sessions /\ nextPacketId \in Ids /\ setup \in Setup
      /\ (~Granted => ses.pub = {} /\ ses.rec = {} /\ conn.state # "connected")
  BY DEF CInv, Typed, FirstInv, Unpublished
<1>2. ASSUME NEW kind \in {"publish", "subscribe"}, Running(kind),
             NEW s, s.closed = ses.closed, s.ping = ses.ping,
             ~Granted => s.pub = {} /\ s.rec = {},
             NEW f \in Frames, f.type # "CONNECT", f.type \in Flow => Granted,
             NEW e, e.ses = s, e.conn = conn, e.posts \in {<<>>, <<Send(f)>>},
             e.event = "none", e.read = FALSE,
             Do(e, Tail(loop)), UNCHANGED Aside
      PROVE  FirstInv'
  BY <1>2, AloneFirst
<1>3. ASSUME NEW type \in {"PUBLISH", "SUBSCRIBE"}, NEW pid \in 0 .. MaxId,
             Arg \in PubCalls \cup SubCalls
      PROVE  Frame(type, pid, Arg) \in Frames /\ Frame(type, pid, Arg).type = type
  <2>1. type \in FrameTypes /\ Arg \in Nat BY <1>3 DEF FrameTypes, PubCalls, SubCalls
  <2> QED BY <2>1, SendFacts
<1>4. 0 \in 0 .. MaxId /\ Ids \subseteq 0 .. MaxId BY MaxIdAssumption DEF Ids
<1>5. CASE RunPublishQos0
  <2> DEFINE f == Frame("PUBLISH", 0, Arg)
             e == [NoEffect EXCEPT !.posts = <<Send(f)>>]
  <2>1. /\ Running("publish") /\ Do(e, Tail(loop)) /\ UNCHANGED Aside /\ Granted
    BY <1>1, <1>5 DEF RunPublishQos0, PublishAccepted, Handle
  <2>2. f \in Frames /\ f.type = "PUBLISH" BY <1>1, <1>3, <1>4, <2>1, HeadTyped
  <2>3. /\ e.ses = ses /\ e.conn = conn /\ e.posts = <<Send(f)>>
        /\ e.event = "none" /\ e.read = FALSE
    BY DEF NoEffect
  <2> HIDE DEF e, f
  <2> QED BY <1>1, <1>2, <2>1, <2>2, <2>3
<1>6. CASE RunPublish
  <2>1. Running("publish") /\ Granted /\ UNCHANGED Aside
    BY <1>1, <1>6 DEF RunPublish, PublishAccepted
  <2>2. PICK k \in 1 .. MaxId - 1 :
           LET pid == NthId(nextPacketId, k)
               entry == [pid |-> pid, call |-> Arg,
                         attempts |-> 1, armed |-> TRUE]
           IN  IF Cardinality(ses.pub) >= MaxPending
               THEN Do(OnWindowFull(Arg), Tail(loop))
               ELSE Do([NoEffect EXCEPT
                          !.ses = [ses EXCEPT !.pub = @ \cup {entry}],
                          !.posts = <<Send(Frame("PUBLISH", pid, Arg))>>],
                       Tail(loop))
    BY <1>6 DEF RunPublish
  <2> DEFINE pid == NthId(nextPacketId, k)
             entry == [pid |-> pid, call |-> Arg,
                       attempts |-> 1, armed |-> TRUE]
             f == Frame("PUBLISH", pid, Arg)
             s == [ses EXCEPT !.pub = @ \cup {entry}]
             g == [NoEffect EXCEPT !.ses = s, !.posts = <<Send(f)>>]
             d == OnWindowFull(Arg)
  <2>3. Do(d, Tail(loop)) \/ Do(g, Tail(loop)) BY <2>2
  <2>4. pid \in 0 .. MaxId BY <1>1, <1>4, NthIdType
  <2> HIDE DEF pid
  <2>5. f \in Frames /\ f.type = "PUBLISH" BY <1>1, <1>3, <2>1, <2>4, HeadTyped
  <2> HIDE DEF f, entry
  <2>6. s.closed = ses.closed /\ s.ping = ses.ping BY <1>1 DEF Sessions
  <2> HIDE DEF s
  <2>7. /\ g.ses = s /\ g.conn = conn /\ g.posts = <<Send(f)>>
        /\ g.event = "none" /\ g.read = FALSE
    BY DEF NoEffect
  <2>8. /\ d.ses = ses /\ d.conn = conn /\ d.posts = <<>>
        /\ d.event = "none" /\ d.read = FALSE
    BY DEF OnWindowFull, Tells, NoEffect
  <2> HIDE DEF g, d
  <2>9. CASE Do(d, Tail(loop)) BY <1>1, <1>2, <2>1, <2>5, <2>8, <2>9
  <2>10. CASE Do(g, Tail(loop)) BY <1>2, <2>1, <2>5, <2>6, <2>7, <2>10
  <2> QED BY <2>3, <2>9, <2>10
<1>7. CASE RunSubscribe
  <2>1. Running("subscribe") /\ UNCHANGED Aside BY <1>7 DEF RunSubscribe
  <2>2. PICK k \in 1 .. MaxId - 1 :
           LET pid == NthId(nextPacketId, k)
           IN  Do([NoEffect EXCEPT
                     !.ses = [ses EXCEPT !.sub =
                                @ \cup {[pid |-> pid, call |-> Arg]}],
                     !.posts = <<Send(Frame("SUBSCRIBE", pid, Arg))>>],
                  Tail(loop))
    BY <1>7 DEF RunSubscribe
  <2> DEFINE pid == NthId(nextPacketId, k)
             entry == [pid |-> pid, call |-> Arg]
             f == Frame("SUBSCRIBE", pid, Arg)
             s == [ses EXCEPT !.sub = @ \cup {entry}]
             e == [NoEffect EXCEPT !.ses = s, !.posts = <<Send(f)>>]
  <2>3. Do(e, Tail(loop)) BY <2>2
  <2>4. pid \in 0 .. MaxId BY <1>1, <1>4, NthIdType
  <2> HIDE DEF pid
  <2>5. f \in Frames /\ f.type = "SUBSCRIBE" /\ f.type \notin Flow
    BY <1>1, <1>3, <2>1, <2>4, HeadTyped DEF Flow
  <2> HIDE DEF f, entry
  <2>6. /\ s.closed = ses.closed /\ s.ping = ses.ping /\ s.pub = ses.pub
        /\ s.rec = ses.rec
    BY <1>1 DEF Sessions
  <2> HIDE DEF s
  <2>7. /\ e.ses = s /\ e.conn = conn /\ e.posts = <<Send(f)>>
        /\ e.event = "none" /\ e.read = FALSE
    BY DEF NoEffect
  <2> HIDE DEF e
  <2> QED BY <1>1, <1>2, <2>1, <2>3, <2>5, <2>6, <2>7
<1> QED BY <1>5, <1>6, <1>7

\* Frames that failed: reported by a closed connection, by
\* fail_pending_writes() or by a write that broke the socket.
LEMMA FailedFirst ==
    ASSUME CInv, FirstInv, UNCHANGED setup,
           RunAborted \/ RunFailPending \/ RunWrittenFailed
    PROVE  FirstInv'
<1>1. /\ Typed /\ ses \in Sessions /\ conn \in Conns /\ loop \in Seq(Handlers)
      /\ Shut /\ FailFirst
      /\ conn.queue \in Seq(Frames) /\ conn.open \in BOOLEAN
  BY DEF CInv, Typed, FirstInv, Conns, Connections
<1>2. \A f : FailItems(ses, conn, f, FALSE).read = FALSE
  BY DEF FailItems, NoEffect
<1>3. CASE RunAborted
  <2> DEFINE e == FailItems(ses, conn, {Arg}, FALSE)
  <2>1. Running("aborted") /\ Do(e, Tail(loop)) /\ UNCHANGED Aside
    BY <1>3 DEF RunAborted, Handle
  <2>2. Calm(e, ses, conn) BY <1>1, FailItemsCalm
  <2>3. e.read = FALSE BY <1>2
  <2> HIDE DEF e
  <2>4. Modest(e) /\ Minds(e, Tail(loop))
    BY <1>1, <2>1, <2>2, <2>3, CalmFirst DEF Shut, Running
  <2> QED BY <2>1, <2>4, HandleFirst
<1>4. CASE RunFailPending
  <2> DEFINE c == FailPending(conn)
             e == FailItems(ses, c, Queued(conn), FALSE)
  <2>1. Running("failPending") /\ Do(e, Tail(loop)) /\ UNCHANGED Aside
    BY <1>4 DEF RunFailPending, Handle
  <2>2. Calm(e, ses, c) BY <1>1, FailItemsCalm
  <2>3. e.read = FALSE BY DEF FailItems, NoEffect
  <2>4. /\ c \in Conns /\ Held(c) \subseteq Held(conn)
        /\ c.state = conn.state /\ c.open = conn.open /\ c.closed = conn.closed
    <3>1. c \in Conns BY <1>1, ConnTypes
    <3>2. c = [conn EXCEPT !.queue = <<>>, !.writing = FALSE] BY DEF FailPending
    <3>3. /\ c.queue = <<>> /\ c.inFlight = conn.inFlight
          /\ c.state = conn.state /\ c.open = conn.open
          /\ c.closed = conn.closed
      BY <1>1, <3>2 DEF Conns, Connections
    <3>4. Queued(c) = {} BY <3>3 DEF Queued
    <3> QED BY <3>1, <3>3, <3>4 DEF Held
  <2>5. ~c.open \/ ~CanRead
    <3>1. loop # <<>> /\ Head(loop) \in OfKind("failPending")
      BY <1>1, <2>1, HeadTyped DEF OfKind
    <3>2. ~Misses(loop, OfKind("failPending"))
      BY <1>1, <3>1, TailOrder DEF Misses
    <3> QED BY <1>1, <2>4, <3>2 DEF FailFirst
  <2> HIDE DEF e, c
  <2>6. c.closed => Held(c) = {} BY <1>1, <2>4 DEF Shut
  <2>7. /\ c.state \in {conn.state, "disconnected"}
        /\ c.open => /\ conn.open /\ c.state = conn.state
                     /\ c.closed = conn.closed
    BY <2>4
  <2>8. Modest(e) /\ Minds(e, Tail(loop))
    BY <2>2, <2>3, <2>4, <2>5, <2>6, <2>7, CalmFirst
  <2> QED BY <2>1, <2>8, HandleFirst
<1>5. CASE RunWrittenFailed
  <2> DEFINE c == FailPending(DropSocket(TakeInFlight(conn)))
             items == {conn.inFlight} \cup Queued(conn)
             e == FailItems(ses, c, items, FALSE)
  <2>1. Running("written") /\ Do(e, Tail(loop)) /\ UNCHANGED Aside
    BY <1>5 DEF RunWrittenFailed, Handle
  <2>2. Calm(e, ses, c) BY <1>1, FailItemsCalm
  <2>3. e.read = FALSE BY DEF FailItems, NoEffect
  <2>4. c \in Conns /\ c.state = "disconnected" /\ ~c.open /\ Held(c) = {}
    <3>1. c \in Conns BY <1>1, ConnTypes
    <3> QED BY <1>1, <3>1 DEF FailPending, DropSocket, TakeInFlight, Held, Queued,
                              Conns, Connections
  <2> HIDE DEF e, c, items
  <2>5. Modest(e) /\ Minds(e, Tail(loop))
    BY <2>2, <2>3, <2>4, CalmFirst
  <2> QED BY <2>1, <2>5, HandleFirst
<1> QED BY <1>3, <1>4, <1>5

\* enqueue_write(): the frame waits behind the others, or it is reported.
LEMMA EnqueueFirst ==
    ASSUME CInv, FirstInv, UNCHANGED setup, RunEnqueue
    PROVE  FirstInv'
<1>1. /\ Typed /\ ses \in Sessions /\ conn \in Conns /\ Running("enqueue")
      /\ Shut /\ Over /\ Watched
      /\ conn.queue \in Seq(Frames)
      /\ (~Granted => ses.pub = {} /\ ses.rec = {})
  BY DEF CInv, Typed, FirstInv, Unpublished, RunEnqueue, Conns, Connections
<1>2. /\ Arg \in Frames /\ loop # <<>> /\ loop \in Seq(Handlers)
      /\ Head(loop).kind = "enqueue"
  BY <1>1, HeadTyped DEF Typed
<1>3. CASE conn.closed
  <2> DEFINE h == Handler("aborted", Arg)
             e == [NoEffect EXCEPT !.posts = <<h>>]
  <2>1. Do(e, Tail(loop)) /\ UNCHANGED Aside BY <1>3 DEF RunEnqueue, Handle
  <2>2. /\ e.ses = ses /\ e.conn = conn /\ e.posts = <<h>>
        /\ e.event = "none" /\ e.read = FALSE
    BY DEF NoEffect
  <2>3. h \in Handlers /\ h.kind = "aborted" BY <1>2 DEF Handler, Handlers
  <2> HIDE DEF e, h
  <2>4. /\ Short(e.posts) /\ e.posts \in Seq(Handlers)
        /\ \A x \in Elements(e.posts) : x.kind = "aborted"
    BY <2>2, <2>3, OneElement DEF Short
  <2>5. Modest(e) BY <1>1, <2>2, <2>4 DEF Modest, Shut
  <2>6. Minds(e, Tail(loop)) BY <1>3, <2>2, OverMinds
  <2> QED BY <1>1, <2>1, <2>5, <2>6, HandleFirst
<1>4. CASE ~conn.closed
  <2> DEFINE c == Enqueue(conn, Arg)
             e == [NoEffect EXCEPT !.conn = c, !.flush = TRUE]
  <2>1. Do(e, Tail(loop)) /\ UNCHANGED Aside BY <1>4 DEF RunEnqueue, Handle
  <2>2. /\ e.ses = ses /\ e.conn = c /\ e.posts = <<>>
        /\ e.event = "none" /\ e.read = FALSE
    BY DEF NoEffect
  <2>3. /\ c \in Conns /\ c.state = conn.state /\ c.open = conn.open
        /\ c.closed = conn.closed /\ c.inFlight = conn.inFlight
        /\ c.writing = conn.writing /\ c.queue = Append(conn.queue, Arg)
    <3>1. c \in Conns BY <1>1, <1>2, ConnTypes
    <3>2. c = [conn EXCEPT !.queue = Append(conn.queue, Arg)] BY DEF Enqueue
    <3> QED BY <1>1, <3>1, <3>2 DEF Conns, Connections
  <2> HIDE DEF e, c
  <2>4. Queued(c) = Queued(conn) \cup {Arg}
    <3>1. Elements(Append(conn.queue, Arg)) = Elements(conn.queue) \cup {Arg}
      BY <1>1, <1>2, AppendOrder
    <3> QED BY <2>3, <3>1 DEF Queued, Elements
  <2>5. Held(c) = Held(conn) \cup {Arg} BY <2>3, <2>4 DEF Held
  <2>6. Short(e.posts) /\ e.posts \in Seq(Handlers) /\ Elements(e.posts) = {}
    BY <2>2, NoElement DEF Short
  <2>7. Modest(e) BY <1>1, <1>4, <2>2, <2>3, <2>5, <2>6 DEF Modest
  <2>8. Minds(e, Tail(loop))
    <3> SUFFICES ASSUME KeepAlive, ~quit, conn.open, CanRead
                 PROVE  Pinged(ses, c, Elements(Tail(loop)))
      BY <2>2, <2>3, <2>6 DEF Minds, Pinged
    <3>1. Pinged(ses, conn, Elements(loop)) BY <1>1 DEF Watched
    <3>2. Elements(loop) = {Head(loop)} \cup Elements(Tail(loop))
      BY <1>2, TailOrder
    <3>3. ASSUME NEW h \in Elements(loop), h.kind = "enqueue",
                 h.arg = Plain("PINGREQ")
          PROVE  h \in Elements(Tail(loop)) \/ ~None(Queued(c), {"PINGREQ"})
      BY <2>4, <3>2, <3>3 DEF None, Arg, Plain, Frame
    <3>4. None(Queued(c), {"PINGREQ"}) => None(Queued(conn), {"PINGREQ"})
      BY <2>4 DEF None
    <3>5. \A h \in Elements(loop) :
             h.kind \in {"pingDue", "pongDue"} => h \in Elements(Tail(loop))
      BY <1>2, <3>2
    <3> QED BY <2>3, <3>1, <3>3, <3>4, <3>5 DEF Pinged
  <2> QED BY <1>1, <2>1, <2>7, <2>8, HandleFirst
<1> QED BY <1>3, <1>4

\* A frame was written, and its handler ran.
LEMMA WrittenFirst ==
    ASSUME CInv, FirstInv, UNCHANGED setup, RunWritten \/ RunWrittenQuiet
    PROVE  FirstInv'
<1> DEFINE item == conn.inFlight
           c == TakeInFlight(conn)
           g == OnWritten(item)
           e == [g EXCEPT !.conn = c, !.flush = TRUE]
<1>1. /\ Typed /\ ses \in Sessions /\ conn \in Conns /\ setup \in Setup
      /\ Running("written") /\ Shut /\ Watched
      /\ (~Granted => ses.pub = {} /\ ses.rec = {})
      /\ KeepAlive \in BOOLEAN
  BY SetupTypes
     DEF CInv, Typed, FirstInv, Unpublished, RunWritten, RunWrittenQuiet
<1>2. /\ c \in Conns /\ c.state = conn.state /\ c.open = conn.open
      /\ c.closed = conn.closed /\ Queued(c) = Queued(conn)
      /\ Held(c) \subseteq Held(conn)
  <2>1. c \in Conns BY <1>1, ConnTypes
  <2>2. c = [conn EXCEPT !.inFlight = NoItem, !.writing = FALSE]
    BY DEF TakeInFlight
  <2>3. /\ c.state = conn.state /\ c.open = conn.open
        /\ c.closed = conn.closed /\ c.queue = conn.queue
        /\ c.inFlight = NoItem
    BY <1>1, <2>2 DEF Conns, Connections
  <2> QED BY <2>1, <2>3 DEF Queued, Held
<1>3. CASE RunWrittenQuiet
  <2>1. Do(NoEffect, Tail(loop)) /\ UNCHANGED Aside
    BY <1>3 DEF RunWrittenQuiet, Handle
  <2> QED BY <1>1, <2>1, NoEffectFields, NoEffectEvent, AloneFirst
<1>4. CASE RunWritten /\ item.type = "DISCONNECT"
  <2> DEFINE d == FailItems(ses, c, {}, TRUE)
  <2>1. Do(d, Tail(loop)) /\ UNCHANGED Aside BY <1>4 DEF RunWritten, Handle
  <2>2. Calm(d, ses, c) /\ d.conn = Close(c) BY <1>1, FailItemsCalm
  <2>3. d.read = FALSE BY DEF FailItems, NoEffect
  <2> HIDE DEF d, c
  <2>4. Modest(d) /\ Minds(d, Tail(loop))
    BY <1>1, <1>2, <2>2, <2>3, CalmFirst DEF Shut
  <2> QED BY <1>1, <2>1, <2>4, HandleFirst
<1>5. ASSUME RunWritten, item.type # "DISCONNECT", item # NoItem,
             e.ses.closed = ses.closed,
             ~Granted => e.ses.pub = {} /\ e.ses.rec = {},
             g.posts = <<>>, g.event = "none", e.conn = c, e.posts = g.posts,
             e.event = g.event, e.read \in BOOLEAN,
             e.read => item.type = "CONNECT",
             \/ e.ses.ping # "off"
             \/ e.ses.ping = ses.ping
                /\ item.type \notin {"CONNECT", "PINGREQ"}
             \/ ~KeepAlive
      PROVE  FirstInv'
  <2>1. Do(e, Tail(loop)) /\ UNCHANGED Aside BY <1>5 DEF RunWritten, Handle
  <2>2. Short(e.posts) /\ e.posts \in Seq(Handlers) /\ Elements(e.posts) = {}
    BY <1>5, NoElement DEF Short
  <2>3. e.read => ~None(Held(conn), {"CONNECT"}) BY <1>5 DEF None, Held
  <2> HIDE DEF c, e, g
  <2>4. Modest(e) BY <1>1, <1>2, <1>5, <2>2, <2>3 DEF Modest, Shut
  <2>5. Minds(e, Tail(loop))
    <3> SUFFICES ASSUME KeepAlive, ~quit, conn.open, CanRead \/ e.read,
                        e.ses.ping = "off"
                 PROVE  Pinged(e.ses, c, Elements(Tail(loop)))
      BY <1>2, <1>5, <2>2 DEF Minds, Pinged
    <3>1. ses.ping = "off" /\ item.type # "PINGREQ" /\ CanRead BY <1>5
    <3>2. Pinged(ses, conn, Elements(loop)) BY <1>1, <3>1 DEF Watched
    <3>3. /\ Elements(loop) = {Head(loop)} \cup Elements(Tail(loop))
          /\ Head(loop).kind = "written"
      BY <1>1, HeadTyped, TailOrder DEF Typed
    <3> QED BY <1>2, <3>1, <3>2, <3>3 DEF Pinged
  <2> QED BY <1>1, <2>1, <2>4, <2>5, HandleFirst
<1>6. CASE RunWritten /\ item.type = "CONNECT"
  <2> DEFINE ping == IF KeepAlive THEN "ping" ELSE ses.ping
             s == [ses EXCEPT !.ping = ping]
  <2>1. g = [NoEffect EXCEPT !.ses.ping = IF KeepAlive THEN "ping" ELSE @,
                             !.read = TRUE]
    BY <1>6 DEF OnWritten
  <2>2. /\ g.ses = s /\ g.posts = <<>> /\ g.read = TRUE /\ g.event = "none"
        /\ e.ses = g.ses /\ e.conn = c /\ e.posts = g.posts
        /\ e.read = g.read /\ e.event = g.event
    BY <2>1 DEF NoEffect
  <2>3. KeepAlive => ping = "ping" OBVIOUS
  <2> HIDE DEF ping
  <2>4. /\ s.closed = ses.closed /\ s.pub = ses.pub
        /\ s.rec = ses.rec /\ s.ping = ping
    BY <1>1 DEF Sessions
  <2>5. item # NoItem BY <1>6 DEF RunWritten, TakenOver
  <2> HIDE DEF g, e, s, c
  <2> QED BY <1>1, <1>5, <1>6, <2>2, <2>3, <2>4, <2>5
<1>7. ASSUME RunWritten, item.type \notin {"CONNECT", "DISCONNECT"}, NEW s,
             s.closed = ses.closed, ~Granted => s.pub = {} /\ s.rec = {},
             \/ s.ping = ses.ping /\ item.type # "PINGREQ"
             \/ s.ping = "pong",
             g.ses = s, g.posts = <<>>, g.read = FALSE, g.event = "none",
             e.ses = g.ses, e.conn = c, e.posts = g.posts,
             e.read = g.read, e.event = g.event
      PROVE  FirstInv'
  <2>1. item # NoItem BY <1>7 DEF RunWritten, TakenOver
  <2> HIDE DEF g, e, c
  <2> QED BY <1>5, <1>7, <2>1
<1>8. CASE RunWritten /\ item.type = "PUBLISH" /\ item.pid = 0
  <2>1. g = Tells({ToldPub(item.call, TRUE)}) BY <1>8 DEF OnWritten
  <2>2. /\ g.ses = ses /\ g.posts = <<>> /\ g.read = FALSE /\ g.event = "none"
        /\ e.ses = g.ses /\ e.conn = c /\ e.posts = g.posts
        /\ e.read = g.read /\ e.event = g.event
    BY <2>1 DEF Tells, NoEffect
  <2> HIDE DEF g, e, c
  <2> QED BY <1>1, <1>7, <1>8, <2>2
<1>9. CASE RunWritten /\ item.type = "PUBLISH" /\ item.pid # 0
  <2> DEFINE s == [ses EXCEPT !.pub = Armed(ses.pub, item.pid)]
  <2>1. g = [NoEffect EXCEPT !.ses.pub = Armed(@, item.pid)]
    BY <1>9 DEF OnWritten
  <2>2. /\ g.ses = s /\ g.posts = <<>> /\ g.read = FALSE /\ g.event = "none"
        /\ e.ses = g.ses /\ e.conn = c /\ e.posts = g.posts
        /\ e.read = g.read /\ e.event = g.event
    BY <2>1 DEF NoEffect
  <2>3. ses.pub = {} => Armed(ses.pub, item.pid) = {} BY DEF Armed
  <2>4. /\ s.closed = ses.closed /\ s.ping = ses.ping /\ s.rec = ses.rec
        /\ s.pub = Armed(ses.pub, item.pid)
    BY <1>1 DEF Sessions
  <2> HIDE DEF g, e, s, c
  <2> QED BY <1>1, <1>7, <1>9, <2>2, <2>3, <2>4
<1>10. CASE RunWritten /\ item.type = "PUBREL"
  <2> DEFINE s == [ses EXCEPT !.rec = Armed(ses.rec, item.pid)]
  <2>1. g = [NoEffect EXCEPT !.ses.rec = Armed(@, item.pid)]
    BY <1>10 DEF OnWritten
  <2>2. /\ g.ses = s /\ g.posts = <<>> /\ g.read = FALSE /\ g.event = "none"
        /\ e.ses = g.ses /\ e.conn = c /\ e.posts = g.posts
        /\ e.read = g.read /\ e.event = g.event
    BY <2>1 DEF NoEffect
  <2>3. ses.rec = {} => Armed(ses.rec, item.pid) = {} BY DEF Armed
  <2>4. /\ s.closed = ses.closed /\ s.ping = ses.ping /\ s.pub = ses.pub
        /\ s.rec = Armed(ses.rec, item.pid)
    BY <1>1 DEF Sessions
  <2> HIDE DEF g, e, s, c
  <2> QED BY <1>1, <1>7, <1>10, <2>2, <2>3, <2>4
<1>11. CASE RunWritten /\ item.type = "SUBSCRIBE"
  <2> DEFINE told == {ToldSub(x.call, TRUE) :
                         x \in {y \in ses.sub : y.pid = item.pid}}
  <2>1. g = Tells(told) BY <1>11 DEF OnWritten
  <2>2. /\ g.ses = ses /\ g.posts = <<>> /\ g.read = FALSE /\ g.event = "none"
        /\ e.ses = g.ses /\ e.conn = c /\ e.posts = g.posts
        /\ e.read = g.read /\ e.event = g.event
    BY <2>1 DEF Tells, NoEffect
  <2> HIDE DEF g, e, c
  <2> QED BY <1>1, <1>7, <1>11, <2>2
<1>12. CASE RunWritten /\ item.type = "PINGREQ"
  <2> DEFINE s == [ses EXCEPT !.ping = "pong"]
  <2>1. g = AwaitPong BY <1>12 DEF OnWritten
  <2>2. /\ g.ses = s /\ g.posts = <<>> /\ g.read = FALSE /\ g.event = "none"
        /\ e.ses = g.ses /\ e.conn = c /\ e.posts = g.posts
        /\ e.read = g.read /\ e.event = g.event
    BY <2>1 DEF AwaitPong, NoEffect
  <2>3. /\ s.closed = ses.closed /\ s.ping = "pong" /\ s.pub = ses.pub
        /\ s.rec = ses.rec
    BY <1>1 DEF Sessions
  <2> HIDE DEF g, e, s, c
  <2> QED BY <1>1, <1>7, <1>12, <2>2, <2>3
<1>13. CASE RunWritten
            /\ item.type \notin {"CONNECT", "PUBLISH", "PUBREL", "SUBSCRIBE",
                                 "PINGREQ", "DISCONNECT"}
  <2>1. g = NoEffect BY <1>13 DEF OnWritten
  <2>2. /\ g.ses = ses /\ g.posts = <<>> /\ g.read = FALSE /\ g.event = "none"
        /\ e.ses = g.ses /\ e.conn = c /\ e.posts = g.posts
        /\ e.read = g.read /\ e.event = g.event
    BY <2>1 DEF NoEffect
  <2> HIDE DEF g, e, c
  <2> QED BY <1>1, <1>7, <1>13, <2>2
<1> QED BY <1>3, <1>4, <1>6, <1>8, <1>9, <1>10, <1>11, <1>12, <1>13

\* The keep-alive timer ran out: a PINGREQ is posted, or its answer is late.
LEMMA DueFirst ==
    ASSUME CInv, FirstInv, UNCHANGED setup, RunPingDue \/ RunPongDue
    PROVE  FirstInv'
<1>1. /\ Typed /\ ses \in Sessions /\ conn \in Conns /\ loop \in Seq(Handlers)
      /\ (~Granted => ses.pub = {} /\ ses.rec = {})
  BY DEF CInv, Typed, FirstInv, Unpublished
<1>2. CASE RunPingDue
  <2> DEFINE f == Plain("PINGREQ")
             e == [NoEffect EXCEPT !.posts = <<Send(f)>>]
  <2>1. Running("pingDue") /\ Do(e, Tail(loop)) /\ UNCHANGED Aside
    BY <1>2 DEF RunPingDue, Handle
  <2>2. /\ e.ses = ses /\ e.conn = conn /\ e.posts = <<Send(f)>>
        /\ e.event = "none" /\ e.read = FALSE
    BY DEF NoEffect
  <2>3. f \in Frames BY PlainFacts DEF FrameTypes
  <2>4. f.type = "PINGREQ" /\ f.type \notin Flow BY DEF Plain, Frame, Flow
  <2>5. Send(f).kind = "enqueue" /\ Send(f).arg = f /\ Send(f) \in Handlers
    BY <2>3 DEF Send, Handler, Handlers
  <2>6. Send(f) \in Elements(e.posts) BY <2>2, <2>5, OneElement
  <2>7. Pinged(e.ses, e.conn, Elements(Tail(loop)) \cup Elements(e.posts))
    BY <2>5, <2>6 DEF Pinged
  <2> HIDE DEF e, f
  <2>8. Modest(e) BY <1>1, <2>2, <2>3, <2>4, AloneModest
  <2>9. Minds(e, Tail(loop)) BY <2>7 DEF Minds
  <2> QED BY <2>1, <2>8, <2>9, HandleFirst
<1>3. CASE RunPongDue
  <2> DEFINE e == NotifyClosedOnce(ses)
  <2>1. Running("pongDue") /\ Do(e, Tail(loop)) /\ UNCHANGED Aside
    BY <1>3 DEF RunPongDue, Handle
  <2>2. e.read = FALSE BY DEF NotifyClosedOnce, NoEffect
  <2>3. CASE ses.closed
    <3>1. e = [NoEffect EXCEPT !.ses = ses] BY <2>3 DEF NotifyClosedOnce
    <3>2. /\ e.ses = ses /\ e.conn = conn /\ e.posts = <<>>
          /\ e.event = "none" /\ e.read = FALSE
      BY <3>1 DEF NoEffect
    <3> HIDE DEF e
    <3>3. Modest(e) BY <1>1, <3>2, AloneModest
    <3>4. Minds(e, Tail(loop)) BY <2>3, <3>2, OverMinds
    <3> QED BY <2>1, <3>3, <3>4, HandleFirst
  <2>4. CASE ~ses.closed
    <3>1. Calm(e, ses, conn) /\ e.conn = Close(conn) BY <2>4, NotifyCalm
    <3> HIDE DEF e
    <3> QED BY <2>1, <2>2, <3>1, FailsFirst
  <2> QED BY <2>3, <2>4
<1> QED BY <1>2, <1>3

\* A retry timer ran out, which was started by a publish of this session.
LEMMA RetryFirst ==
    ASSUME CInv, FirstInv, UNCHANGED setup, RunPubRetry \/ RunRecRetry
    PROVE  FirstInv'
<1>1. /\ Typed /\ ses \in Sessions /\ conn \in Conns
      /\ (~Granted => ses.pub = {} /\ ses.rec = {})
      /\ ses.pub \subseteq PubEntries /\ ses.rec \subseteq RecEntries
  BY DEF CInv, Typed, FirstInv, Unpublished, Sessions
<1>2. ASSUME NEW kind \in {"pubRetry", "recRetry"}, Running(kind),
             Handle(NoEffect)
      PROVE  FirstInv'
  <2>1. Do(NoEffect, Tail(loop)) /\ UNCHANGED Aside BY <1>2 DEF Handle
  <2> QED BY <1>1, <1>2, <2>1, NoEffectFields, NoEffectEvent, AloneFirst
\* The frame of an entry is sent again.
<1>3. ASSUME NEW kind \in {"pubRetry", "recRetry"}, Running(kind),
             NEW entries \in {ses.pub, ses.rec},
             NEW type \in {"PUBLISH", "PUBREL"},
             NEW frames,
             frames = {Frame(type, Arg, x.call) :
                          x \in {y \in entries : y.pid = Arg}},
             frames # {}, NEW s, s.closed = ses.closed, s.ping = ses.ping,
             NEW e, e.ses = s, e.conn = conn,
             e.posts = <<Send(CHOOSE f \in frames : TRUE)>>,
             e.event = "none", e.read = FALSE, Handle(e)
      PROVE  FirstInv'
  <2> DEFINE sf == CHOOSE f \in frames : TRUE
  <2>1. sf \in frames BY <1>3
  <2>2. PICK x \in entries : sf = Frame(type, Arg, x.call) BY <1>3, <2>1
  <2>3. Granted BY <1>1, <1>3
  <2>4. sf \in Frames /\ sf.type = type
    <3>1. x.call \in Nat
      BY <1>1, <1>3 DEF PubEntries, RecEntries, PubCalls
    <3>2. Arg \in 0 .. MaxId BY <1>1, <1>3, HeadTyped, MaxIdAssumption DEF Ids
    <3>3. type \in FrameTypes BY <1>3 DEF FrameTypes
    <3> HIDE DEF sf
    <3> QED BY <2>2, <3>1, <3>2, <3>3, SendFacts
  <2>5. Do(e, Tail(loop)) /\ UNCHANGED Aside BY <1>3 DEF Handle
  <2>6. e.posts = <<Send(sf)>> BY <1>3
  <2> HIDE DEF sf
  <2> QED BY <1>3, <2>3, <2>4, <2>5, <2>6, AloneFirst
<1>4. CASE RunPubRetry
  <2> DEFINE mine == {x \in ses.pub : x.pid = Arg}
             frames == {Frame("PUBLISH", Arg, x.call) : x \in mine}
  <2>1. Running("pubRetry") BY <1>4 DEF RunPubRetry
  <2>2. CASE mine = {}
    <3>1. Handle(NoEffect) BY <1>4, <2>2 DEF RunPubRetry
    <3> QED BY <1>2, <2>1, <3>1
  <2>3. CASE mine # {} /\ \E x \in mine : Spent(x)
    <3> DEFINE e == FailItems(ses, conn, frames, FALSE)
    <3>1. Do(e, Tail(loop)) /\ UNCHANGED Aside
      BY <1>4, <2>3 DEF RunPubRetry, Handle
    <3>2. Calm(e, ses, conn) BY <1>1, FailItemsCalm
    <3>3. e.read = FALSE BY DEF FailItems, NoEffect
    <3> HIDE DEF e
    <3>4. Shut BY DEF FirstInv
    <3>5. Modest(e) /\ Minds(e, Tail(loop))
      BY <1>1, <2>1, <3>2, <3>3, <3>4, CalmFirst DEF Shut, Running
    <3> QED BY <2>1, <3>1, <3>5, HandleFirst
  <2>4. CASE mine # {} /\ ~\E x \in mine : Spent(x)
    <3> DEFINE pub == (ses.pub \ mine) \cup {Again(x) : x \in mine}
               s == [ses EXCEPT !.pub = pub]
               sf == CHOOSE f \in frames : TRUE
               e == [NoEffect EXCEPT
                        !.ses.pub = (@ \ mine) \cup {Again(x) : x \in mine},
                        !.posts = <<Send(sf)>>]
    <3>1. Handle(e) BY <1>4, <2>4 DEF RunPubRetry
    <3>2. frames # {} BY <2>4
    <3> HIDE DEF sf
    <3>3. /\ e.ses = s /\ e.conn = conn /\ e.posts = <<Send(sf)>>
          /\ e.event = "none" /\ e.read = FALSE
      BY DEF NoEffect
    <3> HIDE DEF pub
    <3>4. s.closed = ses.closed /\ s.ping = ses.ping BY <1>1 DEF Sessions
    <3> HIDE DEF e, s
    <3>5. e.posts = <<Send(CHOOSE f \in frames : TRUE)>> BY <3>3 DEF sf
    <3> QED BY <1>3, <2>1, <3>1, <3>2, <3>3, <3>4, <3>5
  <2> QED BY <2>2, <2>3, <2>4
<1>5. CASE RunRecRetry
  <2> DEFINE mine == {x \in ses.rec : x.pid = Arg}
             frames == {Frame("PUBREL", Arg, x.call) : x \in mine}
  <2>1. Running("recRetry") BY <1>5 DEF RunRecRetry
  <2>2. CASE mine = {}
    <3>1. Handle(NoEffect) BY <1>5, <2>2 DEF RunRecRetry
    <3> QED BY <1>2, <2>1, <3>1
  <2>3. CASE mine # {} /\ \E x \in mine : Spent(x)
    <3> DEFINE e == NotifyClosedOnce(ses)
    <3>1. Do(e, Tail(loop)) /\ UNCHANGED Aside
      BY <1>5, <2>3 DEF RunRecRetry, Handle
    <3>2. e.read = FALSE BY DEF NotifyClosedOnce, NoEffect
    <3> QED BY <2>1, <3>1, <3>2, NotifyFirst
  <2>4. CASE mine # {} /\ ~\E x \in mine : Spent(x)
    <3> DEFINE rec == (ses.rec \ mine) \cup {Again(x) : x \in mine}
               s == [ses EXCEPT !.rec = rec]
               sf == CHOOSE f \in frames : TRUE
               e == [NoEffect EXCEPT
                        !.ses.rec = (@ \ mine) \cup {Again(x) : x \in mine},
                        !.posts = <<Send(sf)>>]
    <3>1. Handle(e) BY <1>5, <2>4 DEF RunRecRetry
    <3>2. frames # {} BY <2>4
    <3> HIDE DEF sf
    <3>3. /\ e.ses = s /\ e.conn = conn /\ e.posts = <<Send(sf)>>
          /\ e.event = "none" /\ e.read = FALSE
      BY DEF NoEffect
    <3> HIDE DEF rec
    <3>4. s.closed = ses.closed /\ s.ping = ses.ping BY <1>1 DEF Sessions
    <3> HIDE DEF e, s
    <3>5. e.posts = <<Send(CHOOSE f \in frames : TRUE)>> BY <3>3 DEF sf
    <3> QED BY <1>3, <2>1, <3>1, <3>2, <3>3, <3>4, <3>5
  <2> QED BY <2>2, <2>3, <2>4
<1> QED BY <1>4, <1>5

-----------------------------------------------------------------------------
(* The packets *)

\* Whoever handles a packet has read it.
LEMMA PacketRead == ASSUME CInv, Running("packet") PROVE CanRead
<1>1. loop # <<>> /\ loop \in Seq(Handlers) /\ Head(loop) \in Handlers
      /\ Head(loop).kind = "packet"
  BY HeadTyped DEF CInv, Typed
<1>2. Head(loop) \in Elements(loop) BY <1>1, TailOrder
<1> QED BY <1>1, <1>2 DEF CanRead, Misses, Reads

\* Most packets leave the connection alone.
LEMMA PlainPacket ==
    ASSUME CInv, FirstInv, UNCHANGED setup, Running("packet"), NEW e, Handle(e),
           e.conn = conn, e.read = TRUE, e.event = "none",
           \/ e.posts = <<>>
           \/ \E f \in Frames : /\ e.posts = <<Send(f)>> /\ f.type # "CONNECT"
                                /\ f.type \in Flow => Granted,
           ~Granted => e.ses.pub = {} /\ e.ses.rec = {},
           e.ses.closed = ses.closed,
           e.ses.ping = ses.ping \/ e.ses.ping # "off"
    PROVE  FirstInv'
<1>1. Do(e, Tail(loop)) /\ UNCHANGED Aside /\ CanRead
  BY PacketRead DEF Handle
<1> QED BY <1>1, AloneFirst

\* A SUBACK, and a PUBLISH of an unknown qos, may end the session.
LEMMA EndingPacket ==
    ASSUME CInv, FirstInv, UNCHANGED setup, Running("packet"), NEW s,
           s.pub = ses.pub, s.rec = ses.rec, s.closed = ses.closed,
           s.ping = ses.ping,
           Handle([NotifyClosedOnce(s) EXCEPT !.read = TRUE])
    PROVE  FirstInv'
<1> DEFINE f == NotifyClosedOnce(s)
           e == [f EXCEPT !.read = TRUE]
<1>1. Do(e, Tail(loop)) /\ UNCHANGED Aside /\ CanRead
  BY PacketRead DEF Handle
<1>2. /\ e.ses = f.ses /\ e.conn = f.conn /\ e.posts = f.posts /\ e.read = TRUE
  BY ReadFields
<1>3. Calm(f, s, conn) /\ e.event = f.event BY NotifyCalm
<1>4. conn \in Conns /\ Shut BY DEF CInv, Typed, FirstInv
<1> HIDE DEF e, f
<1>5. Modest(e) /\ Minds(e, Tail(loop))
  BY <1>1, <1>2, <1>3, <1>4, CalmFirst DEF Shut, Running
<1> QED BY <1>1, <1>5, HandleFirst

LEMMA SubackFirst ==
    ASSUME CInv, FirstInv, UNCHANGED setup, Running("packet"), NEW pid, NEW how,
           Handle([OnSuback(pid, how) EXCEPT !.read = TRUE])
    PROVE  FirstInv'
<1> DEFINE s == [ses EXCEPT !.sub = Without(@, pid)]
           told(ok) == {ToldSub(n, ok) : n \in CallsOf(ses.sub, pid)}
<1>1. /\ ses \in Sessions /\ (~Granted => ses.pub = {} /\ ses.rec = {})
  BY DEF CInv, Typed, FirstInv, Unpublished
<1>2. /\ s.pub = ses.pub /\ s.rec = ses.rec /\ s.closed = ses.closed
      /\ s.ping = ses.ping
  BY <1>1 DEF Sessions
<1>3. CASE s = ses
  <2> DEFINE e == [NoEffect EXCEPT !.read = TRUE]
  <2>1. OnSuback(pid, how) = NoEffect BY <1>3 DEF OnSuback
  <2>2. Handle(e) BY <2>1
  <2>3. /\ e.ses = ses /\ e.conn = conn /\ e.posts = <<>> /\ e.read = TRUE
        /\ e.event = "none"
    BY DEF NoEffect
  <2> HIDE DEF e
  <2> QED BY <1>1, <2>2, <2>3, PlainPacket
<1>4. CASE s # ses /\ how = "short"
  <2>1. OnSuback(pid, how) = NotifyClosedOnce(s) BY <1>4 DEF OnSuback
  <2>2. Handle([NotifyClosedOnce(s) EXCEPT !.read = TRUE]) BY <2>1
  <2> HIDE DEF s
  <2> QED BY <1>2, <2>2, EndingPacket
<1>5. CASE s # ses /\ how # "short"
  <2> DEFINE heard == told(how = "granted")
             e == [NoEffect EXCEPT !.ses = s, !.told = heard, !.read = TRUE]
  <2>1. OnSuback(pid, how) = [NoEffect EXCEPT !.ses = s, !.told = heard]
    BY <1>5 DEF OnSuback
  <2>2. [[NoEffect EXCEPT !.ses = s, !.told = heard] EXCEPT !.read = TRUE] = e
    BY DEF NoEffect
  <2>3. Handle(e) BY <2>1, <2>2
  <2> HIDE DEF heard, s
  <2>4. /\ e.ses = s /\ e.conn = conn /\ e.posts = <<>>
        /\ e.read = TRUE /\ e.event = "none"
    BY DEF NoEffect
  <2> HIDE DEF e
  <2> QED BY <1>1, <1>2, <2>3, <2>4, PlainPacket
<1> QED BY <1>3, <1>4, <1>5

\* The PUBREL goes out in a session that sent the PUBLISH.
LEMMA PubrecFirst ==
    ASSUME CInv, FirstInv, UNCHANGED setup, Running("packet"), NEW pid,
           Handle([OnPubrec(pid) EXCEPT !.read = TRUE])
    PROVE  FirstInv'
<1>1. /\ ses \in Sessions /\ ses.pub \in SUBSET PubEntries
      /\ (~Granted => ses.pub = {} /\ ses.rec = {})
  BY DEF CInv, Typed, FirstInv, Unpublished, Sessions
<1>2. CASE CallsOf(ses.pub, pid) = {}
  <2> DEFINE e == [NoEffect EXCEPT !.read = TRUE]
  <2>1. Handle(e) BY <1>2 DEF OnPubrec
  <2>2. /\ e.ses = ses /\ e.conn = conn /\ e.posts = <<>> /\ e.read = TRUE
        /\ e.event = "none"
    BY DEF NoEffect
  <2> HIDE DEF e
  <2> QED BY <1>1, <2>1, <2>2, PlainPacket
<1>3. CASE CallsOf(ses.pub, pid) # {}
  <2> DEFINE n == CHOOSE x \in CallsOf(ses.pub, pid) : TRUE
             mine == {x \in ses.pub : x.pid = pid}
             pub == (ses.pub \ mine)
                    \cup {[x EXCEPT !.armed = FALSE] : x \in mine}
             rec == Without(ses.rec, pid) \cup {PubrelEntry(pid, n)}
             f == Frame("PUBREL", pid, n)
             s == [ses EXCEPT !.pub = pub, !.rec = rec]
             g == [NoEffect EXCEPT !.ses.pub =
                                      (@ \ mine) \cup
                                      {[x EXCEPT !.armed = FALSE] : x \in mine},
                                   !.ses.rec = Without(@, pid)
                                               \cup {PubrelEntry(pid, n)},
                                   !.posts = <<Send(f)>>]
             e == [g EXCEPT !.read = TRUE]
  <2>1. OnPubrec(pid) = g BY <1>3 DEF OnPubrec
  <2>2. Handle(e) BY <2>1
  <2>3. n \in CallsOf(ses.pub, pid) BY <1>3
  <2>4. PICK y \in ses.pub : y.pid = pid /\ y.call = n BY <2>3 DEF CallsOf
  <2>5. Granted BY <1>1, <2>4
  <2>6. f \in Frames /\ f.type = "PUBREL"
    <3> HIDE DEF n
    <3>1. n \in PubCalls /\ pid \in Ids BY <1>1, <2>4 DEF PubEntries
    <3>2. n \in Nat /\ pid \in 0 .. MaxId
      BY <3>1, MaxIdAssumption DEF PubCalls, Ids
    <3>3. "PUBREL" \in FrameTypes BY DEF FrameTypes
    <3> QED BY <3>2, <3>3, SendFacts
  <2> HIDE DEF n, mine, f
  <2>7. /\ e.ses = s /\ e.conn = conn /\ e.posts = <<Send(f)>>
        /\ e.read = TRUE /\ e.event = "none"
    BY DEF NoEffect
  <2> HIDE DEF e, g, pub, rec
  <2>8. s.closed = ses.closed /\ s.ping = ses.ping BY <1>1 DEF Sessions
  <2> HIDE DEF s
  <2> QED BY <2>2, <2>5, <2>6, <2>7, <2>8, PlainPacket
<1> QED BY <1>2, <1>3

\* The PUBACK and the PUBCOMP: entries only go.
LEMMA AcknowledgedFirst ==
    ASSUME CInv, FirstInv, UNCHANGED setup, Running("packet"), NEW pid,
           \/ Handle([OnPuback(pid) EXCEPT !.read = TRUE])
           \/ Handle([OnPubcomp(pid) EXCEPT !.read = TRUE])
    PROVE  FirstInv'
<1> DEFINE pub == Without(ses.pub, pid)
           rec == Without(ses.rec, pid)
           told == {ToldPub(n, TRUE) : n \in CallsOf(ses.pub, pid)}
<1>1. /\ ses \in Sessions /\ (~Granted => ses.pub = {} /\ ses.rec = {})
  BY DEF CInv, Typed, FirstInv, Unpublished
<1>2. pub \subseteq ses.pub /\ rec \subseteq ses.rec BY DEF Without
<1>3. CASE Handle([OnPuback(pid) EXCEPT !.read = TRUE])
  <2> DEFINE s == [ses EXCEPT !.pub = pub]
             e == [[NoEffect EXCEPT !.ses.pub = Without(@, pid), !.told = told]
                      EXCEPT !.read = TRUE]
  <2>1. Handle(e) BY <1>3 DEF OnPuback
  <2> HIDE DEF told
  <2>2. /\ e.ses = s /\ e.conn = conn /\ e.posts = <<>> /\ e.read = TRUE
        /\ e.event = "none"
    BY DEF NoEffect
  <2> HIDE DEF e, pub
  <2>3. /\ s.closed = ses.closed /\ s.ping = ses.ping /\ s.pub = pub
        /\ s.rec = ses.rec
    BY <1>1 DEF Sessions
  <2> HIDE DEF s
  <2> QED BY <1>1, <1>2, <2>1, <2>2, <2>3, PlainPacket
<1>4. CASE Handle([OnPubcomp(pid) EXCEPT !.read = TRUE])
  <2> DEFINE s == [ses EXCEPT !.rec = rec, !.pub = pub]
             e == [[NoEffect EXCEPT !.ses.rec = Without(@, pid),
                                    !.ses.pub = Without(@, pid), !.told = told]
                      EXCEPT !.read = TRUE]
  <2>1. Handle(e) BY <1>4 DEF OnPubcomp
  <2> HIDE DEF told
  <2>2. /\ e.ses = s /\ e.conn = conn /\ e.posts = <<>> /\ e.read = TRUE
        /\ e.event = "none"
    BY DEF NoEffect
  <2> HIDE DEF e, pub, rec
  <2>3. /\ s.closed = ses.closed /\ s.ping = ses.ping /\ s.pub = pub
        /\ s.rec = rec
    BY <1>1 DEF Sessions
  <2> HIDE DEF s
  <2> QED BY <1>1, <1>2, <2>1, <2>2, <2>3, PlainPacket
<1> QED BY <1>3, <1>4

\* A packet that is answered at most.
LEMMA AnsweredFirst ==
    ASSUME CInv, FirstInv, UNCHANGED setup, Running("packet"),
           \/ Handle([NoEffect EXCEPT !.read = TRUE])
           \/ \E type \in {"PUBACK", "PUBREC", "PUBCOMP"} :
                 Handle([[NoEffect EXCEPT !.posts = <<Send(Plain(type))>>]
                            EXCEPT !.read = TRUE])
    PROVE  FirstInv'
<1>1. ~Granted => ses.pub = {} /\ ses.rec = {} BY DEF FirstInv, Unpublished
<1>2. CASE Handle([NoEffect EXCEPT !.read = TRUE])
  <2> DEFINE e == [NoEffect EXCEPT !.read = TRUE]
  <2>1. Handle(e) BY <1>2
  <2>2. /\ e.ses = ses /\ e.conn = conn /\ e.posts = <<>> /\ e.read = TRUE
        /\ e.event = "none"
    BY DEF NoEffect
  <2> HIDE DEF e
  <2> QED BY <1>1, <2>1, <2>2, PlainPacket
<1>3. ASSUME NEW type \in {"PUBACK", "PUBREC", "PUBCOMP"},
             Handle([[NoEffect EXCEPT !.posts = <<Send(Plain(type))>>]
                        EXCEPT !.read = TRUE])
      PROVE  FirstInv'
  <2> DEFINE f == Plain(type)
             e == [[NoEffect EXCEPT !.posts = <<Send(f)>>] EXCEPT !.read = TRUE]
  <2>1. Handle(e) BY <1>3
  <2>2. f \in Frames BY PlainFacts DEF FrameTypes
  <2>3. f.type # "CONNECT" /\ f.type \notin Flow BY DEF Plain, Frame, Flow
  <2> HIDE DEF f
  <2>4. /\ e.ses = ses /\ e.conn = conn /\ e.posts = <<Send(f)>>
        /\ e.read = TRUE /\ e.event = "none"
    BY DEF NoEffect
  <2> HIDE DEF e
  <2> QED BY <1>1, <2>1, <2>2, <2>3, <2>4, PlainPacket
<1> QED BY <1>2, <1>3

LEMMA PingrespFirst ==
    ASSUME CInv, FirstInv, UNCHANGED setup, Running("packet"),
           Handle([[NoEffect EXCEPT
                       !.ses.ping = IF KeepAlive THEN "ping" ELSE "off"]
                      EXCEPT !.read = TRUE])
    PROVE  FirstInv'
<1> DEFINE ping == IF KeepAlive THEN "ping" ELSE "off"
           s == [ses EXCEPT !.ping = ping]
           e == [[NoEffect EXCEPT
                     !.ses.ping = IF KeepAlive THEN "ping" ELSE "off"]
                    EXCEPT !.read = TRUE]
<1>1. /\ ses \in Sessions /\ (~Granted => ses.pub = {} /\ ses.rec = {})
  BY DEF CInv, Typed, FirstInv, Unpublished
<1>2. Do(e, Tail(loop)) /\ UNCHANGED Aside /\ CanRead
  BY PacketRead DEF Handle
<1>3. /\ e.ses = s /\ e.conn = conn /\ e.posts = <<>> /\ e.read = TRUE
      /\ e.event = "none"
  BY DEF NoEffect
<1>4. KeepAlive => ping = "ping" OBVIOUS
<1> HIDE DEF e, ping
<1>5. /\ s.closed = ses.closed /\ s.ping = ping /\ s.pub = ses.pub
      /\ s.rec = ses.rec
  BY <1>1 DEF Sessions
<1> HIDE DEF s
<1>6. Modest(e) BY <1>1, <1>2, <1>3, <1>5, AloneModest
<1>7. Minds(e, Tail(loop)) BY <1>3, <1>4, <1>5 DEF Minds, Pinged
<1> QED BY <1>2, <1>6, <1>7, HandleFirst

\* A refused CONNACK.
LEMMA RefusedFirst ==
    ASSUME CInv, FirstInv, UNCHANGED setup, Running("packet"),
           Handle([Abandon([ses EXCEPT !.connTimer = FALSE])
                      EXCEPT !.read = TRUE])
    PROVE  FirstInv'
<1> DEFINE s == [ses EXCEPT !.connTimer = FALSE]
           f == Abandon(s)
           e == [f EXCEPT !.read = TRUE]
<1>1. ses \in Sessions /\ conn \in Conns /\ Shut BY DEF CInv, Typed, FirstInv
<1>2. /\ s \in Sessions /\ s.pub = ses.pub /\ s.rec = ses.rec
  BY <1>1 DEF Sessions
<1>3. Do(e, Tail(loop)) /\ UNCHANGED Aside /\ CanRead
  BY PacketRead DEF Handle
<1> HIDE DEF s
<1>4. /\ e.ses = f.ses /\ e.conn = f.conn /\ e.posts = f.posts /\ e.read = TRUE
  BY ReadFields
<1>5. Calm(f, s, conn) /\ f.conn = Close(conn) /\ e.event = f.event
  BY <1>2, AbandonCalm
<1> HIDE DEF e, f
<1>6. Modest(e) /\ Minds(e, Tail(loop))
  BY <1>1, <1>2, <1>3, <1>4, <1>5, CalmFirst DEF Shut
<1> QED BY <1>3, <1>6, HandleFirst

\* The granted CONNACK ends the handshake of a socket that is open.
LEMMA GrantedFirst ==
    ASSUME CInv, FirstInv, UNCHANGED setup, Running("packet"),
           Handle([[NoEffect EXCEPT
                       !.ses = [[ses EXCEPT !.connTimer = FALSE]
                                   EXCEPT !.closed = FALSE],
                       !.conn = [conn EXCEPT !.state = "connected"],
                       !.event = "connected"]
                      EXCEPT !.read = TRUE])
    PROVE  FirstInv'
<1> DEFINE s == [[ses EXCEPT !.connTimer = FALSE] EXCEPT !.closed = FALSE]
           c == [conn EXCEPT !.state = "connected"]
           e == [[NoEffect EXCEPT !.ses = s, !.conn = c, !.event = "connected"]
                    EXCEPT !.read = TRUE]
<1>1. /\ Typed /\ ses \in Sessions /\ conn \in Conns /\ loop \in Seq(Handlers)
      /\ reported \in Seq(Outcomes) /\ CanRead
      /\ OneChain /\ Virgin /\ Shut /\ Over /\ FailFirst /\ Watched
  BY PacketRead DEF CInv, Typed, FirstInv
<1>2. /\ Chain' = Chain /\ Reads' = Reads /\ KeepAlive' = KeepAlive
      /\ \A kind : OfKind(kind)' = OfKind(kind)
      /\ \A types : Posts(types)' = Posts(types)
  BY SameSets DEF KeepAlive
<1>3. Do(e, Tail(loop)) /\ UNCHANGED Aside BY DEF Handle
<1>4. /\ s.closed = FALSE /\ s.ping = ses.ping
  BY <1>1 DEF Sessions
<1>5. /\ c.state = "connected" /\ c.open = conn.open /\ c.closed = conn.closed
      /\ c.queue = conn.queue /\ c.inFlight = conn.inFlight
      /\ c.writing = conn.writing /\ conn.open \in BOOLEAN
  BY <1>1 DEF Conns, Connections
<1>6. Held(c) = Held(conn) /\ Queued(c) = Queued(conn)
  BY <1>5 DEF Held, Queued
<1> HIDE DEF s, c
<1>7. /\ e.ses = s /\ e.conn = c /\ e.posts = <<>> /\ e.read = TRUE
      /\ e.flush = FALSE /\ e.event = "connected"
  BY DEF NoEffect
<1> HIDE DEF e
<1>8. /\ ses' = s /\ conn' = c /\ ops' = ops
      /\ connecting' = connecting
      /\ reported' = Append(reported, "connected")
      /\ UNCHANGED <<resolving, attempts, quit>>
  <2>1. ~(conn.open /\ ~e.conn.open) BY <1>5, <1>7
  <2>2. connecting \in BOOLEAN BY <1>1 DEF Typed
  <2> QED BY <1>3, <1>7, <2>1, <2>2 DEF Do, Record, Aside
<1>9. ~Dialing /\ attempts # 0 BY <1>1 DEF Virgin, Fresh, CanRead
<1>10. PICK more \in Seq(Handlers) :
          /\ loop' = Tail(loop) \o more
          /\ \A h \in Elements(more) : h.kind \in {"written", "read"}
  <2>1. loop # <<>> /\ Head(loop).kind = "packet" BY DEF Running
  <2>2. Tail(loop) \in Seq(Handlers) BY <1>1, <2>1, TailOrder
  <2>3. /\ e.posts \in Seq(Handlers) /\ Short(e.posts)
        /\ Misses(e.posts, Chain) /\ Elements(e.posts) = {}
    BY <1>7, NoElement DEF Short
  <2>4. PICK more \in Seq(Handlers) :
           /\ loop' = Tail(loop) \o more
           /\ \A h \in Elements(more) :
                 \/ h \in Elements(e.posts)
                 \/ h.kind = "written"
                 \/ h.kind = "read" /\ (readOp \/ e.read)
                 \/ /\ h.kind = "connected" /\ connecting
                    /\ conn.open /\ ~e.conn.open
                 \/ h.kind = "failPending" /\ e.flush /\ PostsFailure(e.conn)
    BY <1>1, <1>3, <2>2, <2>3, DoQueue
  <2> QED BY <1>5, <1>7, <2>3, <2>4
<1>11. /\ Elements(loop') = Elements(Tail(loop)) \cup Elements(more)
       /\ Elements(loop) = {Head(loop)} \cup Elements(Tail(loop))
       /\ Head(loop).kind = "packet"
  <2>1. loop # <<>> /\ Head(loop).kind = "packet" BY DEF Running
  <2>2. /\ Tail(loop) \in Seq(Handlers)
        /\ Elements(loop) = {Head(loop)} \cup Elements(Tail(loop))
    BY <1>1, <2>1, TailOrder
  <2> QED BY <1>10, <2>1, <2>2, ConcatOrder
<1>12. Misses(loop, Chain) => Misses(loop', Chain)
  BY <1>10, <1>11 DEF Misses, Chain
<1>13. Misses(loop, OfKind("failPending")) => Misses(loop', OfKind("failPending"))
  BY <1>10, <1>11 DEF Misses, OfKind
<1>14. reported' \in Seq(Outcomes) /\ Granted'
  <2>1. "connected" \in Outcomes BY DEF Outcomes
  <2>2. /\ Append(reported, "connected") \in Seq(Outcomes)
        /\ Elements(Append(reported, "connected"))
              = Elements(reported) \cup {"connected"}
    BY <1>1, <2>1, AppendOrder
  <2> QED BY <1>8, <2>2 DEF Granted
<1>15. OneChain' /\ ~Fresh'
  <2>1. /\ resolving' = 0 /\ ~connecting' /\ Misses(loop', Chain)
        /\ attempts' # 0
    BY <1>8, <1>9, <1>12 DEF Dialing
  <2>2. Once(loop', Chain) BY <2>1 DEF Misses, Once, Elements
  <2> QED BY <1>2, <2>1, <2>2 DEF OneChain, Fresh, Dialing
<1>16. Virgin' /\ Unpublished' /\ GrantedOnce'
  BY <1>5, <1>8, <1>14, <1>15 DEF Virgin, Unpublished, GrantedOnce, Fresh
<1>17. Shut' /\ Over' /\ Shaking'
  BY <1>1, <1>4, <1>5, <1>6, <1>8 DEF Shut, Over, Shaking
<1>18. FailFirst'
  <2>1. ASSUME conn.open PROVE Misses(loop', OfKind("failPending"))
    BY <1>1, <1>13, <2>1 DEF FailFirst
  <2>2. ASSUME conn.open
        PROVE  Ordered(loop', OfKind("failPending"), Posts({"CONNECT"}))
    BY <2>1, <2>2 DEF Ordered, Misses, Elements
  <2> QED BY <1>2, <1>5, <1>8, <2>1, <2>2 DEF FailFirst
<1>19. Watched'
  <2>1. ASSUME KeepAlive, ~quit, conn.open
        PROVE  Pinged(ses', conn', Elements(loop'))
    <3>1. Pinged(ses, conn, Elements(loop)) BY <1>1, <2>1 DEF Watched
    <3> QED BY <1>4, <1>5, <1>6, <1>8, <1>11, <3>1 DEF Pinged
  <2> QED BY <1>2, <1>5, <1>8, <2>1 DEF Watched
<1> QED BY <1>14, <1>15, <1>16, <1>17, <1>18, <1>19 DEF FirstInv

LEMMA PacketFirst ==
    ASSUME CInv, FirstInv, UNCHANGED setup, RunPacket PROVE FirstInv'
<1> DEFINE p == Arg
<1>1. Running("packet") /\ Handle([OnPacket(p) EXCEPT !.read = TRUE])
  BY DEF RunPacket
<1>2. p \in Packets
  <2>1. Typed BY DEF CInv
  <2> QED BY <1>1, <2>1, HeadTyped DEF RunPacket
<1> HIDE DEF p
<1>3. CASE p.type = "CONNACK"
  <2>1. OnPacket(p) = OnConnack(p.how) BY <1>3 DEF OnPacket
  <2>2. CASE p.how = "granted"
    <3>1. OnConnack(p.how) =
             [NoEffect EXCEPT
                 !.ses = [[ses EXCEPT !.connTimer = FALSE]
                             EXCEPT !.closed = FALSE],
                 !.conn = [conn EXCEPT !.state = "connected"],
                 !.event = "connected"]
      BY <2>2 DEF OnConnack
    <3> QED BY <1>1, <2>1, <3>1, GrantedFirst
  <2>3. CASE p.how # "granted"
    <3>1. OnConnack(p.how) = Abandon([ses EXCEPT !.connTimer = FALSE])
      BY <2>3 DEF OnConnack
    <3> QED BY <1>1, <2>1, <3>1, RefusedFirst
  <2> QED BY <2>2, <2>3
<1>4. CASE p.type = "PUBLISH"
  <2>1. OnPacket(p) = OnPublish(p.how) BY <1>4 DEF OnPacket
  <2>2. CASE p.how = 0
    <3>1. OnPublish(p.how) = NoEffect BY <2>2 DEF OnPublish
    <3> QED BY <1>1, <2>1, <3>1, AnsweredFirst
  <2>3. CASE p.how = 1
    <3>1. OnPublish(p.how) = [NoEffect EXCEPT !.posts = <<Send(Plain("PUBACK"))>>]
      BY <2>3 DEF OnPublish
    <3> QED BY <1>1, <2>1, <3>1, AnsweredFirst
  <2>4. CASE p.how = 2
    <3>1. OnPublish(p.how) = [NoEffect EXCEPT !.posts = <<Send(Plain("PUBREC"))>>]
      BY <2>4 DEF OnPublish
    <3> QED BY <1>1, <2>1, <3>1, AnsweredFirst
  <2>5. CASE p.how \notin {0, 1, 2}
    <3>1. OnPublish(p.how) = NotifyClosedOnce(ses) BY <2>5 DEF OnPublish
    <3> QED BY <1>1, <2>1, <3>1, EndingPacket
  <2> QED BY <2>2, <2>3, <2>4, <2>5
<1>5. CASE p.type = "SUBACK"
  <2>1. OnPacket(p) = OnSuback(p.pid, p.how) BY <1>5 DEF OnPacket
  <2> QED BY <1>1, <2>1, SubackFirst
<1>6. CASE p.type = "PUBACK"
  <2>1. OnPacket(p) = OnPuback(p.pid) BY <1>6 DEF OnPacket
  <2> QED BY <1>1, <2>1, AcknowledgedFirst
<1>7. CASE p.type = "PUBREC"
  <2>1. OnPacket(p) = OnPubrec(p.pid) BY <1>7 DEF OnPacket
  <2> QED BY <1>1, <2>1, PubrecFirst
<1>8. CASE p.type = "PUBREL"
  <2>1. OnPacket(p) = [NoEffect EXCEPT !.posts = <<Send(Plain("PUBCOMP"))>>]
    BY <1>8 DEF OnPacket
  <2> QED BY <1>1, <2>1, AnsweredFirst
<1>9. CASE p.type = "PUBCOMP"
  <2>1. OnPacket(p) = OnPubcomp(p.pid) BY <1>9 DEF OnPacket
  <2> QED BY <1>1, <2>1, AcknowledgedFirst
<1>10. CASE p.type = "PINGRESP"
  <2>1. OnPacket(p) =
           [NoEffect EXCEPT !.ses.ping = IF KeepAlive THEN "ping" ELSE "off"]
    BY <1>10 DEF OnPacket
  <2> QED BY <1>1, <2>1, PingrespFirst
<1> QED BY <1>2, <1>3, <1>4, <1>5, <1>6, <1>7, <1>8, <1>9, <1>10 DEF Packets

LEMMA BrokenReadFirst ==
    ASSUME CInv, FirstInv, UNCHANGED setup, RunBrokenRead PROVE FirstInv'
<1> DEFINE e == NotifyClosedOnce(ses)
<1>1. Running("packet") /\ Do(e, Tail(loop)) /\ UNCHANGED Aside
  BY DEF RunBrokenRead, Handle
<1>2. e.read = FALSE BY DEF NotifyClosedOnce, NoEffect
<1> QED BY <1>1, <1>2, NotifyFirst

-----------------------------------------------------------------------------
(* The connect chain *)

\* While it is under way nothing is read, written or published.
Quiescent ==
    /\ ~readBusy /\ ~readOp /\ Misses(loop, Reads)
    /\ ~Granted
    /\ ses.pub = {} /\ ses.rec = {}
    /\ Misses(loop, Posts({"CONNECT"})) /\ Misses(loop, Posts(Flow))
    /\ None(Held(conn), {"CONNECT"}) /\ None(Held(conn), Flow)
    /\ conn.closed => Held(conn) = {}
    /\ conn.state \in {"disconnected", "connecting"}
    /\ ops = <<>>

LEMMA FreshIsQuiescent == ASSUME FirstInv, Fresh PROVE Quiescent
BY DEF FirstInv, Virgin, Unpublished, Shut, Quiescent

LEMMA QuiescentFirst ==
    ASSUME UNCHANGED setup, Quiescent', OneChain', reported' \in Seq(Outcomes),
           attempts' = 0 => ~Dialing'
    PROVE  FirstInv'
<1>1. Virgin' BY DEF Virgin, Quiescent
<1>2. Unpublished' /\ GrantedOnce'
  <2>1. None(Elements(ops'), Flow) BY DEF Quiescent, None, Elements
  <2> QED BY <2>1 DEF Unpublished, GrantedOnce, Quiescent
<1>3. ~CanRead' BY DEF CanRead, Quiescent
<1>4. Shut' /\ Over' /\ Shaking' /\ Watched'
  BY <1>3 DEF Shut, Over, Shaking, Watched, Quiescent
<1>5. FailFirst'
  <2>1. Ordered(loop', OfKind("failPending")', Posts({"CONNECT"})')
    BY DEF Quiescent, Ordered, Misses, Elements
  <2> QED BY <1>3, <2>1 DEF FailFirst, Quiescent
<1> QED BY <1>1, <1>2, <1>4, <1>5 DEF FirstInv

\* async_connect(), for the first time.
LEMMA ConnectFirst ==
    ASSUME CInv, FirstInv, UNCHANGED setup, RunConnect, attempts = 0
    PROVE  FirstInv'
<1>1. /\ Typed /\ ses \in Sessions /\ conn \in Conns /\ loop \in Seq(Handlers)
      /\ Quiescent /\ OneChain /\ ~Dialing
  <2>1. Fresh BY DEF Fresh
  <2> QED BY <2>1, FreshIsQuiescent DEF CInv, Typed, FirstInv, Virgin
<1>2. /\ Chain' = Chain /\ Reads' = Reads
      /\ \A types : Posts(types)' = Posts(types)
  BY SameSets
<1>3. /\ loop # <<>> /\ loop' = Tail(loop)
      /\ ses' = ArmConnTimer([ses EXCEPT !.closed = FALSE])
      /\ conn' = BeginConnect(conn)
      /\ resolving' = resolving + 1 /\ attempts' = attempts + 1
      /\ reported' = <<>>
      /\ UNCHANGED <<connecting, ops, readBusy, readOp>>
  BY DEF RunConnect, Running
<1>4. /\ \A S : Misses(loop, S) => Misses(loop', S)
  BY <1>1, <1>3, TailOrder
<1>5. ses'.pub = ses.pub /\ ses'.rec = ses.rec
  BY <1>1, <1>3 DEF ArmConnTimer, Sessions
<1>6. Held(conn') = Held(conn) /\ conn'.state = "connecting" /\ ~conn'.closed
  BY <1>1, <1>3 DEF BeginConnect, Held, Queued, Conns, Connections
<1>7. reported' \in Seq(Outcomes) /\ ~Granted'
  <2>1. Elements(<<>>) = {} /\ <<>> \in Seq(Outcomes) BY DEF Elements
  <2> QED BY <1>3, <2>1 DEF Granted
<1>8. Quiescent'
  BY <1>1, <1>2, <1>3, <1>4, <1>5, <1>6, <1>7 DEF Quiescent
<1>9. OneChain'
  <2>1. resolving' = 1 /\ ~connecting' /\ Misses(loop', Chain)
    BY <1>1, <1>3, <1>4 DEF Dialing
  <2>2. Once(loop', Chain) BY <2>1 DEF Once, Misses, Elements
  <2> QED BY <1>2, <2>1, <2>2 DEF OneChain
<1>10. attempts' # 0 BY <1>3
<1> QED BY <1>7, <1>8, <1>9, <1>10, QuiescentFirst

\* A handler of the chain runs: it was the only one, and nothing else was
\* under way.
LEMMA ChainRuns ==
    ASSUME CInv, FirstInv, NEW kind \in {"resolved", "connected"}, Running(kind)
    PROVE  /\ Quiescent /\ attempts # 0
           /\ resolving = 0 /\ ~connecting
           /\ Tail(loop) \in Seq(Handlers) /\ Misses(Tail(loop), Chain)
           /\ Elements(loop) = {Head(loop)} \cup Elements(Tail(loop))
           /\ \A S : Misses(loop, S) => Misses(Tail(loop), S)
<1>1. /\ loop \in Seq(Handlers) /\ loop # <<>> /\ Head(loop) \in Chain
  BY HeadTyped DEF CInv, Typed, Chain, Running
<1>2. /\ Tail(loop) \in Seq(Handlers)
      /\ Elements(loop) = {Head(loop)} \cup Elements(Tail(loop))
      /\ \A S : Misses(loop, S) => Misses(Tail(loop), S)
      /\ Once(loop, Chain) => Misses(Tail(loop), Chain)
  BY <1>1, TailOrder
<1>3. ~Misses(loop, Chain) BY <1>1, <1>2 DEF Misses
<1>4. Fresh /\ attempts # 0
  BY <1>3 DEF Fresh, Dialing, FirstInv, Virgin
<1>5. Quiescent BY <1>4, FreshIsQuiescent
<1>6. OneChain BY DEF FirstInv
<1>7. resolving = 0 /\ ~connecting /\ Misses(Tail(loop), Chain)
  BY <1>2, <1>3, <1>6 DEF OneChain
<1> QED BY <1>2, <1>4, <1>5, <1>7

\* The resolver answered: the socket is opened, and nothing is aborted for it.
LEMMA ResolvedFirst ==
    ASSUME CInv, FirstInv, UNCHANGED setup, RunResolved PROVE FirstInv'
<1>1. /\ Typed /\ conn \in Conns /\ reported \in Seq(Outcomes)
  BY DEF CInv, Typed, FirstInv
<1>2. /\ Quiescent /\ attempts # 0 /\ resolving = 0 /\ ~connecting
      /\ Tail(loop) \in Seq(Handlers) /\ Misses(Tail(loop), Chain)
      /\ \A S : Misses(loop, S) => Misses(Tail(loop), S)
  BY ChainRuns DEF RunResolved
<1>3. /\ Chain' = Chain /\ Reads' = Reads
      /\ \A types : Posts(types)' = Posts(types)
  BY SameSets
<1>4. /\ conn' = [conn EXCEPT !.open = TRUE]
      /\ connecting' = TRUE /\ ops' = <<>> /\ readOp' = FALSE
      /\ loop' = Tail(loop) \o (IF conn.open THEN Aborted ELSE <<>>)
      /\ UNCHANGED <<ses, resolving, readBusy, attempts, reported>>
  BY DEF RunResolved, calls, history
<1>5. PICK more \in Seq(Handlers) :
         /\ loop' = Tail(loop) \o more
         /\ \A h \in Elements(more) : h.kind = "written"
  <2>1. /\ Aborted \in Seq(Handlers)
        /\ \A h \in Elements(Aborted) : h.kind = "written"
    BY <1>1, <1>2, AbortedQueue DEF Quiescent
  <2>2. <<>> \in Seq(Handlers) /\ Elements(<<>>) = {} BY NoElement
  <2> QED BY <1>4, <2>1, <2>2
<1>6. \A S : Misses(loop', S) <=> Misses(Tail(loop), S) /\ Misses(more, S)
  BY <1>2, <1>5, ConcatOrder
<1>7. /\ Misses(more, Chain) /\ Misses(more, Reads)
      /\ \A types : Misses(more, Posts(types))
  BY <1>5 DEF Misses, Chain, Reads, Posts
<1>8. /\ Held(conn') = Held(conn) /\ conn'.state = conn.state
      /\ conn'.closed = conn.closed
  BY <1>1, <1>4 DEF Held, Queued, Conns, Connections
<1>9. Quiescent'
  BY <1>2, <1>3, <1>4, <1>6, <1>7, <1>8 DEF Quiescent, Granted
<1>10. OneChain'
  <2>1. Misses(loop', Chain) BY <1>2, <1>6, <1>7
  <2>2. Once(loop', Chain) BY <2>1 DEF Once, Misses, Elements
  <2> QED BY <1>2, <1>3, <1>4, <2>1, <2>2 DEF OneChain
<1> QED BY <1>1, <1>2, <1>4, <1>9, <1>10, QuiescentFirst

\* The socket is connected: the CONNECT is posted, and nothing is before it.
LEMMA ConnectedFirst ==
    ASSUME CInv, FirstInv, UNCHANGED setup, RunConnected PROVE FirstInv'
<1> DEFINE c == [conn EXCEPT !.state = IF Arg THEN "handshaking"
                                             ELSE "disconnected"]
           posts == IF Arg /\ ~ses.closed THEN <<Send(Plain("CONNECT"))>>
                                          ELSE <<>>
           e == IF ~Arg THEN ConnectFailed(c)
                ELSE IF ses.closed THEN [NoEffect EXCEPT !.conn = c]
                ELSE [NoEffect EXCEPT !.conn = c,
                                      !.posts = <<Send(Plain("CONNECT"))>>]
<1>1. /\ Typed /\ conn \in Conns /\ reported \in Seq(Outcomes)
      /\ ses.closed \in BOOLEAN /\ Arg \in BOOLEAN
  <2>1. Arg \in BOOLEAN BY HeadTyped DEF RunConnected, CInv
  <2> QED BY <2>1 DEF CInv, Typed, FirstInv, Sessions
<1>2. /\ Quiescent /\ attempts # 0 /\ resolving = 0 /\ ~connecting
      /\ Tail(loop) \in Seq(Handlers) /\ Misses(Tail(loop), Chain)
      /\ \A S : Misses(loop, S) => Misses(Tail(loop), S)
  BY ChainRuns DEF RunConnected
<1>3. /\ Chain' = Chain /\ Reads' = Reads
      /\ \A kind : OfKind(kind)' = OfKind(kind)
      /\ \A types : Posts(types)' = Posts(types)
  BY SameSets
<1>4. Do(e, Tail(loop)) /\ UNCHANGED Aside BY DEF RunConnected, Handle
<1>5. /\ c.state = (IF Arg THEN "handshaking" ELSE "disconnected")
      /\ c.open = conn.open /\ c.closed = conn.closed
      /\ Held(c) = Held(conn) /\ conn.open \in BOOLEAN
  BY <1>1 DEF Held, Queued, Conns, Connections
<1> HIDE DEF c
<1>6. /\ e.ses = ses /\ e.conn = c /\ e.posts = posts /\ e.read = FALSE
      /\ e.flush = FALSE /\ e.event \in {"none", "failed"}
  BY DEF ConnectFailed, NoEffect
<1> HIDE DEF e
<1>7. posts \in Seq(Handlers) /\ Short(posts)
      /\ \A h \in Elements(posts) : /\ h.kind = "enqueue"
                                    /\ h.arg.type = "CONNECT"
                                    /\ Arg /\ ~ses.closed
  <2> DEFINE h == Send(Plain("CONNECT"))
  <2>1. Plain("CONNECT") \in Frames /\ Plain("CONNECT").type = "CONNECT"
    BY PlainFacts DEF FrameTypes, Plain, Frame
  <2>2. h \in Handlers /\ h.kind = "enqueue" /\ h.arg.type = "CONNECT"
    BY <2>1 DEF Send, Handler, Handlers
  <2> HIDE DEF h
  <2>3. <<h>> \in Seq(Handlers) /\ Elements(<<h>>) = {h} /\ Short(<<h>>)
    BY <2>2, OneElement DEF Short
  <2>4. <<>> \in Seq(Handlers) /\ Elements(<<>>) = {} /\ Short(<<>>)
    BY NoElement DEF Short
  <2>5. CASE Arg /\ ~ses.closed BY <2>2, <2>3, <2>5 DEF h
  <2>6. CASE ~(Arg /\ ~ses.closed) BY <2>4, <2>6
  <2> QED BY <2>5, <2>6
<1> HIDE DEF posts
<1>8. /\ ses' = ses /\ conn' = c /\ ops' = ops /\ connecting' = FALSE
      /\ readBusy' = readBusy /\ readOp' = readOp
      /\ reported' = (IF e.event = "none" THEN reported
                                          ELSE Append(reported, e.event))
      /\ UNCHANGED <<resolving, attempts, quit>>
  <2>1. ~(conn.open /\ ~e.conn.open) BY <1>5, <1>6
  <2>2. readBusy \in BOOLEAN /\ readOp \in BOOLEAN BY <1>1 DEF Typed
  <2> QED BY <1>2, <1>4, <1>6, <2>1, <2>2 DEF Do, Record, Aside
<1>9. PICK more \in Seq(Handlers) :
         /\ loop' = Tail(loop) \o more
         /\ \A h \in Elements(more) : h \in Elements(posts) \/ h.kind = "written"
  <2>1. Misses(e.posts, Chain) BY <1>6, <1>7 DEF Misses, Chain
  <2>2. PICK more \in Seq(Handlers) :
           /\ loop' = Tail(loop) \o more
           /\ \A h \in Elements(more) :
                 \/ h \in Elements(e.posts)
                 \/ h.kind = "written"
                 \/ h.kind = "read" /\ (readOp \/ e.read)
                 \/ /\ h.kind = "connected" /\ connecting
                    /\ conn.open /\ ~e.conn.open
                 \/ h.kind = "failPending" /\ e.flush /\ PostsFailure(e.conn)
    BY <1>1, <1>2, <1>4, <1>6, <1>7, <2>1, DoQueue
  <2> QED BY <1>2, <1>5, <1>6, <2>2 DEF Quiescent
<1>10. /\ \A S : Misses(loop', S) <=> Misses(Tail(loop), S) /\ Misses(more, S)
       /\ \A A, B : /\ Ordered(Tail(loop), A, B) /\ Ordered(more, A, B)
                    /\ Misses(Tail(loop), B) \/ Misses(more, A)
                    => Ordered(loop', A, B)
  BY <1>2, <1>9, ConcatOrder
<1>11. /\ Misses(more, Chain) /\ Misses(more, Reads)
       /\ Misses(more, Posts(Flow)) /\ Misses(more, OfKind("failPending"))
       /\ ~Misses(more, Posts({"CONNECT"})) => Arg /\ ~ses.closed
  BY <1>7, <1>9 DEF Misses, Chain, Reads, Posts, OfKind, Flow
<1>12. reported' \in Seq(Outcomes) /\ ~Granted'
  <2>1. CASE e.event = "none" BY <1>1, <1>2, <1>8, <2>1 DEF Quiescent, Granted
  <2>2. CASE e.event = "failed"
    <3>1. /\ Append(reported, "failed") \in Seq(Outcomes)
          /\ Elements(Append(reported, "failed"))
                = Elements(reported) \cup {"failed"}
      BY <1>1, AppendOrder DEF Outcomes
    <3> QED BY <1>2, <1>8, <2>2, <3>1 DEF Quiescent, Granted
  <2> QED BY <1>6, <2>1, <2>2
<1>13. OneChain' /\ ~Fresh'
  <2>1. Misses(loop', Chain) /\ resolving' = 0 /\ attempts' # 0
    BY <1>2, <1>8, <1>10, <1>11
  <2>2. Once(loop', Chain) BY <2>1 DEF Once, Misses, Elements
  <2> QED BY <1>3, <1>8, <2>1, <2>2 DEF OneChain, Fresh, Dialing
<1>14. Virgin' /\ Unpublished' /\ GrantedOnce'
  <2>1. None(Elements(ops), Flow) BY <1>2 DEF Quiescent, None, Elements
  <2>2. Misses(loop', Posts(Flow)) BY <1>2, <1>10, <1>11 DEF Quiescent
  <2> QED BY <1>2, <1>3, <1>5, <1>8, <1>12, <1>13, <2>1, <2>2
          DEF Quiescent, Virgin, Unpublished, GrantedOnce, Fresh
<1>15. ~CanRead'
  BY <1>2, <1>3, <1>8, <1>10, <1>11 DEF Quiescent, CanRead
<1>16. ~Misses(loop', Posts({"CONNECT"})) => Arg /\ ~ses.closed
  BY <1>2, <1>10, <1>11 DEF Quiescent
<1>17. Shut' /\ Over' /\ Shaking' /\ Watched'
  <2>1. None(Held(c), {"CONNECT"}) BY <1>2, <1>5 DEF Quiescent
  <2>2. Shut' BY <1>2, <1>5, <1>8 DEF Shut, Quiescent
  <2>3. Over' BY <1>3, <1>5, <1>8, <1>15, <1>16, <2>1 DEF Over
  <2>4. Shaking' BY <1>3, <1>5, <1>8, <1>15, <1>16, <2>1 DEF Shaking
  <2>5. Watched' BY <1>15 DEF Watched
  <2> QED BY <2>2, <2>3, <2>4, <2>5
<1>18. FailFirst'
  <2>1. /\ Misses(Tail(loop), Posts({"CONNECT"}))
        /\ Misses(more, OfKind("failPending"))
    BY <1>2, <1>11 DEF Quiescent
  <2>2. /\ Ordered(Tail(loop), OfKind("failPending"), Posts({"CONNECT"}))
        /\ Ordered(more, OfKind("failPending"), Posts({"CONNECT"}))
    BY <2>1 DEF Ordered, Misses, Elements
  <2>3. Ordered(loop', OfKind("failPending"), Posts({"CONNECT"}))
    BY <1>10, <2>1, <2>2
  <2>4. None(Held(c), {"CONNECT"}) BY <1>2, <1>5 DEF Quiescent
  <2> QED BY <1>3, <1>8, <1>15, <2>3, <2>4 DEF FailFirst
<1> QED BY <1>12, <1>13, <1>14, <1>17, <1>18 DEF FirstInv

-----------------------------------------------------------------------------
(* What only queues a handler: calls, completions, timers, and the read that *)
(* hands its packet over                                                     *)

LEMMA AppendFirst ==
    ASSUME CInv, FirstInv, UNCHANGED <<setup, attempts, conn, reported>>,
           NEW rest,
           \/ rest = loop
           \/ /\ loop # <<>> /\ rest = Tail(loop)
              /\ Head(loop).kind \notin {"pingDue", "pongDue", "enqueue"},
           NEW h \in Handlers, loop' = Append(rest, h),
           h.kind # "failPending",
           h.kind = "enqueue" => h.arg.type \notin Flow \cup {"CONNECT"},
           h \in Reads => CanRead,
           \/ h \notin Chain /\ UNCHANGED <<resolving, connecting>>
           \/ /\ h \in Chain /\ (resolving # 0 \/ connecting)
              /\ resolving' = 0 /\ ~connecting',
           readBusy' => readBusy, readOp' => readOp,
           Elements(ops') \subseteq Elements(ops), ops = <<>> => ops' = <<>>,
           ses'.closed = ses.closed,
           ~Granted => ses'.pub = {} /\ ses'.rec = {},
           quit' = quit \/ quit' = TRUE,
           \/ quit' = TRUE
           \/ ses'.ping = ses.ping \/ ses'.ping # "off"
           \/ h.kind \in {"pingDue", "pongDue"}
    PROVE  FirstInv'
<1>1. /\ Typed /\ OneChain /\ Virgin /\ Unpublished /\ GrantedOnce /\ Shut
      /\ Over /\ Shaking /\ FailFirst /\ Watched /\ reported \in Seq(Outcomes)
  BY DEF CInv, FirstInv
<1>2. /\ Chain' = Chain /\ Reads' = Reads /\ KeepAlive' = KeepAlive
      /\ \A kind : OfKind(kind)' = OfKind(kind)
      /\ \A types : Posts(types)' = Posts(types)
  BY SameSets DEF KeepAlive
<1>3. /\ rest \in Seq(Handlers) /\ Elements(rest) \subseteq Elements(loop)
      /\ \A S : Misses(loop, S) => Misses(rest, S)
      /\ \A S : Once(loop, S) => Once(rest, S)
      /\ \A A, B : Ordered(loop, A, B) => Ordered(rest, A, B)
  BY <1>1, RestFacts
<1>4. /\ Elements(loop') = Elements(rest) \cup {h}
      /\ \A S : Misses(loop', S) <=> Misses(rest, S) /\ h \notin S
      /\ \A S : Once(rest, S) /\ (Misses(rest, S) \/ h \notin S)
                 => Once(loop', S)
      /\ \A A, B : Ordered(rest, A, B) /\ (h \in A => Misses(rest, B) /\ h \notin B)
                    => Ordered(loop', A, B)
  BY <1>3, AppendOrder
<1>5. /\ h \notin Posts({"CONNECT"}) /\ h \notin Posts(Flow)
      /\ h \notin OfKind("failPending")
  BY DEF Posts, OfKind
<1>6. /\ Misses(loop, Posts({"CONNECT"})) => Misses(loop', Posts({"CONNECT"}))
      /\ Misses(loop, Posts(Flow)) => Misses(loop', Posts(Flow))
      /\ Misses(loop, OfKind("failPending")) => Misses(loop', OfKind("failPending"))
      /\ Ordered(loop, OfKind("failPending"), Posts({"CONNECT"}))
            => Ordered(loop', OfKind("failPending"), Posts({"CONNECT"}))
      /\ h \notin Reads /\ Misses(loop, Reads) => Misses(loop', Reads)
      /\ h \notin Chain /\ Misses(loop, Chain) => Misses(loop', Chain)
  BY <1>3, <1>4, <1>5
<1>7. CanRead' => CanRead
  <2>1. CASE ~readBusy /\ ~readOp /\ Misses(loop, Reads)
    <3>1. ~CanRead BY <2>1 DEF CanRead
    <3>2. Misses(loop', Reads) BY <1>6, <2>1, <3>1
    <3> QED BY <1>2, <2>1, <3>2 DEF CanRead
  <2> QED BY <2>1 DEF CanRead
<1>8. OneChain' /\ (Dialing' => Dialing)
  <2>1. CASE h \notin Chain
    <3>1. Once(loop', Chain) BY <1>1, <1>3, <1>4, <2>1 DEF OneChain
    <3> QED BY <1>1, <1>2, <1>6, <2>1, <3>1 DEF OneChain, Dialing
  <2>2. CASE h \in Chain
    <3>1. Misses(rest, Chain) BY <1>1, <1>3, <2>2 DEF OneChain
    <3>2. Once(loop', Chain) BY <1>1, <1>3, <1>4, <3>1 DEF OneChain
    <3> QED BY <1>2, <2>2, <3>2 DEF OneChain, Dialing
  <2> QED BY <2>1, <2>2
<1>9. Fresh' => Fresh BY <1>8 DEF Fresh
<1>10. Virgin'
  <2>1. ASSUME Fresh'
        PROVE  /\ ~readBusy' /\ ~readOp' /\ Misses(loop', Reads)
               /\ ~Granted'
               /\ Misses(loop', Posts({"CONNECT"}))
               /\ None(Held(conn'), {"CONNECT"})
               /\ conn'.state \in {"disconnected", "connecting"}
               /\ ops' = <<>>
    <3>1. /\ ~readBusy /\ ~readOp /\ Misses(loop, Reads) /\ ~Granted
          /\ Misses(loop, Posts({"CONNECT"})) /\ None(Held(conn), {"CONNECT"})
          /\ conn.state \in {"disconnected", "connecting"} /\ ops = <<>>
      BY <1>1, <1>9, <2>1 DEF Virgin
    <3>2. h \notin Reads BY <3>1 DEF CanRead
    <3> QED BY <1>6, <3>1, <3>2 DEF Granted
  <2>2. attempts' = 0 => ~Dialing' BY <1>1, <1>8 DEF Virgin
  <2> QED BY <1>2, <2>1, <2>2 DEF Virgin
<1>11. Unpublished' /\ GrantedOnce'
  <2>1. Granted' = Granted BY DEF Granted
  <2>2. None(Elements(ops), Flow) => None(Elements(ops'), Flow) BY DEF None
  <2> QED BY <1>1, <1>2, <1>6, <2>1, <2>2 DEF Unpublished, GrantedOnce
<1>12. Shut' BY <1>1 DEF Shut
<1>13. Over' BY <1>1, <1>2, <1>6, <1>7 DEF Over
<1>14. Shaking' BY <1>1, <1>2, <1>6, <1>7 DEF Shaking
<1>15. FailFirst' BY <1>1, <1>2, <1>6, <1>7 DEF FailFirst
<1>16. Watched'
  <2>1. ASSUME KeepAlive, ~quit', conn.open, CanRead'
        PROVE  Pinged(ses', conn, Elements(loop'))
    <3>1. Pinged(ses, conn, Elements(loop)) BY <1>1, <1>7, <2>1 DEF Watched
    <3>2. \A x \in Elements(loop) :
             x.kind \in {"pingDue", "pongDue", "enqueue"} => x \in Elements(loop')
      <4>1. CASE rest = loop BY <1>4, <4>1
      <4>2. CASE rest # loop
        <5>1. Elements(loop) = {Head(loop)} \cup Elements(rest)
          BY <1>1, <4>2, TailOrder DEF Typed
        <5> QED BY <1>4, <4>2, <5>1
      <4> QED BY <4>1, <4>2
    <3>3. h \in Elements(loop') BY <1>4
    <3> QED BY <2>1, <3>1, <3>2, <3>3 DEF Pinged
  <2> QED BY <1>2, <2>1 DEF Watched
<1> QED BY <1>1, <1>8, <1>10, <1>11, <1>12, <1>13, <1>14, <1>15, <1>16
        DEF FirstInv

LEMMA ReadFirst ==
    ASSUME CInv, FirstInv, UNCHANGED setup, RunRead PROVE FirstInv'
<1> DEFINE h == Handler("packet", Arg)
<1>1. /\ loop # <<>> /\ Head(loop).kind = "read" /\ Head(loop) \in Handlers
      /\ loop \in Seq(Handlers) /\ Arg \in Packets \cup {BrokenRead}
  <2>1. /\ loop # <<>> /\ Head(loop).kind = "read" /\ Head(loop) \in Handlers
        /\ loop \in Seq(Handlers)
    BY HeadTyped DEF RunRead, Running, CInv, Typed
  <2> QED BY <2>1 DEF Handlers, Arg
<1>2. h \in Handlers /\ h.kind = "packet" BY <1>1 DEF Handler, Handlers
<1>3. Head(loop) \in Elements(loop) BY <1>1, TailOrder
<1>4. CanRead BY <1>1, <1>3 DEF CanRead, Misses, Reads
<1>5. h \notin Chain BY <1>2 DEF Chain
<1>6. ~Granted => ses.pub = {} /\ ses.rec = {} BY DEF FirstInv, Unpublished
<1>7. /\ loop' = Append(Tail(loop), h) /\ readBusy' = FALSE
      /\ UNCHANGED <<ses, conn, resolving, connecting, ops, readOp, attempts,
                     quit, reported>>
  BY DEF RunRead, calls, history
<1> HIDE DEF h
<1> QED BY <1>1, <1>2, <1>4, <1>5, <1>6, <1>7, AppendFirst

\* The application calls.
LEMMA AppFirst ==
    ASSUME CInv, FirstInv, UNCHANGED setup,
           AppConnect \/ AppPublish \/ AppSubscribe \/ AppDisconnect
    PROVE  FirstInv'
<1>1. /\ ses \in Sessions /\ (~Granted => ses.pub = {} /\ ses.rec = {})
      /\ pubCalls \in Nat /\ subCalls \in Nat
  BY DEF CInv, Typed, FirstInv, Unpublished
<1>2. ASSUME NEW h \in Handlers, h.kind \in {"connect", "publish", "subscribe"},
             loop' = Append(loop, h),
             UNCHANGED <<ses, conn, net, attempts, quit, reported>>
      PROVE  FirstInv'
  <2>1. h \notin Chain /\ h \notin Reads BY <1>2 DEF Chain, Reads
  <2> QED BY <1>1, <1>2, <2>1, AppendFirst DEF net
<1>3. CASE AppConnect
  <2> DEFINE h == Handler("connect", 0)
  <2>1. h \in Handlers /\ h.kind = "connect" BY DEF Handler, Handlers
  <2>2. /\ loop' = Append(loop, h)
        /\ UNCHANGED <<ses, conn, net, attempts, quit, reported>>
    BY <1>3 DEF AppConnect, history
  <2> HIDE DEF h
  <2> QED BY <1>2, <2>1, <2>2
<1>4. CASE AppPublish
  <2> DEFINE h == Handler("publish", pubCalls + 1)
  <2>1. /\ loop' = Append(loop, h)
        /\ UNCHANGED <<ses, conn, net, attempts, quit, reported>>
        /\ pubCalls + 1 \in PubCalls
    <3>1. Len(PubQos) \in Nat BY SetupTypes, LenProperties DEF CInv, Typed
    <3> QED BY <1>1, <1>4, <3>1 DEF AppPublish, history, PubCalls
  <2>2. h \in Handlers /\ h.kind = "publish" BY <2>1 DEF Handler, Handlers
  <2> HIDE DEF h
  <2> QED BY <1>2, <2>1, <2>2
<1>5. CASE AppSubscribe
  <2> DEFINE h == Handler("subscribe", subCalls + 1)
  <2>1. /\ loop' = Append(loop, h)
        /\ UNCHANGED <<ses, conn, net, attempts, quit, reported>>
        /\ subCalls + 1 \in SubCalls
    <3>1. NumSubs \in Nat BY SetupTypes DEF CInv, Typed
    <3> QED BY <1>1, <1>5, <3>1 DEF AppSubscribe, history, SubCalls
  <2>2. h \in Handlers /\ h.kind = "subscribe" BY <2>1 DEF Handler, Handlers
  <2> HIDE DEF h
  <2> QED BY <1>2, <2>1, <2>2
<1>6. CASE AppDisconnect
  <2> DEFINE h == Send(Plain("DISCONNECT"))
  <2>1. Plain("DISCONNECT") \in Frames /\ Plain("DISCONNECT").type = "DISCONNECT"
    BY PlainFacts DEF FrameTypes, Plain, Frame
  <2>2. /\ h \in Handlers /\ h.kind = "enqueue"
        /\ h.arg.type \notin Flow \cup {"CONNECT"}
    BY <2>1 DEF Send, Handler, Handlers, Flow
  <2>3. h \notin Chain /\ h \notin Reads BY <2>2 DEF Chain, Reads
  <2>4. /\ loop' = Append(loop, h) /\ quit' = TRUE
        /\ ses' = [ses EXCEPT !.ping = "off"]
        /\ UNCHANGED <<conn, net, attempts, reported>>
    BY <1>6 DEF AppDisconnect, history
  <2> HIDE DEF h
  <2>5. /\ ses'.closed = ses.closed /\ ses'.pub = ses.pub /\ ses'.rec = ses.rec
    BY <1>1, <2>4 DEF Sessions
  <2> QED BY <1>1, <2>2, <2>3, <2>4, <2>5, AppendFirst DEF net
<1> QED BY <1>3, <1>4, <1>5, <1>6

LEMMA CloseFirst ==
    ASSUME CInv, FirstInv, UNCHANGED setup, AppClose PROVE FirstInv'
<1> DEFINE e == FailItems(ses, conn, {}, TRUE)
<1>1. ses \in Sessions /\ conn \in Conns /\ Shut BY DEF CInv, Typed, FirstInv
<1>2. quit' = TRUE /\ Do(e, loop) /\ UNCHANGED <<resolving, attempts>>
  BY DEF AppClose
<1>3. Calm(e, ses, conn) /\ e.conn = Close(conn) BY <1>1, FailItemsCalm
<1>4. e.read = FALSE BY DEF FailItems, NoEffect
<1> HIDE DEF e
<1>5. Modest(e) /\ Minds(e, loop)
  BY <1>1, <1>3, <1>4, CalmFirst DEF Shut
<1>6. Ran(e, loop) BY <1>2, <1>5 DEF Ran
<1> QED BY <1>2, <1>6, RanKeeps

\* Operations complete.
LEMMA OutsideFirst ==
    ASSUME CInv, FirstInv, UNCHANGED setup,
           ResolveDone \/ ConnectDone \/ WriteTaken \/ WriteBroken \/ ReadDone
    PROVE  FirstInv'
<1>1. /\ ~Granted => ses.pub = {} /\ ses.rec = {}
      /\ connecting \in BOOLEAN /\ ops \in Seq(Frames)
      /\ inbox \in Seq(Packets) /\ OneChain
  BY DEF CInv, Typed, FirstInv, Unpublished
<1>2. /\ \A kind \in {"resolved", "connected", "written"}, ok \in BOOLEAN :
            Handler(kind, ok) \in Handlers /\ Handler(kind, ok).kind = kind
      /\ \A p \in Packets \cup {BrokenRead} :
            /\ Handler("read", p) \in Handlers
            /\ Handler("read", p).kind = "read"
  BY DEF Handler, Handlers
<1>3. ASSUME NEW h \in Handlers, h.kind = "written", loop' = Append(loop, h),
             ops # <<>>, ops' = Tail(ops),
             UNCHANGED <<ses, conn, resolving, connecting, readBusy, readOp,
                         attempts, quit, reported>>
      PROVE  FirstInv'
  <2>1. h \notin Chain /\ h \notin Reads BY <1>3 DEF Chain, Reads
  <2>2. Elements(ops') \subseteq Elements(ops) BY <1>1, <1>3, TailOrder
  <2> QED BY <1>1, <1>3, <2>1, <2>2, AppendFirst
<1>4. CASE ResolveDone
  <2>1. PICK ok \in BOOLEAN : loop' = Append(loop, Handler("resolved", ok))
    BY <1>4 DEF ResolveDone, Completes
  <2>2. /\ resolving' = resolving - 1 /\ resolving > 0
        /\ UNCHANGED <<ses, conn, connecting, ops, readBusy, readOp, attempts,
                       quit, reported>>
    BY <1>4 DEF ResolveDone, calls, history
  <2>3. resolving # 0 /\ resolving' = 0 /\ ~connecting'
    BY <1>1, <2>2 DEF OneChain
  <2> DEFINE h == Handler("resolved", ok)
  <2>4. h \in Handlers /\ h.kind = "resolved" BY <1>2
  <2>5. loop' = Append(loop, h) BY <2>1
  <2> HIDE DEF h
  <2>6. h \in Chain /\ h \notin Reads BY <2>4 DEF Chain, Reads
  <2> QED BY <1>1, <2>2, <2>3, <2>4, <2>5, <2>6, AppendFirst
<1>5. CASE ConnectDone
  <2>1. PICK ok \in BOOLEAN : loop' = Append(loop, Handler("connected", ok))
    BY <1>5 DEF ConnectDone, Completes
  <2>2. /\ connecting /\ connecting' = FALSE
        /\ UNCHANGED <<ses, conn, resolving, ops, readBusy, readOp, attempts,
                       quit, reported>>
    BY <1>5 DEF ConnectDone, calls, history
  <2>3. resolving' = 0 BY <1>1, <2>2 DEF OneChain
  <2> DEFINE h == Handler("connected", ok)
  <2>4. h \in Handlers /\ h.kind = "connected" BY <1>2
  <2>5. loop' = Append(loop, h) BY <2>1
  <2> HIDE DEF h
  <2>6. h \in Chain /\ h \notin Reads BY <2>4 DEF Chain, Reads
  <2> QED BY <1>1, <2>2, <2>3, <2>4, <2>5, <2>6, AppendFirst
<1>6. CASE WriteTaken
  <2>1. /\ loop' = Append(loop, Handler("written", TRUE))
        /\ ops # <<>> /\ ops' = Tail(ops)
        /\ UNCHANGED <<ses, conn, resolving, connecting, readBusy, readOp,
                       attempts, quit, reported>>
    BY <1>6 DEF WriteTaken, Completes, calls, history
  <2> QED BY <1>2, <1>3, <2>1
<1>7. CASE WriteBroken
  <2>1. /\ loop' = Append(loop, Handler("written", FALSE))
        /\ ops # <<>> /\ ops' = Tail(ops)
        /\ UNCHANGED <<ses, conn, resolving, connecting, readBusy, readOp,
                       attempts, quit, reported>>
    BY <1>7 DEF WriteBroken, Completes, calls, history
  <2> QED BY <1>2, <1>3, <2>1
<1>8. CASE ReadDone
  <2>1. /\ readOp /\ readOp' = FALSE
        /\ UNCHANGED <<ses, conn, resolving, connecting, ops, readBusy,
                       attempts, quit, reported>>
    BY <1>8 DEF ReadDone, calls, history
  <2>2. PICK p \in Packets \cup {BrokenRead} :
           loop' = Append(loop, Handler("read", p))
    <3>1. inbox # <<>> => Head(inbox) \in Packets BY <1>1, HeadTailProperties
    <3> QED BY <1>8, <3>1 DEF ReadDone, Completes
  <2> DEFINE h == Handler("read", p)
  <2>3. h \in Handlers /\ h.kind = "read" BY <1>2
  <2>4. loop' = Append(loop, h) BY <2>2
  <2> HIDE DEF h
  <2>5. h \notin Chain /\ CanRead BY <2>1, <2>3 DEF Chain, CanRead
  <2> QED BY <1>1, <2>1, <2>3, <2>4, <2>5, AppendFirst
<1> QED BY <1>4, <1>5, <1>6, <1>7, <1>8

\* A timer runs out.
LEMMA TimersFirst ==
    ASSUME CInv, FirstInv, UNCHANGED setup, Timers PROVE FirstInv'
<1>1. /\ ses \in Sessions /\ (~Granted => ses.pub = {} /\ ses.rec = {})
      /\ ses.pub \in SUBSET PubEntries /\ ses.rec \in SUBSET RecEntries
  BY DEF CInv, Typed, FirstInv, Unpublished, Sessions
<1>2. ASSUME NEW s, NEW kind, NEW arg, Expires(s, kind, arg),
             s.closed = ses.closed,
             Granted \/ (s.pub = ses.pub /\ s.rec = ses.rec),
             s.ping = ses.ping \/ kind \in {"pingDue", "pongDue"},
             \/ kind \in {"connTimer", "pingDue", "pongDue"} /\ arg = 0
             \/ kind \in {"pubRetry", "recRetry"} /\ arg \in Ids
      PROVE  FirstInv'
  <2> DEFINE h == Handler(kind, arg)
  <2>1. h \in Handlers /\ h.kind = kind BY <1>2 DEF Handler, Handlers
  <2>2. /\ loop' = Append(loop, h) /\ ses' = s
        /\ UNCHANGED <<conn, resolving, connecting, ops, readBusy, readOp,
                       attempts, quit, reported>>
    BY <1>2 DEF Expires, Completes, net, calls, history
  <2> HIDE DEF h
  <2>3. h \notin Chain /\ h \notin Reads BY <1>2, <2>1 DEF Chain, Reads
  <2>4. h.kind \notin {"enqueue", "failPending"} BY <1>2, <2>1
  <2> QED BY <1>1, <1>2, <2>1, <2>2, <2>3, <2>4, AppendFirst
<1>3. CASE ConnTimerExpires
  <2> DEFINE s == [ses EXCEPT !.connTimer = FALSE]
  <2>1. Expires(s, "connTimer", 0) BY <1>3 DEF ConnTimerExpires
  <2>2. /\ s.closed = ses.closed /\ s.pub = ses.pub /\ s.rec = ses.rec
        /\ s.ping = ses.ping
    BY <1>1 DEF Sessions
  <2> HIDE DEF s
  <2> QED BY <1>2, <2>1, <2>2
<1>4. CASE PingTimerExpires
  <2> DEFINE s == [ses EXCEPT !.ping = "off"]
  <2>1. Expires(s, "pingDue", 0) \/ Expires(s, "pongDue", 0)
    BY <1>4 DEF PingTimerExpires
  <2>2. s.closed = ses.closed /\ s.pub = ses.pub /\ s.rec = ses.rec
    BY <1>1 DEF Sessions
  <2> HIDE DEF s
  <2> QED BY <1>2, <2>1, <2>2
<1>5. CASE PubTimerExpires
  <2>1. PICK x \in ses.pub :
           Expires([ses EXCEPT !.pub =
                       (@ \ {x}) \cup {[x EXCEPT !.armed = FALSE]}],
                   "pubRetry", x.pid)
    BY <1>5 DEF PubTimerExpires
  <2> DEFINE p == (ses.pub \ {x}) \cup {[x EXCEPT !.armed = FALSE]}
             s == [ses EXCEPT !.pub = p]
  <2>2. x.pid \in Ids /\ Granted BY <1>1 DEF PubEntries
  <2>3. Expires(s, "pubRetry", x.pid) BY <2>1
  <2> HIDE DEF p
  <2>4. s.closed = ses.closed /\ s.ping = ses.ping BY <1>1 DEF Sessions
  <2> HIDE DEF s
  <2> QED BY <1>2, <2>2, <2>3, <2>4
<1>6. CASE RecTimerExpires
  <2>1. PICK x \in ses.rec :
           Expires([ses EXCEPT !.rec =
                       (@ \ {x}) \cup {[x EXCEPT !.armed = FALSE]}],
                   "recRetry", x.pid)
    BY <1>6 DEF RecTimerExpires
  <2> DEFINE p == (ses.rec \ {x}) \cup {[x EXCEPT !.armed = FALSE]}
             s == [ses EXCEPT !.rec = p]
  <2>2. x.pid \in Ids /\ Granted BY <1>1 DEF RecEntries
  <2>3. Expires(s, "recRetry", x.pid) BY <2>1
  <2> HIDE DEF p
  <2>4. s.closed = ses.closed /\ s.ping = ses.ping BY <1>1 DEF Sessions
  <2> HIDE DEF s
  <2> QED BY <1>2, <2>2, <2>3, <2>4
<1> QED BY <1>3, <1>4, <1>5, <1>6 DEF Timers

\* What is not looked at.
LEMMA SameFirst ==
    ASSUME FirstInv,
           UNCHANGED <<setup, ses, conn, loop, resolving, connecting, ops,
                       readBusy, readOp, attempts, quit, reported>>
    PROVE  FirstInv'
<1>1. /\ Chain' = Chain /\ Reads' = Reads /\ KeepAlive' = KeepAlive
      /\ \A kind : OfKind(kind)' = OfKind(kind)
      /\ \A types : Posts(types)' = Posts(types)
  BY SameSets DEF KeepAlive
<1>2. OneChain' BY <1>1 DEF FirstInv, OneChain
<1>3. Virgin'
  BY <1>1 DEF FirstInv, Virgin, Fresh, Dialing, Granted
<1>4. Unpublished' /\ GrantedOnce' /\ Shut'
  BY <1>1 DEF FirstInv, Unpublished, GrantedOnce, Granted, Shut
<1>5. CanRead' <=> CanRead BY <1>1 DEF CanRead
<1>6. Over' /\ Shaking' /\ FailFirst' /\ Watched'
  BY <1>1, <1>5 DEF FirstInv, Over, Shaking, FailFirst, Watched
<1> QED BY <1>2, <1>3, <1>4, <1>6 DEF FirstInv

-----------------------------------------------------------------------------
(* The theorems *)

LEMMA InitFirst == Init => CFirst
<1> SUFFICES ASSUME Init PROVE CFirst OBVIOUS
<1>1. /\ attempts = 0 /\ resolving = 0 /\ ~connecting /\ loop = <<>>
      /\ ops = <<>> /\ ~readBusy /\ ~readOp /\ reported = <<>>
      /\ ses.pub = {} /\ ses.rec = {} /\ conn = NewConnection
  BY DEF Init, NewSession
<1>2. Held(conn) = {} /\ conn.state = "disconnected" /\ ~conn.open
  BY <1>1 DEF NewConnection, Held, Queued
<1>3. /\ \A S : Misses(loop, S) /\ Once(loop, S)
      /\ \A A, B : Ordered(loop, A, B)
  BY <1>1 DEF Misses, Once, Ordered, Elements
<1>4. reported \in Seq(Outcomes) /\ ~Granted /\ Elements(ops) = {}
  BY <1>1 DEF Granted, Elements
<1>5. ~CanRead /\ ~Dialing BY <1>1, <1>3 DEF CanRead, Dialing
<1>6. OneChain /\ GrantedOnce
  BY <1>1, <1>3, <1>4 DEF OneChain, GrantedOnce
<1>7. Virgin /\ Unpublished /\ Shut
  BY <1>1, <1>2, <1>3, <1>4, <1>5 DEF Virgin, Unpublished, Shut, None
<1>8. Over /\ Shaking /\ FailFirst /\ Watched
  BY <1>2 DEF Over, Shaking, FailFirst, Watched, Ordered, Misses, Elements,
              None
<1> QED BY <1>1, <1>4, <1>6, <1>7, <1>8 DEF CFirst, FirstInv

\* An attempt begins with async_connect() and with nothing else.
LEMMA AttemptsStay ==
    ASSUME [Next]_vars, ~RunConnect PROVE UNCHANGED attempts
<1>1. CASE Application
  BY <1>1 DEF Application, AppConnect, AppPublish, AppSubscribe,
              AppDisconnect, AppClose
<1>2. CASE Outside
  BY <1>2 DEF Outside, ResolveDone, ConnectDone, WriteTaken, WriteBroken,
              ReadDone, BrokerPublish, calls
<1>3. CASE Timers
  BY <1>3 DEF Timers, ConnTimerExpires, PingTimerExpires, PubTimerExpires,
              RecTimerExpires, Expires, calls
<1>4. CASE IoThread
  <2>1. \A e : Handle(e) => UNCHANGED attempts BY DEF Handle, Aside
  <2>2. CASE \/ RunResolveFailed \/ RunConnected \/ RunConnTimer
             \/ RunPublishRejected \/ RunPublishNoId
             \/ RunSubscribeRejected \/ RunSubscribeNoId
    BY <2>1, <2>2 DEF RunResolveFailed, RunConnected, RunConnTimer,
       RunPublishRejected, RunPublishNoId, RunSubscribeRejected,
       RunSubscribeNoId
  <2>3. CASE RunResolved \/ RunRead
    BY <2>3 DEF RunResolved, RunRead, calls
  <2>4. CASE RunPublishQos0 \/ RunPublish \/ RunSubscribe
    BY <2>1, <2>4 DEF RunPublishQos0, RunPublish, RunSubscribe, Aside
  <2>5. CASE \/ RunEnqueue \/ RunAborted \/ RunFailPending
             \/ RunWrittenQuiet \/ RunWrittenFailed \/ RunWritten
    BY <2>1, <2>5 DEF RunEnqueue, RunAborted, RunFailPending,
       RunWrittenQuiet, RunWrittenFailed, RunWritten
  <2>6. CASE \/ RunPacket \/ RunBrokenRead \/ RunPubRetry \/ RunRecRetry
             \/ RunPingDue \/ RunPongDue
    BY <2>1, <2>6 DEF RunPacket, RunBrokenRead, RunPubRetry, RunRecRetry,
       RunPingDue, RunPongDue
  <2> QED BY <1>4, <2>2, <2>3, <2>4, <2>5, <2>6 DEF IoThread
<1>5. CASE UNCHANGED vars BY <1>5 DEF vars, session, calls
<1> QED BY <1>1, <1>2, <1>3, <1>4, <1>5 DEF Next

LEMMA IoThreadFirst ==
    ASSUME CInv, FirstInv, UNCHANGED setup, IoThread,
           RunConnect => attempts = 0
    PROVE  FirstInv'
<1>1. CASE RunConnect BY <1>1, ConnectFirst
<1>2. CASE RunResolved BY <1>2, ResolvedFirst
<1>3. CASE RunConnected BY <1>3, ConnectedFirst
<1>4. CASE \/ RunResolveFailed \/ RunConnTimer \/ RunPublishRejected
           \/ RunPublishNoId \/ RunSubscribeRejected \/ RunSubscribeNoId
  BY <1>4, EndingsFirst
<1>5. CASE RunPublishQos0 \/ RunPublish \/ RunSubscribe BY <1>5, CallsFirst
<1>6. CASE RunEnqueue BY <1>6, EnqueueFirst
<1>7. CASE RunAborted \/ RunFailPending \/ RunWrittenFailed
  BY <1>7, FailedFirst
<1>8. CASE RunWritten \/ RunWrittenQuiet BY <1>8, WrittenFirst
<1>9. CASE RunRead BY <1>9, ReadFirst
<1>10. CASE RunPacket BY <1>10, PacketFirst
<1>11. CASE RunBrokenRead BY <1>11, BrokenReadFirst
<1>12. CASE RunPubRetry \/ RunRecRetry BY <1>12, RetryFirst
<1>13. CASE RunPingDue \/ RunPongDue BY <1>13, DueFirst
<1> QED BY <1>1, <1>2, <1>3, <1>4, <1>5, <1>6, <1>7, <1>8, <1>9, <1>10, <1>11,
           <1>12, <1>13 DEF IoThread

LEMMA NextFirst == CInv /\ CFirst /\ [Next]_vars => CFirst'
<1> SUFFICES ASSUME CInv, CFirst, [Next]_vars PROVE CFirst' OBVIOUS
<1>1. UNCHANGED setup BY DEF Next, vars
<1>2. attempts \in Nat BY DEF CFirst
<1>3. /\ RunConnect => attempts' = attempts + 1
      /\ ~RunConnect => attempts' = attempts
  BY AttemptsStay DEF RunConnect
<1>4. attempts' \in Nat BY <1>2, <1>3
<1>5. ASSUME attempts' <= 1 PROVE FirstInv'
  <2>1. FirstInv /\ (RunConnect => attempts = 0)
    BY <1>2, <1>3, <1>5 DEF CFirst
  <2>2. CASE AppConnect \/ AppPublish \/ AppSubscribe \/ AppDisconnect
    BY <1>1, <2>1, <2>2, AppFirst
  <2>3. CASE AppClose BY <1>1, <2>1, <2>3, CloseFirst
  <2>4. CASE ResolveDone \/ ConnectDone \/ WriteTaken \/ WriteBroken \/ ReadDone
    BY <1>1, <2>1, <2>4, OutsideFirst
  <2>5. CASE BrokerPublish
    <3>1. UNCHANGED <<ses, conn, loop, resolving, connecting, ops, readBusy,
                      readOp, attempts, quit, reported>>
      BY <2>5 DEF BrokerPublish, calls, history
    <3> QED BY <1>1, <2>1, <3>1, SameFirst
  <2>6. CASE Timers BY <1>1, <2>1, <2>6, TimersFirst
  <2>7. CASE IoThread BY <1>1, <2>1, <2>7, IoThreadFirst
  <2>8. CASE UNCHANGED vars
    <3>1. UNCHANGED <<ses, conn, loop, resolving, connecting, ops, readBusy,
                      readOp, attempts, quit, reported>>
      BY <2>8 DEF vars, session, net, calls, history
    <3> QED BY <1>1, <2>1, <3>1, SameFirst
  <2> QED BY <2>2, <2>3, <2>4, <2>5, <2>6, <2>7, <2>8
          DEF Next, Application, Outside
<1> QED BY <1>4, <1>5 DEF CFirst

\* What mqtt_client keeps until async_connect() is called a second time: one
\* connect chain that nothing is read or written under, one CONNACK that
\* publishes wait for, a socket that comes to nothing when its session was
\* closed (client.hpp:254-289), and a keep-alive that is watched.
THEOREM FirstAttempt == Spec => []CFirst
<1>1. CInv /\ CFirst /\ CInv' /\ [Next]_vars => CFirst' BY NextFirst
<1> QED BY <1>1, InitFirst, ClientInvariant, PTL DEF Spec

\* README.md:327-330: in the first attempt no PUBLISH is queued on, or being
\* written to, a connection still handshaking: async_publish_impl() takes none
\* before the CONNACK, a retry timer sends none without an entry, and the
\* connection is not opened a second time for the frames of an ended session.
THEOREM FirstConnackBeforePublish ==
    Spec => [](attempts <= 1 => NoEarlyPublish)
<1>1. ASSUME CInv, CFirst, attempts <= 1, conn.state = "handshaking",
             NEW f \in Held(conn) \cup {ops[i] : i \in DOMAIN ops}
      PROVE  f.type # "PUBLISH"
  <2>1. ops \in Seq(Frames) BY <1>1 DEF CInv, Typed
  <2>2. {ops[i] : i \in DOMAIN ops} = Elements(ops)
    BY <2>1, LenProperties DEF Elements
  <2>3. ~Granted BY <1>1 DEF CFirst, FirstInv, GrantedOnce
  <2>4. None(Held(conn), Flow) /\ None(Elements(ops), Flow)
    BY <1>1, <2>3 DEF CFirst, FirstInv, Unpublished
  <2>5. f.type \notin Flow BY <1>1, <2>2, <2>4 DEF None
  <2> QED BY <2>5 DEF Flow
<1>2. CInv /\ CFirst => (attempts <= 1 => NoEarlyPublish)
  BY <1>1 DEF NoEarlyPublish
<1> QED BY <1>2, FirstAttempt, ClientInvariant, PTL

\* README.md:18: until the application shuts the client down, the keep-alive of
\* its first session is under way: the ping timer runs or ran out, or a PINGREQ
\* waits in a handler, in the write queue or in flight, whatever writes,
\* acknowledgements and ends of other packets come between.
THEOREM FirstKeepAliveWatched ==
    Spec => [](attempts <= 1 => KeepAliveWatched)
<1>1. ASSUME CInv, CFirst, attempts <= 1, KeepAlive,
             conn.state = "connected", conn.open, ~quit
      PROVE  \/ ses.ping # "off"
             \/ Has("pingDue") \/ Has("pongDue")
             \/ \E f \in Held(conn) : f.type = "PINGREQ"
             \/ \E i \in 1 .. Len(loop) :
                   loop[i].kind = "enqueue" /\ loop[i].arg = Plain("PINGREQ")
  <2>1. FirstInv /\ loop \in Seq(Handlers) BY <1>1 DEF CFirst, CInv, Typed
  <2>2. ~conn.closed BY <1>1, <2>1 DEF FirstInv, Over
  <2>3. readBusy \/ HasIn(loop, "packet")
    BY <1>1, <2>2 DEF CInv, Reading, Live
  <2>4. CanRead
    <3>1. Elements(loop) \subseteq Handlers
      BY <2>1, LenProperties DEF Elements
    <3> QED BY <2>3, <3>1 DEF CanRead, HasIn, Misses, Reads
  <2>5. Pinged(ses, conn, Elements(loop))
    BY <1>1, <2>1, <2>4 DEF FirstInv, Watched
  <2>6. \A h \in Elements(loop) : \E i \in 1 .. Len(loop) : loop[i] = h
    BY DEF Elements
  <2>7. ASSUME NEW h \in Elements(loop), h.kind \in {"pingDue", "pongDue"}
        PROVE  Has("pingDue") \/ Has("pongDue")
    BY <2>6, <2>7 DEF Has
  <2>8. ASSUME \/ ~None(Queued(conn), {"PINGREQ"})
               \/ /\ conn.inFlight # NoItem
                  /\ conn.inFlight.type = "PINGREQ"
        PROVE  \E f \in Held(conn) : f.type = "PINGREQ"
    BY <2>8 DEF None, Held
  <2> QED BY <2>5, <2>6, <2>7, <2>8 DEF Pinged
<1>2. CInv /\ CFirst => (attempts <= 1 => KeepAliveWatched)
  BY <1>1 DEF KeepAliveWatched
<1> QED BY <1>2, FirstAttempt, ClientInvariant, PTL
=============================================================================
